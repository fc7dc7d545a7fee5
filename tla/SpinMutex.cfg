\* Three threads: with two, nobody could be blocked while the holder passes the
\* lock to a third, nor two of them contend for it in different ways.
SPECIFICATION Spec
CONSTANT Threads = {t1, t2, t3}
INVARIANTS MutualExclusion DataVisible
PROPERTIES LockProgress ImplementsMutex
