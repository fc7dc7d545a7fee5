------------------------------- MODULE Mutex --------------------------------
(***************************************************************************)
(* What a lock promises its callers (the Lockable requirements SpinMutex   *)
(* of Inc/Stuff/Util/SpinLock.hpp is written to meet): at most one thread  *)
(* holds it, a blocked thread acquires it only while it is free, an        *)
(* attempt may fail but never blocks, only the holder gives it back, and a *)
(* free lock somebody is blocked on does not stay free.                    *)
(***************************************************************************)
CONSTANT Threads

VARIABLE status

States == {"idle", "waiting", "trying", "held"}

Init == status = [t \in Threads |-> "idle"]

Free == \A t \in Threads : status[t] # "held"

Move(t, from, to) ==
    /\ status[t] = from
    /\ status' = [status EXCEPT ![t] = to]

Request(t) == Move(t, "idle", "waiting")
Attempt(t) == Move(t, "idle", "trying")
GiveUp(t)  == Move(t, "trying", "idle")
Release(t) == Move(t, "held", "idle")

Acquire(t) ==
    /\ Free
    /\ \/ Move(t, "waiting", "held")
       \/ Move(t, "trying", "held")

Next ==
    \E t \in Threads :
        Request(t) \/ Attempt(t) \/ GiveUp(t) \/ Release(t) \/ Acquire(t)

SafeSpec == Init /\ [][Next]_status

\* Progress of the lock, not of one thread: it says nothing of who gets it.
Progress == WF_status(\E t \in Threads : Acquire(t))

Spec == SafeSpec /\ Progress
=============================================================================
