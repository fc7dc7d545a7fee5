----------------------------- MODULE SpinMutex ------------------------------
(***************************************************************************)
(* SpinMutex of Inc/Stuff/Util/SpinLock.hpp: a test-and-test-and-set lock  *)
(* over one std::atomic_bool, with the memory orders of its four accesses. *)
(*                                                                         *)
(*  - exchange is a read-modify-write: it reads the newest value.          *)
(*  - a relaxed load may return an outdated value; stale holds the threads *)
(*    the last change of m_impl has not reached, Deliver is the hardware   *)
(*    making it visible.                                                   *)
(*  - acquire and release order the data the lock protects: seen holds the *)
(*    threads that happen after the last write to it, carried says whether *)
(*    the value in m_impl was released by such a thread (an exchange       *)
(*    continues the release sequence it reads from, so it keeps carried).  *)
(*                                                                         *)
(* A caller unlocks only what it holds, as Lockable requires of it.        *)
(*                                                                         *)
(* Operators marked (slip) are not part of the model: each is a variant of *)
(* the definition after it with a plausible bug, and some property of the  *)
(* module fails when it takes that definition's place.                     *)
(***************************************************************************)
CONSTANT Threads

VARIABLES
    m_impl,     \* the newest value of the atomic
    pc,         \* where each thread is in lock(), try_lock() or its section
    stale,      \* threads whose relaxed loads may still miss that value
    seen,       \* threads that happen after the last write of the data
    carried     \* acquiring from m_impl synchronises with that write

vars == <<m_impl, pc, stale, seen, carried>>

Locations == {"idle", "exchange", "spin", "try_exchange", "critical"}

TypeOK ==
    /\ m_impl \in BOOLEAN
    /\ pc \in [Threads -> Locations]
    /\ stale \in SUBSET Threads
    /\ seen \in SUBSET Threads
    /\ carried \in BOOLEAN

Init ==
    /\ m_impl = FALSE
    /\ pc = [t \in Threads |-> "idle"]
    /\ stale = {}
    /\ seen = Threads
    /\ carried = TRUE

Goto(t, from, to) ==
    /\ pc[t] = from
    /\ pc' = [pc EXCEPT ![t] = to]

\* What t's relaxed load of m_impl can return.
Readable(t) == IF t \in stale THEN BOOLEAN ELSE {m_impl}

\* (slip) The exchange is relaxed.
AcquiredRelaxed(t) == seen

\* What the acquiring half of an exchange makes visible to t.
Acquired(t) == IF carried THEN seen \union {t} ELSE seen

\* m_impl changes value: every other thread may go on reading the old one.
Store(t, value) ==
    /\ m_impl' = value
    /\ stale' = IF m_impl = value THEN stale \ {t} ELSE Threads \ {t}

-----------------------------------------------------------------------------
\* lock() is called.
Lock(t) ==
    /\ Goto(t, "idle", "exchange")
    /\ UNCHANGED <<m_impl, stale, seen, carried>>

\* m_impl.exchange(true, acquire) found false: locked.
ExchangeFree(t) ==
    /\ ~m_impl
    /\ Goto(t, "exchange", "critical")
    /\ Store(t, TRUE)
    /\ seen' = Acquired(t)
    /\ UNCHANGED carried

\* The exchange found true: somebody else has it, go and spin.
ExchangeTaken(t) ==
    /\ m_impl
    /\ Goto(t, "exchange", "spin")
    /\ Store(t, TRUE)
    /\ seen' = Acquired(t)
    /\ UNCHANGED carried

\* The inner relaxed load saw false: try the exchange again.
SpinExit(t) ==
    /\ FALSE \in Readable(t)
    /\ Goto(t, "spin", "exchange")
    /\ UNCHANGED <<m_impl, stale, seen, carried>>

\* try_lock(): its relaxed load saw false (when it sees true the call
\* returns false and leaves no trace).
TryLoad(t) ==
    /\ FALSE \in Readable(t)
    /\ Goto(t, "idle", "try_exchange")
    /\ UNCHANGED <<m_impl, stale, seen, carried>>

\* (slip) try_lock() trusts its load and ignores what the exchange returns.
TryExchangeIgnored(t) ==
    /\ Goto(t, "try_exchange", "critical")
    /\ Store(t, TRUE)
    /\ seen' = Acquired(t)
    /\ UNCHANGED carried

\* (slip) try_lock() falls back to lock() when its exchange fails.
TryExchangeBlocks(t) ==
    /\ Goto(t, "try_exchange", IF m_impl THEN "exchange" ELSE "critical")
    /\ Store(t, TRUE)
    /\ seen' = Acquired(t)
    /\ UNCHANGED carried

\* ... and its exchange decides.
TryExchange(t) ==
    /\ Goto(t, "try_exchange", IF m_impl THEN "idle" ELSE "critical")
    /\ Store(t, TRUE)
    /\ seen' = Acquired(t)
    /\ UNCHANGED carried

\* The caller's critical section writes the data the lock protects.
Write(t) ==
    /\ pc[t] = "critical"
    /\ seen' = {t}
    /\ carried' = FALSE
    /\ UNCHANGED <<m_impl, pc, stale>>

\* (slip) unlock() stores true.
UnlockSetsFlag(t) ==
    /\ Goto(t, "critical", "idle")
    /\ Store(t, TRUE)
    /\ carried' = (t \in seen)
    /\ UNCHANGED seen

\* unlock(): the store publishes what t has seen.
Unlock(t) ==
    /\ Goto(t, "critical", "idle")
    /\ Store(t, FALSE)
    /\ carried' = (t \in seen)
    /\ UNCHANGED seen

\* The newest value of m_impl reaches t's relaxed loads.
Deliver(t) ==
    /\ t \in stale
    /\ stale' = stale \ {t}
    /\ UNCHANGED <<m_impl, pc, seen, carried>>

Step(t) ==
    \/ Lock(t)
    \/ ExchangeFree(t)
    \/ ExchangeTaken(t)
    \/ SpinExit(t)
    \/ TryLoad(t)
    \/ TryExchange(t)
    \/ Write(t)
    \/ Unlock(t)
    \/ Deliver(t)

Next == \E t \in Threads : Step(t)

SafeSpec == Init /\ [][Next]_vars

\* Threads inside lock() or try_lock() keep running, values become visible in
\* finite time, and critical sections end; nobody is obliged to call lock().
Fairness ==
    \A t \in Threads :
        /\ WF_vars(ExchangeFree(t) \/ ExchangeTaken(t))
        /\ WF_vars(SpinExit(t))
        /\ WF_vars(TryExchange(t))
        /\ WF_vars(Unlock(t))
        /\ WF_vars(Deliver(t))

Spec == SafeSpec /\ Fairness
-----------------------------------------------------------------------------
\* Two threads are never both past lock() or a successful try_lock().
MutualExclusion ==
    \A t, u \in Threads : pc[t] = "critical" /\ pc[u] = "critical" => t = u

\* The flag is set exactly while somebody is inside: a failed try_lock(), whose
\* exchange wrote true as well, leaves no lock that nobody will ever release.
LockedIffHeld == m_impl <=> \E t \in Threads : pc[t] = "critical"

\* Whoever is inside happens after the last write of the protected data, so
\* neither a read nor a write of it races: this is what acquire on exchange and
\* release on the store of unlock() are for.
DataVisible == \A t \in Threads : pc[t] = "critical" => t \in seen

\* While the lock is free, its last store synchronises with the next exchange.
ReleasedWhenFree == ~m_impl => carried

\* The inductive invariant.
IInv ==
    /\ TypeOK
    /\ MutualExclusion
    /\ LockedIffHeld
    /\ DataVisible
    /\ ReleasedWhenFree

\* If somebody is blocked in lock(), somebody (not always the same thread) gets
\* in: no interleaving of stale loads and failed exchanges loses the unlock.
LockProgress ==
    (\E t \in Threads : pc[t] \in {"exchange", "spin"})
        ~> (\E t \in Threads : pc[t] = "critical")

\* The lock the callers see.
StatusOf(location) ==
    CASE location = "idle"         -> "idle"
      [] location = "exchange"     -> "waiting"
      [] location = "spin"         -> "waiting"
      [] location = "try_exchange" -> "trying"
      [] location = "critical"     -> "held"

Abstract == INSTANCE Mutex WITH status <- [t \in Threads |-> StatusOf(pc[t])]

\* SpinMutex implements Mutex, its progress included.
ImplementsMutex == Abstract!Spec
=============================================================================
