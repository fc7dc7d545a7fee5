-------------------------- MODULE SpinMutexProofs ---------------------------
(***************************************************************************)
(* For every set of threads: SpinMutex keeps its invariant, hence excludes *)
(* and publishes, and its steps are steps of the abstract Mutex.           *)
(***************************************************************************)
EXTENDS SpinMutex, TLAPS

\* SpinMutex (SpinLock.hpp:19): the types, mutual exclusion, the flag set
\* exactly while somebody is inside, the visibility of the protected data and
\* the free lock carrying it are preserved together; none of exclusion or
\* visibility is inductive without LockedIffHeld and ReleasedWhenFree.
THEOREM Invariance == SafeSpec => []IInv
<1> USE DEF Locations, Goto, Store, Acquired, Readable
<1>1. Init => IInv
  BY DEF Init, IInv, TypeOK, MutualExclusion, LockedIffHeld, DataVisible,
         ReleasedWhenFree
<1>2. IInv /\ [Next]_vars => IInv'
  <2> SUFFICES ASSUME IInv, [Next]_vars PROVE IInv'
    OBVIOUS
  <2> USE DEF IInv, TypeOK, MutualExclusion, LockedIffHeld, DataVisible,
              ReleasedWhenFree
  <2>1. ASSUME NEW t \in Threads, Lock(t) PROVE IInv'
    BY <2>1 DEF Lock
  <2>2. ASSUME NEW t \in Threads, ExchangeFree(t) PROVE IInv'
    BY <2>2 DEF ExchangeFree
  <2>3. ASSUME NEW t \in Threads, ExchangeTaken(t) PROVE IInv'
    BY <2>3 DEF ExchangeTaken
  <2>4. ASSUME NEW t \in Threads, SpinExit(t) PROVE IInv'
    BY <2>4 DEF SpinExit
  <2>5. ASSUME NEW t \in Threads, TryLoad(t) PROVE IInv'
    BY <2>5 DEF TryLoad
  <2>6. ASSUME NEW t \in Threads, TryExchange(t) PROVE IInv'
    <3>1. CASE m_impl
      BY <2>6, <3>1 DEF TryExchange
    <3>2. CASE ~m_impl
      BY <2>6, <3>2 DEF TryExchange
    <3> QED
      BY <3>1, <3>2
  <2>7. ASSUME NEW t \in Threads, Write(t) PROVE IInv'
    BY <2>7 DEF Write
  <2>8. ASSUME NEW t \in Threads, Unlock(t) PROVE IInv'
    BY <2>8 DEF Unlock
  <2>9. ASSUME NEW t \in Threads, Deliver(t) PROVE IInv'
    BY <2>9 DEF Deliver
  <2>10. CASE UNCHANGED vars
    BY <2>10 DEF vars
  <2> QED
    BY <2>1, <2>2, <2>3, <2>4, <2>5, <2>6, <2>7, <2>8, <2>9, <2>10
       DEF Next, Step
<1> QED
  BY <1>1, <1>2, PTL DEF SafeSpec

\* The type invariant of SpinMutex.
THEOREM TypeCorrect == Spec => []TypeOK
<1>1. IInv => TypeOK
  BY DEF IInv
<1> QED
  BY <1>1, Invariance, PTL DEF Spec

\* Whatever the number of threads and the interleaving of lock(), try_lock() and
\* unlock(), with loads as stale as relaxed order allows: one at a time.
THEOREM Exclusion == Spec => []MutualExclusion
<1>1. IInv => MutualExclusion
  BY DEF IInv
<1> QED
  BY <1>1, Invariance, PTL DEF Spec

\* The acquire of the exchange (SpinLock.hpp:23, 32) and the release of the store
\* (SpinLock.hpp:34) suffice: the protected data never races.
THEOREM Publication == Spec => []DataVisible
<1>1. IInv => DataVisible
  BY DEF IInv
<1> QED
  BY <1>1, Invariance, PTL DEF Spec

\* No call of try_lock() leaves the flag set behind it.
THEOREM FlagMeansHeld == Spec => []LockedIffHeld
<1>1. IInv => LockedIffHeld
  BY DEF IInv
<1> QED
  BY <1>1, Invariance, PTL DEF Spec

-----------------------------------------------------------------------------
\* What the callers see of a move of one thread from one location to another.
LEMMA GotoMaps ==
  ASSUME TypeOK, NEW t \in Threads,
         NEW from \in Locations, NEW to \in Locations, Goto(t, from, to)
  PROVE  /\ StatusOf(pc[t]) = StatusOf(from)
         /\ [u \in Threads |-> StatusOf(pc[u])]'
              = [[u \in Threads |-> StatusOf(pc[u])]
                    EXCEPT ![t] = StatusOf(to)]
<1>1. pc[t] = from /\ pc' = [pc EXCEPT ![t] = to] /\ pc \in [Threads -> Locations]
  BY DEF Goto, TypeOK
<1>2. \A u \in Threads : pc'[u] = IF u = t THEN to ELSE pc[u]
  BY <1>1
<1> QED
  BY <1>1, <1>2, Zenon

\* Moves inside lock() are invisible to the callers.
LEMMA InvisibleMove ==
  ASSUME TypeOK, NEW t \in Threads,
         NEW from \in Locations, NEW to \in Locations, Goto(t, from, to),
         StatusOf(from) = StatusOf(to)
  PROVE  [u \in Threads |-> StatusOf(pc[u])]' = [u \in Threads |-> StatusOf(pc[u])]
<1>1. \A u \in Threads : pc'[u] = IF u = t THEN to ELSE pc[u]
  BY DEF Goto, TypeOK
<1>2. \A u \in Threads : StatusOf(pc'[u]) = StatusOf(pc[u])
  BY <1>1, Zenon DEF Goto
<1> QED
  BY <1>2, Zenon

\* Every step of SpinMutex is a step of the abstract lock or a stutter: a thread
\* that is let in finds the lock free, whoever attempts may give up, and the
\* spinning and the weak memory are invisible.
THEOREM Refinement == Spec => Abstract!SafeSpec
<1> DEFINE bar == [t \in Threads |-> StatusOf(pc[t])]
<1>1. Init => Abstract!Init
  BY DEF Init, Abstract!Init, StatusOf
<1>2. IInv /\ [Next]_vars => [Abstract!Next]_bar
  <2> SUFFICES ASSUME IInv, [Next]_vars PROVE [Abstract!Next]_bar
    OBVIOUS
  <2>0. TypeOK
    BY DEF IInv
  <2>1. ASSUME NEW t \in Threads, Lock(t) PROVE Abstract!Request(t)
    <3>1. Goto(t, "idle", "exchange")
      BY <2>1 DEF Lock
    <3> QED
      BY <2>0, <3>1, GotoMaps DEF Abstract!Request, Abstract!Move, StatusOf, Locations
  <2>2. ASSUME NEW t \in Threads, ExchangeFree(t) PROVE Abstract!Acquire(t)
    <3>1. Goto(t, "exchange", "critical") /\ Abstract!Free
      BY <2>2 DEF ExchangeFree, Abstract!Free, IInv, LockedIffHeld, TypeOK,
                  StatusOf, Locations
    <3> QED
      BY <2>0, <3>1, GotoMaps DEF Abstract!Acquire, Abstract!Move, StatusOf, Locations
  <2>3. ASSUME NEW t \in Threads, ExchangeTaken(t) PROVE bar' = bar
    <3>1. Goto(t, "exchange", "spin")
      BY <2>3 DEF ExchangeTaken
    <3>2. StatusOf("exchange") = StatusOf("spin")
      BY DEF StatusOf
    <3> QED
      BY <2>0, <3>1, <3>2, InvisibleMove DEF Locations
  <2>4. ASSUME NEW t \in Threads, SpinExit(t) PROVE bar' = bar
    <3>1. Goto(t, "spin", "exchange")
      BY <2>4 DEF SpinExit
    <3>2. StatusOf("exchange") = StatusOf("spin")
      BY DEF StatusOf
    <3> QED
      BY <2>0, <3>1, <3>2, InvisibleMove DEF Locations
  <2>5. ASSUME NEW t \in Threads, TryLoad(t) PROVE Abstract!Attempt(t)
    <3>1. Goto(t, "idle", "try_exchange")
      BY <2>5 DEF TryLoad
    <3> QED
      BY <2>0, <3>1, GotoMaps DEF Abstract!Attempt, Abstract!Move, StatusOf, Locations
  <2>6. ASSUME NEW t \in Threads, TryExchange(t)
        PROVE Abstract!GiveUp(t) \/ Abstract!Acquire(t)
    <3>1. CASE m_impl
      <4>1. Goto(t, "try_exchange", "idle")
        BY <2>6, <3>1 DEF TryExchange
      <4> QED
        BY <2>0, <4>1, GotoMaps DEF Abstract!GiveUp, Abstract!Move, StatusOf, Locations
    <3>2. CASE ~m_impl
      <4>1. Goto(t, "try_exchange", "critical") /\ Abstract!Free
        BY <2>6, <3>2 DEF TryExchange, Abstract!Free, IInv, LockedIffHeld, TypeOK,
                          StatusOf, Locations
      <4> QED
        BY <2>0, <4>1, GotoMaps DEF Abstract!Acquire, Abstract!Move, StatusOf, Locations
    <3> QED
      BY <3>1, <3>2
  <2>7. ASSUME NEW t \in Threads, Write(t) \/ Deliver(t) PROVE bar' = bar
    BY <2>7 DEF Write, Deliver
  <2>8. ASSUME NEW t \in Threads, Unlock(t) PROVE Abstract!Release(t)
    <3>1. Goto(t, "critical", "idle")
      BY <2>8 DEF Unlock
    <3> QED
      BY <2>0, <3>1, GotoMaps DEF Abstract!Release, Abstract!Move, StatusOf, Locations
  <2>9. CASE UNCHANGED vars
    BY <2>9 DEF vars
  <2> QED
    BY <2>1, <2>2, <2>3, <2>4, <2>5, <2>6, <2>7, <2>8, <2>9
       DEF Next, Step, Abstract!Next
<1> QED
  BY <1>1, <1>2, Invariance, PTL DEF Spec, SafeSpec, Abstract!SafeSpec
=============================================================================
