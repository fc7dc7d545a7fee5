------------------------------- MODULE Timer --------------------------------
(***************************************************************************)
(* TimerBase of Inc/Stuff/Util/Timer.hpp with its two descendants: one      *)
(* thread in run(), others that call start() and cancel() at any time.      *)
(*                                                                         *)
(* m_armed is a sequentially consistent atomic.  start() writes the other   *)
(* fields without the mutex while run() may be reading them: every access  *)
(* to one of them is a step of its own, in the order of the source.  The    *)
(* callback calls neither cancel() (it runs under m_cv_mutex) nor run().    *)
(***************************************************************************)
EXTENDS Integers

CONSTANTS
    Controllers,
    Sub,            \* instants of the clock in a millisecond
    Periods,        \* what start() is called with, in milliseconds
    MaxTime,        \* bounds: the clock,
    MaxStarts       \*         calls of start() that arm the timer

ASSUME TimerAssumption ==
    /\ Sub \in Nat \ {0}
    /\ Periods \subseteq Nat \ {0}

VARIABLES
    kind,           \* "sleep" or "accurate": SleepTimer or AccurateTimer
    m_armed, m_started_at, m_every,
    m_last_wait_start, m_next_tick_at,
    m_cv_mutex,     \* who holds it
    notified,       \* notify_all() has reached the waiting runner
    rpc,            \* where run() is
    partial,        \* what next_tick_at() has worked out so far
    cpc,            \* where each controller is
    read,           \* the clock as its start() has read it
    now,
    starts,
    torn,           \* start() has written a field since next_tick_at() read the first
    quiet,          \* a cancel() that disarmed the timer returned, no start() since
    last_tick       \* when the callback last ran, -1 after a start()

planning == <<partial, torn>>
\* What run() never writes, and what start() and cancel() never write.
outside == <<kind, m_started_at, m_every, m_armed, cpc, read, now, starts, quiet>>
inside == <<kind, m_last_wait_start, m_next_tick_at, m_cv_mutex, rpc, partial, now>>
vars == <<outside, inside, notified, torn, last_tick>>

RunnerLocations ==
    {"out", "loop", "lock", "plan", "count", "duration", "tick", "test", "block",
     "waiting", "relock", "check", "func"}
Planning == {"count", "duration", "tick"}
Holding == {"plan", "test", "block", "check", "func"} \union Planning
ControllerLocations == {"idle", "clock", "at", "every", "arm", "store", "lock"}

\* The timer is made at some instant, and armed by its constructor.
Init ==
    /\ kind \in {"sleep", "accurate"}
    /\ now \in 0 .. Sub - 1
    /\ m_started_at = now
    /\ m_every \in Periods
    /\ m_armed = TRUE
    /\ m_last_wait_start = 0 /\ m_next_tick_at = 0
    /\ m_cv_mutex = "none"
    /\ notified = FALSE
    /\ rpc = "out"
    /\ partial = 0 /\ torn = FALSE
    /\ cpc = [c \in Controllers |-> "idle"]
    /\ read = [c \in Controllers |-> 0]
    /\ starts = 0
    /\ quiet = FALSE
    /\ last_tick = -1

-----------------------------------------------------------------------------
(* run().                                                                  *)

Runner(from, to) == rpc = from /\ rpc' = to

Run ==
    /\ Runner("out", "loop")
    /\ UNCHANGED <<outside, m_last_wait_start, m_next_tick_at, m_cv_mutex, notified,
                   planning, last_tick>>

Loop ==
    /\ Runner("loop", IF m_armed THEN "lock" ELSE "out")
    /\ UNCHANGED <<outside, m_last_wait_start, m_next_tick_at, m_cv_mutex, notified,
                   planning, last_tick>>

Lock ==
    /\ Runner("lock", "plan")
    /\ m_cv_mutex = "none"
    /\ m_cv_mutex' = "runner"
    /\ m_last_wait_start' = now
    /\ UNCHANGED <<outside, m_next_tick_at, notified, planning, last_tick>>

\* duration_cast<milliseconds>.
Millis(t) == t \div Sub

\* (slip) The period that is under way, not the next.
WantedCountOff(from, every, at) == (Millis(at) - from) \div every

\* (slip) The periods that have passed are rounded up.
WantedCountUp(from, every, at) == -((from - Millis(at)) \div every) + 1

\* The period after the start that follows the one under way.
WantedCount(from, every, at) == (Millis(at) - from) \div every + 1

\* next_tick_at() reads, of SleepTimer, the clock, of AccurateTimer the start ...
PlanFrom ==
    /\ rpc = "plan"
    /\ \/ kind = "sleep" /\ rpc' = "tick" /\ partial' = now
       \/ kind = "accurate" /\ rpc' = "count" /\ partial' = Millis(m_started_at)
    /\ UNCHANGED <<outside, m_last_wait_start, m_next_tick_at, m_cv_mutex, notified,
                   torn, last_tick>>

\* ... AccurateTimer the period, to count periods from the start to the instant that
\* run() noted ...
PlanCount ==
    /\ Runner("count", "duration")
    /\ partial' = WantedCount(partial, m_every, m_last_wait_start)
    /\ UNCHANGED <<outside, m_last_wait_start, m_next_tick_at, m_cv_mutex, notified,
                   torn, last_tick>>

\* ... the period again, to know how long they take ...
PlanDuration ==
    /\ Runner("duration", "tick")
    /\ partial' = m_every * partial
    /\ UNCHANGED <<outside, m_last_wait_start, m_next_tick_at, m_cv_mutex, notified,
                   torn, last_tick>>

\* ... and the start again; SleepTimer the period.
PlanTick ==
    /\ Runner("tick", "test")
    /\ m_next_tick_at' = IF kind = "sleep" THEN partial + m_every * Sub
                                           ELSE m_started_at + partial * Sub
    /\ partial' = 0 /\ torn' = FALSE
    /\ UNCHANGED <<outside, m_last_wait_start, m_cv_mutex, notified, last_tick>>

\* One step: an m_armed that changes between its two reads only gives what a test just
\* before or just after gives, and what is due stays due.
Due == ~m_armed \/ m_next_tick_at <= now

\* The predicate of wait_until() holds.
WaitOver ==
    /\ Runner("test", "check")
    /\ Due
    /\ UNCHANGED <<outside, m_last_wait_start, m_next_tick_at, m_cv_mutex, notified,
                   planning, last_tick>>

\* It does not ...
WaitOn ==
    /\ Runner("test", "block")
    /\ ~Due
    /\ UNCHANGED <<outside, m_last_wait_start, m_next_tick_at, m_cv_mutex, notified,
                   planning, last_tick>>

\* ... and the runner, which still has the mutex, unlocks and blocks, in one step.
Wait ==
    /\ Runner("block", "waiting")
    /\ m_cv_mutex' = "none"
    /\ UNCHANGED <<outside, m_last_wait_start, m_next_tick_at, notified, planning,
                   last_tick>>

Wake ==
    /\ Runner("waiting", "relock")
    /\ notified \/ m_next_tick_at <= now
    /\ notified' = FALSE
    /\ UNCHANGED <<outside, m_last_wait_start, m_next_tick_at, m_cv_mutex, planning,
                   last_tick>>

WakeSpuriously ==
    /\ Runner("waiting", "relock")
    /\ notified' = FALSE
    /\ UNCHANGED <<outside, m_last_wait_start, m_next_tick_at, m_cv_mutex, planning,
                   last_tick>>

Relock ==
    /\ Runner("relock", "test")
    /\ m_cv_mutex = "none"
    /\ m_cv_mutex' = "runner"
    /\ UNCHANGED <<outside, m_last_wait_start, m_next_tick_at, notified, planning,
                   last_tick>>

Break ==
    /\ Runner("check", "out")
    /\ ~m_armed
    /\ m_cv_mutex' = "none"
    /\ UNCHANGED <<outside, m_last_wait_start, m_next_tick_at, notified, planning,
                   last_tick>>

\* The callback starts ...
Invoke ==
    /\ Runner("check", "func")
    /\ m_armed
    /\ last_tick' = now
    /\ UNCHANGED <<outside, m_last_wait_start, m_next_tick_at, m_cv_mutex, notified,
                   planning>>

\* ... and returns.
Invoked ==
    /\ Runner("func", "loop")
    /\ m_cv_mutex' = "none"
    /\ UNCHANGED <<outside, m_last_wait_start, m_next_tick_at, notified, planning,
                   last_tick>>

-----------------------------------------------------------------------------
(* start() and cancel().                                                   *)

Controller(c, from, to) == cpc[c] = from /\ cpc' = [cpc EXCEPT ![c] = to]

\* start() returns at once where the timer is armed.
Start(c) ==
    /\ Controller(c, "idle", "clock")
    /\ ~m_armed
    /\ starts < MaxStarts
    /\ starts' = starts + 1
    /\ UNCHANGED <<inside, m_armed, m_started_at, m_every, notified, torn, read, quiet,
                   last_tick>>

\* The clock is read ...
StartClock(c) ==
    /\ Controller(c, "clock", "at")
    /\ read' = [read EXCEPT ![c] = now]
    /\ UNCHANGED <<inside, m_armed, m_started_at, m_every, notified, torn, starts,
                   quiet, last_tick>>

\* ... and m_started_at written ...
StartAt(c) ==
    /\ Controller(c, "at", "every")
    /\ m_started_at' = read[c]
    /\ read' = [read EXCEPT ![c] = 0]
    /\ torn' = (rpc \in Planning)
    /\ last_tick' = -1
    /\ UNCHANGED <<inside, m_armed, m_every, notified, starts, quiet>>

\* ... and then m_every, while the runner may be between two reads of them.
StartEvery(c) ==
    /\ Controller(c, "every", "arm")
    /\ m_every' \in Periods
    /\ torn' = (rpc \in Planning)
    /\ last_tick' = -1
    /\ UNCHANGED <<inside, m_armed, m_started_at, notified, read, starts, quiet>>

StartArm(c) ==
    /\ Controller(c, "arm", "idle")
    /\ m_armed' = TRUE
    /\ quiet' = FALSE
    /\ last_tick' = -1
    /\ UNCHANGED <<inside, m_started_at, m_every, notified, torn, read, starts>>

\* cancel() returns at once where the timer is not armed.
Cancel(c) ==
    /\ Controller(c, "idle", "store")
    /\ m_armed
    /\ UNCHANGED <<inside, m_armed, m_started_at, m_every, notified, torn, read, starts,
                   quiet, last_tick>>

CancelStore(c) ==
    /\ Controller(c, "store", "lock")
    /\ m_armed' = FALSE
    /\ UNCHANGED <<inside, m_started_at, m_every, notified, torn, read, starts, quiet,
                   last_tick>>

\* (slip) notify_all() without the lock.
CancelNotifyUnlocked(c) ==
    /\ Controller(c, "lock", "idle")
    /\ notified' = (rpc = "waiting")
    /\ quiet' = ~m_armed
    /\ UNCHANGED <<inside, m_armed, m_started_at, m_every, torn, read, starts,
                   last_tick>>

\* The lock is taken, the runner told, and the lock released.
CancelNotify(c) ==
    /\ Controller(c, "lock", "idle")
    /\ m_cv_mutex = "none"
    /\ notified' = (rpc = "waiting")
    /\ quiet' = ~m_armed
    /\ UNCHANGED <<inside, m_armed, m_started_at, m_every, torn, read, starts,
                   last_tick>>

-----------------------------------------------------------------------------
Advance ==
    /\ now < MaxTime
    /\ now' = now + 1
    /\ UNCHANGED <<kind, m_armed, m_started_at, m_every, m_last_wait_start,
                   m_next_tick_at, m_cv_mutex, notified, rpc, planning, cpc, read,
                   starts, quiet, last_tick>>

InRun ==
    \/ Loop \/ Lock \/ PlanFrom \/ PlanCount \/ PlanDuration \/ PlanTick
    \/ WaitOver \/ WaitOn \/ Wait \/ Wake \/ Relock \/ Break \/ Invoke \/ Invoked

InCall(c) ==
    \/ StartClock(c) \/ StartAt(c) \/ StartEvery(c) \/ StartArm(c)
    \/ CancelStore(c) \/ CancelNotify(c)

Next ==
    \/ Run \/ InRun \/ WakeSpuriously
    \/ \E c \in Controllers : Start(c) \/ Cancel(c) \/ InCall(c)
    \/ Advance

\* Threads that are inside a call go on, and the callback returns; the clock need not
\* reach the next tick.
Spec ==
    /\ Init /\ [][Next]_vars
    /\ WF_vars(InRun)
    /\ \A c \in Controllers : WF_vars(InCall(c))
-----------------------------------------------------------------------------
TypeOK ==
    /\ kind \in {"sleep", "accurate"}
    /\ m_armed \in BOOLEAN
    /\ m_started_at \in Nat /\ m_every \in Periods /\ now \in Nat
    /\ m_last_wait_start \in Nat /\ m_next_tick_at \in Int
    /\ m_cv_mutex \in {"none", "runner"}
    /\ notified \in BOOLEAN
    /\ rpc \in RunnerLocations
    /\ cpc \in [Controllers -> ControllerLocations]
    /\ read \in [Controllers -> Nat]
    /\ partial \in Int /\ torn \in BOOLEAN
    /\ starts \in Nat
    /\ quiet \in BOOLEAN
    /\ last_tick \in Nat \union {-1}

\* Once a cancel() that disarmed the timer has returned, the callback is not running
\* and does not run again before a start().
NoTickAfterCancel == quiet => rpc # "func"

\* Such a cancel() makes run() return without waiting for the next tick, unless a
\* start() intervenes: its wake-up is never lost.
CancelEndsRun == quiet /\ rpc # "out" ~> rpc = "out" \/ ~quiet

Tick == rpc = "check" /\ rpc' = "func"

\* The period since the start that t falls in.
Period(t) == (t - m_started_at) \div (m_every * Sub)

\* A SleepTimer's ticks are a period apart or more, and an AccurateTimer never ticks
\* twice in a period, however late the runner is.
Apart ==
    Tick /\ last_tick # -1 =>
        IF kind = "sleep" THEN now - last_tick >= m_every * Sub
                          ELSE Period(now) > Period(last_tick)

Planned == rpc = "tick" /\ rpc' = "test"

\* What the runner waits for lies after the instant it noted, and less than a period and
\* a millisecond ahead: cutting instants to milliseconds skips no more than one tick.
Near ==
    Planned /\ (kind = "sleep" \/ ~torn) =>
        /\ m_next_tick_at' > m_last_wait_start
        /\ m_next_tick_at' - now < (m_every + 1) * Sub

\* Ticks neither bunch nor are they put off, but for what a start() does: it begins the
\* spacing anew, and may tear the plan of an AccurateTimer that is reading the fields.
\* A SleepTimer, which reads one field, is never put off.
Paced == [][Apart /\ Near]_vars

-----------------------------------------------------------------------------
(* The inductive invariant.                                                *)

HeldInside == m_cv_mutex = "runner" <=> rpc \in Holding

QuietDisarmed == quiet => ~m_armed

Past ==
    /\ \A c \in Controllers : read[c] <= now
    /\ m_started_at <= now /\ m_last_wait_start <= now /\ last_tick <= now
    /\ rpc \in {"plan"} \union Planning => last_tick <= m_last_wait_start

\* What next_tick_at() has so far, where no start() has torn it.
PlanKept ==
    /\ torn => rpc \in Planning /\ last_tick = -1
    /\ rpc \in {"count", "duration"} => kind = "accurate"
    /\ rpc = "tick" /\ kind = "sleep" => m_last_wait_start <= partial /\ partial <= now
    /\ kind = "accurate" /\ ~torn =>
        LET from == Millis(m_started_at)
            wanted == WantedCount(from, m_every, m_last_wait_start)
        IN  /\ rpc = "count" => partial = from
            /\ rpc = "duration" => partial = wanted
            /\ rpc = "tick" => partial = m_every * wanted

\* What the runner waits for since its last tick, unless a start() intervened.
Ahead ==
    rpc \in {"test", "block", "waiting", "relock", "check"} /\ last_tick # -1 =>
        IF kind = "sleep" THEN m_next_tick_at >= last_tick + m_every * Sub
        ELSE \E n \in Int : /\ m_next_tick_at = m_started_at + n * (m_every * Sub)
                            /\ m_next_tick_at > last_tick

DueWhenArmed == rpc = "check" /\ m_armed /\ last_tick # -1 => m_next_tick_at <= now

IInv ==
    /\ TypeOK
    /\ HeldInside
    /\ QuietDisarmed
    /\ NoTickAfterCancel
    /\ Past
    /\ PlanKept
    /\ Ahead
    /\ DueWhenArmed
=============================================================================
