----------------------------- MODULE SerialPipe -----------------------------
(***************************************************************************)
(* What tx_bytes of Inc/Stuff/IO/SoftUART.hpp promises: the words of a call *)
(* come out at the other end one by one, unchanged, in order, none lost or *)
(* invented, and the call returns when, and only when, all of them have.   *)
(***************************************************************************)
EXTENDS Naturals, Sequences

CONSTANT Messages

VARIABLES
    message,    \* the words of the current or the last call
    received,   \* those that came out so far
    busy        \* a call is in progress

vars == <<message, received, busy>>

Init == message = <<>> /\ received = <<>> /\ busy = FALSE

Send(m) ==
    /\ ~busy
    /\ busy' = TRUE
    /\ message' = m
    /\ received' = <<>>

Arrive ==
    /\ busy
    /\ Len(received) < Len(message)
    /\ received' = Append(received, message[Len(received) + 1])
    /\ UNCHANGED <<message, busy>>

Return ==
    /\ busy
    /\ received = message
    /\ busy' = FALSE
    /\ UNCHANGED <<message, received>>

Next == (\E m \in Messages : Send(m)) \/ Arrive \/ Return

SafeSpec == Init /\ [][Next]_vars

Spec == SafeSpec /\ WF_vars(Arrive) /\ WF_vars(Return)
=============================================================================
