------------------------------- MODULE Memo -------------------------------
(***************************************************************************)
(* The memoizer: MemoizerBase of Inc/Stuff/Util/Memo.hpp.                  *)
(*                                                                         *)
(* operator() looks its arguments up in m_memo and calls impl when they    *)
(* are not there.  impl is the user's recursive function: it calls         *)
(* operator() again for smaller arguments (as a Fibonacci function would)  *)
(* while the outer call waits, so that entries come and go between the     *)
(* lookup of a call and its remember().  The calls under way are a stack,  *)
(* the innermost one first.                                                *)
(***************************************************************************)
EXTENDS Integers, Sequences

CONSTANTS Arguments,  \* the argument tuples, numbered so that impl descends
          Needs,      \* the arguments impl calls operator() for, in order
          Impl(_, _), \* what impl makes of its arguments and of what its calls returned
          LruSize,    \* m_lru_size; 0 would make remember() erase from an empty list
          MaxCalls    \* bound: calls made

ASSUME MemoAssumption ==
  /\ Arguments \subseteq Nat
  /\ LruSize \in Nat \ {0}
  /\ Needs \in [Arguments -> Seq(Arguments)]
  /\ \A a \in Arguments : \A i \in DOMAIN Needs[a] : Needs[a][i] < a

VARIABLES stack,     \* the calls of impl under way
          memo,      \* m_memo
          lru_map,   \* the keys of m_lru_map; each one's iterator points at the key itself
          lru_list,  \* m_lru_list
          all_calls, memo_calls,
          answers    \* what the calls from outside returned: pairs of argument and value

memoVars == << stack, memo, lru_map, lru_list, all_calls, memo_calls, answers >>

\* The function impl computes
Value[a \in Arguments] == Impl(a, [i \in 1 .. Len(Needs[a]) |-> Value[Needs[a][i]]])

Frame(a) == [arg |-> a, values |-> << >>]

-----------------------------------------------------------------------------
MemoInit ==
  /\ stack = << >>
  /\ memo = << >> /\ lru_map = {} /\ lru_list = << >>
  /\ all_calls = 0 /\ memo_calls = 0
  /\ answers = {}

\* A call returns v for a: to the waiting impl, or to the program
Return(waiting, a, v) ==
  IF waiting = << >>
  THEN /\ stack' = << >>
       /\ answers' = answers \cup {<< a, v >>}
  ELSE /\ stack' = << [Head(waiting) EXCEPT !.values = Append(@, v)] >> \o Tail(waiting)
       /\ UNCHANGED answers

\* (slip) A miss enters the arguments in the tables and lets impl fill them in
Enter_reserving(a) ==
  /\ all_calls < MaxCalls
  /\ all_calls' = all_calls + 1
  /\ \/ /\ a \in DOMAIN memo
        /\ memo_calls' = memo_calls + 1
        /\ Return(stack, a, memo[a])
        /\ UNCHANGED << memo, lru_map, lru_list >>
     \/ /\ a \notin DOMAIN memo /\ Len(lru_list) < LruSize
        /\ memo' = [b \in DOMAIN memo \cup {a} |-> IF b = a THEN Impl(a, << >>) ELSE memo[b]]
        /\ lru_map' = lru_map \cup {a} /\ lru_list' = Append(lru_list, a)
        /\ stack' = << Frame(a) >> \o stack
        /\ UNCHANGED << memo_calls, answers >>

\* operator() up to the call of impl
Enter(a) ==
  /\ all_calls < MaxCalls
  /\ all_calls' = all_calls + 1
  /\ UNCHANGED << memo, lru_map, lru_list >>
  /\ \/ /\ a \in DOMAIN memo
        /\ memo_calls' = memo_calls + 1
        /\ Return(stack, a, memo[a])
     \/ /\ a \notin DOMAIN memo
        /\ stack' = << Frame(a) >> \o stack
        /\ UNCHANGED << memo_calls, answers >>

CallFromOutside(a) ==
  /\ stack = << >>
  /\ Enter(a)

CallFromImpl ==
  /\ stack # << >>
  /\ Len(Head(stack).values) < Len(Needs[Head(stack).arg])
  /\ Enter(Needs[Head(stack).arg][Len(Head(stack).values) + 1])

\* (slip) Makes room only when the list is already over its size
Excess_late == IF Len(lru_list) <= LruSize THEN 0 ELSE Len(lru_list) - LruSize

\* The entries "while (size() >= m_lru_size) forget_least_recent()" takes off
Excess == IF Len(lru_list) < LruSize THEN 0 ELSE Len(lru_list) - LruSize + 1

Forgotten == { lru_list[i] : i \in 1 .. Excess }

\* (slip) m_memo keeps the value of an entry that the list and the map forgot
remember_leaky(a, v) ==
  /\ lru_list' = Append(SubSeq(lru_list, Excess + 1, Len(lru_list)), a)
  /\ lru_map' = (lru_map \ Forgotten) \cup {a}
  /\ memo' = [b \in DOMAIN memo \cup {a} |-> IF b = a THEN v ELSE memo[b]]

\* remember.  Arguments the map has are only spliced to the front of the
\* list; others drive the oldest entries out and are appended.
remember(a, v) ==
  IF a \in lru_map
  THEN /\ lru_list' = << a >> \o SelectSeq(lru_list, LAMBDA b : b # a)
       /\ UNCHANGED << memo, lru_map >>
  ELSE /\ lru_list' = Append(SubSeq(lru_list, Excess + 1, Len(lru_list)), a)
       /\ lru_map' = (lru_map \ Forgotten) \cup {a}
       /\ memo' = [b \in (DOMAIN memo \ Forgotten) \cup {a} |-> IF b = a THEN v ELSE memo[b]]

\* (slip) remember is given what impl makes of its calls but the last
Result_early(frame) ==
  Impl(frame.arg, SubSeq(frame.values, 1, IF Len(frame.values) = 2 THEN 1 ELSE Len(frame.values)))

\* What impl returns when its calls have
Result(frame) == Impl(frame.arg, frame.values)

ImplReturns ==
  /\ stack # << >>
  /\ Len(Head(stack).values) = Len(Needs[Head(stack).arg])
  /\ remember(Head(stack).arg, Result(Head(stack)))
  /\ Return(Tail(stack), Head(stack).arg, Result(Head(stack)))
  /\ UNCHANGED << all_calls, memo_calls >>

MemoNext ==
  \/ \E a \in Arguments : CallFromOutside(a)
  \/ CallFromImpl
  \/ ImplReturns

MemoSpec == MemoInit /\ [][MemoNext]_memoVars

-----------------------------------------------------------------------------
(***************************************************************************)
(* The three tables hold the same arguments at all times, the list each of *)
(* them once, and never more than m_lru_size: an entry that is in one and  *)
(* not in another would be forgotten by a key that is not there, or never. *)
(***************************************************************************)
TablesAgree ==
  /\ Len(lru_list) <= LruSize
  /\ { lru_list[i] : i \in DOMAIN lru_list } = lru_map
  /\ DOMAIN memo = lru_map
  /\ \A i, j \in DOMAIN lru_list : lru_list[i] = lru_list[j] => i = j

(***************************************************************************)
(* Arguments whose impl is under way are not in the table: the calls       *)
(* inside it never compute what it is computing.  This is why remember()   *)
(* never finds its arguments there, and so why an entry is evicted in the  *)
(* order of its computation whether it has been used since or not.         *)
(***************************************************************************)
PendingNotRemembered ==
  \A i \in DOMAIN stack : stack[i].arg \notin lru_map

(***************************************************************************)
(* Every value in the table, and every value returned, is the function's,  *)
(* however much was evicted and computed again while a call was waiting.   *)
(***************************************************************************)
AnswersRight ==
  /\ \A a \in DOMAIN memo : memo[a] = Value[a]
  /\ \A pair \in answers : pair[2] = Value[pair[1]]

\* All of them: the memoizer answers as the function and keeps its tables alike.
MemoSound == TablesAgree /\ PendingNotRemembered /\ AnswersRight
=============================================================================
