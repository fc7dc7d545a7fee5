--------------------------- MODULE LibraryProofs ----------------------------
(***************************************************************************)
(* For every function and every size of the memoizer's list: its tables    *)
(* stay alike and its answers are the function's.  For every number of     *)
(* images: none loses its block or its picture.  For every pool: the bump  *)
(* allocator's blocks stay apart.  For every set of controllers, period    *)
(* and resolution of the clock: no tick of a timer after a cancel(), and    *)
(* ticks neither closer than a period nor put off, but for what a start()  *)
(* does.  For every image: the QoI decoder has the pixels that the encoder *)
(* was given.                                                              *)
(***************************************************************************)
EXTENDS Memo, Images, Alloc, Timer, QoI, DataLemmas, SequenceTheorems, TLAPS

-----------------------------------------------------------------------------
(***************************************************************************)
(* The memoizer                                                            *)
(***************************************************************************)
Values == {Value[a] : a \in Arguments}

\* A call of impl has the values of the first arguments it needs.
Frames ==
  {f \in [arg : Arguments, values : Seq(Values)] :
     /\ Len(f.values) <= Len(Needs[f.arg])
     /\ \A i \in 1 .. Len(f.values) : f.values[i] = Value[Needs[f.arg][i]]}

\* It waits for the next one, which the call above it computes.
WaitsFor(f, a) ==
  Len(f.values) < Len(Needs[f.arg]) /\ a = Needs[f.arg][Len(f.values) + 1]

\* impl calls for smaller arguments only: the calls under way descend.
StackDescends ==
  /\ \A i, j \in 1 .. Len(stack) : i < j => stack[i].arg < stack[j].arg
  /\ \A i \in 2 .. Len(stack) : WaitsFor(stack[i], stack[i - 1].arg)

MemoTypeOK ==
  /\ stack \in Seq(Frames)
  /\ lru_list \in Seq(Arguments)
  /\ memo \in [lru_map -> Values]

MemoIInv ==
  MemoTypeOK /\ StackDescends /\ TablesAgree /\ PendingNotRemembered /\ AnswersRight

\* That the recursion defines a function: on the arguments below a bound ...
DefinedBelow(g, n) ==
  \A a \in Arguments : a < n => g[a] = Impl(a, [i \in 1 .. Len(Needs[a]) |-> g[Needs[a][i]]])

LEMMA NeedsBelow ==
  ASSUME NEW a \in Arguments, NEW i \in 1 .. Len(Needs[a])
  PROVE  Needs[a][i] \in Arguments /\ Needs[a][i] < a /\ a \in Nat /\ Needs[a][i] \in Nat
<1>1. Needs[a] \in Seq(Arguments) /\ Arguments \subseteq Nat
  BY MemoAssumption
<1>2. i \in DOMAIN Needs[a] /\ Needs[a][i] \in Arguments
  BY <1>1
<1> QED
  BY <1>1, <1>2, MemoAssumption

\* ... one function at most ...
LEMMA DefinedOnce ==
  ASSUME NEW n \in Nat, NEW m \in Nat, NEW g, NEW h, DefinedBelow(g, n), DefinedBelow(h, m)
  PROVE  \A a \in Arguments : a < n /\ a < m => g[a] = h[a]
<1> DEFINE T == {k \in Nat : \A a \in Arguments : a < k /\ a < n /\ a < m => g[a] = h[a]}
<1>0. Arguments \subseteq Nat
  BY MemoAssumption
<1>1. 0 \in T
  BY <1>0
<1>2. ASSUME NEW k \in Nat, k \in T PROVE k + 1 \in T
  <2> SUFFICES ASSUME NEW a \in Arguments, a < k + 1, a < n, a < m PROVE g[a] = h[a]
    BY <1>2
  <2>1. ASSUME NEW i \in 1 .. Len(Needs[a]) PROVE g[Needs[a][i]] = h[Needs[a][i]]
    <3>1. Needs[a][i] \in Arguments /\ Needs[a][i] < a /\ a \in Nat /\ Needs[a][i] \in Nat
      BY NeedsBelow
    <3>2. Needs[a][i] < k /\ Needs[a][i] < n /\ Needs[a][i] < m
      BY <3>1
    <3> QED
      BY <1>2, <3>1, <3>2
  <2>2. [i \in 1 .. Len(Needs[a]) |-> g[Needs[a][i]]] = [i \in 1 .. Len(Needs[a]) |-> h[Needs[a][i]]]
    BY <2>1
  <2> QED
    BY <2>2 DEF DefinedBelow
<1> HIDE DEF T
<1>3. \A k \in Nat : k \in T
  BY <1>1, <1>2, Induction
<1>4. n \in T
  BY <1>3
<1> QED
  BY <1>4 DEF T

\* ... and one at least.
LEMMA DefinedSomewhere == \A n \in Nat : \E g : DefinedBelow(g, n)
<1> DEFINE T == {n \in Nat : \E g : DefinedBelow(g, n)}
<1>0. Arguments \subseteq Nat
  BY MemoAssumption
<1>1. 0 \in T
  BY <1>0 DEF DefinedBelow
<1>2. ASSUME NEW n \in Nat, n \in T PROVE n + 1 \in T
  <2>1. PICK g : DefinedBelow(g, n)
    BY <1>2
  <2> DEFINE h == [a \in Arguments |->
                     IF a < n THEN g[a] ELSE Impl(a, [i \in 1 .. Len(Needs[a]) |-> g[Needs[a][i]]])]
  <2>2. ASSUME NEW a \in Arguments, a < n + 1
        PROVE  h[a] = Impl(a, [i \in 1 .. Len(Needs[a]) |-> h[Needs[a][i]]])
    <3>1. ASSUME NEW i \in 1 .. Len(Needs[a]) PROVE h[Needs[a][i]] = g[Needs[a][i]]
      <4>1. Needs[a][i] \in Arguments /\ Needs[a][i] < a /\ a \in Nat /\ Needs[a][i] \in Nat
        BY NeedsBelow
      <4>2. Needs[a][i] < n
        BY <2>2, <4>1
      <4> QED
        BY <4>1, <4>2
    <3>2. [i \in 1 .. Len(Needs[a]) |-> h[Needs[a][i]]] = [i \in 1 .. Len(Needs[a]) |-> g[Needs[a][i]]]
      <4> HIDE DEF h
      <4> QED
        BY <3>1
    <3>3. h[a] = Impl(a, [i \in 1 .. Len(Needs[a]) |-> g[Needs[a][i]]])
      BY <2>1 DEF DefinedBelow
    <3> HIDE DEF h
    <3> QED
      BY <3>2, <3>3
  <2> HIDE DEF h
  <2>3. DefinedBelow(h, n + 1)
    BY <2>2 DEF DefinedBelow
  <2> QED
    BY <2>3
<1> HIDE DEF T
<1>3. \A n \in Nat : n \in T
  BY <1>1, <1>2, Induction
<1> QED
  BY <1>3 DEF T

\* The function exists: impl descends.
LEMMA ValueIs ==
  /\ Value = [a \in Arguments |-> Impl(a, [i \in 1 .. Len(Needs[a]) |-> Value[Needs[a][i]]])]
  /\ \A a \in Arguments : Value[a] = Impl(a, [i \in 1 .. Len(Needs[a]) |-> Value[Needs[a][i]]])
<1>0. Arguments \subseteq Nat
  BY MemoAssumption
<1> DEFINE G(n) == CHOOSE g : DefinedBelow(g, n)
           F == [a \in Arguments |-> G(a + 1)[a]]
<1>1. ASSUME NEW n \in Nat PROVE DefinedBelow(G(n), n)
  BY DefinedSomewhere
<1>2. ASSUME NEW a \in Arguments
      PROVE  F[a] = Impl(a, [i \in 1 .. Len(Needs[a]) |-> F[Needs[a][i]]])
  <2>0. a \in Nat /\ a + 1 \in Nat /\ a < a + 1
    BY <1>0
  <2>1. F[a] = Impl(a, [i \in 1 .. Len(Needs[a]) |-> G(a + 1)[Needs[a][i]]])
    <3>1. DefinedBelow(G(a + 1), a + 1) /\ F[a] = G(a + 1)[a]
      BY <1>1, <2>0
    <3> HIDE DEF G, F
    <3> QED
      BY <2>0, <3>1 DEF DefinedBelow
  <2>2. ASSUME NEW i \in 1 .. Len(Needs[a]) PROVE G(a + 1)[Needs[a][i]] = F[Needs[a][i]]
    <3>1. PICK b \in Arguments : b = Needs[a][i] /\ b < a /\ b \in Nat
      BY NeedsBelow
    <3>2. b + 1 \in Nat /\ b < b + 1 /\ b < a + 1
      BY <2>0, <3>1
    <3>3. DefinedBelow(G(a + 1), a + 1) /\ DefinedBelow(G(b + 1), b + 1) /\ F[b] = G(b + 1)[b]
      BY <1>1, <2>0, <3>2
    <3> HIDE DEF G, F
    <3>4. G(a + 1)[b] = G(b + 1)[b]
      BY <2>0, <3>2, <3>3, DefinedOnce
    <3> QED
      BY <3>1, <3>3, <3>4
  <2> HIDE DEF G, F
  <2>3. [i \in 1 .. Len(Needs[a]) |-> G(a + 1)[Needs[a][i]]] = [i \in 1 .. Len(Needs[a]) |-> F[Needs[a][i]]]
    BY <2>2
  <2> QED
    BY <2>1, <2>3
<1>3. F = [a \in Arguments |-> Impl(a, [i \in 1 .. Len(Needs[a]) |-> F[Needs[a][i]]])]
  <2>1. F = [a \in Arguments |-> F[a]]
    OBVIOUS
  <2> HIDE DEF F
  <2> QED
    BY <1>2, <2>1
<1> HIDE DEF F
<1>4. \E f : f = [a \in Arguments |-> Impl(a, [i \in 1 .. Len(Needs[a]) |-> f[Needs[a][i]]])]
  BY <1>3
<1>5. Value = [a \in Arguments |-> Impl(a, [i \in 1 .. Len(Needs[a]) |-> Value[Needs[a][i]]])]
  BY <1>4 DEF Value
<1>6. ASSUME NEW a \in Arguments
      PROVE  Value[a] = Impl(a, [i \in 1 .. Len(Needs[a]) |-> Value[Needs[a][i]]])
  BY <1>5
<1> QED
  BY <1>5, <1>6
\* What the innermost call waits for comes next among its values, and nobody's
\* arguments change.
LEMMA ReturnKeepsArguments ==
  ASSUME NEW waiting \in Seq(Frames), NEW a \in Arguments, Return(waiting, a, Value[a]),
         waiting # <<>> => WaitsFor(waiting[1], a)
  PROVE  /\ stack' \in Seq(Frames)
         /\ Len(stack') = Len(waiting)
         /\ \A i \in 1 .. Len(waiting) : stack'[i].arg = waiting[i].arg
         /\ \A i \in 2 .. Len(waiting) : stack'[i] = waiting[i]
<1>1. CASE waiting = <<>>
  BY <1>1 DEF Return
<1>2. CASE waiting # <<>>
  <2> DEFINE w == waiting[1]
             vs == Append(w.values, Value[a])
             f == [Head(waiting) EXCEPT !.values = vs]
  <2>1. /\ Head(waiting) \in Frames /\ Head(waiting) = w /\ Tail(waiting) \in Seq(Frames)
        /\ Len(Tail(waiting)) = Len(waiting) - 1 /\ Len(waiting) \in Nat /\ Len(waiting) >= 1
        /\ \A i \in 1 .. Len(Tail(waiting)) : Tail(waiting)[i] = waiting[i + 1]
    BY <1>2, HeadTailProperties
  <2>2. /\ w.arg \in Arguments /\ w.values \in Seq(Values) /\ WaitsFor(w, a) /\ Value[a] \in Values
        /\ \A i \in 1 .. Len(w.values) : w.values[i] = Value[Needs[w.arg][i]]
        /\ w \in [arg : Arguments, values : Seq(Values)]
    BY <1>2, <2>1 DEF Frames, Values
  <2>3. Len(Needs[w.arg]) \in Nat
    BY <2>2, MemoAssumption
  <2> HIDE DEF w
  <2>4. /\ vs \in Seq(Values) /\ Len(vs) = Len(w.values) + 1 /\ Len(w.values) \in Nat
        /\ \A i \in 1 .. Len(w.values) : vs[i] = w.values[i]
        /\ vs[Len(w.values) + 1] = Value[a]
    BY <2>2, AppendProperties
  <2> HIDE DEF vs
  <2>5. f = [w EXCEPT !.values = vs] /\ f.arg = w.arg /\ f.values = vs
        /\ f \in [arg : Arguments, values : Seq(Values)]
    BY <2>1, <2>2, <2>4
  <2>6. Len(vs) <= Len(Needs[w.arg]) /\ \A i \in 1 .. Len(vs) : vs[i] = Value[Needs[w.arg][i]]
    <3>1. Len(vs) <= Len(Needs[w.arg])
      BY <2>2, <2>3, <2>4 DEF WaitsFor
    <3>2. ASSUME NEW i \in 1 .. Len(vs) PROVE vs[i] = Value[Needs[w.arg][i]]
      <4>1. i \in 1 .. Len(w.values) \/ i = Len(w.values) + 1
        BY <2>4
      <4> QED
        BY <2>2, <2>4, <4>1 DEF WaitsFor
    <3> QED
      BY <3>1, <3>2
  <2>7. stack' = <<f>> \o Tail(waiting)
    BY <1>2, <2>1 DEF Return, vs, w
  <2> HIDE DEF f
  <2>8. f \in Frames
    BY <2>5, <2>6 DEF Frames
  <2>9. <<f>> \in Seq(Frames) /\ Len(<<f>>) = 1 /\ <<f>>[1] = f
    BY <2>8
  <2>10. /\ stack' \in Seq(Frames) /\ Len(stack') = 1 + Len(Tail(waiting))
         /\ \A i \in 1 .. 1 + Len(Tail(waiting)) :
               stack'[i] = IF i <= 1 THEN <<f>>[i] ELSE Tail(waiting)[i - 1]
    BY <2>1, <2>7, <2>9, ConcatProperties
  <2>11. stack'[1].arg = waiting[1].arg
    <3>1. 1 \in 1 .. 1 + Len(Tail(waiting)) /\ 1 <= 1
      BY <2>1
    <3>2. stack'[1] = f
      BY <2>9, <2>10, <3>1
    <3>3. w = waiting[1]
      BY <2>1 DEF w
    <3> QED
      BY <2>5, <3>2, <3>3
  <2>12. ASSUME NEW i \in 2 .. Len(waiting) PROVE stack'[i] = waiting[i]
    <3>1. i - 1 \in 1 .. Len(Tail(waiting)) /\ i - 1 + 1 = i /\ ~(i <= 1)
          /\ i \in 1 .. 1 + Len(Tail(waiting))
      BY <2>1
    <3>2. stack'[i] = Tail(waiting)[i - 1] /\ Tail(waiting)[i - 1] = waiting[i - 1 + 1]
      BY <2>1, <2>10, <3>1
    <3> QED
      BY <3>1, <3>2
  <2>13. ASSUME NEW i \in 1 .. Len(waiting) PROVE stack'[i].arg = waiting[i].arg
    <3>1. i = 1 \/ i \in 2 .. Len(waiting)
      BY <2>1
    <3> QED
      BY <2>11, <2>12, <3>1
  <2>14. Len(stack') = Len(waiting)
    BY <2>1, <2>10
  <2> QED
    BY <2>10, <2>12, <2>13, <2>14
<1> QED
  BY <1>1, <1>2

\* impl descends.
LEMMA WaitedBelow ==
  ASSUME NEW f \in Frames, NEW a, WaitsFor(f, a)
  PROVE  a \in Arguments /\ a < f.arg
<1>1. f.arg \in Arguments /\ f.values \in Seq(Values)
  BY DEF Frames
<1>2. Len(f.values) \in Nat /\ Len(Needs[f.arg]) \in Nat
  BY <1>1, MemoAssumption
<1>3. Len(f.values) + 1 \in 1 .. Len(Needs[f.arg])
  BY <1>2 DEF WaitsFor
<1> QED
  BY <1>1, <1>3, NeedsBelow DEF WaitsFor

\* A call that misses starts impl: its arguments are below all that wait.
LEMMA PushDescends ==
  ASSUME MemoIInv, NEW a \in Arguments, a \notin lru_map,
         stack # <<>> => WaitsFor(stack[1], a),
         stack' = <<Frame(a)>> \o stack, UNCHANGED lru_map
  PROVE  stack' \in Seq(Frames) /\ StackDescends' /\ PendingNotRemembered'
<1>0. /\ stack \in Seq(Frames) /\ Len(stack) \in Nat /\ Arguments \subseteq Nat
      /\ \A i \in 1 .. Len(stack) : stack[i].arg \in Nat
      /\ stack # <<>> => Head(stack) = stack[1] /\ Len(stack) >= 1
      /\ \A i \in 1 .. Len(stack) : stack # <<>>
  <2>1. stack \in Seq(Frames) /\ Len(stack) \in Nat /\ Arguments \subseteq Nat
    BY MemoAssumption DEF MemoIInv, MemoTypeOK
  <2>2. \A i \in 1 .. Len(stack) : stack[i] \in Frames
    BY <2>1
  <2>3. \A f \in Frames : f.arg \in Nat
    BY <2>1 DEF Frames
  <2>4. stack # <<>> => Head(stack) = stack[1] /\ Len(stack) >= 1
    BY <2>1
  <2>5. \A i \in 1 .. Len(stack) : stack # <<>>
    BY <2>1
  <2> QED
    BY <2>1, <2>2, <2>3, <2>4, <2>5
<1>1. Frame(a) \in Frames /\ Frame(a).arg = a
  <2>1. <<>> \in Seq(Values) /\ Len(<<>>) = 0 /\ Len(Needs[a]) \in Nat
    BY MemoAssumption
  <2> QED
    BY <2>1 DEF Frame, Frames
<1> DEFINE f == Frame(a)
<1> HIDE DEF f
<1>2. <<f>> \in Seq(Frames) /\ Len(<<f>>) = 1 /\ <<f>>[1] = f
  BY <1>1 DEF f
<1>3. /\ stack' \in Seq(Frames) /\ Len(stack') = 1 + Len(stack)
      /\ \A i \in 1 .. 1 + Len(stack) : stack'[i] = IF i <= 1 THEN <<f>>[i] ELSE stack[i - 1]
  BY <1>0, <1>2, ConcatProperties DEF f
<1>4. stack'[1].arg = a
  BY <1>0, <1>1, <1>2, <1>3 DEF f
<1>5. ASSUME NEW i \in 2 .. 1 + Len(stack)
      PROVE  stack'[i].arg = stack[i - 1].arg /\ i - 1 \in 1 .. Len(stack)
  BY <1>0, <1>3
<1>6. ASSUME NEW i \in 1 .. Len(stack) PROVE a < stack[i].arg
  <2>1. a < stack[1].arg
    <3>1. stack[1] \in Frames /\ WaitsFor(stack[1], a)
      BY <1>0
    <3> QED
      BY <3>1, WaitedBelow
  <2>2. CASE i = 1
    BY <2>1, <2>2
  <2>3. CASE 1 < i
    <3>1. stack[1].arg < stack[i].arg /\ 1 \in 1 .. Len(stack)
      BY <1>0, <2>3 DEF MemoIInv, StackDescends
    <3>2. a \in Nat /\ stack[1].arg \in Nat /\ stack[i].arg \in Nat
      BY <1>0, <3>1
    <3> QED
      BY <2>1, <3>1, <3>2
  <2> QED
    BY <2>2, <2>3
<1>70. ASSUME NEW i \in 2 .. 1 + Len(stack) PROVE WaitsFor(stack'[i], stack'[i - 1].arg)
  <2>1. stack'[i] = stack[i - 1] /\ i - 1 \in 1 .. Len(stack)
    BY <1>0, <1>3
  <2>2. CASE i = 2
    <3>1. i - 1 = 1
      BY <2>2
    <3> QED
      BY <1>0, <1>4, <2>1, <3>1
  <2>3. CASE i # 2
    <3>1. i - 1 \in 2 .. 1 + Len(stack) /\ i - 1 \in 2 .. Len(stack)
      BY <1>0, <2>3
    <3>2. stack'[i - 1].arg = stack[i - 1 - 1].arg
      BY <1>5, <3>1
    <3> QED
      BY <2>1, <3>1, <3>2 DEF MemoIInv, StackDescends
  <2> QED
    BY <2>2, <2>3
<1>7. StackDescends'
  <2> SUFFICES ASSUME NEW i \in 1 .. 1 + Len(stack), NEW j \in 1 .. 1 + Len(stack), i < j
               PROVE  stack'[i].arg < stack'[j].arg
    BY <1>3, <1>70 DEF StackDescends
  <2>1. j \in 2 .. 1 + Len(stack)
    BY <1>0
  <2>2. CASE i = 1
    BY <1>4, <1>5, <1>6, <2>1, <2>2
  <2>3. CASE i # 1
    <3>1. i \in 2 .. 1 + Len(stack) /\ i - 1 < j - 1
      BY <1>0, <2>3
    <3> QED
      BY <1>5, <2>1, <3>1 DEF MemoIInv, StackDescends
  <2> QED
    BY <2>2, <2>3
<1>8. PendingNotRemembered'
  <2> SUFFICES ASSUME NEW i \in 1 .. 1 + Len(stack) PROVE stack'[i].arg \notin lru_map
    BY <1>3 DEF PendingNotRemembered
  <2>1. CASE i = 1
    BY <1>4, <2>1
  <2>2. CASE i # 1
    <3>1. i \in 2 .. 1 + Len(stack)
      BY <1>0, <2>2
    <3>2. i - 1 \in DOMAIN stack
      BY <1>0, <1>5, <3>1
    <3> QED
      BY <1>5, <3>1, <3>2 DEF MemoIInv, PendingNotRemembered
  <2> QED
    BY <2>1, <2>2
<1> QED
  BY <1>3, <1>7, <1>8

\* remember() of arguments that are not there: Memo.hpp:76-81.
LEMMA RememberAgrees ==
  ASSUME MemoIInv, NEW a \in Arguments, a \notin lru_map, NEW v \in Values, remember(a, v)
  PROVE  /\ TablesAgree' /\ lru_list' \in Seq(Arguments) /\ memo' \in [lru_map' -> Values]
         /\ lru_map' \subseteq lru_map \cup {a}
         /\ \A b \in lru_map' : memo'[b] = IF b = a THEN v ELSE memo[b]
<1> DEFINE n == Len(lru_list)
           kept == SubSeq(lru_list, Excess + 1, n)
<1>0. /\ lru_list \in Seq(Arguments) /\ n \in Nat /\ n <= LruSize /\ LruSize \in Nat /\ LruSize >= 1
      /\ memo \in [lru_map -> Values] /\ lru_map = {lru_list[i] : i \in 1 .. n}
      /\ \A i, j \in 1 .. n : lru_list[i] = lru_list[j] => i = j
  BY MemoAssumption DEF MemoIInv, MemoTypeOK, TablesAgree
<1>1. /\ lru_list' = Append(kept, a)
      /\ lru_map' = (lru_map \ Forgotten) \cup {a}
      /\ memo' = [b \in (DOMAIN memo \ Forgotten) \cup {a} |-> IF b = a THEN v ELSE memo[b]]
  BY DEF remember
<1>2. Excess \in 0 .. 1 /\ Excess <= n /\ n - Excess <= LruSize - 1
  BY <1>0 DEF Excess
<1> DEFINE e == Excess
<1> HIDE DEF n, e
<1>3. /\ kept \in Seq(Arguments) /\ Len(kept) = n - e
      /\ \A i \in 1 .. n - e : kept[i] = lru_list[e + i]
  <2>1. \A i \in e + 1 .. n : lru_list[i] \in Arguments
    BY <1>0, <1>2 DEF n, e
  <2>2. e + 1 \in Int /\ n \in Int
    BY <1>0, <1>2 DEF e
  <2>3. /\ SubSeq(lru_list, e + 1, n) \in Seq(Arguments)
        /\ Len(SubSeq(lru_list, e + 1, n)) = IF e + 1 <= n THEN n - (e + 1) + 1 ELSE 0
        /\ \A i \in 1 .. n - (e + 1) + 1 : SubSeq(lru_list, e + 1, n)[i] = lru_list[e + 1 + i - 1]
    BY <2>1, <2>2, SubSeqProperties
  <2>4. e \in 0 .. 1 /\ e <= n
    BY <1>2 DEF e
  <2> QED
    BY <1>0, <2>3, <2>4 DEF e
<1> HIDE DEF kept
<1>4. /\ lru_list' \in Seq(Arguments) /\ Len(lru_list') = n - e + 1
      /\ \A i \in 1 .. n - e : lru_list'[i] = lru_list[e + i]
      /\ lru_list'[n - e + 1] = a
  BY <1>1, <1>3, AppendProperties
<1>5. Forgotten = {lru_list[i] : i \in 1 .. e}
  BY DEF Forgotten, e
<1>6. e \in 0 .. 1 /\ e <= n /\ n - e + 1 <= LruSize
  BY <1>0, <1>2 DEF e
<1>7. {lru_list'[i] : i \in 1 .. n - e + 1} = lru_map'
  <2>1. ASSUME NEW i \in 1 .. n - e + 1 PROVE lru_list'[i] \in lru_map'
    <3>1. CASE i = n - e + 1
      BY <1>1, <1>4, <3>1
    <3>2. CASE i # n - e + 1
      <4>1. i \in 1 .. n - e /\ e + i \in 1 .. n /\ e + i > e
        BY <1>0, <1>6, <3>2
      <4>2. lru_list[e + i] \in lru_map
        BY <1>0, <4>1
      <4>3. lru_list[e + i] \notin Forgotten
        <5>1. ASSUME NEW k \in 1 .. e, lru_list[e + i] = lru_list[k] PROVE FALSE
          <6>1. k \in 1 .. n /\ k # e + i
            BY <1>0, <1>6, <4>1
          <6> QED
            BY <1>0, <4>1, <5>1, <6>1
        <5> QED
          BY <1>5, <5>1
      <4> QED
        BY <1>1, <1>4, <4>1, <4>2, <4>3
    <3> QED
      BY <3>1, <3>2
  <2>2. ASSUME NEW b \in lru_map' PROVE \E i \in 1 .. n - e + 1 : lru_list'[i] = b
    <3>1. CASE b = a
      <4>1. n - e + 1 \in 1 .. n - e + 1
        BY <1>0, <1>6
      <4> QED
        BY <1>4, <3>1, <4>1
    <3>2. CASE b # a
      <4>1. PICK k \in 1 .. n : b = lru_list[k]
        BY <1>0, <1>1, <2>2, <3>2
      <4>2. k > e
        BY <1>0, <1>1, <1>5, <1>6, <2>2, <3>2, <4>1
      <4>3. PICK j \in Int : j = k - e
        BY <1>6
      <4>4. n \in Nat /\ e \in Nat /\ k \in 1 .. n /\ e + j = k
        BY <1>0, <1>6, <4>3
      <4>5. j \in 1 .. n - e /\ j \in 1 .. n - e + 1
        BY ONLY <4>2, <4>4, SMT
      <4> QED
        BY <1>4, <4>1, <4>4, <4>5
    <3> QED
      BY <3>1, <3>2
  <2> QED
    BY <2>1, <2>2
<1>8. ASSUME NEW i \in 1 .. n - e + 1, NEW j \in 1 .. n - e + 1, lru_list'[i] = lru_list'[j]
      PROVE  i = j
  <2>1. ASSUME NEW k \in 1 .. n - e
        PROVE  lru_list'[k] = lru_list[e + k] /\ e + k \in 1 .. n /\ lru_list[e + k] # a
    BY <1>0, <1>4, <1>6
  <2>2. \A k \in 1 .. n - e + 1 : k \in 1 .. n - e \/ k = n - e + 1
    BY <1>0, <1>6
  <2>3. CASE i \in 1 .. n - e /\ j \in 1 .. n - e
    <3>1. e + i = e + j
      BY <1>0, <1>8, <2>1, <2>3
    <3> QED
      BY <1>6, <3>1
  <2> QED
    BY <1>4, <1>8, <2>1, <2>2, <2>3
<1>9. /\ memo' \in [lru_map' -> Values] /\ lru_map' \subseteq lru_map \cup {a}
      /\ \A b \in lru_map' : memo'[b] = IF b = a THEN v ELSE memo[b]
  BY <1>0, <1>1
<1>10. TablesAgree'
  <2>1. DOMAIN lru_list' = 1 .. n - e + 1
    BY <1>4
  <2>2. DOMAIN memo' = lru_map'
    BY <1>9
  <2> QED
    BY <1>4, <1>6, <1>7, <1>8, <2>1, <2>2 DEF TablesAgree
<1> QED
  BY <1>4, <1>9, <1>10

\* Calls that keep their arguments, and all but the innermost their values, wait as before.
LEMMA ArgumentsKept ==
  ASSUME stack \in Seq(Frames), StackDescends, Len(stack') = Len(stack),
         \A i \in 1 .. Len(stack) : stack'[i].arg = stack[i].arg,
         \A i \in 2 .. Len(stack) : stack'[i] = stack[i]
  PROVE  StackDescends'
<1>1. ASSUME NEW i \in 2 .. Len(stack) PROVE WaitsFor(stack'[i], stack'[i - 1].arg)
  <2>1. i - 1 \in 1 .. Len(stack)
    OBVIOUS
  <2> QED
    BY <2>1 DEF StackDescends
<1>2. ASSUME NEW i \in 1 .. Len(stack), NEW j \in 1 .. Len(stack), i < j
      PROVE  stack'[i].arg < stack'[j].arg
  BY <1>2 DEF StackDescends
<1> QED
  BY <1>1, <1>2 DEF StackDescends

\* What a call returns is right if the table is.
LEMMA AnswersStayRight ==
  ASSUME AnswersRight, NEW waiting, NEW a, Return(waiting, a, Value[a]),
         (\A b \in DOMAIN memo' : memo'[b] = Value[b]) \/ UNCHANGED memo
  PROVE  AnswersRight'
<1>1. \A b \in DOMAIN memo' : memo'[b] = Value[b]
  BY DEF AnswersRight
<1>2. answers' = answers \/ answers' = answers \cup {<<a, Value[a]>>}
  BY DEF Return
<1>3. \A pair \in answers' : pair[2] = Value[pair[1]]
  BY <1>2 DEF AnswersRight
<1> QED
  BY <1>1, <1>3 DEF AnswersRight

\* Memo.hpp:18-82: the tables agree because remember() never finds its arguments
\* in them, and that because the arguments of the calls under way descend.  The
\* answers are right because a call that waits has the values of what it needed,
\* and what it waits for is what the call above it computes.
THEOREM MemoInvariance == MemoSpec => []MemoIInv
<1>1. MemoInit => MemoIInv
  <2> SUFFICES ASSUME MemoInit PROVE MemoIInv
    OBVIOUS
  <2>1. <<>> \in Seq(Frames) /\ <<>> \in Seq(Arguments) /\ Len(<<>>) = 0 /\ DOMAIN <<>> = {}
    OBVIOUS
  <2>2. <<>> \in [{} -> Values]
    OBVIOUS
  <2>3. LruSize \in Nat
    BY MemoAssumption
  <2> QED
    BY <2>1, <2>2, <2>3
       DEF MemoInit, MemoIInv, MemoTypeOK, StackDescends, TablesAgree, PendingNotRemembered,
           AnswersRight
<1>2. ASSUME MemoIInv, NEW a \in Arguments, Enter(a), stack # <<>> => WaitsFor(stack[1], a)
      PROVE  MemoIInv'
  <2>0. /\ UNCHANGED << memo, lru_map, lru_list >> /\ DOMAIN memo = lru_map
        /\ stack \in Seq(Frames)
        /\ MemoTypeOK /\ TablesAgree /\ PendingNotRemembered /\ StackDescends /\ AnswersRight
    BY <1>2 DEF Enter, MemoIInv, MemoTypeOK, TablesAgree
  <2>1. TablesAgree'
    BY <2>0 DEF TablesAgree
  <2>2. stack' \in Seq(Frames) /\ StackDescends' /\ PendingNotRemembered' /\ AnswersRight'
    <3>1. CASE a \in DOMAIN memo
      <4>1. Return(stack, a, Value[a])
        <5>1. memo[a] = Value[a]
          BY <2>0, <3>1 DEF AnswersRight
        <5> QED
          BY <1>2, <3>1, <5>1 DEF Enter
      <4>2. /\ stack' \in Seq(Frames) /\ Len(stack') = Len(stack)
            /\ \A i \in 1 .. Len(stack) : stack'[i].arg = stack[i].arg
            /\ \A i \in 2 .. Len(stack) : stack'[i] = stack[i]
        BY <1>2, <2>0, <4>1, ReturnKeepsArguments
      <4>3. StackDescends'
        BY <2>0, <4>2, ArgumentsKept
      <4>4. PendingNotRemembered'
        BY <2>0, <4>2 DEF PendingNotRemembered
      <4>5. AnswersRight'
        BY <2>0, <4>1, AnswersStayRight
      <4> QED
        BY <4>2, <4>3, <4>4, <4>5
    <3>2. CASE a \notin DOMAIN memo
      <4>1. stack' = <<Frame(a)>> \o stack /\ a \notin lru_map /\ UNCHANGED lru_map
        BY <1>2, <2>0, <3>2 DEF Enter
      <4>2. AnswersRight'
        <5>1. answers' = answers
          BY <1>2, <2>0, <3>2 DEF Enter
        <5> QED
          BY <2>0, <5>1 DEF AnswersRight
      <4> QED
        BY <1>2, <4>1, <4>2, PushDescends
    <3> QED
      BY <3>1, <3>2
  <2>3. MemoTypeOK'
    BY <2>0, <2>2 DEF MemoTypeOK
  <2> QED
    BY <2>1, <2>2, <2>3 DEF MemoIInv
<1>3. ASSUME MemoIInv, CallFromImpl PROVE MemoIInv'
  <2> DEFINE top == stack[1]
             a == Needs[top.arg][Len(top.values) + 1]
  <2>1. stack # <<>> /\ stack \in Seq(Frames)
    BY <1>3 DEF CallFromImpl, MemoIInv, MemoTypeOK
  <2>2. Head(stack) = top /\ top \in Frames
    BY <2>1
  <2>3. WaitsFor(top, a) /\ Enter(a)
    BY <1>3, <2>2 DEF CallFromImpl, WaitsFor
  <2> HIDE DEF a
  <2>4. a \in Arguments
    BY <2>2, <2>3, WaitedBelow
  <2> QED
    BY <1>2, <1>3, <2>3, <2>4
<1>4. ASSUME MemoIInv, ImplReturns PROVE MemoIInv'
  <2> DEFINE a == Head(stack).arg
             v == Value[a]
             waiting == Tail(stack)
  <2>0. stack # <<>> /\ stack \in Seq(Frames) /\ StackDescends /\ PendingNotRemembered /\ AnswersRight
    BY <1>4 DEF ImplReturns, MemoIInv, MemoTypeOK
  <2>1. /\ Head(stack) \in Frames /\ Head(stack) = stack[1] /\ waiting \in Seq(Frames)
        /\ Len(waiting) = Len(stack) - 1 /\ Len(stack) \in Nat /\ Len(stack) >= 1
        /\ \A i \in 1 .. Len(waiting) : waiting[i] = stack[i + 1]
    BY <2>0, HeadTailProperties
  <2>2. a \in Arguments /\ v \in Values
    BY <2>1, ZenonT(30) DEF Frames, Values
  <2>21. Result(Head(stack)) = v
    <3> DEFINE h == Head(stack)
               n == Len(Needs[a])
    <3>1. /\ h.values \in Seq(Values) /\ Len(h.values) = n
          /\ \A i \in 1 .. Len(h.values) : h.values[i] = Value[Needs[a][i]]
      BY <1>4, <2>1 DEF ImplReturns, Frames
    <3>2. n \in Nat
      BY <2>2, MemoAssumption
    <3>3. h.values = [i \in 1 .. n |-> h.values[i]]
      BY <3>1
    <3>4. h.values = [i \in 1 .. n |-> Value[Needs[a][i]]]
      BY <3>1, <3>3
    <3> QED
      BY <2>2, <3>4, ValueIs DEF Result
  <2>22. remember(a, v) /\ Return(waiting, a, v)
    BY <1>4, <2>21 DEF ImplReturns
  <2>3. a \notin lru_map
    <3>1. 1 \in DOMAIN stack
      BY <2>0, <2>1
    <3> QED
      BY <2>0, <2>1, <3>1 DEF PendingNotRemembered
  <2>4. /\ TablesAgree' /\ lru_list' \in Seq(Arguments) /\ memo' \in [lru_map' -> Values]
        /\ lru_map' \subseteq lru_map \cup {a}
        /\ \A b \in lru_map' : memo'[b] = IF b = a THEN v ELSE memo[b]
    BY <1>4, <2>2, <2>3, <2>22, RememberAgrees
  <2>40. waiting # <<>> => WaitsFor(waiting[1], a)
    <3> SUFFICES ASSUME waiting # <<>> PROVE WaitsFor(waiting[1], a)
      OBVIOUS
    <3>1. Len(waiting) >= 1 /\ Len(waiting) \in Nat
      BY <2>1
    <3>2. waiting[1] = stack[2] /\ 2 \in 2 .. Len(stack) /\ stack[2 - 1] = stack[1]
      <4>1. 1 \in 1 .. Len(waiting) /\ 1 + 1 = 2 /\ 2 - 1 = 1
        BY ONLY <3>1
      <4>2. waiting[1] = stack[2]
        BY ONLY <2>1, <4>1
      <4>3. 2 \in 2 .. Len(stack)
        BY ONLY SMTT(30), <2>1, <3>1
      <4> QED
        BY ONLY <4>1, <4>2, <4>3
    <3> QED
      BY <2>0, <2>1, <3>2 DEF StackDescends
  <2>5. /\ stack' \in Seq(Frames) /\ Len(stack') = Len(waiting)
        /\ \A i \in 1 .. Len(waiting) : stack'[i].arg = waiting[i].arg
        /\ \A i \in 2 .. Len(waiting) : stack'[i] = waiting[i]
    BY <2>1, <2>2, <2>22, <2>40, ReturnKeepsArguments
  <2>50. AnswersRight'
    <3>1. \A b \in DOMAIN memo' : memo'[b] = Value[b]
      <4>1. DOMAIN memo' = lru_map' /\ DOMAIN memo = lru_map
        BY <1>4, <2>4 DEF MemoIInv, MemoTypeOK
      <4> QED
        BY <2>0, <2>4, <4>1 DEF AnswersRight
    <3> QED
      BY <2>0, <2>22, <3>1, AnswersStayRight
  <2> HIDE DEF waiting
  <2>6. ASSUME NEW i \in 1 .. Len(waiting)
        PROVE  i + 1 \in 1 .. Len(stack) /\ stack'[i].arg = stack[i + 1].arg
    BY <2>1, <2>5
  <2>7. StackDescends'
    <3>1. ASSUME NEW i \in 1 .. Len(waiting), NEW j \in 1 .. Len(waiting), i < j
          PROVE  stack'[i].arg < stack'[j].arg
      <4>1. i + 1 < j + 1
        BY <2>1, <3>1
      <4> QED
        BY <2>0, <2>6, <4>1 DEF StackDescends
    <3>2. ASSUME NEW i \in 2 .. Len(waiting) PROVE WaitsFor(stack'[i], stack'[i - 1].arg)
      <4>1. i + 1 \in 2 .. Len(stack) /\ i + 1 - 1 = i /\ i \in 1 .. Len(waiting)
            /\ i - 1 \in 1 .. Len(waiting) /\ i - 1 + 1 = i
        BY <2>1
      <4>2. stack'[i] = stack[i + 1] /\ stack'[i - 1].arg = stack[i].arg
        BY <2>1, <2>5, <4>1
      <4> QED
        BY <2>0, <4>1, <4>2 DEF StackDescends
    <3> QED
      BY <2>5, <3>1, <3>2 DEF StackDescends
  <2>8. PendingNotRemembered'
    <3> SUFFICES ASSUME NEW i \in 1 .. Len(waiting) PROVE stack'[i].arg \notin lru_map'
      BY <2>5 DEF PendingNotRemembered
    <3>1. stack'[i].arg = stack[i + 1].arg /\ i + 1 \in 1 .. Len(stack)
      BY <2>6
    <3>2. stack[i + 1].arg \notin lru_map
      BY <2>0, <3>1 DEF PendingNotRemembered
    <3>3. a < stack[i + 1].arg
      <4>1. 1 \in 1 .. Len(stack) /\ 1 < i + 1
        BY <2>1
      <4> QED
        BY <2>0, <2>1, <3>1, <4>1 DEF StackDescends
    <3>4. a \in Nat
      BY <2>2, MemoAssumption
    <3> HIDE DEF a
    <3>5. stack[i + 1].arg # a
      BY <3>3, <3>4
    <3> QED
      BY <2>4, <3>1, <3>2, <3>5
  <2> QED
    BY <2>4, <2>5, <2>7, <2>8, <2>50 DEF MemoIInv, MemoTypeOK
<1>5. MemoIInv /\ [MemoNext]_memoVars => MemoIInv'
  <2> SUFFICES ASSUME MemoIInv, [MemoNext]_memoVars PROVE MemoIInv'
    OBVIOUS
  <2>1. ASSUME NEW a \in Arguments, CallFromOutside(a) PROVE MemoIInv'
    BY <1>2, <2>1 DEF CallFromOutside
  <2>2. CASE UNCHANGED memoVars
    BY <2>2 DEF memoVars, MemoIInv, MemoTypeOK, StackDescends, TablesAgree, PendingNotRemembered,
                AnswersRight
  <2> QED
    BY <1>3, <1>4, <2>1, <2>2 DEF MemoNext
<1> QED
  BY <1>1, <1>5, PTL DEF MemoSpec

\* The table, the list and its map hold the same arguments, never more than the
\* size given (Memo.hpp:54-82).
THEOREM MemoTablesAgree == MemoSpec => []TablesAgree
<1>1. MemoIInv => TablesAgree
  BY DEF MemoIInv
<1> QED
  BY <1>1, MemoInvariance, PTL

\* What impl is computing is not in the tables: the splice of remember() is never
\* reached (Memo.hpp:61-74).
THEOREM PendingStaysOut == MemoSpec => []PendingNotRemembered
<1>1. MemoIInv => PendingNotRemembered
  BY DEF MemoIInv
<1> QED
  BY <1>1, MemoInvariance, PTL

\* However much is forgotten and computed again while a call waits, every value in the
\* table and every value returned is the function's, and the tables agree.
THEOREM MemoSoundness == MemoSpec => []MemoSound
<1>1. MemoIInv => MemoSound
  BY DEF MemoIInv, MemoSound
<1> QED
  BY <1>1, MemoInvariance, PTL

-----------------------------------------------------------------------------
(***************************************************************************)
(* The images                                                              *)
(***************************************************************************)
HeapBlock == [size : Nat, frees : Nat, picture : Pictures \cup {NoPicture}]

Owner == [pixels : Nat, capacity : Nat, data : Nat]

ImagesTypeOK ==
  /\ Constructed \subseteq Image
  /\ held \in [Constructed -> Owner]
  /\ heap \in Seq(HeapBlock)
  /\ shown \in [Image -> Pictures \cup {NoPicture}]
  /\ \A i \in Constructed : held[i].data <= Len(heap)

\* Nothing is shown by an image that is not there.
UnshownBefore == \A i \in Image \ Constructed : shown[i] = NoPicture

ImagesIInv == ImagesTypeOK /\ OneOwner /\ PicturesKept /\ UnshownBefore

\* What the allocator does to the blocks.
LEMMA DeallocatedBlocks ==
  ASSUME NEW h \in Seq(HeapBlock), NEW b \in Nat, b <= Len(h)
  PROVE  /\ Deallocated(h, b) \in Seq(HeapBlock)
         /\ Len(Deallocated(h, b)) = Len(h)
         /\ \A k \in 1 .. Len(h) :
              /\ Deallocated(h, b)[k].size = h[k].size
              /\ Deallocated(h, b)[k].picture = h[k].picture
              /\ Deallocated(h, b)[k].frees = IF k = b THEN h[k].frees + 1 ELSE h[k].frees
<1>0. Len(h) \in Nat /\ \A k \in 1 .. Len(h) : h[k] \in HeapBlock
  OBVIOUS
<1>1. CASE b = NULL
  BY <1>0, <1>1 DEF Deallocated, NULL
<1>2. CASE b # NULL
  <2> DEFINE e == [h[b] EXCEPT !.frees = h[b].frees + 1]
  <2>1. b \in 1 .. Len(h) /\ h[b] \in HeapBlock
    BY <1>0, <1>2 DEF NULL
  <2>2. e \in HeapBlock /\ e.size = h[b].size /\ e.picture = h[b].picture /\ e.frees = h[b].frees + 1
    <3>1. ASSUME NEW w \in HeapBlock, NEW f \in Nat
          PROVE  /\ [w EXCEPT !.frees = f] \in HeapBlock
                 /\ [w EXCEPT !.frees = f].size = w.size
                 /\ [w EXCEPT !.frees = f].picture = w.picture
                 /\ [w EXCEPT !.frees = f].frees = f
      BY DEF HeapBlock
    <3>2. h[b].frees + 1 \in Nat
      BY <2>1 DEF HeapBlock
    <3> QED
      BY <2>1, <3>1, <3>2
  <2>3. Deallocated(h, b) = [h EXCEPT ![b] = e]
    BY <1>2 DEF Deallocated
  <2> HIDE DEF e
  <2> QED
    BY <1>0, <2>1, <2>2, <2>3, ExceptSeq
<1> QED
  BY <1>1, <1>2

LEMMA AllocatedBlocks ==
  ASSUME NEW h \in Seq(HeapBlock), NEW n \in Nat
  PROVE  /\ Allocated(h, n) \in Seq(HeapBlock)
         /\ Len(Allocated(h, n)) = Len(h) + 1
         /\ \A k \in 1 .. Len(h) : Allocated(h, n)[k] = h[k]
         /\ Allocated(h, n)[Len(h) + 1].size = n
         /\ Allocated(h, n)[Len(h) + 1].frees = 0
         /\ Allocated(h, n)[Len(h) + 1].picture = NoPicture
<1> DEFINE e == [size |-> n, frees |-> 0, picture |-> NoPicture]
<1>1. e \in HeapBlock /\ e.size = n /\ e.frees = 0 /\ e.picture = NoPicture
  BY DEF HeapBlock
<1>2. Allocated(h, n) = Append(h, e)
  BY DEF Allocated
<1> HIDE DEF e
<1> QED
  BY <1>1, <1>2, AppendProperties

LEMMA FilledBlocks ==
  ASSUME NEW h \in Seq(HeapBlock), NEW b \in 1 .. Len(h), NEW p \in Pictures \cup {NoPicture}
  PROVE  /\ Filled(h, b, p) \in Seq(HeapBlock)
         /\ Len(Filled(h, b, p)) = Len(h)
         /\ \A k \in 1 .. Len(h) :
              /\ Filled(h, b, p)[k].size = h[k].size
              /\ Filled(h, b, p)[k].frees = h[k].frees
              /\ Filled(h, b, p)[k].picture = IF k = b THEN p ELSE h[k].picture
<1> DEFINE e == [h[b] EXCEPT !.picture = p]
<1>0. Len(h) \in Nat /\ \A k \in 1 .. Len(h) : h[k] \in HeapBlock
  OBVIOUS
<1>1. e \in HeapBlock /\ e.size = h[b].size /\ e.frees = h[b].frees /\ e.picture = p
  <2>1. ASSUME NEW w \in HeapBlock
        PROVE  /\ [w EXCEPT !.picture = p] \in HeapBlock
               /\ [w EXCEPT !.picture = p].size = w.size
               /\ [w EXCEPT !.picture = p].frees = w.frees
               /\ [w EXCEPT !.picture = p].picture = p
    BY DEF HeapBlock
  <2> QED
    BY <1>0, <2>1
<1>2. Filled(h, b, p) = [h EXCEPT ![b] = e]
  BY DEF Filled
<1> HIDE DEF e
<1> QED
  BY <1>0, <1>1, <1>2, ExceptSeq

\* A block an image holds is one of the heap, alive, and its own.
LEMMA HeldBlocks ==
  ASSUME ImagesIInv, NEW x \in Constructed
  PROVE  /\ held[x] \in Owner /\ held[x].data \in Nat /\ held[x].pixels \in Nat
         /\ Len(heap) \in Nat /\ held[x].data <= Len(heap)
         /\ held[x].data # NULL =>
              /\ held[x].data \in 1 .. Len(heap)
              /\ heap[held[x].data].frees = 0
              /\ held[x].pixels <= heap[held[x].data].size
              /\ \A y \in Constructed : y # x => held[y].data # held[x].data
<1>1. held[x] \in Owner /\ held[x].data <= Len(heap) /\ Len(heap) \in Nat
  BY DEF ImagesIInv, ImagesTypeOK
<1>2. held[x].data \in Nat /\ held[x].pixels \in Nat
  BY <1>1 DEF Owner
<1>3. held[x].data # NULL => held[x].data \in 1 .. Len(heap)
  BY <1>1, <1>2 DEF NULL
<1> QED
  BY <1>1, <1>2, <1>3 DEF ImagesIInv, OneOwner

LEMMA FreesTyped ==
  ASSUME ImagesIInv, NEW k \in 1 .. Len(heap)
  PROVE  heap[k] \in HeapBlock /\ heap[k].frees \in Nat /\ heap[k].frees <= 1
<1>1. heap[k] \in HeapBlock /\ k \in DOMAIN heap
  BY DEF ImagesIInv, ImagesTypeOK
<1> QED
  BY <1>1 DEF HeapBlock, ImagesIInv, OneOwner

\* An image has given back the block it had, if any, and taken a new one, the
\* last of the heap: create() and all that is made of it.
Acquired(i, old, n, p) ==
  /\ \/ i \in Constructed /\ old = held[i].data
     \/ i \notin Constructed /\ old = NULL
  /\ heap' \in Seq(HeapBlock) /\ Len(heap') > Len(heap)
  /\ \A k \in 1 .. Len(heap) :
       /\ heap'[k].size = heap[k].size
       /\ heap'[k].picture = heap[k].picture
       /\ heap'[k].frees = IF k = old THEN heap[k].frees + 1 ELSE heap[k].frees
  /\ \A k \in Len(heap) + 1 .. Len(heap') - 1 : heap'[k].frees <= 1
  /\ heap'[Len(heap')].frees = 0 /\ heap'[Len(heap')].size = n
  /\ p = NoPicture \/ p = heap'[Len(heap')].picture
  /\ held' = [x \in Constructed \cup {i} |->
                IF x = i THEN [pixels |-> n, capacity |-> n, data |-> Len(heap')] ELSE held[x]]
  /\ shown' = [shown EXCEPT ![i] = p]

LEMMA Acquires ==
  ASSUME ImagesIInv, NEW i \in Image, NEW old \in Nat, NEW n \in Nat,
         NEW p \in Pictures \cup {NoPicture}, Acquired(i, old, n, p)
  PROVE  ImagesIInv'
<1> USE DEF Acquired
<1> DEFINE top == Len(heap')
           new == [pixels |-> n, capacity |-> n, data |-> top]
<1>0. /\ Len(heap) \in Nat /\ top \in Nat /\ top > Len(heap) /\ heap \in Seq(HeapBlock)
      /\ Constructed \subseteq Image /\ shown \in [Image -> Pictures \cup {NoPicture}]
  BY DEF ImagesIInv, ImagesTypeOK
<1>1. new \in Owner /\ new.pixels = n /\ new.data = top
  BY <1>0 DEF Owner
<1>2. Constructed' = Constructed \cup {i} /\ held'[i] = new
  BY DEF Constructed
<1> HIDE DEF top, new
<1>3. ASSUME NEW x \in Constructed', x # i
      PROVE  x \in Constructed /\ held'[x] = held[x]
  BY <1>2, <1>3
<1>4. ASSUME NEW x \in Constructed', x # i, held[x].data # NULL
      PROVE  /\ held[x].data \in 1 .. Len(heap) /\ held[x].data # old
             /\ held[x].pixels <= heap'[held[x].data].size
             /\ heap'[held[x].data].frees = 0
             /\ heap'[held[x].data].picture = heap[held[x].data].picture
  <2>1. x \in Constructed
    BY <1>3, <1>4
  <2>2. /\ held[x].data \in 1 .. Len(heap) /\ heap[held[x].data].frees = 0
        /\ held[x].pixels <= heap[held[x].data].size
        /\ \A y \in Constructed : y # x => held[y].data # held[x].data
    BY <1>4, <2>1, HeldBlocks
  <2>3. held[x].data # old
    BY <1>4, <2>2
  <2> QED
    BY <2>2, <2>3
<1>5. ImagesTypeOK'
  <2>1. held' \in [Constructed' -> Owner]
    <3>1. \A x \in Constructed \cup {i} : (IF x = i THEN new ELSE held[x]) \in Owner
      BY <1>1 DEF ImagesIInv, ImagesTypeOK
    <3>2. held' = [x \in Constructed \cup {i} |-> IF x = i THEN new ELSE held[x]]
      BY DEF new, top
    <3> QED
      BY <1>2, <3>1, <3>2
  <2>2. ASSUME NEW x \in Constructed' PROVE held'[x].data <= Len(heap')
    <3>1. CASE x = i
      BY <1>0, <1>1, <1>2, <3>1 DEF top
    <3>2. CASE x # i
      <4>1. x \in Constructed /\ held'[x] = held[x]
        BY <1>3, <3>2
      <4>2. held[x].data <= Len(heap) /\ held[x].data \in Nat
        BY <4>1, HeldBlocks
      <4>3. held[x].data <= top
        BY <1>0, <4>2
      <4> QED
        BY <4>1, <4>3 DEF top
    <3> QED
      BY <3>1, <3>2
  <2>3. shown' \in [Image -> Pictures \cup {NoPicture}]
    BY <1>0
  <2> QED
    BY <1>0, <1>2, <2>1, <2>2, <2>3 DEF ImagesTypeOK
<1>6. OneOwner'
  <2>1. ASSUME NEW k \in DOMAIN heap' PROVE heap'[k].frees <= 1
    <3>1. k \in 1 .. Len(heap) \/ k \in Len(heap) + 1 .. top - 1 \/ k = top
      BY <1>0 DEF top
    <3>2. CASE k \in 1 .. Len(heap)
      <4>1. heap[k].frees \in Nat /\ heap[k].frees <= 1
        BY <3>2, FreesTyped
      <4>2. k = old => heap[k].frees = 0
        BY <3>2, HeldBlocks DEF NULL
      <4> QED
        BY <3>2, <4>1, <4>2
    <3>3. CASE k \in Len(heap) + 1 .. top - 1
      BY <3>3 DEF top
    <3>4. CASE k = top
      BY <3>4 DEF top
    <3> QED
      BY <3>1, <3>2, <3>3, <3>4
  <2>2. ASSUME NEW x \in Constructed', held'[x].data # NULL
        PROVE  /\ heap'[held'[x].data].frees = 0
               /\ held'[x].pixels <= heap'[held'[x].data].size
               /\ \A y \in Constructed' : y # x => held'[y].data # held'[x].data
    <3>1. CASE x = i
      <4>1. ASSUME NEW y \in Constructed', y # i PROVE held'[y].data # top
        <5>1. y \in Constructed /\ held'[y] = held[y]
          BY <1>3, <4>1
        <5>2. held[y].data <= Len(heap) /\ held[y].data \in Nat
          BY <5>1, HeldBlocks
        <5> QED
          BY <1>0, <5>1, <5>2
      <4>2. held'[x].data = top /\ held'[x].pixels = n /\ n <= n
        BY <1>1, <1>2, <3>1
      <4>3. heap'[top].frees = 0 /\ heap'[top].size = n
        BY DEF top
      <4> QED
        BY <3>1, <4>1, <4>2, <4>3
    <3>2. CASE x # i
      <4>1. held'[x] = held[x] /\ x \in Constructed
        BY <1>3, <3>2
      <4>2. ASSUME NEW y \in Constructed', y # x PROVE held'[y].data # held[x].data
        <5>1. held[x].data \in 1 .. Len(heap)
          BY <1>4, <2>2, <3>2, <4>1
        <5>2. CASE y = i
          BY <1>0, <1>1, <1>2, <5>1, <5>2
        <5>3. CASE y # i
          <6>1. y \in Constructed /\ held'[y] = held[y]
            BY <1>3, <5>3
          <6> QED
            BY <2>2, <4>1, <4>2, <6>1, HeldBlocks
        <5> QED
          BY <5>2, <5>3
      <4> QED
        BY <1>4, <2>2, <3>2, <4>1, <4>2
    <3> QED
      BY <3>1, <3>2
  <2> QED
    BY <2>1, <2>2 DEF OneOwner
<1>7. PicturesKept'
  <2> SUFFICES ASSUME NEW x \in Constructed', shown'[x] # NoPicture
               PROVE  PictureOf(heap', held'[x].data) = shown'[x]
    BY DEF PicturesKept, PictureOf
  <2>1. CASE x = i
    BY <1>0, <1>1, <1>2, <2>1 DEF PictureOf, NULL, top
  <2>2. CASE x # i
    <3>1. x \in Constructed /\ held'[x] = held[x] /\ shown'[x] = shown[x]
      BY <1>0, <1>3, <2>2
    <3>2. PictureOf(heap, held[x].data) = shown[x]
      BY <3>1 DEF ImagesIInv, PicturesKept
    <3>3. held[x].data # NULL
      BY <3>1, <3>2 DEF PictureOf
    <3> QED
      BY <1>4, <2>2, <3>1, <3>2, <3>3 DEF PictureOf
  <2> QED
    BY <2>1, <2>2
<1>8. UnshownBefore'
  <2> SUFFICES ASSUME NEW x \in Image \ Constructed' PROVE shown'[x] = NoPicture
    BY DEF UnshownBefore
  <2>1. x \in Image \ Constructed /\ x # i
    BY <1>2
  <2> QED
    BY <1>0, <2>1 DEF ImagesIInv, UnshownBefore
<1> QED
  BY <1>5, <1>6, <1>7, <1>8 DEF ImagesIInv

\* An image gives its block back and stays empty or goes.
LEMMA Releases ==
  ASSUME ImagesIInv, NEW i \in Constructed,
         heap' = Reset(heap, held[i]),
         shown' = [shown EXCEPT ![i] = NoPicture],
         Constructed' \subseteq Constructed, Constructed \ Constructed' \subseteq {i},
         held' \in [Constructed' -> Owner],
         \A x \in Constructed' : held'[x] = IF x = i THEN Empty ELSE held[x]
  PROVE  ImagesIInv'
<1> DEFINE old == held[i].data
<1>0. /\ Len(heap) \in Nat /\ heap \in Seq(HeapBlock) /\ old \in Nat /\ old <= Len(heap)
      /\ Constructed \subseteq Image /\ shown \in [Image -> Pictures \cup {NoPicture}]
  BY HeldBlocks DEF ImagesIInv, ImagesTypeOK
<1>1. heap' = Deallocated(heap, old)
  BY DEF Reset
<1> HIDE DEF old
<1>2. /\ heap' \in Seq(HeapBlock) /\ Len(heap') = Len(heap)
      /\ \A k \in 1 .. Len(heap) :
           /\ heap'[k].size = heap[k].size
           /\ heap'[k].picture = heap[k].picture
           /\ heap'[k].frees = IF k = old THEN heap[k].frees + 1 ELSE heap[k].frees
  BY <1>0, <1>1, DeallocatedBlocks
<1>3. Empty \in Owner /\ Empty.data = NULL /\ NULL = 0
  BY DEF Empty, Owner, NULL
<1>4. ASSUME NEW x \in Constructed', held'[x].data # NULL
      PROVE  /\ x \in Constructed /\ x # i /\ held'[x] = held[x]
             /\ held[x].data \in 1 .. Len(heap) /\ held[x].data # old
             /\ held[x].pixels <= heap'[held[x].data].size
             /\ heap'[held[x].data].frees = 0
             /\ heap'[held[x].data].picture = heap[held[x].data].picture
             /\ \A y \in Constructed : y # x => held[y].data # held[x].data
  <2>1. x \in Constructed /\ x # i /\ held'[x] = held[x]
    BY <1>3, <1>4
  <2>2. /\ held[x].data \in 1 .. Len(heap) /\ heap[held[x].data].frees = 0
        /\ held[x].pixels <= heap[held[x].data].size
        /\ \A y \in Constructed : y # x => held[y].data # held[x].data
    BY <1>4, <2>1, HeldBlocks
  <2>3. held[x].data # old
    BY <2>1, <2>2 DEF old
  <2> QED
    BY <1>2, <2>1, <2>2, <2>3
<1>5. ImagesTypeOK'
  <2>1. ASSUME NEW x \in Constructed' PROVE held'[x].data <= Len(heap')
    <3>1. CASE x = i
      BY <1>0, <1>2, <1>3, <3>1
    <3>2. CASE x # i
      <4>1. x \in Constructed /\ held'[x] = held[x]
        BY <3>2
      <4> QED
        BY <1>2, <4>1, HeldBlocks
    <3> QED
      BY <3>1, <3>2
  <2> QED
    BY <1>0, <1>2, <2>1 DEF ImagesTypeOK
<1>6. OneOwner'
  <2>1. ASSUME NEW k \in DOMAIN heap' PROVE heap'[k].frees <= 1
    <3>1. k \in 1 .. Len(heap)
      BY <1>2
    <3>2. heap[k].frees \in Nat /\ heap[k].frees <= 1
      BY <3>1, FreesTyped
    <3>3. k = old => heap[k].frees = 0
      BY <3>1, HeldBlocks DEF NULL, old
    <3> QED
      BY <1>2, <3>1, <3>2, <3>3
  <2>2. ASSUME NEW x \in Constructed', held'[x].data # NULL
        PROVE  /\ heap'[held'[x].data].frees = 0
               /\ held'[x].pixels <= heap'[held'[x].data].size
               /\ \A y \in Constructed' : y # x => held'[y].data # held'[x].data
    <3>1. ASSUME NEW y \in Constructed', y # x PROVE held'[y].data # held'[x].data
      <4>1. CASE held'[y].data = NULL
        BY <2>2, <4>1
      <4>2. CASE held'[y].data # NULL
        BY <1>4, <2>2, <3>1, <4>2
      <4> QED
        BY <4>1, <4>2
    <3> QED
      BY <1>4, <2>2, <3>1
  <2> QED
    BY <2>1, <2>2 DEF OneOwner
<1>7. PicturesKept'
  <2> SUFFICES ASSUME NEW x \in Constructed', shown'[x] # NoPicture
               PROVE  PictureOf(heap', held'[x].data) = shown'[x]
    BY DEF PicturesKept, PictureOf
  <2>1. x # i /\ x \in Constructed /\ held'[x] = held[x] /\ shown'[x] = shown[x]
    BY <1>0
  <2>2. PictureOf(heap, held[x].data) = shown[x]
    BY <2>1 DEF ImagesIInv, PicturesKept
  <2>3. held[x].data # NULL
    BY <2>1, <2>2 DEF PictureOf
  <2> QED
    BY <1>4, <2>1, <2>2, <2>3 DEF PictureOf
<1>8. UnshownBefore'
  <2> SUFFICES ASSUME NEW x \in Image \ Constructed' PROVE shown'[x] = NoPicture
    BY DEF UnshownBefore
  <2>1. CASE x = i
    BY <1>0, <2>1
  <2>2. CASE x # i
    <3>1. x \in Image \ Constructed
      BY <2>2
    <3> QED
      BY <1>0, <2>2, <3>1 DEF ImagesIInv, UnshownBefore
  <2> QED
    BY <2>1, <2>2
<1> QED
  BY <1>5, <1>6, <1>7, <1>8 DEF ImagesIInv

\* An image takes the block of another over, which is left empty.
LEMMA TakesOver ==
  ASSUME ImagesIInv, NEW i \in Image, NEW j \in Constructed, i # j, NEW c \in Nat,
         TakeOver(i, c, j)
  PROVE  ImagesIInv'
<1>0. /\ Len(heap) \in Nat /\ heap \in Seq(HeapBlock) /\ heap' = heap
      /\ Constructed \subseteq Image /\ shown \in [Image -> Pictures \cup {NoPicture}]
      /\ held \in [Constructed -> Owner]
  BY DEF ImagesIInv, ImagesTypeOK, TakeOver
<1> DEFINE new == [held[j] EXCEPT !.capacity = c]
<1>1. new \in Owner /\ new.data = held[j].data /\ new.pixels = held[j].pixels
  <2>1. ASSUME NEW w \in Owner
        PROVE  /\ [w EXCEPT !.capacity = c] \in Owner
               /\ [w EXCEPT !.capacity = c].data = w.data
               /\ [w EXCEPT !.capacity = c].pixels = w.pixels
    BY DEF Owner
  <2> QED
    BY <1>0, <2>1
<1>2. held' = [x \in Constructed \cup {i} |-> IF x = i THEN new ELSE IF x = j THEN Empty ELSE held[x]]
  BY DEF TakeOver
<1>3. shown' = [shown EXCEPT ![i] = shown[j], ![j] = NoPicture]
  BY DEF TakeOver
<1> HIDE DEF new
<1>4. Empty \in Owner /\ Empty.data = NULL /\ NULL = 0
  BY DEF Empty, Owner, NULL
<1>5. /\ Constructed' = Constructed \cup {i} /\ held'[i] = new /\ held'[j] = Empty
      /\ \A x \in Constructed' : x # i /\ x # j => x \in Constructed /\ held'[x] = held[x]
  BY <1>2 DEF Constructed
<1>6. /\ shown' \in [Image -> Pictures \cup {NoPicture}] /\ shown'[i] = shown[j]
      /\ shown'[j] = NoPicture /\ \A x \in Image : x # i /\ x # j => shown'[x] = shown[x]
  BY <1>0, <1>3
<1>7. ImagesTypeOK'
  <2>1. held' \in [Constructed' -> Owner]
    <3>1. \A x \in Constructed \cup {i} :
             (IF x = i THEN new ELSE IF x = j THEN Empty ELSE held[x]) \in Owner
      BY <1>0, <1>1, <1>4
    <3> QED
      BY <1>2, <1>5, <3>1
  <2>2. ASSUME NEW x \in Constructed' PROVE held'[x].data <= Len(heap')
    <3>1. CASE x = i
      BY <1>0, <1>1, <1>5, <3>1, HeldBlocks
    <3>2. CASE x = j
      BY <1>0, <1>4, <1>5, <3>2
    <3>3. CASE x # i /\ x # j
      <4>1. x \in Constructed /\ held'[x] = held[x]
        BY <1>5, <3>3
      <4> QED
        BY <1>0, <4>1, HeldBlocks
    <3> QED
      BY <3>1, <3>2, <3>3
  <2>3. Constructed' \subseteq Image
    BY <1>0, <1>5
  <2> QED
    BY <1>0, <1>6, <2>1, <2>2, <2>3 DEF ImagesTypeOK
\* Who held the block that x holds now.
<1> DEFINE before(x) == IF x = i THEN j ELSE x
<1>8. ASSUME NEW x \in Constructed', held'[x].data # NULL
      PROVE  /\ before(x) \in Constructed /\ x # j
             /\ held'[x].data = held[before(x)].data /\ held'[x].pixels = held[before(x)].pixels
  <2>1. x # j
    BY <1>4, <1>5, <1>8
  <2>2. CASE x = i
    BY <1>1, <1>5, <2>1, <2>2
  <2>3. CASE x # i
    BY <1>5, <2>1, <2>3
  <2> QED
    BY <2>1, <2>2, <2>3
<1>9. OneOwner'
  <2>1. ASSUME NEW k \in DOMAIN heap' PROVE heap'[k].frees <= 1
    BY <1>0, <2>1 DEF ImagesIInv, OneOwner
  <2>2. ASSUME NEW x \in Constructed', held'[x].data # NULL
        PROVE  /\ heap'[held'[x].data].frees = 0
               /\ held'[x].pixels <= heap'[held'[x].data].size
               /\ \A y \in Constructed' : y # x => held'[y].data # held'[x].data
    <3>1. /\ before(x) \in Constructed /\ x # j
          /\ held'[x].data = held[before(x)].data /\ held'[x].pixels = held[before(x)].pixels
      BY <1>8, <2>2
    <3>2. /\ heap[held[before(x)].data].frees = 0
          /\ held[before(x)].pixels <= heap[held[before(x)].data].size
          /\ \A y \in Constructed : y # before(x) => held[y].data # held[before(x)].data
      BY <2>2, <3>1, HeldBlocks
    <3>3. ASSUME NEW y \in Constructed', y # x PROVE held'[y].data # held'[x].data
      <4>1. CASE held'[y].data = NULL
        BY <2>2, <4>1
      <4>2. CASE held'[y].data # NULL
        <5>1. before(y) \in Constructed /\ y # j /\ held'[y].data = held[before(y)].data
          BY <1>8, <4>2
        <5>2. before(y) # before(x)
          BY <3>1, <3>3, <5>1
        <5> QED
          BY <3>1, <3>2, <5>1, <5>2
      <4> QED
        BY <4>1, <4>2
    <3> QED
      BY <1>0, <3>1, <3>2, <3>3
  <2> QED
    BY <2>1, <2>2 DEF OneOwner
<1>10. PicturesKept'
  <2> SUFFICES ASSUME NEW x \in Constructed', shown'[x] # NoPicture
               PROVE  PictureOf(heap', held'[x].data) = shown'[x]
    BY DEF PicturesKept, PictureOf
  <2>1. x # j /\ shown'[x] = shown[before(x)] /\ before(x) \in Constructed
    BY <1>0, <1>5, <1>6
  <2>2. PictureOf(heap, held[before(x)].data) = shown[before(x)]
    BY <2>1 DEF ImagesIInv, PicturesKept
  <2>3. held'[x].data = held[before(x)].data
    BY <1>1, <1>5, <2>1
  <2> QED
    BY <1>0, <2>1, <2>2, <2>3 DEF PictureOf
<1>11. UnshownBefore'
  <2> SUFFICES ASSUME NEW x \in Image \ Constructed' PROVE shown'[x] = NoPicture
    BY DEF UnshownBefore
  <2>1. x \in Image \ Constructed /\ x # i /\ x # j
    BY <1>5
  <2> QED
    BY <1>6, <2>1 DEF ImagesIInv, UnshownBefore
<1> QED
  BY <1>7, <1>9, <1>10, <1>11 DEF ImagesIInv

\* g is h with block d given back and one of n pixels appended.
Grown(h, g, d, n) ==
  /\ g \in Seq(HeapBlock)
  /\ Len(g) = Len(h) + 1
  /\ \A k \in 1 .. Len(h) :
       /\ g[k].size = h[k].size
       /\ g[k].picture = h[k].picture
       /\ g[k].frees = IF k = d THEN h[k].frees + 1 ELSE h[k].frees
  /\ g[Len(h) + 1].size = n
  /\ g[Len(h) + 1].frees = 0
  /\ g[Len(h) + 1].picture = NoPicture

LEMMA CreatedBlocks ==
  ASSUME NEW h \in Seq(HeapBlock), NEW im, im.data \in Nat, im.data <= Len(h), NEW n \in Nat
  PROVE  Grown(h, Created(h, im, n), im.data, n)
<1> DEFINE g == Deallocated(h, im.data)
<1>1. /\ g \in Seq(HeapBlock) /\ Len(g) = Len(h)
      /\ \A k \in 1 .. Len(h) :
           /\ g[k].size = h[k].size
           /\ g[k].picture = h[k].picture
           /\ g[k].frees = IF k = im.data THEN h[k].frees + 1 ELSE h[k].frees
  BY DeallocatedBlocks
<1>2. Created(h, im, n) = Allocated(g, n)
  BY DEF Created, Reset
<1> HIDE DEF g
<1>3. /\ Allocated(g, n) \in Seq(HeapBlock) /\ Len(Allocated(g, n)) = Len(g) + 1
      /\ \A k \in 1 .. Len(g) : Allocated(g, n)[k] = g[k]
      /\ Allocated(g, n)[Len(g) + 1].size = n
      /\ Allocated(g, n)[Len(g) + 1].frees = 0
      /\ Allocated(g, n)[Len(g) + 1].picture = NoPicture
  BY <1>1, AllocatedBlocks
<1> DEFINE a == Allocated(g, n)
<1> HIDE DEF a
<1>4. /\ a \in Seq(HeapBlock) /\ Len(a) = Len(h) + 1
      /\ \A k \in 1 .. Len(h) :
           a[k].size = g[k].size /\ a[k].picture = g[k].picture /\ a[k].frees = g[k].frees
      /\ a[Len(h) + 1].size = n /\ a[Len(h) + 1].frees = 0 /\ a[Len(h) + 1].picture = NoPicture
  BY <1>1, <1>3 DEF a
<1>5. Created(h, im, n) = a
  BY <1>2 DEF a
<1>6. Grown(h, a, im.data, n)
  BY <1>1, <1>4 DEF Grown
<1> QED
  BY <1>5, <1>6

\* The block an image has or had before it is created anew.
LEMMA HadBefore ==
  ASSUME ImagesIInv, NEW i \in Image, NEW im,
         \/ i \in Constructed /\ im = held[i]
         \/ i \notin Constructed /\ im = Empty
  PROVE  /\ heap \in Seq(HeapBlock) /\ Len(heap) \in Nat
         /\ im.data \in Nat /\ im.data <= Len(heap)
         /\ \/ i \in Constructed /\ im.data = held[i].data
            \/ i \notin Constructed /\ im.data = NULL
<1>1. heap \in Seq(HeapBlock) /\ Len(heap) \in Nat
  BY DEF ImagesIInv, ImagesTypeOK
<1>2. CASE i \in Constructed /\ im = held[i]
  BY <1>1, <1>2, HeldBlocks
<1>3. CASE i \notin Constructed /\ im = Empty
  BY <1>1, <1>3 DEF Empty, NULL
<1> QED
  BY <1>2, <1>3

LEMMA CreatesFilled ==
  ASSUME ImagesIInv, NEW i \in Image, NEW im, NEW n \in Nat,
         \/ i \in Constructed /\ im = held[i]
         \/ i \notin Constructed /\ im = Empty,
         NEW q \in Pictures \cup {NoPicture}, NEW p \in {q, NoPicture},
         \/ heap' = Filled(Created(heap, im, n), Len(Created(heap, im, n)), q)
         \/ heap' = Created(heap, im, n) /\ q = NoPicture,
         Becomes(i, Holder(Created(heap, im, n), n)), Shows(i, p)
  PROVE  ImagesIInv'
<1> DEFINE h == Created(heap, im, n)
           old == im.data
<1>0. /\ heap \in Seq(HeapBlock) /\ Len(heap) \in Nat /\ old \in Nat /\ old <= Len(heap)
      /\ \/ i \in Constructed /\ old = held[i].data
         \/ i \notin Constructed /\ old = NULL
  BY HadBefore
<1>1. /\ h \in Seq(HeapBlock) /\ Len(h) = Len(heap) + 1
      /\ \A k \in 1 .. Len(heap) :
           /\ h[k].size = heap[k].size
           /\ h[k].picture = heap[k].picture
           /\ h[k].frees = IF k = old THEN heap[k].frees + 1 ELSE heap[k].frees
      /\ h[Len(heap) + 1].size = n /\ h[Len(heap) + 1].frees = 0
      /\ h[Len(heap) + 1].picture = NoPicture
  <2>1. Grown(heap, h, old, n)
    BY <1>0, CreatedBlocks
  <2> QED
    BY <2>1 DEF Grown
<1>2. heap' = Filled(h, Len(h), q) \/ (heap' = h /\ q = NoPicture)
  OBVIOUS
<1>3. held' = [x \in Constructed \cup {i} |->
                 IF x = i THEN [pixels |-> n, capacity |-> n, data |-> Len(h)] ELSE held[x]]
  BY DEF Becomes, Holder
<1>4. shown' = [shown EXCEPT ![i] = p]
  BY DEF Shows
<1> HIDE DEF h, old
<1>5. /\ heap' \in Seq(HeapBlock) /\ Len(heap') = Len(h)
      /\ \A k \in 1 .. Len(h) :
           /\ heap'[k].size = h[k].size
           /\ heap'[k].frees = h[k].frees
           /\ heap'[k].picture = IF k = Len(h) THEN q ELSE h[k].picture
  <2>1. CASE heap' = Filled(h, Len(h), q)
    <3>1. Len(h) \in 1 .. Len(h)
      BY <1>0, <1>1
    <3> QED
      BY <1>1, <2>1, <3>1, FilledBlocks
  <2>2. CASE heap' = h /\ q = NoPicture
    BY <1>1, <2>2
  <2> QED
    BY <1>2, <2>1, <2>2
<1>6. Len(heap') = Len(heap) + 1 /\ Len(heap') > Len(heap)
  BY <1>0, <1>1, <1>5
<1>7. \A k \in 1 .. Len(heap) :
        /\ heap'[k].size = heap[k].size
        /\ heap'[k].picture = heap[k].picture
        /\ heap'[k].frees = IF k = old THEN heap[k].frees + 1 ELSE heap[k].frees
  <2> TAKE k \in 1 .. Len(heap)
  <2>1. k \in 1 .. Len(h) /\ k # Len(h)
    BY <1>0, <1>1
  <2> QED
    BY <1>1, <1>5, <2>1
<1>8. heap'[Len(heap')].size = n /\ heap'[Len(heap')].frees = 0 /\ heap'[Len(heap')].picture = q
  <2>1. Len(h) \in 1 .. Len(h) /\ Len(h) = Len(heap) + 1
    BY <1>0, <1>1
  <2> QED
    BY <1>1, <1>5, <2>1
<1>9. \A k \in Len(heap) + 1 .. Len(heap') - 1 : heap'[k].frees <= 1
  BY <1>0, <1>6
<1>10. p \in Pictures \cup {NoPicture} /\ (p = NoPicture \/ p = heap'[Len(heap')].picture)
  BY <1>8
<1>11. held' = [x \in Constructed \cup {i} |->
                 IF x = i THEN [pixels |-> n, capacity |-> n, data |-> Len(heap')] ELSE held[x]]
  BY <1>3, <1>5
<1>12. Acquired(i, old, n, p)
  BY <1>0, <1>4, <1>5, <1>6, <1>7, <1>8, <1>9, <1>10, <1>11 DEF Acquired
<1> QED
  BY <1>0, <1>10, <1>12, Acquires

LEMMA Copies ==
  ASSUME ImagesIInv, NEW i \in Image, NEW j \in Constructed, NEW im,
         \/ i \in Constructed /\ im = held[i]
         \/ i \notin Constructed /\ im = Empty,
         CopyInto(i, im, j)
  PROVE  ImagesIInv'
<1> DEFINE n == held[j].pixels
           h == Created(heap, im, n)
           q == PictureOf(h, held[j].data)
<1>0. /\ heap \in Seq(HeapBlock) /\ Len(heap) \in Nat /\ im.data \in Nat /\ im.data <= Len(heap)
      /\ n \in Nat /\ held[j].data \in Nat /\ held[j].data <= Len(heap)
      /\ held[j].data # NULL => held[j].data \in 1 .. Len(heap)
      /\ shown[j] \in Pictures \cup {NoPicture}
  BY HadBefore, HeldBlocks DEF ImagesIInv, ImagesTypeOK
<1>1. \A k \in 1 .. Len(heap) : h[k].picture = heap[k].picture
  <2>1. Grown(heap, h, im.data, n)
    BY <1>0, CreatedBlocks
  <2> QED
    BY <2>1 DEF Grown
<1>2. heap' = Filled(h, Len(h), q) /\ Becomes(i, Holder(h, n)) /\ Shows(i, shown[j])
  BY DEF CopyInto
<1>3. q = PictureOf(heap, held[j].data)
  BY <1>0, <1>1 DEF PictureOf
<1>4. q \in Pictures \cup {NoPicture}
  <2>1. \A k \in 1 .. Len(heap) : heap[k].picture \in Pictures \cup {NoPicture}
    <3>1. \A k \in 1 .. Len(heap) : heap[k] \in HeapBlock
      BY <1>0
    <3> QED
      BY <3>1 DEF HeapBlock
  <2> QED
    BY <1>0, <1>3, <2>1 DEF PictureOf
<1>5. shown[j] \in {q, NoPicture}
  BY <1>3 DEF ImagesIInv, PicturesKept
<1> HIDE DEF q, n
<1> QED
  BY <1>0, <1>2, <1>4, <1>5, CreatesFilled

\* resize() makes a temporary image, creates its own block, and gives the
\* temporary's back.
LEMMA Resizes ==
  ASSUME ImagesIInv, NEW i \in Image, NEW n \in Dimensions, Resize(i, n)
  PROVE  ImagesIInv'
<1> DEFINE t == Len(heap) + 1
           h1 == Created(heap, Empty, n)
           h2 == Created(h1, held[i], n)
           old == held[i].data
<1>0. /\ i \in Constructed /\ n \in Nat /\ heap \in Seq(HeapBlock) /\ Len(heap) \in Nat
      /\ Empty.data = 0 /\ old \in Nat /\ old <= Len(heap)
  BY HeldBlocks, ImagesAssumption DEF ImagesIInv, ImagesTypeOK, Resize, Empty, NULL
<1>1. /\ h1 \in Seq(HeapBlock) /\ Len(h1) = t
      /\ \A k \in 1 .. Len(heap) :
           /\ h1[k].size = heap[k].size /\ h1[k].picture = heap[k].picture
           /\ h1[k].frees = IF k = Empty.data THEN heap[k].frees + 1 ELSE heap[k].frees
      /\ h1[t].frees = 0
  <2>1. Empty.data \in Nat /\ Empty.data <= Len(heap)
    BY <1>0
  <2>2. Grown(heap, h1, Empty.data, n)
    BY <1>0, <2>1, CreatedBlocks
  <2> QED
    BY <2>2 DEF Grown
<1>2. /\ heap' = Deallocated(h2, t)
      /\ held' = [x \in Constructed \cup {i} |->
                    IF x = i THEN [pixels |-> n, capacity |-> n, data |-> Len(h2)] ELSE held[x]]
      /\ shown' = [shown EXCEPT ![i] = NoPicture]
  BY DEF Resize, Becomes, Holder, Shows
<1> HIDE DEF h1, old
<1>3. /\ h2 \in Seq(HeapBlock) /\ Len(h2) = Len(h1) + 1
      /\ \A k \in 1 .. Len(h1) :
           /\ h2[k].size = h1[k].size /\ h2[k].picture = h1[k].picture
           /\ h2[k].frees = IF k = old THEN h1[k].frees + 1 ELSE h1[k].frees
      /\ h2[Len(h1) + 1].size = n /\ h2[Len(h1) + 1].frees = 0
  <2> DEFINE im == held[i]
  <2>1. h2 = Created(h1, im, n)
    OBVIOUS
  <2>2. /\ old = im.data /\ im.data \in Nat /\ im.data <= Len(h1)
        /\ h1 \in Seq(HeapBlock) /\ n \in Nat
    BY <1>0, <1>1 DEF old
  <2>3. Grown(h1, h2, im.data, n)
    BY <2>2, CreatedBlocks
  <2> HIDE DEF im, h2
  <2> QED
    BY <2>2, <2>3 DEF Grown
<1> HIDE DEF h2, t
<1>4. t \in Nat /\ t = Len(heap) + 1 /\ Len(h2) = t + 1
  BY <1>0, <1>1, <1>3 DEF t
<1>5. /\ heap' \in Seq(HeapBlock) /\ Len(heap') = Len(h2)
      /\ \A k \in 1 .. Len(h2) :
           /\ heap'[k].size = h2[k].size
           /\ heap'[k].picture = h2[k].picture
           /\ heap'[k].frees = IF k = t THEN h2[k].frees + 1 ELSE h2[k].frees
  BY <1>2, <1>3, <1>4, DeallocatedBlocks
<1>6. \A k \in 1 .. Len(heap) :
        /\ heap'[k].size = heap[k].size
        /\ heap'[k].picture = heap[k].picture
        /\ heap'[k].frees = IF k = old THEN heap[k].frees + 1 ELSE heap[k].frees
  <2> TAKE k \in 1 .. Len(heap)
  <2>1. k \in 1 .. Len(h1) /\ k \in 1 .. Len(h2) /\ k # t /\ k # Empty.data
    BY <1>0, <1>1, <1>4
  <2> QED
    BY <1>1, <1>3, <1>5, <2>1
<1>7. heap'[t].frees <= 1
  <2>1. t \in 1 .. Len(h1) /\ t \in 1 .. Len(h2) /\ t # old
    BY <1>0, <1>1, <1>4
  <2>2. heap'[t].frees = 0 + 1
    BY <1>1, <1>3, <1>5, <2>1
  <2> QED
    BY <2>2
<1>8. heap'[Len(heap')].frees = 0 /\ heap'[Len(heap')].size = n
  <2>1. Len(h1) + 1 \in 1 .. Len(h2) /\ Len(h1) + 1 # t /\ Len(heap') = Len(h1) + 1
    BY <1>1, <1>3, <1>4, <1>5
  <2> QED
    BY <1>3, <1>5, <2>1
<1>9. /\ Len(heap') > Len(heap) /\ \A k \in Len(heap) + 1 .. Len(heap') - 1 : k = t
  BY <1>0, <1>4, <1>5
<1> DEFINE p == NoPicture
<1>10. p \in Pictures \cup {NoPicture} /\ (p = NoPicture \/ p = heap'[Len(heap')].picture)
  OBVIOUS
<1>11. \/ i \in Constructed /\ old = held[i].data
       \/ i \notin Constructed /\ old = NULL
  BY <1>0 DEF old
<1>12. held' = [x \in Constructed \cup {i} |->
                 IF x = i THEN [pixels |-> n, capacity |-> n, data |-> Len(heap')] ELSE held[x]]
  BY <1>2, <1>5
<1>13. \A k \in Len(heap) + 1 .. Len(heap') - 1 : heap'[k].frees <= 1
  BY <1>7, <1>9
<1>14. Acquired(i, old, n, p)
  BY <1>2, <1>5, <1>6, <1>8, <1>9, <1>10, <1>11, <1>12, <1>13 DEF Acquired
<1> QED
  BY <1>0, <1>10, <1>14, Acquires

LEMMA Fills ==
  ASSUME ImagesIInv, NEW i \in Image, NEW p \in Pictures, Fill(i, p)
  PROVE  ImagesIInv'
<1> DEFINE b == held[i].data
<1>0. /\ i \in Constructed /\ heap \in Seq(HeapBlock) /\ Len(heap) \in Nat
      /\ b \in 1 .. Len(heap) /\ b # NULL /\ shown \in [Image -> Pictures \cup {NoPicture}]
      /\ held' = held /\ shown' = [shown EXCEPT ![i] = p] /\ heap' = Filled(heap, b, p)
  BY HeldBlocks DEF ImagesIInv, ImagesTypeOK, Fill, Shows
<1> HIDE DEF b
<1>1. /\ heap' \in Seq(HeapBlock) /\ Len(heap') = Len(heap)
      /\ \A k \in 1 .. Len(heap) :
           /\ heap'[k].size = heap[k].size
           /\ heap'[k].frees = heap[k].frees
           /\ heap'[k].picture = IF k = b THEN p ELSE heap[k].picture
  BY <1>0, FilledBlocks
<1>2. Constructed' = Constructed
  BY <1>0 DEF Constructed
<1>3. ImagesTypeOK'
  BY <1>0, <1>1, <1>2 DEF ImagesIInv, ImagesTypeOK
<1>4. OneOwner'
  <2>1. ASSUME NEW x \in Constructed, held[x].data # NULL
        PROVE  /\ heap'[held[x].data].frees = 0
               /\ held[x].pixels <= heap'[held[x].data].size
               /\ \A y \in Constructed : y # x => held[y].data # held[x].data
    BY <1>1, <2>1, HeldBlocks
  <2>2. ASSUME NEW k \in DOMAIN heap' PROVE heap'[k].frees <= 1
    BY <1>1, FreesTyped
  <2> QED
    BY <1>0, <1>2, <2>1, <2>2 DEF OneOwner
<1>5. PicturesKept'
  <2> SUFFICES ASSUME NEW x \in Constructed, shown'[x] # NoPicture
               PROVE  PictureOf(heap', held[x].data) = shown'[x]
    BY <1>0, <1>2 DEF PicturesKept, PictureOf
  <2>1. CASE x = i
    BY <1>0, <1>1, <2>1 DEF PictureOf, ImagesIInv, ImagesTypeOK, b
  <2>2. CASE x # i
    <3>1. shown'[x] = shown[x]
      BY <1>0, <2>2 DEF ImagesIInv, ImagesTypeOK
    <3>2. PictureOf(heap, held[x].data) = shown[x] /\ held[x].data # NULL
      BY <3>1 DEF ImagesIInv, PicturesKept, PictureOf
    <3>3. held[x].data \in 1 .. Len(heap) /\ held[x].data # b
      BY <1>0, <2>2, <3>2, HeldBlocks DEF b
    <3> QED
      BY <1>1, <3>1, <3>2, <3>3 DEF PictureOf
  <2> QED
    BY <2>1, <2>2
<1>6. UnshownBefore'
  <2> SUFFICES ASSUME NEW x \in Image \ Constructed PROVE shown'[x] = NoPicture
    BY <1>2 DEF UnshownBefore
  <2> QED
    BY <1>0 DEF ImagesIInv, UnshownBefore
<1> QED
  BY <1>3, <1>4, <1>5, <1>6 DEF ImagesIInv

LEMMA Constructs ==
  ASSUME ImagesIInv, NEW i \in Image, Construct(i)
  PROVE  ImagesIInv'
<1>0. /\ i \notin Constructed /\ heap' = heap /\ shown' = shown
      /\ held' = [x \in Constructed \cup {i} |-> IF x = i THEN Empty ELSE held[x]]
      /\ held \in [Constructed -> Owner] /\ Constructed \subseteq Image
      /\ Len(heap) \in Nat /\ heap \in Seq(HeapBlock)
  BY DEF Construct, Becomes, ImagesIInv, ImagesTypeOK
<1>1. Empty \in Owner /\ Empty.data = NULL /\ NULL = 0
  BY DEF Empty, Owner, NULL
<1>2. /\ Constructed' = Constructed \cup {i} /\ held'[i] = Empty
      /\ \A x \in Constructed : held'[x] = held[x]
  BY <1>0 DEF Constructed
<1>3. held' \in [Constructed' -> Owner]
  <2>1. \A x \in Constructed \cup {i} : (IF x = i THEN Empty ELSE held[x]) \in Owner
    BY <1>0, <1>1
  <2> QED
    BY <1>0, <1>2, <2>1
<1>4. ImagesTypeOK'
  <2>1. \A x \in Constructed' : held'[x].data <= Len(heap')
    BY <1>0, <1>1, <1>2 DEF ImagesIInv, ImagesTypeOK
  <2> QED
    BY <1>0, <1>2, <1>3, <2>1 DEF ImagesIInv, ImagesTypeOK
<1>5. OneOwner'
  <2>1. ASSUME NEW x \in Constructed', held'[x].data # NULL
        PROVE  /\ heap[held'[x].data].frees = 0
               /\ held'[x].pixels <= heap[held'[x].data].size
               /\ \A y \in Constructed' : y # x => held'[y].data # held'[x].data
    <3>1. x \in Constructed /\ held'[x] = held[x]
      BY <1>1, <1>2, <2>1
    <3>2. ASSUME NEW y \in Constructed', y # x PROVE held'[y].data # held[x].data
      BY <1>1, <1>2, <2>1, <3>1, <3>2, HeldBlocks
    <3> QED
      BY <2>1, <3>1, <3>2, HeldBlocks
  <2>2. \A k \in DOMAIN heap : heap[k].frees <= 1
    BY DEF ImagesIInv, OneOwner
  <2> QED
    BY <1>0, <2>1, <2>2 DEF OneOwner
<1>6. PicturesKept'
  <2> SUFFICES ASSUME NEW x \in Constructed', shown[x] # NoPicture
               PROVE  PictureOf(heap, held'[x].data) = shown[x]
    BY <1>0 DEF PicturesKept, PictureOf
  <2>1. x \in Constructed
    BY <1>0, <1>2 DEF ImagesIInv, UnshownBefore
  <2> QED
    BY <1>2, <2>1 DEF ImagesIInv, PicturesKept
<1>7. UnshownBefore'
  <2> SUFFICES ASSUME NEW x \in Image \ Constructed' PROVE shown[x] = NoPicture
    BY <1>0 DEF UnshownBefore
  <2> QED
    BY <1>2 DEF ImagesIInv, UnshownBefore
<1> QED
  BY <1>4, <1>5, <1>6, <1>7 DEF ImagesIInv

\* reset() and the destructor
LEMMA GivesBack ==
  ASSUME ImagesIInv, NEW i \in Image, ResetImage(i) \/ Destroy(i)
  PROVE  ImagesIInv'
<1>0. /\ i \in Constructed /\ heap' = Reset(heap, held[i])
      /\ shown' = [shown EXCEPT ![i] = NoPicture] /\ held \in [Constructed -> Owner]
  BY DEF ResetImage, Destroy, Shows, ImagesIInv, ImagesTypeOK
<1>1. Empty \in Owner
  BY DEF Empty, Owner, NULL
<1>2. /\ Constructed' \subseteq Constructed /\ Constructed \ Constructed' \subseteq {i}
      /\ held' \in [Constructed' -> Owner]
      /\ \A x \in Constructed' : held'[x] = IF x = i THEN Empty ELSE held[x]
  <2>1. CASE ResetImage(i)
    <3>1. held' = [x \in Constructed \cup {i} |-> IF x = i THEN Empty ELSE held[x]]
      BY <2>1 DEF ResetImage, Becomes
    <3>2. Constructed' = Constructed
      BY <1>0, <3>1 DEF Constructed
    <3>3. \A x \in Constructed \cup {i} : (IF x = i THEN Empty ELSE held[x]) \in Owner
      BY <1>0, <1>1
    <3> QED
      BY <1>0, <3>1, <3>2, <3>3
  <2>2. CASE Destroy(i)
    <3>1. held' = [x \in Constructed \ {i} |-> held[x]]
      BY <2>2 DEF Destroy
    <3>2. Constructed' = Constructed \ {i}
      BY <3>1 DEF Constructed
    <3> QED
      BY <1>0, <3>1, <3>2
  <2> QED
    BY <2>1, <2>2
<1> QED
  BY <1>0, <1>2, Releases

\* What holds in every state of the images.
THEOREM ImagesInvariance == ImagesSpec => []ImagesIInv
<1>1. ImagesInit => ImagesIInv
  <2> SUFFICES ASSUME ImagesInit PROVE ImagesIInv
    OBVIOUS
  <2>1. Constructed = {} /\ held = << >> /\ heap = << >> /\ shown = [i \in Image |-> NoPicture]
    BY DEF ImagesInit, Constructed
  <2>2. << >> \in Seq(HeapBlock)
    OBVIOUS
  <2>3. held \in [Constructed -> Owner]
    BY <2>1
  <2>4. ImagesTypeOK
    BY <2>1, <2>2, <2>3 DEF ImagesTypeOK
  <2>5. OneOwner
    BY <2>1 DEF OneOwner
  <2>6. PicturesKept /\ UnshownBefore
    BY <2>1 DEF PicturesKept, UnshownBefore
  <2> QED
    BY <2>4, <2>5, <2>6 DEF ImagesIInv
<1>2. ImagesIInv /\ [ImagesNext]_imagesVars => ImagesIInv'
  <2> SUFFICES ASSUME ImagesIInv, [ImagesNext]_imagesVars PROVE ImagesIInv'
    OBVIOUS
  <2>0. NoPicture \in Pictures \cup {NoPicture} /\ Dimensions \subseteq Nat
    BY ImagesAssumption
  <2>1. ASSUME NEW i \in Image, Construct(i) PROVE ImagesIInv'
    BY <2>1, Constructs
  <2>2. ASSUME NEW i \in Image, NEW n \in Dimensions, Create(i, n) PROVE ImagesIInv'
    <3>1. /\ i \in Constructed /\ heap' = Created(heap, held[i], n)
          /\ Becomes(i, Holder(Created(heap, held[i], n), n)) /\ Shows(i, NoPicture)
      BY <2>2 DEF Create, Becomes, Holder
    <3> DEFINE im == held[i]
               q == NoPicture
               p == NoPicture
    <3>2. heap' = Created(heap, im, n) /\ q = NoPicture /\ p \in {q, NoPicture}
      BY <3>1
    <3> QED
      BY <2>0, <3>1, <3>2, CreatesFilled
  <2>3. ASSUME NEW i \in Image, NEW n \in Dimensions, Resize(i, n) PROVE ImagesIInv'
    BY <2>3, Resizes
  <2>4. ASSUME NEW i \in Image, NEW n \in Dimensions, NEW p \in Pictures, ConstructFilled(i, n, p)
        PROVE  ImagesIInv'
    <3>1. /\ i \notin Constructed
          /\ heap' = Filled(Created(heap, Empty, n), Len(Created(heap, Empty, n)), p)
          /\ Becomes(i, Holder(Created(heap, Empty, n), n)) /\ Shows(i, p)
      BY <2>4 DEF ConstructFilled
    <3> QED
      BY <2>0, <3>1, CreatesFilled
  <2>5. ASSUME NEW i \in Image, NEW j \in Image, ConstructCopy(i, j) \/ AssignCopy(i, j)
        PROVE  ImagesIInv'
    BY <2>5, Copies DEF ConstructCopy, AssignCopy
  <2>6. ASSUME NEW i \in Image, NEW j \in Image, ConstructMove(i, j) \/ AssignMove(i, j)
        PROVE  ImagesIInv'
    <3>1. CASE ConstructMove(i, j)
      <4>1. j \in Constructed /\ i # j /\ TakeOver(i, 0, j) /\ 0 \in Nat
        BY <3>1 DEF ConstructMove
      <4> QED
        BY <4>1, TakesOver
    <3>2. CASE AssignMove(i, j)
      <4>1. j \in Constructed /\ i # j /\ TakeOver(i, held[i].capacity, j) /\ i \in Constructed
        BY <3>2 DEF AssignMove
      <4>2. held[i].capacity \in Nat
        BY <4>1, HeldBlocks DEF Owner
      <4> QED
        BY <4>1, <4>2, TakesOver
    <3> QED
      BY <2>6, <3>1, <3>2
  <2>7. ASSUME NEW i \in Image, ResetImage(i) \/ Destroy(i) PROVE ImagesIInv'
    BY <2>7, GivesBack
  <2>8. ASSUME NEW i \in Image, NEW p \in Pictures, Fill(i, p) PROVE ImagesIInv'
    BY <2>8, Fills
  <2>9. CASE UNCHANGED imagesVars
    <3>1. held' = held /\ heap' = heap /\ shown' = shown
      BY <2>9 DEF imagesVars
    <3>2. ImagesTypeOK' /\ OneOwner'
      BY <3>1 DEF ImagesIInv, ImagesTypeOK, OneOwner, Constructed
    <3>3. PicturesKept' /\ UnshownBefore'
      BY <3>1 DEF ImagesIInv, PicturesKept, UnshownBefore, PictureOf, Constructed
    <3> QED
      BY <3>2, <3>3 DEF ImagesIInv
  <2> QED
    BY <2>1, <2>2, <2>3, <2>4, <2>5, <2>6, <2>7, <2>8, <2>9 DEF ImagesNext
<1> QED
  BY <1>1, <1>2, PTL DEF ImagesSpec

(***************************************************************************)
(* However many images there are, of whatever sizes: whatever is copied,   *)
(* moved, resized and destroyed, no block is freed twice, and an image is  *)
(* the only owner of a living block that has the picture put in it.        *)
(***************************************************************************)
THEOREM ImagesOwnedAndKept == ImagesSpec => []OwnedAndKept
<1>1. ImagesIInv => OwnedAndKept
  BY DEF ImagesIInv, OwnedAndKept
<1> QED
  BY <1>1, ImagesInvariance, PTL

(***************************************************************************)
(* The bump allocator                                                      *)
(***************************************************************************)
Extent == [data : Nat, size : Nat, alignment : TypeSizes]

AllocTypeOK ==
  /\ start \in Nat
  /\ pool \in [data : Nat, size : Nat]
  /\ allocated \in Nat /\ discarded \in Nat
  /\ blocks \subseteq Extent

AllocIInv == AllocTypeOK /\ BlocksApart

\* What std::align skips reaches a multiple of the alignment.
LEMMA PaddingAligns ==
  ASSUME NEW d \in Nat, NEW a \in Nat \ {0}
  PROVE  /\ (a - (d % a)) % a \in Nat
         /\ (d + ((a - (d % a)) % a)) % a = 0
<1> DEFINE q == d \div a
           r == d % a
<1>1. q \in Nat /\ r \in 0 .. a - 1 /\ d = a * q + r
  BY Z3
<1> HIDE DEF q, r
<1>2. CASE r = 0
  <2> DEFINE p == (a - (d % a)) % a
  <2>1. d % a = 0
    BY <1>2 DEF r
  <2>2. a - 0 = a /\ a % a = 0
    BY Z3
  <2>3. p = 0
    BY <2>1, <2>2, Zenon
  <2> HIDE DEF p
  <2>4. p \in Nat /\ d + p = d
    BY <2>3
  <2>5. (d + p) % a = 0
    BY <2>1, <2>4, Zenon
  <2> QED
    BY <2>4, <2>5 DEF p
<1>3. CASE r # 0
  <2>1. a - r \in 1 .. a - 1
    BY <1>1, <1>3
  <2>2. (a - r) % a = a - r
    BY <2>1, Z3
  <2>3. d + (a - r) = a * (q + 1)
    BY <1>1, Z3
  <2>4. (a * (q + 1)) % a = 0
    <3>1. \A k \in Nat : (a * k) % a = 0
      BY Z3
    <3> QED
      BY <1>1, <3>1
  <2> QED
    BY <2>1, <2>2, <2>3, <2>4 DEF r
<1> QED
  BY <1>2, <1>3

\* One block more: it starts past all the others, where the pool ends.
LEMMA Allocates ==
  ASSUME AllocIInv, NEW t \in TypeSizes, NEW n \in 0 .. MaxCount, Allocate(t, n)
  PROVE  AllocIInv'
<1> DEFINE p == Padding(t)
           s == t * n
           new == [data |-> pool.data + p, size |-> s, alignment |-> t]
<1>0. /\ t \in Nat \ {0} /\ n \in Nat /\ pool.data \in Nat /\ pool.size \in Nat
      /\ start \in Nat /\ allocated \in Nat /\ discarded \in Nat /\ blocks \subseteq Extent
  BY AllocAssumption DEF AllocIInv, AllocTypeOK
<1>1. s \in Nat
  BY <1>0, Z3
<1>2. p \in Nat /\ (pool.data + p) % t = 0
  BY <1>0, PaddingAligns DEF Padding
<1>3. /\ p + s <= pool.size
      /\ discarded' = discarded + p /\ allocated' = allocated + s /\ start' = start
      /\ pool' = [data |-> pool.data + p + s, size |-> pool.size - p - s]
      /\ blocks' = blocks \cup {new}
  BY DEF Allocate, Rest
<1>4. new.data = pool.data + p /\ new.size = s /\ new.alignment = t
  OBVIOUS
<1> HIDE DEF p, s
<1>5. new \in Extent
  BY <1>0, <1>1, <1>2 DEF Extent
<1> HIDE DEF new
<1>6. /\ pool'.data = pool.data + p + s /\ pool'.size = pool.size - p - s
      /\ pool'.data \in Nat /\ pool'.size \in Nat
  BY <1>0, <1>1, <1>2, <1>3
<1>7. AllocTypeOK'
  <2>1. pool' \in [data : Nat, size : Nat]
    BY <1>3, <1>6
  <2> QED
    BY <1>0, <1>1, <1>2, <1>3, <1>5, <2>1 DEF AllocTypeOK
<1>8. ASSUME NEW b \in blocks
      PROVE  /\ b.data \in Nat /\ b.size \in Nat /\ b.data % b.alignment = 0
             /\ start <= b.data /\ b.data + b.size <= pool.data
             /\ \A c \in blocks : b = c \/ b.data + b.size <= c.data \/ c.data + c.size <= b.data
  <2>1. b \in Extent
    BY <1>0
  <2> QED
    BY <2>1 DEF Extent, AllocIInv, BlocksApart
<1>9. start <= pool.data
  <2>1. pool.data + pool.size = start + PoolSize /\ allocated + discarded + pool.size = PoolSize
    BY DEF AllocIInv, BlocksApart
  <2> QED
    BY <1>0, <2>1, AllocAssumption
<1>10. ASSUME NEW b \in blocks'
       PROVE  /\ b.data % b.alignment = 0
              /\ start' <= b.data /\ b.data + b.size <= pool'.data
  <2>1. CASE b \in blocks
    BY <1>0, <1>1, <1>2, <1>3, <1>6, <1>8, <2>1
  <2>2. CASE b = new
    <3>1. new.data % new.alignment = 0
      BY <1>2, <1>4
    <3>2. start <= new.data /\ new.data + new.size <= pool'.data
      BY <1>0, <1>1, <1>2, <1>4, <1>6, <1>9
    <3> QED
      BY <1>3, <2>2, <3>1, <3>2
  <2> QED
    BY <1>3, <2>1, <2>2
<1>11. ASSUME NEW b \in blocks', NEW c \in blocks'
       PROVE  b = c \/ b.data + b.size <= c.data \/ c.data + c.size <= b.data
  <2>1. \A x \in blocks : x.data + x.size <= new.data
    <3> TAKE x \in blocks
    <3>1. x.data \in Nat /\ x.size \in Nat /\ x.data + x.size <= pool.data
      BY <1>8
    <3> QED
      BY <1>0, <1>2, <1>4, <3>1
  <2>2. CASE b \in blocks /\ c \in blocks
    BY <1>8, <2>2
  <2>3. CASE b = new \/ c = new
    BY <1>3, <2>1, <2>3
  <2> QED
    BY <1>3, <2>2, <2>3
<1>12. /\ pool'.data + pool'.size = start' + PoolSize
       /\ allocated' + discarded' + pool'.size = PoolSize
  <2>1. pool.data + pool.size = start + PoolSize /\ allocated + discarded + pool.size = PoolSize
    BY DEF AllocIInv, BlocksApart
  <2> QED
    BY <1>0, <1>1, <1>2, <1>3, <1>6, <2>1, AllocAssumption
<1> QED
  BY <1>7, <1>10, <1>11, <1>12 DEF AllocIInv, BlocksApart

\* What holds in every state of the allocator.
THEOREM AllocInvariance == AllocSpec => []AllocIInv
<1>1. AllocInit => AllocIInv
  <2> SUFFICES ASSUME AllocInit PROVE AllocIInv
    OBVIOUS
  <2>1. /\ start \in Nat /\ pool = [data |-> start, size |-> PoolSize] /\ PoolSize \in Nat
        /\ allocated = 0 /\ discarded = 0 /\ blocks = {}
    BY AllocAssumption DEF AllocInit
  <2>2. pool \in [data : Nat, size : Nat] /\ pool.data = start /\ pool.size = PoolSize
    BY <2>1
  <2> QED
    BY <2>1, <2>2 DEF AllocIInv, AllocTypeOK, BlocksApart
<1>2. AllocIInv /\ [AllocNext]_allocVars => AllocIInv'
  <2> SUFFICES ASSUME AllocIInv, [AllocNext]_allocVars PROVE AllocIInv'
    OBVIOUS
  <2>1. CASE AllocNext
    BY <2>1, Allocates DEF AllocNext
  <2>2. CASE UNCHANGED allocVars
    BY <2>2 DEF allocVars, AllocIInv, AllocTypeOK, BlocksApart
  <2> QED
    BY <2>1, <2>2
<1> QED
  BY <1>1, <1>2, PTL DEF AllocSpec

(***************************************************************************)
(* Wherever the pool starts, however large it is and whatever is asked     *)
(* for, the blocks are aligned, inside the pool and apart, and every byte  *)
(* is counted once.                                                        *)
(***************************************************************************)
THEOREM BlocksStayApart == AllocSpec => []BlocksApart
<1>1. AllocIInv => BlocksApart
  BY DEF AllocIInv
<1> QED
  BY <1>1, AllocInvariance, PTL

-----------------------------------------------------------------------------
(***************************************************************************)
(* The timers                                                              *)
(***************************************************************************)

LEMMA DivBounds ==
    ASSUME NEW x \in Int, NEW d \in Nat \ {0}
    PROVE  x \div d \in Int /\ d * (x \div d) <= x /\ x < d * (x \div d) + d
  BY Z3

LEMMA MulMono ==
    ASSUME NEW a \in Int, NEW b \in Int, NEW d \in Nat, a <= b
    PROVE  d * a <= d * b
  BY Z3

LEMMA MulAssoc ==
    ASSUME NEW a \in Int, NEW b \in Int, NEW c \in Int
    PROVE  a * b * c = b * (a * c)
  BY Z3

LEMMA MulDistr ==
    ASSUME NEW a \in Int, NEW b \in Int, NEW c \in Int
    PROVE  /\ a * (b + c) = a * b + a * c
           /\ a * (b - c) = a * b - a * c
  BY Z3

\* What AccurateTimer::next_tick_at returns where no start() interferes.
AccurateTick(started, every, at) ==
    started + every * WantedCount(Millis(started), every, at) * Sub

\* AccurateTimer::next_tick_at (Timer.hpp:101): the tick is ahead of the wait's start,
\* by less than a period and a millisecond, wherever in a millisecond the timer was
\* started and the wait begins.
LEMMA AccurateTickBounds ==
    ASSUME NEW started \in Nat, NEW at \in Nat, NEW every \in Nat \ {0},
           Sub \in Nat \ {0}
    PROVE  /\ AccurateTick(started, every, at) \in Int
           /\ AccurateTick(started, every, at) - at \in 1 .. (every + 1) * Sub - 1
  <1> DEFINE a == at \div Sub
             s == started \div Sub
             q == (a - s) \div every
  <1>1. a \in Int /\ Sub * a <= at /\ at < Sub * a + Sub
    BY DivBounds
  <1>2. s \in Int /\ Sub * s <= started /\ started < Sub * s + Sub
    BY DivBounds
  <1>3. q \in Int /\ every * q <= a - s /\ a - s < every * q + every
    BY <1>1, <1>2, DivBounds
  <1> HIDE DEF a, s, q
  <1> DEFINE k == every * (q + 1)
  <1>4. k \in Int /\ k = every * q + every
    BY <1>3, MulDistr
  <1>5. a - s + 1 <= k /\ k <= a - s + every
    BY <1>1, <1>2, <1>3, <1>4
  <1> HIDE DEF k
  <1>6. Sub * (a - s + 1) <= Sub * k /\ Sub * k <= Sub * (a - s + every)
    BY <1>1, <1>2, <1>4, <1>5, MulMono
  <1>7. /\ Sub * (a - s + 1) = Sub * a - Sub * s + Sub
        /\ Sub * (a - s + every) = Sub * a - Sub * s + Sub * every
    BY <1>1, <1>2, Z3
  <1>8. (every + 1) * Sub = Sub * every + Sub
    BY Z3
  <1>9. AccurateTick(started, every, at) = started + Sub * k
    <2>1. Millis(started) = s /\ WantedCount(s, every, at) = q + 1
      BY DEF Millis, WantedCount, a, s, q
    <2>2. AccurateTick(started, every, at) = started + every * (q + 1) * Sub
      BY ONLY <2>1 DEF AccurateTick
    <2>3. every * (q + 1) = k
      BY DEF k
    <2>4. k * Sub = Sub * k
      BY ONLY <1>4, Sub \in Nat \ {0}, Z3
    <2> QED
      BY ONLY <2>2, <2>3, <2>4
  <1> QED
    BY <1>1, <1>2, <1>4, <1>6, <1>7, <1>8, <1>9

\* A multiple of the period between two instants separates their periods.
LEMMA PeriodsApart ==
    ASSUME NEW x \in Int, NEW y \in Int, NEW n \in Int, NEW d \in Nat \ {0},
           x < n * d, n * d <= y
    PROVE  x \div d < y \div d
  <1>1. x \div d \in Int /\ d * (x \div d) <= x
    BY DivBounds
  <1>2. y \div d \in Int /\ y < d * (y \div d) + d
    BY DivBounds
  <1>3. x \div d < n
    <2> SUFFICES ASSUME n <= x \div d PROVE FALSE
      BY <1>1
    <2> d * n <= d * (x \div d)
      BY <1>1, MulMono
    <2> QED
      BY <1>1, Z3
  <1>4. n <= y \div d
    <2> SUFFICES ASSUME (y \div d) + 1 <= n PROVE FALSE
      BY <1>2
    <2>1. d * ((y \div d) + 1) <= d * n
      BY <1>2, MulMono
    <2>2. d * ((y \div d) + 1) = d * (y \div d) + d
      BY <1>2, MulDistr
    <2>3. d * n = n * d
      OBVIOUS
    <2> QED
      BY <1>2, <2>1, <2>2, <2>3
  <1> QED
    BY <1>1, <1>2, <1>3, <1>4

-----------------------------------------------------------------------------
LEMMA Units == Sub \in Nat \ {0} /\ \A e \in Periods : e \in Nat \ {0} /\ e * Sub \in Nat \ {0}
  BY TimerAssumption, Z3

LEMMA WantedIsInt ==
    ASSUME NEW started \in Nat, NEW at \in Nat, NEW every \in Nat \ {0}
    PROVE  /\ Millis(started) \in Int
           /\ WantedCount(Millis(started), every, at) \in Int
           /\ every * WantedCount(Millis(started), every, at) \in Int
  <1>1. PICK a \in Int, s \in Int : a = Millis(at) /\ s = Millis(started)
    BY Units, DivBounds DEF Millis
  <1>2. (a - s) \div every \in Int
    BY ONLY <1>1, a \in Int, s \in Int, every \in Nat \ {0}, DivBounds
  <1>3. PICK q \in Int : q = (a - s) \div every
    BY ONLY <1>2
  <1>4. WantedCount(s, every, at) = q + 1
    BY ONLY <1>1, <1>3 DEF WantedCount
  <1>5. every * (q + 1) \in Int
    BY ONLY q \in Int, every \in Nat \ {0}, Z3
  <1> QED
    BY ONLY <1>1, <1>4, <1>5, q \in Int, s \in Int

\* A plan is worked out from fields that are still there, or torn says that they are not.
LEMMA PlanSteps ==
    ASSUME IInv, PlanFrom \/ PlanCount \/ PlanDuration
    PROVE  partial' \in Int /\ PlanKept'
  <1>1. /\ m_every \in Nat \ {0} /\ m_started_at \in Nat /\ m_last_wait_start \in Nat
        /\ now \in Nat /\ partial \in Int /\ m_last_wait_start <= now
    BY Units DEF IInv, TypeOK, Past
  <1>2. PICK from, wanted, long :
           /\ from = Millis(m_started_at)
           /\ wanted = WantedCount(from, m_every, m_last_wait_start)
           /\ long = m_every * wanted
           /\ from \in Int /\ wanted \in Int /\ long \in Int
    BY ONLY <1>1, WantedIsInt
  <1>3. /\ torn => rpc \in Planning /\ last_tick = -1
        /\ rpc \in {"count", "duration"} => kind = "accurate"
        /\ kind = "accurate" /\ ~torn =>
             /\ rpc = "count" => partial = from
             /\ rpc = "duration" => partial = wanted
    BY ONLY <1>2, IInv DEF IInv, PlanKept
  <1>4. UNCHANGED <<kind, m_started_at, m_every, m_last_wait_start, torn, last_tick, now>>
    BY DEF PlanFrom, PlanCount, PlanDuration, outside
  <1>5. SUFFICES
          /\ partial' \in Int
          /\ torn => rpc' \in Planning
          /\ rpc' \in {"count", "duration"} => kind = "accurate"
          /\ rpc' = "tick" /\ kind = "sleep" => partial' = now
          /\ kind = "accurate" /\ ~torn =>
               /\ rpc' = "count" => partial' = from
               /\ rpc' = "duration" => partial' = wanted
               /\ rpc' = "tick" => partial' = long
    BY ONLY <1>1, <1>2, <1>3, <1>4, <1>5 DEF PlanKept
  <1>6. CASE PlanFrom
    BY <1>1, <1>2, <1>3, <1>6 DEF PlanFrom, Planning, IInv, TypeOK
  <1>7. CASE PlanCount
    <2>1. rpc = "count" /\ rpc' = "duration" /\ partial' = WantedCount(partial, m_every, m_last_wait_start)
      BY <1>7 DEF PlanCount, Runner
    <2>2. partial' \in Int
      <3>1. Millis(m_last_wait_start) \in Int
        BY ONLY <1>1, WantedIsInt
      <3>2. PICK x \in Int : x = Millis(m_last_wait_start) - partial
        BY ONLY <1>1, <3>1
      <3>3. x \div m_every \in Int
        BY ONLY <1>1, DivBounds, x \in Int
      <3> QED
        BY ONLY <2>1, <3>2, <3>3 DEF WantedCount
    <2> QED
      BY ONLY <1>2, <1>3, <2>1, <2>2 DEF Planning
  <1>8. CASE PlanDuration
    <2>1. rpc = "duration" /\ rpc' = "tick" /\ partial' = m_every * partial /\ kind # "sleep"
      BY ONLY <1>3, <1>8 DEF PlanDuration, Runner
    <2>2. partial' \in Int
      BY ONLY <1>1, <2>1, Z3
    <2> QED
      BY ONLY <1>2, <1>3, <2>1, <2>2 DEF Planning
  <1> QED
    BY <1>6, <1>7, <1>8

\* The instant that AccurateTimer returns from fields that are still there is a whole
\* number of periods after the start, ahead of the wait's start and by less than a period
\* and a millisecond.
LEMMA PlanEnds ==
    ASSUME IInv, PlanTick
    PROVE  /\ m_next_tick_at' \in Int
           /\ kind = "sleep" =>
                /\ m_next_tick_at' = partial + m_every * Sub
                /\ m_last_wait_start <= partial /\ partial <= now
           /\ kind = "accurate" /\ ~torn =>
                /\ m_next_tick_at' - m_last_wait_start \in 1 .. (m_every + 1) * Sub - 1
                /\ \E n \in Int : m_next_tick_at' = m_started_at + n * (m_every * Sub)
  <1>1. /\ m_every \in Nat \ {0} /\ Sub \in Nat \ {0} /\ m_started_at \in Nat
        /\ m_last_wait_start \in Nat /\ partial \in Int
    BY Units DEF IInv, TypeOK
  <1>2. rpc = "tick"
    BY DEF PlanTick, Runner
  <1>3. CASE kind = "sleep"
    <2>1. m_next_tick_at' = partial + m_every * Sub
      BY <1>3 DEF PlanTick
    <2>2. m_every * Sub \in Int
      BY ONLY <1>1, Z3
    <2>3. m_last_wait_start <= partial /\ partial <= now
      BY <1>2, <1>3 DEF IInv, PlanKept
    <2> QED
      BY ONLY <1>1, <1>3, <2>1, <2>2, <2>3
  <1>4. CASE kind = "accurate"
    <2>1. m_next_tick_at' = m_started_at + partial * Sub
      BY <1>4 DEF PlanTick
    <2>2. m_next_tick_at' \in Int
      BY ONLY <1>1, <2>1, Z3
    <2>3. ASSUME ~torn
          PROVE  /\ m_next_tick_at' - m_last_wait_start \in 1 .. (m_every + 1) * Sub - 1
                 /\ \E n \in Int : m_next_tick_at' = m_started_at + n * (m_every * Sub)
      <3>1. PICK n \in Int :
               n = WantedCount(Millis(m_started_at), m_every, m_last_wait_start)
        BY ONLY <1>1, WantedIsInt
      <3>2. partial = m_every * n
        BY <1>2, <1>4, <2>3, <3>1 DEF IInv, PlanKept
      <3>3. m_next_tick_at' = AccurateTick(m_started_at, m_every, m_last_wait_start)
        BY ONLY <2>1, <3>1, <3>2 DEF AccurateTick
      <3>4. m_every * n * Sub = n * (m_every * Sub)
        BY ONLY <1>1, n \in Int, Z3
      <3>5. m_next_tick_at' = m_started_at + n * (m_every * Sub)
        BY ONLY <2>1, <3>2, <3>4
      <3>6. m_next_tick_at' - m_last_wait_start \in 1 .. (m_every + 1) * Sub - 1
        BY ONLY <1>1, <3>3, AccurateTickBounds
      <3> QED
        BY ONLY <3>5, <3>6, n \in Int
    <2> QED
      BY ONLY <1>4, <2>2, <2>3
  <1> QED
    BY <1>3, <1>4 DEF IInv, TypeOK

\* m_cv_mutex is held exactly inside the critical section of run(), a returned cancel()
\* found it free and the timer stays disarmed until a start(), what next_tick_at() has
\* worked out agrees with the fields unless a start() wrote one, and the tick waited for
\* is a period after the last one: together these are preserved by every step of the
\* runner, the controllers and the clock.
THEOREM TimerInvariance == Init /\ [][Next]_vars => []IInv
<1>1. Init => IInv
  <2> SUFFICES ASSUME Init PROVE IInv
    OBVIOUS
  <2> USE DEF Init
  <2>1. now \in Nat /\ now = m_started_at
    BY Units
  <2>2. TypeOK
    <3>1. cpc \in [Controllers -> ControllerLocations] /\ read \in [Controllers -> Nat]
      BY Zenon DEF ControllerLocations
    <3>2. starts \in Nat /\ last_tick \in Nat \union {-1} /\ m_next_tick_at \in Int
          /\ m_last_wait_start \in Nat /\ partial \in Int
      OBVIOUS
    <3>3. rpc \in RunnerLocations
      BY DEF RunnerLocations
    <3> QED
      BY <2>1, <3>1, <3>2, <3>3, Zenon DEF TypeOK
  <2>3. Past
    BY <2>1 DEF Past, Planning
  <2>4. PlanKept
    BY DEF PlanKept
  <2> QED
    BY <2>2, <2>3, <2>4
    DEF IInv, HeldInside, Holding, Planning, QuietDisarmed, NoTickAfterCancel, Ahead,
        DueWhenArmed
<1>2. IInv /\ [Next]_vars => IInv'
  <2> SUFFICES ASSUME IInv, [Next]_vars PROVE IInv'
    OBVIOUS
  <2>20. CASE PlanFrom
    <3> USE <2>20 DEF PlanFrom
    <3>1. partial' \in Int /\ PlanKept'
      BY PlanSteps
    <3> QED
      BY <3>1 DEF IInv, RunnerLocations, Holding, Planning, TypeOK, HeldInside,
                  QuietDisarmed, NoTickAfterCancel, Past, Ahead, DueWhenArmed, outside
  <2>21. CASE PlanCount \/ PlanDuration
    <3>1. partial' \in Int /\ PlanKept'
      BY <2>21, PlanSteps
    <3>2. /\ rpc \in {"count", "duration"} /\ rpc' \in {"duration", "tick"}
          /\ UNCHANGED <<outside, m_last_wait_start, m_next_tick_at, m_cv_mutex, notified,
                         torn, last_tick>>
      BY <2>21 DEF PlanCount, PlanDuration, Runner
    <3> QED
      BY <3>1, <3>2 DEF IInv, RunnerLocations, Holding, Planning, TypeOK, HeldInside,
                  QuietDisarmed, NoTickAfterCancel, Past, Ahead, DueWhenArmed, outside
  <2>22. CASE PlanTick
    <3>1. /\ rpc = "tick" /\ rpc' = "test" /\ partial' = 0 /\ torn' = FALSE
          /\ UNCHANGED <<outside, m_last_wait_start, m_cv_mutex, notified, last_tick>>
      BY <2>22 DEF PlanTick, Runner
    <3>2. m_every * Sub \in Nat \ {0}
      BY Units DEF IInv, TypeOK
    <3>3. Ahead'
      <4>1. CASE kind = "sleep"
        <5>1. m_next_tick_at' = partial + m_every * Sub /\ m_last_wait_start <= partial
          BY <2>22, <4>1, PlanEnds
        <5> QED
          BY <3>1, <3>2, <4>1, <5>1 DEF Ahead, Past, Planning, IInv, TypeOK, outside
      <4>2. CASE kind = "accurate" /\ ~torn
        <5>1. m_next_tick_at' \in Int /\ m_next_tick_at' > m_last_wait_start
          <6>1. m_next_tick_at' - m_last_wait_start \in 1 .. (m_every + 1) * Sub - 1
            BY <2>22, <4>2, PlanEnds
          <6> QED
            BY <2>22, <6>1, PlanEnds DEF IInv, TypeOK
        <5>2. PICK n \in Int : m_next_tick_at' = m_started_at + n * (m_every * Sub)
          BY <2>22, <4>2, PlanEnds
        <5>3. m_next_tick_at' > last_tick
          BY <3>1, <5>1 DEF Past, Planning, IInv, TypeOK
        <5> QED
          BY <3>1, <4>2, <5>2, <5>3 DEF Ahead, outside
      <4>3. CASE torn
        BY <3>1, <4>3 DEF Ahead, PlanKept, IInv
      <4> QED
        BY <4>1, <4>2, <4>3 DEF IInv, TypeOK
    <3>4. PlanKept'
      BY <3>1 DEF PlanKept
    <3>5. m_next_tick_at' \in Int
      BY <2>22, PlanEnds
    <3>6. TypeOK'
      <4>1. rpc' \in RunnerLocations /\ partial' \in Int
        BY ONLY <3>1 DEF RunnerLocations
      <4>4. torn' \in BOOLEAN
        BY ONLY <3>1, Zenon
      <4>2. UNCHANGED <<kind, m_armed, m_started_at, m_every, now, m_last_wait_start,
                        m_cv_mutex, notified, cpc, read, starts, quiet, last_tick>>
        BY ONLY <3>1 DEF outside
      <4>3. TypeOK
        BY DEF IInv
      <4> QED
        BY ONLY <3>5, <4>1, <4>2, <4>3, <4>4 DEF TypeOK
    <3>7. Past'
      BY <3>1 DEF IInv, Past, Planning, outside
    <3>8. HeldInside' /\ QuietDisarmed' /\ NoTickAfterCancel' /\ DueWhenArmed'
      BY <3>1 DEF IInv, Holding, Planning, HeldInside, QuietDisarmed, NoTickAfterCancel,
                  DueWhenArmed, outside
    <3> QED
      BY ONLY <3>3, <3>4, <3>6, <3>7, <3>8 DEF IInv
  <2>13. ASSUME NEW c \in Controllers, StartClock(c) PROVE IInv'
    <3> USE <2>13 DEF StartClock, Controller
    <3>1. TypeOK'
      BY DEF IInv, TypeOK, RunnerLocations, ControllerLocations, inside
    <3>2. Past'
      BY DEF IInv, TypeOK, Past, Planning, inside
    <3>3. PlanKept'
      BY DEF IInv, TypeOK, PlanKept, Planning, inside
    <3>4. HeldInside' /\ QuietDisarmed' /\ NoTickAfterCancel'
      BY DEF IInv, Holding, Planning, HeldInside, QuietDisarmed, NoTickAfterCancel, inside
    <3>5. Ahead' /\ DueWhenArmed'
      BY DEF IInv, TypeOK, Ahead, DueWhenArmed, inside
    <3> QED
      BY ONLY <3>1, <3>2, <3>3, <3>4, <3>5 DEF IInv
  <2>23. ASSUME NEW c \in Controllers, StartAt(c) PROVE IInv'
    <3> USE <2>23 DEF StartAt, Controller
    <3>1. TypeOK'
      BY DEF IInv, TypeOK, RunnerLocations, ControllerLocations, inside
    <3>2. Past'
      BY DEF IInv, TypeOK, Past, Planning, inside
    <3>3. PlanKept'
      BY DEF IInv, TypeOK, PlanKept, Planning, inside
    <3>4. HeldInside' /\ QuietDisarmed' /\ NoTickAfterCancel'
      BY DEF IInv, Holding, Planning, HeldInside, QuietDisarmed, NoTickAfterCancel, inside
    <3>5. Ahead' /\ DueWhenArmed'
      BY DEF IInv, TypeOK, Ahead, DueWhenArmed, inside
    <3> QED
      BY ONLY <3>1, <3>2, <3>3, <3>4, <3>5 DEF IInv
  <2>25. ASSUME NEW c \in Controllers, StartEvery(c) PROVE IInv'
    <3> USE <2>25 DEF StartEvery, Controller
    <3>1. TypeOK'
      BY DEF IInv, TypeOK, RunnerLocations, ControllerLocations, inside
    <3>2. Past'
      BY DEF IInv, TypeOK, Past, Planning, inside
    <3>3. PlanKept'
      BY DEF IInv, TypeOK, PlanKept, Planning, inside
    <3>4. HeldInside' /\ QuietDisarmed' /\ NoTickAfterCancel'
      BY DEF IInv, Holding, Planning, HeldInside, QuietDisarmed, NoTickAfterCancel, inside
    <3>5. Ahead' /\ DueWhenArmed'
      BY DEF IInv, TypeOK, Ahead, DueWhenArmed, inside
    <3> QED
      BY ONLY <3>1, <3>2, <3>3, <3>4, <3>5 DEF IInv
  <2>14. ASSUME NEW c \in Controllers, StartArm(c) PROVE IInv'
    <3> USE <2>14 DEF StartArm, Controller
    <3>1. TypeOK'
      BY DEF IInv, TypeOK, RunnerLocations, ControllerLocations, inside
    <3>2. Past'
      BY DEF IInv, TypeOK, Past, Planning, inside
    <3>3. PlanKept'
      BY DEF IInv, TypeOK, PlanKept, Planning, inside
    <3>4. HeldInside' /\ QuietDisarmed' /\ NoTickAfterCancel'
      BY DEF IInv, Holding, Planning, HeldInside, QuietDisarmed, NoTickAfterCancel, inside
    <3>5. Ahead' /\ DueWhenArmed'
      BY DEF IInv, TypeOK, Ahead, DueWhenArmed, inside
    <3> QED
      BY ONLY <3>1, <3>2, <3>3, <3>4, <3>5 DEF IInv
  <2>17. ASSUME NEW c \in Controllers, CancelNotify(c) PROVE IInv'
    <3> USE <2>17 DEF CancelNotify, Controller
    <3>1. TypeOK'
      BY DEF IInv, TypeOK, RunnerLocations, ControllerLocations, inside
    <3>2. Past'
      BY DEF IInv, TypeOK, Past, Planning, inside
    <3>3. PlanKept'
      BY DEF IInv, TypeOK, PlanKept, Planning, inside
    <3>4. HeldInside' /\ QuietDisarmed' /\ NoTickAfterCancel'
      BY DEF IInv, Holding, Planning, HeldInside, QuietDisarmed, NoTickAfterCancel, inside
    <3>5. Ahead' /\ DueWhenArmed'
      BY DEF IInv, TypeOK, Ahead, DueWhenArmed, inside
    <3> QED
      BY ONLY <3>1, <3>2, <3>3, <3>4, <3>5 DEF IInv
  <2>16. ASSUME NEW c \in Controllers, CancelStore(c) PROVE IInv'
    <3> USE <2>16 DEF CancelStore, Controller
    <3>1. TypeOK'
      BY DEF IInv, TypeOK, RunnerLocations, ControllerLocations, inside
    <3>2. Past'
      BY DEF IInv, TypeOK, Past, Planning, inside
    <3>3. PlanKept'
      BY DEF IInv, TypeOK, PlanKept, Planning, inside
    <3>4. HeldInside' /\ QuietDisarmed' /\ NoTickAfterCancel'
      BY DEF IInv, Holding, Planning, HeldInside, QuietDisarmed, NoTickAfterCancel, inside
    <3>5. Ahead' /\ DueWhenArmed'
      BY DEF IInv, TypeOK, Ahead, DueWhenArmed, inside
    <3> QED
      BY ONLY <3>1, <3>2, <3>3, <3>4, <3>5 DEF IInv
  <2> USE DEF IInv, RunnerLocations, Holding, Planning, TypeOK, HeldInside, QuietDisarmed,
              NoTickAfterCancel, Past, Ahead, DueWhenArmed, PlanKept, Runner, Controller,
              ControllerLocations, outside, inside, planning
  <2>1. CASE Run
    BY <2>1 DEF Run
  <2>2. CASE Loop
    BY <2>2 DEF Loop
  <2>3. CASE Lock
    BY <2>3 DEF Lock
  <2>4. CASE WaitOver
    BY <2>4 DEF WaitOver, Due
  <2>24. CASE WaitOn
    BY <2>24 DEF WaitOn
  <2>5. CASE Wait
    BY <2>5 DEF Wait
  <2>6. CASE Wake
    BY <2>6 DEF Wake
  <2>7. CASE WakeSpuriously
    BY <2>7 DEF WakeSpuriously
  <2>8. CASE Relock
    BY <2>8 DEF Relock
  <2>9. CASE Break
    BY <2>9 DEF Break
  <2>10. CASE Invoke
    BY <2>10 DEF Invoke
  <2>11. CASE Invoked
    BY <2>11 DEF Invoked
  <2>12. ASSUME NEW c \in Controllers, Start(c) PROVE IInv'
    BY <2>12 DEF Start
  <2>15. ASSUME NEW c \in Controllers, Cancel(c) PROVE IInv'
    BY <2>15 DEF Cancel
  <2>18. CASE Advance
    BY <2>18 DEF Advance
  <2>19. CASE UNCHANGED vars
    BY <2>19 DEF vars
  <2> QED
    BY <2>1, <2>2, <2>3, <2>4, <2>5, <2>6, <2>7, <2>8, <2>9, <2>10, <2>11, <2>12, <2>13,
       <2>14, <2>15, <2>16, <2>17, <2>18, <2>19, <2>20, <2>21, <2>22, <2>23, <2>24, <2>25
    DEF Next, InRun, InCall
<1> QED
  BY <1>1, <1>2, PTL

\* Once a cancel() that disarmed the timer has returned, no callback is running and none
\* runs before a start(): whatever the interleaving of run(), start() and cancel().
THEOREM Cancelled == Spec => []NoTickAfterCancel
<1>1. IInv => NoTickAfterCancel
  BY DEF IInv
<1> QED
  BY <1>1, TimerInvariance, PTL DEF Spec

\* Only the callback's start is a Tick, only the last read of the fields ends a plan.
LEMMA WhoTicks ==
    ASSUME [Next]_vars
    PROVE  (Tick => Invoke) /\ (Planned => PlanTick)
  <1> USE DEF Tick, Planned
  <1>1. CASE UNCHANGED vars
    BY <1>1 DEF vars, inside
  <1>2. CASE Advance
    BY <1>2 DEF Advance
  <1>3. ASSUME NEW c \in Controllers, Start(c) \/ Cancel(c) \/ InCall(c)
        PROVE  rpc' = rpc
    BY <1>3 DEF InCall, Start, StartClock, StartAt, StartEvery, StartArm, Cancel,
                CancelStore, CancelNotify, inside
  <1>4. CASE Run \/ InRun \/ WakeSpuriously
    <2>1. CASE Run \/ Loop \/ Lock \/ PlanFrom \/ PlanCount \/ PlanDuration
      BY <2>1 DEF Run, Loop, Lock, PlanFrom, PlanCount, PlanDuration, Runner
    <2>2. CASE WaitOver \/ WaitOn \/ Wait \/ Wake \/ WakeSpuriously
      BY <2>2 DEF WaitOver, WaitOn, Wait, Wake, WakeSpuriously, Runner
    <2>3. CASE Relock \/ Break \/ Invoked
      BY <2>3 DEF Relock, Break, Invoked, Runner
    <2>4. CASE PlanTick
      BY <2>4 DEF PlanTick, Runner
    <2>5. CASE Invoke
      BY <2>5 DEF Invoke, Runner
    <2> QED
      BY ONLY <1>4, <2>1, <2>2, <2>3, <2>4, <2>5, Zenon DEF InRun
  <1> QED
    BY <1>1, <1>2, <1>3, <1>4 DEF Next

\* A SleepTimer's ticks are a period apart, an AccurateTimer's in different periods, and
\* the wait of either ends after the instant run() noted, less than a period and a
\* millisecond ahead; for an AccurateTimer unless a start() wrote to a field between
\* the reads of it.
THEOREM TicksPaced == Spec => Paced
<1>1. ASSUME IInv, [Next]_vars PROVE Apart
  <2> SUFFICES ASSUME Tick, last_tick # -1
               PROVE  IF kind = "sleep" THEN now - last_tick >= m_every * Sub
                                        ELSE Period(now) > Period(last_tick)
    BY DEF Apart
  <2> USE <1>1 DEF IInv, TypeOK
  <2>1. m_armed /\ rpc = "check"
    BY WhoTicks DEF Invoke, Runner
  <2>2. m_next_tick_at <= now
    BY <2>1 DEF DueWhenArmed
  <2>3. m_every * Sub \in Nat \ {0}
    BY Units
  <2>4. CASE kind = "sleep"
    BY <2>1, <2>2, <2>3, <2>4 DEF Ahead
  <2>5. CASE kind = "accurate"
    <3>1. PICK n \in Int : /\ m_next_tick_at = m_started_at + n * (m_every * Sub)
                           /\ m_next_tick_at > last_tick
      BY <2>1, <2>5 DEF Ahead
    <3> DEFINE d == m_every * Sub
    <3>2. d \in Nat \ {0} /\ n * d \in Int
      BY <2>3, Z3
    <3> HIDE DEF d
    <3>3. last_tick - m_started_at < n * d /\ n * d <= now - m_started_at
      BY <2>2, <3>1, <3>2 DEF d
    <3>4. (last_tick - m_started_at) \div d < (now - m_started_at) \div d
      BY <3>2, <3>3, PeriodsApart
    <3> QED
      BY <2>5, <3>2, <3>4, DivBounds DEF Period, d
  <2> QED
    BY <2>4, <2>5
<1>2. ASSUME IInv, [Next]_vars PROVE Near
  <2> SUFFICES ASSUME Planned, kind = "sleep" \/ ~torn
               PROVE  /\ m_next_tick_at' > m_last_wait_start
                      /\ m_next_tick_at' - now < (m_every + 1) * Sub
    BY DEF Near
  <2>1. PlanTick
    BY <1>2, WhoTicks
  <2>2. /\ m_every \in Nat \ {0} /\ m_every * Sub \in Nat \ {0} /\ Sub \in Nat \ {0}
        /\ m_last_wait_start \in Nat /\ now \in Nat /\ partial \in Int
        /\ m_last_wait_start <= now /\ kind \in {"sleep", "accurate"}
    BY <1>2, Units DEF IInv, TypeOK, Past
  <2>3. (m_every + 1) * Sub = m_every * Sub + Sub
    BY ONLY <2>2, Z3
  <2>4. CASE kind = "sleep"
    <3>1. /\ m_next_tick_at' = partial + m_every * Sub
          /\ m_last_wait_start <= partial /\ partial <= now
      BY <1>2, <2>1, <2>4, PlanEnds
    <3> QED
      BY ONLY <2>2, <2>3, <3>1
  <2>5. CASE kind = "accurate"
    <3> DEFINE next == m_next_tick_at'
               most == (m_every + 1) * Sub
    <3>1. next \in Int /\ next - m_last_wait_start \in 1 .. most - 1
      BY <1>2, <2>1, <2>5, PlanEnds
    <3>2. most \in Int
      BY ONLY <2>2, <2>3
    <3> HIDE DEF next, most
    <3>3. next > m_last_wait_start /\ next - now < most
      BY ONLY <2>2, <3>1, <3>2
    <3> QED
      BY <3>3 DEF next, most
  <2> QED
    BY ONLY <2>2, <2>4, <2>5
<1>3. IInv /\ [Next]_vars => [Apart /\ Near]_vars
  BY <1>1, <1>2
<1> QED
  BY <1>3, TimerInvariance, PTL DEF Spec, Paced

-----------------------------------------------------------------------------
(***************************************************************************)
(* The QoI codec                                                           *)
(***************************************************************************)
Maps == [0 .. 63 -> Pixel]

Coder(m, last) == [map |-> m, last_seen |-> last, run_length |-> 0]

\* The last colour seen after k pixels, and the map: a colour is where its hash
\* is until another of that hash follows.
Last(im, k) == IF k = 0 THEN Black ELSE im[k]

Zero == << 0, 0, 0, 0 >>

Latest(im, h, k, i) == hash(im[i]) = h /\ \A j \in i + 1 .. k : hash(im[j]) # h

MapIs(im, m, k) ==
  \A h \in 0 .. 63 :
    \/ \E i \in 1 .. k : Latest(im, h, k, i) /\ m[h] = im[i]
    \/ m[h] = Zero /\ \A i \in 1 .. k : hash(im[i]) # h

LEMMA PixelParts ==
  ASSUME NEW c \in Pixel
  PROVE  /\ c = << c[1], c[2], c[3], c[4] >>
         /\ c[1] \in 0 .. 255 /\ c[2] \in 0 .. 255 /\ c[3] \in 0 .. 255 /\ c[4] \in 0 .. 255
BY DEF Pixel, Byte

LEMMA IsPixel ==
  ASSUME NEW r \in Byte, NEW g \in Byte, NEW b \in Byte, NEW a \in Byte
  PROVE  << r, g, b, a >> \in Pixel
BY DEF Pixel

LEMMA HashIs == \A c \in Pixel : hash(c) \in 0 .. 63
<1> SUFFICES ASSUME NEW c \in Pixel PROVE hash(c) \in 0 .. 63
  OBVIOUS
<1>1. PICK x \in 0 .. 255, y \in 0 .. 255, z \in 0 .. 255, w \in 0 .. 255 :
        c[1] = x /\ c[2] = y /\ c[3] = z /\ c[4] = w
  <2>1. /\ c = << c[1], c[2], c[3], c[4] >>
        /\ c[1] \in 0 .. 255 /\ c[2] \in 0 .. 255 /\ c[3] \in 0 .. 255 /\ c[4] \in 0 .. 255
    BY ONLY PixelParts, c \in Pixel
  <2> QED
    BY ONLY <2>1, ZenonT(40)
<1>2. PICK n \in Nat : n = 3 * x + 5 * y + 7 * z + 11 * w
  OBVIOUS
<1>3. hash(c) = n % 64
  BY ONLY <1>1, <1>2 DEF hash
<1> QED
  BY ONLY <1>3, n \in Nat

LEMMA BlackIs == Black \in Pixel /\ Zero \in Pixel
BY DEF Black, Zero, Pixel, Byte

\* Entering the next pixel.
LEMMA MapNext ==
  ASSUME NEW im \in Seq(Pixel), NEW m \in Maps, NEW k \in Nat, k < Len(im), MapIs(im, m, k)
  PROVE  /\ [m EXCEPT ![hash(im[k + 1])] = im[k + 1]] \in Maps
         /\ MapIs(im, [m EXCEPT ![hash(im[k + 1])] = im[k + 1]], k + 1)
<1>1. k + 1 \in 1 .. Len(im) /\ k + 1 \in 1 .. k + 1 /\ k + 1 \in Nat
  OBVIOUS
<1>2. PICK c : c = im[k + 1]
  OBVIOUS
<1>3. c \in Pixel
  BY ONLY <1>1, <1>2, im \in Seq(Pixel)
<1>4. PICK g : g = hash(c)
  OBVIOUS
<1>5. g \in 0 .. 63
  BY ONLY <1>3, <1>4, HashIs
<1>6. PICK n : n = [m EXCEPT ![g] = c]
  OBVIOUS
<1>7. n \in Maps /\ n[g] = c /\ \A h \in 0 .. 63 : h # g => n[h] = m[h]
  BY ONLY <1>3, <1>5, <1>6, m \in Maps DEF Maps
<1>8. ASSUME NEW h \in 0 .. 63
      PROVE  \/ \E i \in 1 .. k + 1 : Latest(im, h, k + 1, i) /\ n[h] = im[i]
             \/ n[h] = Zero /\ \A i \in 1 .. k + 1 : hash(im[i]) # h
  <2>1. CASE h = g
    <3>1. \A j \in (k + 1) + 1 .. k + 1 : hash(im[j]) # h
      BY ONLY k \in Nat
    <3>2. Latest(im, h, k + 1, k + 1) /\ n[h] = im[k + 1]
      BY ONLY <1>2, <1>4, <1>7, <2>1, <3>1 DEF Latest
    <3> QED
      BY ONLY <1>1, <3>2
  <2>2. CASE h # g
    <3>1. hash(im[k + 1]) # h /\ n[h] = m[h]
      BY ONLY <1>2, <1>4, <1>7, <2>2, h \in 0 .. 63
    <3>2. CASE \E i \in 1 .. k : Latest(im, h, k, i) /\ m[h] = im[i]
      <4>1. PICK i \in 1 .. k : Latest(im, h, k, i) /\ m[h] = im[i]
        BY <3>2
      <4>2. \A j \in i + 1 .. k + 1 : j \in i + 1 .. k \/ j = k + 1
        BY ONLY k \in Nat, i \in 1 .. k
      <4>3. Latest(im, h, k + 1, i) /\ i \in 1 .. k + 1
        BY ONLY <3>1, <4>1, <4>2, k \in Nat, i \in 1 .. k DEF Latest
      <4> QED
        BY ONLY <3>1, <4>1, <4>3
    <3>3. CASE m[h] = Zero /\ \A i \in 1 .. k : hash(im[i]) # h
      <4>1. \A i \in 1 .. k + 1 : i \in 1 .. k \/ i = k + 1
        BY ONLY k \in Nat
      <4> QED
        BY ONLY <3>1, <3>3, <4>1
    <3> QED
      BY <3>2, <3>3 DEF MapIs
  <2> QED
    BY <2>1, <2>2
<1>9. MapIs(im, n, k + 1)
  BY ONLY <1>8 DEF MapIs
<1> QED
  BY ONLY <1>2, <1>4, <1>6, <1>7, <1>9

\* A run enters what is in the map already.
LEMMA MapRun ==
  ASSUME NEW im \in Seq(Pixel), NEW m \in Maps, NEW k \in Nat, NEW l \in Nat, 0 < k, k <= l, l <= Len(im),
         \A i \in k + 1 .. l : im[i] = im[k], MapIs(im, m, k)
  PROVE  MapIs(im, m, l)
<1>1. ASSUME NEW h \in 0 .. 63
      PROVE  \/ \E i \in 1 .. l : Latest(im, h, l, i) /\ m[h] = im[i]
             \/ m[h] = Zero /\ \A i \in 1 .. l : hash(im[i]) # h
  <2>0. k \in 1 .. k
    OBVIOUS
  <2>1. CASE hash(im[k]) = h
    <3>1. m[h] = im[k]
      <4>1. ~(\A i \in 1 .. k : hash(im[i]) # h)
        BY ONLY <2>0, <2>1
      <4>2. PICK i \in 1 .. k : Latest(im, h, k, i) /\ m[h] = im[i]
        BY <4>1 DEF MapIs
      <4>3. i # k => k \in i + 1 .. k
        OBVIOUS
      <4>4. i = k
        BY ONLY <2>1, <4>2, <4>3 DEF Latest
      <4> QED
        BY ONLY <4>2, <4>4
    <3>2. im[l] = im[k]
      <4>1. l # k => l \in k + 1 .. l
        OBVIOUS
      <4> QED
        BY <4>1
    <3>3. \A j \in l + 1 .. l : hash(im[j]) # h
      BY ONLY l \in Nat
    <3>4. Latest(im, h, l, l) /\ m[h] = im[l] /\ l \in 1 .. l
      <4>1. l \in 1 .. l
        OBVIOUS
      <4> QED
        BY ONLY <2>1, <3>1, <3>2, <3>3, <4>1 DEF Latest
    <3> QED
      BY ONLY <3>4
  <2>2. CASE hash(im[k]) # h
    <3>1. \A j \in k + 1 .. l : hash(im[j]) # h
      BY <2>2
    <3>2. CASE \E i \in 1 .. k : Latest(im, h, k, i) /\ m[h] = im[i]
      <4>1. PICK i \in 1 .. k : Latest(im, h, k, i) /\ m[h] = im[i]
        BY <3>2
      <4>2. \A j \in i + 1 .. l : j \in i + 1 .. k \/ j \in k + 1 .. l
        BY ONLY k \in Nat, l \in Nat, i \in 1 .. k
      <4>3. Latest(im, h, l, i)
        BY ONLY <3>1, <4>1, <4>2 DEF Latest
      <4>4. i \in 1 .. l
        OBVIOUS
      <4> QED
        BY ONLY <4>1, <4>3, <4>4
    <3>3. CASE m[h] = Zero /\ \A i \in 1 .. k : hash(im[i]) # h
      <4>1. \A i \in 1 .. l : i \in 1 .. k \/ i \in k + 1 .. l
        BY ONLY k \in Nat, l \in Nat
      <4> QED
        BY ONLY <3>1, <3>3, <4>1
    <3> QED
      BY <3>2, <3>3 DEF MapIs
  <2> QED
    BY ONLY <2>1, <2>2
<1> QED
  BY ONLY <1>1 DEF MapIs

\* There is one such map.
LEMMA MapUnique ==
  ASSUME NEW im, NEW m \in Maps, NEW n \in Maps, NEW k \in Nat, MapIs(im, m, k), MapIs(im, n, k)
  PROVE  m = n
<1>1. ASSUME NEW h \in 0 .. 63 PROVE m[h] = n[h]
  <2>1. CASE \A i \in 1 .. k : hash(im[i]) # h
    <3>1. m[h] = Zero /\ n[h] = Zero
      BY ONLY <2>1, MapIs(im, m, k), MapIs(im, n, k), h \in 0 .. 63, Zenon DEF MapIs, Latest
    <3> QED
      BY ONLY <3>1
  <2>2. CASE ~(\A i \in 1 .. k : hash(im[i]) # h)
    <3>1. PICK i \in 1 .. k : Latest(im, h, k, i) /\ m[h] = im[i]
      BY ONLY <2>2, MapIs(im, m, k), h \in 0 .. 63, Zenon DEF MapIs
    <3>2. PICK j \in 1 .. k : Latest(im, h, k, j) /\ n[h] = im[j]
      BY ONLY <2>2, MapIs(im, n, k), h \in 0 .. 63, Zenon DEF MapIs
    <3>3. i < j => j \in i + 1 .. k
      OBVIOUS
    <3>4. j < i => i \in j + 1 .. k
      OBVIOUS
    <3>5. ~(i < j) /\ ~(j < i)
      BY ONLY <3>1, <3>2, <3>3, <3>4 DEF Latest
    <3>6. i = j
      BY ONLY <3>5, i \in 1 .. k, j \in 1 .. k, k \in Nat
    <3> QED
      BY ONLY <3>1, <3>2, <3>6
  <2> QED
    BY ONLY <2>1, <2>2, Zenon
<1> QED
  BY ONLY <1>1, m \in Maps, n \in Maps DEF Maps

-----------------------------------------------------------------------------
\* What the decoder makes of the first byte of a block.
LEMMA BlockTypes ==
  /\ block_type(255) = "RGBA" /\ block_type(254) = "RGB"
  /\ \A b \in 0 .. 63 : block_type(b) = "Index"
  /\ \A b \in 64 .. 127 : block_type(b) = "Diff"
  /\ \A b \in 128 .. 191 : block_type(b) = "Luma"
  /\ \A b \in 192 .. 253 : block_type(b) = "Run"
BY DEF block_type

LEMMA ExtraSizes ==
  /\ extra_data_size("RGBA") = 4 /\ extra_data_size("RGB") = 3 /\ extra_data_size("Luma") = 1
  /\ extra_data_size("Index") = 0 /\ extra_data_size("Diff") = 0 /\ extra_data_size("Run") = 0
BY DEF extra_data_size

\* A block that stands for the colour cur, after a last colour and with a map.
Extra(a, e) == e \in Seq(Byte) /\ Len(e) = Len(a) - 1 /\ \A i \in 1 .. Len(e) : e[i] = a[i + 1]

StandsFor(a, cur, m, last) ==
  /\ a \in Seq(Byte) /\ Len(a) \in 1 .. 5
  /\ Len(a) = 1 + extra_data_size(block_type(a[1]))
  /\ block_type(a[1]) # "Run"
  /\ block_type(a[1]) = "Index" => m[hash(cur)] = cur
  /\ \A e : Extra(a, e) => Colour(block_type(a[1]), a[1], e, Coder(m, last)) = cur

Recovers(t, a, cur, m, last) == \A e : Extra(a, e) => Colour(t, a[1], e, Coder(m, last)) = cur

LEMMA Stands ==
  ASSUME NEW m, NEW last, NEW cur, NEW a \in Seq(Byte), NEW t \in {"RGBA", "RGB", "Diff", "Luma"},
         Len(a) \in 1 .. 5, block_type(a[1]) = t, Len(a) = 1 + extra_data_size(t),
         Recovers(t, a, cur, m, last)
  PROVE  StandsFor(a, cur, m, last)
<1>1. block_type(a[1]) # "Run" /\ block_type(a[1]) # "Index"
  OBVIOUS
<1>2. \A e : Extra(a, e) => Colour(block_type(a[1]), a[1], e, Coder(m, last)) = cur
  BY Zenon DEF Recovers
<1> QED
  BY <1>1, <1>2, Zenon DEF StandsFor

LEMMA IndexStands ==
  ASSUME NEW m \in Maps, NEW last \in Pixel, NEW cur \in Pixel, m[hash(cur)] = cur
  PROVE  StandsFor(<< hash(cur) >>, cur, m, last)
<1>1. PICK h \in 0 .. 63 : h = hash(cur)
  BY HashIs
<1>2. PICK a : a = << h >>
  OBVIOUS
<1>3. a \in Seq(Byte) /\ Len(a) = 1 /\ a[1] = h
  BY ONLY <1>2, h \in 0 .. 63 DEF Byte
<1>4. block_type(h) = "Index" /\ extra_data_size("Index") = 0
  BY ONLY BlockTypes, ExtraSizes, h \in 0 .. 63
<1>5. h % 64 = h
  OBVIOUS
<1>6. \A e : Colour("Index", h, e, Coder(m, last)) = m[h]
  BY ONLY <1>5 DEF Colour, Coder
<1>7. StandsFor(a, cur, m, last)
  BY ONLY <1>1, <1>3, <1>4, <1>6, m[hash(cur)] = cur DEF StandsFor
<1> QED
  BY ONLY <1>1, <1>2, <1>7

LEMMA DiffStands ==
  ASSUME NEW m, NEW last \in Pixel, NEW cur \in Pixel, cur[4] = last[4], DiffFits(cur, last)
  PROVE  StandsFor(DiffBlock(cur, last), cur, m, last)
<1>1. PICK r \in 0 .. 255, g \in 0 .. 255, b \in 0 .. 255 :
        cur[1] = r /\ cur[2] = g /\ cur[3] = b /\ cur = << r, g, b, cur[4] >>
  <2>1. /\ cur = << cur[1], cur[2], cur[3], cur[4] >>
        /\ cur[1] \in 0 .. 255 /\ cur[2] \in 0 .. 255 /\ cur[3] \in 0 .. 255 /\ cur[4] \in 0 .. 255
    BY ONLY PixelParts, cur \in Pixel
  <2> QED
    BY ONLY <2>1, ZenonT(40)
<1>2. PICK p \in 0 .. 255, q \in 0 .. 255, s \in 0 .. 255 : last[1] = p /\ last[2] = q /\ last[3] = s
  <2>1. /\ last = << last[1], last[2], last[3], last[4] >>
        /\ last[1] \in 0 .. 255 /\ last[2] \in 0 .. 255 /\ last[3] \in 0 .. 255 /\ last[4] \in 0 .. 255
    BY ONLY PixelParts, last \in Pixel
  <2> QED
    BY ONLY <2>1, ZenonT(40)
<1>3. (r - p) + 2 \in 0 .. 3 /\ (g - q) + 2 \in 0 .. 3 /\ (b - s) + 2 \in 0 .. 3
  BY ONLY <1>1, <1>2, DiffFits(cur, last) DEF DiffFits, Delta
<1>4. PICK x \in 0 .. 3, y \in 0 .. 3, z \in 0 .. 3 : x = (r - p) + 2 /\ y = (g - q) + 2 /\ z = (b - s) + 2
  BY ONLY <1>3
<1>5. PICK v \in 0 .. 127 : v = 64 + 16 * x + 4 * y + z
  BY ONLY x \in 0 .. 3, y \in 0 .. 3, z \in 0 .. 3
<1>6. v \in 64 .. 127
  BY ONLY <1>5, x \in 0 .. 3, y \in 0 .. 3, z \in 0 .. 3
<1>7. DiffBlock(cur, last) = << v >>
  BY ONLY <1>1, <1>2, <1>4, <1>5 DEF DiffBlock, Delta
<1>8. /\ ((v \div 16) % 4) - 2 = r - p /\ ((v \div 4) % 4) - 2 = g - q /\ (v % 4) - 2 = b - s
  <2>1. v \div 16 = 4 + x /\ v \div 4 = 16 + 4 * x + y /\ v % 4 = z
    BY ONLY <1>5, x \in 0 .. 3, y \in 0 .. 3, z \in 0 .. 3
  <2>2. (4 + x) % 4 = x /\ (16 + 4 * x + y) % 4 = y
    BY ONLY x \in 0 .. 3, y \in 0 .. 3
  <2>3. x - 2 = r - p /\ y - 2 = g - q /\ z - 2 = b - s
    BY ONLY <1>4, r \in 0 .. 255, g \in 0 .. 255, b \in 0 .. 255, p \in 0 .. 255, q \in 0 .. 255, s \in 0 .. 255
  <2> QED
    BY ONLY <2>1, <2>2, <2>3
<1>9. (p + (r - p)) % 256 = r /\ (q + (g - q)) % 256 = g /\ (s + (b - s)) % 256 = b
  BY ONLY r \in 0 .. 255, g \in 0 .. 255, b \in 0 .. 255, p \in 0 .. 255, q \in 0 .. 255, s \in 0 .. 255
<1>10. Moved(last, r - p, g - q, b - s) = cur
  BY ONLY <1>1, <1>2, <1>9, cur[4] = last[4] DEF Moved
<1>11. \A e : Colour("Diff", v, e, Coder(m, last)) = cur
  BY ONLY <1>8, <1>10 DEF Colour, Coder
<1>12. PICK a : a = << v >>
  OBVIOUS
<1>13. a \in Seq(Byte) /\ Len(a) = 1 /\ a[1] = v
  BY ONLY <1>12, v \in 0 .. 127 DEF Byte
<1>14. block_type(v) = "Diff" /\ extra_data_size("Diff") = 0
  BY ONLY BlockTypes, ExtraSizes, <1>6
<1>15. StandsFor(a, cur, m, last)
  <2>1. Recovers("Diff", a, cur, m, last)
    BY ONLY <1>11, <1>13 DEF Recovers
  <2>2. block_type(a[1]) = "Diff" /\ Len(a) = 1 + extra_data_size("Diff") /\ Len(a) \in 1 .. 5
    BY ONLY <1>13, <1>14
  <2> QED
    BY ONLY <1>13, <2>1, <2>2, Stands
<1> QED
  BY ONLY <1>7, <1>12, <1>15, Zenon

\* The two bytes of a luma block have the three differences i, j and k, of which j is
\* that of green.
LumaPair(v, w, i, j, k) ==
  /\ v = 128 + j + 32 /\ w = 16 * (i - j + 8) + k - j + 8
  /\ (v % 64) - 32 = j /\ (w \div 16) + j - 8 = i /\ (w % 16) + j - 8 = k

TwoBytes(i, j, k) == \E v \in 128 .. 191, w \in 0 .. 255 : LumaPair(v, w, i, j, k)

LEMMA LumaNumbers ==
  ASSUME NEW i \in Int, NEW j \in -32 .. 31, NEW k \in Int, i - j \in -8 .. 7, k - j \in -8 .. 7
  PROVE  TwoBytes(i, j, k)
<1>1. PICK x \in 0 .. 63 : x = j + 32
  BY ONLY j \in -32 .. 31
<1>2. PICK y \in 0 .. 15 : y = i - j + 8
  BY ONLY i - j \in -8 .. 7, i \in Int, j \in Int
<1>3. PICK z \in 0 .. 15 : z = k - j + 8
  BY ONLY k - j \in -8 .. 7, k \in Int, j \in Int
<1>4. PICK v \in 128 .. 191 : v = 128 + x
  BY ONLY x \in 0 .. 63
<1>5. PICK w \in 0 .. 255 : w = 16 * y + z
  BY ONLY y \in 0 .. 15, z \in 0 .. 15
<1>6. w \div 16 = y /\ w % 16 = z
  BY ONLY <1>5, y \in 0 .. 15, z \in 0 .. 15
<1>7. v % 64 = x
  BY ONLY <1>4, x \in 0 .. 63
<1>8. x - 32 = j /\ y + j - 8 = i /\ z + j - 8 = k
  BY ONLY <1>1, <1>2, <1>3, i \in Int, j \in Int, k \in Int
<1>9. v = 128 + j + 32
  BY ONLY <1>1, <1>4, j \in Int
<1>10. w = 16 * (i - j + 8) + k - j + 8
  <2>1. PICK n \in Int : n = 16 * y
    OBVIOUS
  <2>2. n + k - j + 8 = n + z
    BY ONLY <1>3, n \in Int, k \in Int, j \in Int
  <2> QED
    BY ONLY <1>2, <1>5, <2>1, <2>2, Zenon
<1>11. LumaPair(v, w, i, j, k)
  BY ONLY <1>6, <1>7, <1>8, <1>9, <1>10, Zenon DEF LumaPair
<1> QED
  BY ONLY <1>11, v \in 128 .. 191, w \in 0 .. 255 DEF TwoBytes

LEMMA LumaStands ==
  ASSUME NEW m, NEW last \in Pixel, NEW cur \in Pixel, cur[4] = last[4], LumaFits(cur, last)
  PROVE  StandsFor(LumaBlock(cur, last), cur, m, last)
<1>1. PICK r \in 0 .. 255, g \in 0 .. 255, b \in 0 .. 255 :
        cur[1] = r /\ cur[2] = g /\ cur[3] = b /\ cur = << r, g, b, cur[4] >>
  <2>1. /\ cur = << cur[1], cur[2], cur[3], cur[4] >>
        /\ cur[1] \in 0 .. 255 /\ cur[2] \in 0 .. 255 /\ cur[3] \in 0 .. 255 /\ cur[4] \in 0 .. 255
    BY ONLY PixelParts, cur \in Pixel
  <2> QED
    BY ONLY <2>1, ZenonT(40)
<1>2. PICK p \in 0 .. 255, q \in 0 .. 255, s \in 0 .. 255 : last[1] = p /\ last[2] = q /\ last[3] = s
  <2>1. /\ last = << last[1], last[2], last[3], last[4] >>
        /\ last[1] \in 0 .. 255 /\ last[2] \in 0 .. 255 /\ last[3] \in 0 .. 255 /\ last[4] \in 0 .. 255
    BY ONLY PixelParts, last \in Pixel
  <2> QED
    BY ONLY <2>1, ZenonT(40)
<1>3. PICK i, j, k : i = Delta(cur, last, 1) /\ j = Delta(cur, last, 2) /\ k = Delta(cur, last, 3)
  BY ONLY TRUE
<1>4. i = r - p /\ j = g - q /\ k = b - s
  BY ONLY <1>1, <1>2, <1>3 DEF Delta
<1>5. i \in Int /\ k \in Int
  BY ONLY <1>4, r \in 0 .. 255, g \in 0 .. 255, b \in 0 .. 255, p \in 0 .. 255, q \in 0 .. 255, s \in 0 .. 255
<1>6. PICK v \in 128 .. 191, w \in 0 .. 255 : LumaPair(v, w, i, j, k)
  <2>1. j \in -32 .. 31 /\ i - j \in -8 .. 7 /\ k - j \in -8 .. 7
    BY ONLY <1>3, LumaFits(cur, last), 1 \in {1, 3}, 3 \in {1, 3} DEF LumaFits
  <2>2. TwoBytes(i, j, k)
    BY ONLY <1>5, <2>1, LumaNumbers
  <2> QED
    BY ONLY <2>2 DEF TwoBytes
<1>7. LumaBlock(cur, last) = << v, w >>
  <2>1. LumaBlock(cur, last) = << 128 + j + 32, 16 * (i - j + 8) + k - j + 8 >>
    BY ONLY <1>3 DEF LumaBlock
  <2>2. v = 128 + j + 32 /\ w = 16 * (i - j + 8) + k - j + 8
    BY ONLY <1>6, Zenon DEF LumaPair
  <2> QED
    BY ONLY <2>1, <2>2, Zenon
<1>8. (v % 64) - 32 = j /\ (w \div 16) + j - 8 = i /\ (w % 16) + j - 8 = k
  BY ONLY <1>6, Zenon DEF LumaPair
<1>9. (p + i) % 256 = r /\ (q + j) % 256 = g /\ (s + k) % 256 = b
  <2>1. p + i = r /\ q + j = g /\ s + k = b
    BY ONLY <1>4, r \in 0 .. 255, g \in 0 .. 255, b \in 0 .. 255, p \in 0 .. 255, q \in 0 .. 255, s \in 0 .. 255
  <2>2. \A x \in 0 .. 255 : x % 256 = x
    OBVIOUS
  <2> QED
    BY ONLY <2>1, <2>2, r \in 0 .. 255, g \in 0 .. 255, b \in 0 .. 255
<1>10. Moved(last, i, j, k) = cur
  BY ONLY <1>1, <1>2, <1>9, cur[4] = last[4] DEF Moved
<1>11. ASSUME NEW e, e[1] = w PROVE Colour("Luma", v, e, Coder(m, last)) = cur
  <2>1. Colour("Luma", v, e, Coder(m, last))
          = Moved(last, (e[1] \div 16) + ((v % 64) - 32) - 8, (v % 64) - 32, (e[1] % 16) + ((v % 64) - 32) - 8)
    BY ONLY TRUE DEF Colour, Coder
  <2> QED
    BY ONLY <1>8, <1>10, <1>11, <2>1, Zenon
<1>12. PICK a : a = << v, w >>
  OBVIOUS
<1>13. a \in Seq(Byte) /\ Len(a) = 2 /\ a[1] = v /\ a[2] = w
  BY ONLY <1>12, v \in 128 .. 191, w \in 0 .. 255 DEF Byte
<1>14. block_type(v) = "Luma" /\ extra_data_size("Luma") = 1
  BY ONLY BlockTypes, ExtraSizes, v \in 128 .. 191
<1>15. ASSUME NEW e, Extra(a, e) PROVE e[1] = w
  BY ONLY <1>13, <1>15 DEF Extra
<1>16. StandsFor(a, cur, m, last)
  <2>1. Recovers("Luma", a, cur, m, last)
    BY ONLY <1>11, <1>13, <1>15 DEF Recovers
  <2>2. block_type(a[1]) = "Luma" /\ Len(a) = 1 + extra_data_size("Luma") /\ Len(a) \in 1 .. 5
    BY ONLY <1>13, <1>14
  <2> QED
    BY ONLY <1>13, <2>1, <2>2, Stands
<1> QED
  BY ONLY <1>7, <1>12, <1>16, Zenon

IsAppend(f, e, t, S) ==
  /\ f \in Seq(S) /\ Len(f) = Len(e) + 1
  /\ \A i \in 1 .. Len(e) : f[i] = e[i]
  /\ f[Len(e) + 1] = t

LEMMA Appended ==
  ASSUME NEW S, NEW e \in Seq(S), NEW t \in S
  PROVE  IsAppend(Append(e, t), e, t, S)
BY DEF IsAppend

LEMMA FourOf ==
  ASSUME NEW S, NEW e \in Seq(S), Len(e) = 4, NEW r, NEW g, NEW b, NEW t,
         e[1] = r, e[2] = g, e[3] = b, e[4] = t
  PROVE  e = << r, g, b, t >>
OBVIOUS

LEMMA RGBAStands ==
  ASSUME NEW m, NEW last \in Pixel, NEW cur \in Pixel
  PROVE  StandsFor(RGBABlock(cur, last), cur, m, last)
<1>1. PICK r \in 0 .. 255, g \in 0 .. 255, b \in 0 .. 255, t \in 0 .. 255 :
        cur[1] = r /\ cur[2] = g /\ cur[3] = b /\ cur[4] = t /\ cur = << r, g, b, t >>
  <2>1. /\ cur = << cur[1], cur[2], cur[3], cur[4] >>
        /\ cur[1] \in 0 .. 255 /\ cur[2] \in 0 .. 255 /\ cur[3] \in 0 .. 255 /\ cur[4] \in 0 .. 255
    BY ONLY PixelParts, cur \in Pixel
  <2> QED
    BY ONLY <2>1, ZenonT(40)
<1>2. CASE t # last[4]
  <2>1. PICK a : a = << 255, r, g, b, t >>
    OBVIOUS
  <2>2. RGBABlock(cur, last) = a
    BY ONLY <1>1, <1>2, <2>1 DEF RGBABlock
  <2>3. /\ a \in Seq(Byte) /\ Len(a) = 5
        /\ a[1] = 255 /\ a[2] = r /\ a[3] = g /\ a[4] = b /\ a[5] = t
    BY ONLY <2>1, r \in 0 .. 255, g \in 0 .. 255, b \in 0 .. 255, t \in 0 .. 255 DEF Byte
  <2>4. ASSUME NEW e, Extra(a, e) PROVE Colour("RGBA", 255, e, Coder(m, last)) = cur
    <3>1. e \in Seq(Byte) /\ Len(e) = 4 /\ e[1] = r /\ e[2] = g /\ e[3] = b /\ e[4] = t
      BY ONLY <2>3, <2>4 DEF Extra
    <3>2. e = << r, g, b, t >>
      BY ONLY <3>1, FourOf
    <3> QED
      BY ONLY <1>1, <3>2 DEF Colour
  <2>5. StandsFor(a, cur, m, last)
    <3>1. block_type(a[1]) = "RGBA" /\ Len(a) = 1 + extra_data_size("RGBA") /\ Len(a) \in 1 .. 5
      BY ONLY <2>3, BlockTypes, ExtraSizes
    <3>2. Recovers("RGBA", a, cur, m, last)
      BY ONLY <2>3, <2>4 DEF Recovers
    <3> QED
      BY ONLY <2>3, <3>1, <3>2, Stands
  <2> QED
    BY ONLY <2>2, <2>5
<1>3. CASE t = last[4]
  <2>1. PICK a : a = << 254, r, g, b >>
    OBVIOUS
  <2>2. RGBABlock(cur, last) = a
    BY ONLY <1>1, <1>3, <2>1 DEF RGBABlock
  <2>3. /\ a \in Seq(Byte) /\ Len(a) = 4
        /\ a[1] = 254 /\ a[2] = r /\ a[3] = g /\ a[4] = b
    BY ONLY <2>1, r \in 0 .. 255, g \in 0 .. 255, b \in 0 .. 255 DEF Byte
  <2>4. ASSUME NEW e, Extra(a, e) PROVE Colour("RGB", 254, e, Coder(m, last)) = cur
    <3>1. e \in Seq(Byte) /\ Len(e) = 3 /\ e[1] = r /\ e[2] = g /\ e[3] = b
      BY ONLY <2>3, <2>4 DEF Extra
    <3>2. PICK f : f = Append(e, t)
      OBVIOUS
    <3>3. f \in Seq(Byte) /\ Len(f) = 4 /\ f[1] = r /\ f[2] = g /\ f[3] = b /\ f[4] = t
      <4>1. t \in Byte
        BY DEF Byte
      <4>2. /\ Append(e, t) \in Seq(Byte) /\ Len(Append(e, t)) = Len(e) + 1
            /\ \A i \in 1 .. Len(e) : Append(e, t)[i] = e[i]
            /\ Append(e, t)[Len(e) + 1] = t
        <5>1. IsAppend(Append(e, t), e, t, Byte)
          BY ONLY <3>1, <4>1, Appended
        <5> QED
          BY ONLY <5>1, Zenon DEF IsAppend
      <4>3. 1 \in 1 .. Len(e) /\ 2 \in 1 .. Len(e) /\ 3 \in 1 .. Len(e) /\ Len(e) + 1 = 4
        BY ONLY <3>1
      <4>4. f[1] = e[1] /\ f[2] = e[2] /\ f[3] = e[3]
        BY ONLY <3>2, <4>2, <4>3, Zenon
      <4>5. f \in Seq(Byte) /\ Len(f) = 4 /\ f[4] = t
        BY ONLY <3>2, <4>2, <4>3, Zenon
      <4> QED
        BY ONLY <3>1, <4>4, <4>5, Zenon
    <3>4. f = << r, g, b, t >>
      BY ONLY <3>3, FourOf
    <3>5. Coder(m, last).last_seen = last
      BY DEF Coder
    <3>6. Colour("RGB", 254, e, Coder(m, last)) = Append(e, Coder(m, last).last_seen[4])
      BY ONLY TRUE DEF Colour
    <3> QED
      BY ONLY <1>1, <1>3, <3>2, <3>4, <3>5, <3>6
  <2>5. StandsFor(a, cur, m, last)
    <3>1. block_type(a[1]) = "RGB" /\ Len(a) = 1 + extra_data_size("RGB") /\ Len(a) \in 1 .. 5
      BY ONLY <2>3, BlockTypes, ExtraSizes
    <3>2. Recovers("RGB", a, cur, m, last)
      BY ONLY <2>3, <2>4 DEF Recovers
    <3> QED
      BY ONLY <2>3, <3>1, <3>2, Stands
  <2> QED
    BY ONLY <2>2, <2>5
<1> QED
  BY ONLY <1>2, <1>3

\* Whichever block the encoder chooses, the decoder has the colour back.
LEMMA BlockStands ==
  ASSUME NEW m \in Maps, NEW last \in Pixel, NEW cur \in Pixel
  PROVE  StandsFor(Block(cur, Coder(m, last)), cur, m, last)
<1>1. Coder(m, last).map = m /\ Coder(m, last).last_seen = last
  BY DEF Coder
<1> QED
  BY <1>1, IndexStands, DiffStands, LumaStands, RGBAStands DEF Block

-----------------------------------------------------------------------------
\* The bytes bs go on as c.
Extends(c, bs) == Len(bs) <= Len(c) /\ \A i \in 1 .. Len(bs) : c[i] = bs[i]

\* The block behind the first p bytes takes the pixels from k to l and ends at q:
\* a run of the last colour, or the colour of one pixel.
RunStep(im, bs, p, k, q, l) ==
  /\ k < l /\ l <= k + 62 /\ l <= Len(im)
  /\ q = p + 1 /\ q <= Len(bs) /\ bs[q] = 191 + (l - k)
  /\ \A i \in k + 1 .. l : im[i] = Last(im, k)

Holds(bs, p, a) == p + Len(a) <= Len(bs) /\ \A i \in 1 .. Len(a) : bs[p + i] = a[i]

PixelStep(im, bs, p, k, q, l) ==
  /\ l = k + 1 /\ l <= Len(im)
  /\ \E m \in Maps, a \in Seq(Byte) :
       MapIs(im, m, k) /\ StandsFor(a, im[l], m, Last(im, k)) /\ q = p + Len(a) /\ Holds(bs, p, a)

BlockStep(im, bs, p, k, q, l) == RunStep(im, bs, p, k, q, l) \/ PixelStep(im, bs, p, k, q, l)

\* The places between blocks: bytes read and pixels had.  From each a block leads to
\* another one, but for the last.
LeadsOn(im, bs, B, b) == \E q \in Nat, l \in Nat : << q, l >> \in B /\ BlockStep(im, bs, b[1], b[2], q, l)

Parse(im, bs, B, P, K) ==
  /\ B \subseteq Nat \X Nat /\ << 14, 0 >> \in B /\ << P, K >> \in B
  /\ \A b \in B : b[1] <= P /\ b[2] <= K
  /\ \A b \in B : b # << P, K >> => LeadsOn(im, bs, B, b)

Parsed(im, bs, K) == \E B : Parse(im, bs, B, Len(bs), K)

LEMMA StepMoves ==
  ASSUME NEW im, NEW bs \in Seq(Byte), NEW p \in Nat, NEW k \in Nat, NEW q \in Nat, NEW l \in Nat,
         BlockStep(im, bs, p, k, q, l)
  PROVE  p < q /\ k < l /\ q <= Len(bs) /\ l <= Len(im)
<1>1. CASE RunStep(im, bs, p, k, q, l)
  BY <1>1 DEF RunStep
<1>2. CASE PixelStep(im, bs, p, k, q, l)
  <2>1. PICK a \in Seq(Byte) : Len(a) \in 1 .. 5 /\ q = p + Len(a) /\ p + Len(a) <= Len(bs)
    BY <1>2, Zenon DEF PixelStep, StandsFor, Holds
  <2>2. PICK n \in 1 .. 5 : n = Len(a)
    BY ONLY <2>1
  <2>3. l = k + 1 /\ l <= Len(im)
    BY ONLY <1>2 DEF PixelStep
  <2> QED
    BY ONLY <2>1, <2>2, <2>3, p \in Nat, k \in Nat
<1> QED
  BY <1>1, <1>2 DEF BlockStep

LEMMA StepGrows ==
  ASSUME NEW im, NEW bs \in Seq(Byte), NEW c \in Seq(Byte), Extends(c, bs),
         NEW p \in Nat, NEW k \in Nat, NEW q \in Nat, NEW l \in Nat, BlockStep(im, bs, p, k, q, l)
  PROVE  BlockStep(im, c, p, k, q, l)
<1>1. CASE RunStep(im, bs, p, k, q, l)
  <2>1. q \in 1 .. Len(bs)
    BY <1>1 DEF RunStep
  <2>2. c[q] = bs[q] /\ Len(bs) <= Len(c)
    BY <2>1 DEF Extends
  <2>3. q <= Len(c)
    BY <2>1, <2>2
  <2>4. RunStep(im, c, p, k, q, l)
    BY ONLY <1>1, <2>2, <2>3 DEF RunStep
  <2> QED
    BY ONLY <2>4 DEF BlockStep
<1>2. CASE PixelStep(im, bs, p, k, q, l)
  <2>1. PICK m \in Maps, a \in Seq(Byte) :
          MapIs(im, m, k) /\ StandsFor(a, im[l], m, Last(im, k)) /\ q = p + Len(a) /\ Holds(bs, p, a)
    BY ONLY <1>2 DEF PixelStep
  <2>2. Holds(c, p, a)
    <3>1. PICK n \in Nat, f \in Nat, g \in Nat : n = Len(a) /\ f = Len(bs) /\ g = Len(c)
      BY a \in Seq(Byte)
    <3>2. p + n <= f /\ f <= g /\ \A i \in 1 .. n : bs[p + i] = a[i]
      BY ONLY <2>1, <3>1, Extends(c, bs) DEF Holds, Extends
    <3>3. \A i \in 1 .. n : p + i \in 1 .. f
      BY ONLY <3>2, p \in Nat, n \in Nat, f \in Nat
    <3>4. \A i \in 1 .. n : c[p + i] = a[i]
      BY ONLY <3>1, <3>2, <3>3, Extends(c, bs) DEF Extends
    <3>5. p + n <= g
      BY ONLY <3>2, p \in Nat, n \in Nat, f \in Nat, g \in Nat
    <3> QED
      BY ONLY <3>1, <3>4, <3>5 DEF Holds
  <2>3. PixelStep(im, c, p, k, q, l)
    BY ONLY <1>2, <2>1, <2>2, m \in Maps, a \in Seq(Byte), Zenon DEF PixelStep
  <2> QED
    BY ONLY <2>3 DEF BlockStep
<1> QED
  BY <1>1, <1>2 DEF BlockStep

\* One block more.
LEMMA ParseNext ==
  ASSUME NEW im, NEW bs \in Seq(Byte), NEW c \in Seq(Byte), Extends(c, bs), NEW k \in Nat, NEW l \in Nat,
         Parsed(im, bs, k), BlockStep(im, c, Len(bs), k, Len(c), l)
  PROVE  Parsed(im, c, l)
<1>1. PICK B : Parse(im, bs, B, Len(bs), k)
  BY DEF Parsed
<1>2. PICK p \in Nat, q \in Nat : p = Len(bs) /\ q = Len(c)
  OBVIOUS
<1>3. p < q /\ k < l
  BY <1>2, StepMoves
<1>4. PICK C : C = B \cup {<< q, l >>}
  OBVIOUS
<1>5. C \subseteq Nat \X Nat /\ << 14, 0 >> \in C /\ << q, l >> \in C
  BY ONLY <1>1, <1>4, q \in Nat, l \in Nat DEF Parse
<1>6. ASSUME NEW b \in C PROVE b[1] <= q /\ b[2] <= l
  <2>1. CASE b \in B
    <3>1. b[1] \in Nat /\ b[2] \in Nat /\ b[1] <= p /\ b[2] <= k
      BY ONLY <1>1, <1>2, <2>1 DEF Parse
    <3> QED
      BY ONLY <1>3, <3>1, p \in Nat, q \in Nat, k \in Nat, l \in Nat
  <2>2. CASE b = << q, l >>
    BY ONLY <2>2, q \in Nat, l \in Nat
  <2> QED
    BY ONLY <1>4, <2>1, <2>2
<1>7. ASSUME NEW b \in C, b # << q, l >> PROVE LeadsOn(im, c, C, b)
  <2>1. b \in B /\ b \in Nat \X Nat
    BY ONLY <1>1, <1>4, <1>7 DEF Parse
  <2>2. CASE b = << p, k >>
    <3>1. b[1] = Len(bs) /\ b[2] = k /\ q = Len(c)
      BY ONLY <1>2, <2>2
    <3>2. BlockStep(im, c, b[1], b[2], q, l)
      BY ONLY <3>1, BlockStep(im, c, Len(bs), k, Len(c), l)
    <3> QED
      BY ONLY <1>5, <3>2, q \in Nat, l \in Nat DEF LeadsOn
  <2>3. CASE b # << p, k >>
    <3>1. LeadsOn(im, bs, B, b)
      BY ONLY <1>1, <1>2, <2>1, <2>3 DEF Parse
    <3>2. PICK x \in Nat, y \in Nat : << x, y >> \in B /\ BlockStep(im, bs, b[1], b[2], x, y)
      BY ONLY <3>1 DEF LeadsOn
    <3>3. b[1] \in Nat /\ b[2] \in Nat /\ << x, y >> \in C
      BY ONLY <1>4, <2>1, <3>2
    <3>4. BlockStep(im, c, b[1], b[2], x, y)
      BY <3>2, <3>3, StepGrows
    <3> QED
      BY ONLY <3>3, <3>4, x \in Nat, y \in Nat DEF LeadsOn
  <2> QED
    BY ONLY <2>2, <2>3
<1>8. Parse(im, c, C, Len(c), l)
  BY ONLY <1>2, <1>5, <1>6, <1>7 DEF Parse
<1> QED
  BY ONLY <1>8 DEF Parsed

Joined(c, bs, a) ==
  /\ c \in Seq(Byte) /\ Len(c) = Len(bs) + Len(a)
  /\ Extends(c, bs) /\ Holds(c, Len(bs), a)

LEMMA Joins ==
  ASSUME NEW bs \in Seq(Byte), NEW a \in Seq(Byte)
  PROVE  Joined(bs \o a, bs, a)
<1>1. PICK n \in Nat, k \in Nat : n = Len(bs) /\ k = Len(a)
  OBVIOUS
<1>2. PICK c : c = bs \o a
  OBVIOUS
<1>3. c \in Seq(Byte) /\ Len(c) = n + k
  BY <1>1, <1>2
<1>4. \A i \in 1 .. n : c[i] = bs[i]
  BY <1>1, <1>2
<1>5. \A i \in 1 .. k : c[n + i] = a[i]
  BY <1>1, <1>2
<1>6. Extends(c, bs)
  BY ONLY <1>1, <1>3, <1>4, n \in Nat, k \in Nat DEF Extends
<1>7. Holds(c, Len(bs), a)
  BY ONLY <1>1, <1>3, <1>5, n \in Nat, k \in Nat DEF Holds
<1> QED
  BY ONLY <1>1, <1>2, <1>3, <1>6, <1>7 DEF Joined

LEMMA RunBlockIs ==
  ASSUME NEW r \in 1 .. 62
  PROVE  RunBlock(r) \in Seq(Byte) /\ Len(RunBlock(r)) = 1 /\ RunBlock(r)[1] = 191 + r
<1>1. (r - 1) % 64 = r - 1
  OBVIOUS
<1>2. PICK v \in 192 .. 253 : v = 192 + (r - 1)
  OBVIOUS
<1>3. RunBlock(r) = << v >>
  BY ONLY <1>1, <1>2 DEF RunBlock
<1>4. v = 191 + r
  BY ONLY <1>2, r \in 1 .. 62
<1>5. << v >> \in Seq(Byte)
  BY ONLY v \in 192 .. 253 DEF Byte
<1> QED
  BY ONLY <1>3, <1>4, <1>5

\* The pixels that are the last colour again.
RunOf(im, k, l) == \A i \in k + 1 .. l : im[i] = Last(im, k)

LEMMA WriteRun ==
  ASSUME NEW im, NEW bs \in Seq(Byte), NEW k \in Nat, NEW r \in 1 .. 62, k + r <= Len(im),
         RunOf(im, k, k + r), Parsed(im, bs, k)
  PROVE  Joined(bs \o RunBlock(r), bs, RunBlock(r)) /\ Parsed(im, bs \o RunBlock(r), k + r)
<1>1. RunBlock(r) \in Seq(Byte) /\ Len(RunBlock(r)) = 1 /\ RunBlock(r)[1] = 191 + r
  BY RunBlockIs
<1>2. PICK a \in Seq(Byte) : a = RunBlock(r)
  BY <1>1
<1>3. PICK c : c = bs \o a
  OBVIOUS
<1>4. Joined(c, bs, a)
  BY <1>3, Joins
<1>5. PICK n \in Nat, l \in Nat : n = Len(bs) /\ l = k + r
  OBVIOUS
<1>6. Len(c) = n + 1 /\ c[n + 1] = 191 + r
  <2>1. Len(c) = n + Len(a) /\ \A i \in 1 .. Len(a) : c[n + i] = a[i]
    BY ONLY <1>4, <1>5 DEF Joined, Holds
  <2>2. Len(a) = 1 /\ a[1] = 191 + r /\ 1 \in 1 .. 1
    BY ONLY <1>1, <1>2
  <2>3. c[n + 1] = a[1]
    BY ONLY <2>1, <2>2
  <2> QED
    BY ONLY <2>1, <2>2, <2>3
<1>7. k < l /\ l <= k + 62 /\ 191 + r = 191 + (l - k)
  BY ONLY <1>5, k \in Nat, r \in 1 .. 62
<1>8. l <= Len(im) /\ RunOf(im, k, l)
  BY <1>5
<1>9. RunStep(im, c, n, k, n + 1, l)
  BY ONLY <1>6, <1>7, <1>8, n \in Nat DEF RunStep, RunOf
<1>10. BlockStep(im, c, Len(bs), k, Len(c), l)
  BY ONLY <1>5, <1>6, <1>9 DEF BlockStep
<1>11. c \in Seq(Byte) /\ Extends(c, bs)
  BY ONLY <1>4 DEF Joined
<1>12. Parsed(im, c, l)
  BY <1>10, <1>11, ParseNext
<1> QED
  BY ONLY <1>2, <1>3, <1>4, <1>5, <1>12

LEMMA WriteBlock ==
  ASSUME NEW im \in Seq(Pixel), NEW bs \in Seq(Byte), NEW k \in Nat, k < Len(im), NEW c \in [map : Maps, last_seen : Pixel, run_length : Nat],
         MapIs(im, c.map, k), c.last_seen = Last(im, k), Parsed(im, bs, k)
  PROVE  Joined(bs \o Block(im[k + 1], c), bs, Block(im[k + 1], c)) /\ Parsed(im, bs \o Block(im[k + 1], c), k + 1)
<1>1. PICK m \in Maps, last \in Pixel : m = c.map /\ last = c.last_seen
  OBVIOUS
<1>2. im[k + 1] \in Pixel
  <2>1. k + 1 \in 1 .. Len(im)
    OBVIOUS
  <2> QED
    BY ONLY <2>1, im \in Seq(Pixel)
<1>3. PICK a : a = Block(im[k + 1], c)
  OBVIOUS
<1>4. a = Block(im[k + 1], Coder(m, last))
  BY ONLY <1>1, <1>3 DEF Block, Coder
<1>5. StandsFor(a, im[k + 1], m, last)
  BY ONLY <1>2, <1>4, BlockStands, m \in Maps, last \in Pixel
<1>6. a \in Seq(Byte)
  BY ONLY <1>5 DEF StandsFor
<1>7. PICK d : d = bs \o a
  OBVIOUS
<1>8. Joined(d, bs, a)
  BY <1>6, <1>7, Joins
<1>9. d \in Seq(Byte) /\ Extends(d, bs) /\ Holds(d, Len(bs), a) /\ Len(d) = Len(bs) + Len(a)
  BY ONLY <1>8 DEF Joined
<1>10. PICK l \in Nat : l = k + 1 /\ l <= Len(im)
  OBVIOUS
<1>11. MapIs(im, m, k) /\ StandsFor(a, im[l], m, Last(im, k))
  BY <1>1, <1>5, <1>10
<1>12. PixelStep(im, d, Len(bs), k, Len(d), l)
  BY ONLY <1>6, <1>9, <1>10, <1>11, m \in Maps, Zenon DEF PixelStep
<1>13. BlockStep(im, d, Len(bs), k, Len(d), l)
  BY ONLY <1>12 DEF BlockStep
<1>14. Parsed(im, d, l)
  BY <1>9, <1>13, ParseNext
<1> QED
  BY ONLY <1>3, <1>7, <1>8, <1>10, <1>14

-----------------------------------------------------------------------------
\* A header, written and read.
BigEndian(d, p) == 256 * (256 * (256 * d[p + 1] + d[p + 2]) + d[p + 3]) + d[p + 4]

LEMMA BytesOfWord ==
  ASSUME NEW x \in Nat, x \div 256 ^ 3 \in Byte
  PROVE  BE32(x) \in Seq(Byte) /\ Len(BE32(x)) = 4 /\ BigEndian(BE32(x), 0) = x
<1>1. 256 ^ 3 = 16777216 /\ 256 ^ 2 = 65536 /\ 256 ^ 1 = 256 /\ 256 ^ 0 = 1
  OBVIOUS
<1>2. PICK b \in 0 .. 255, y \in Nat : x = 16777216 * b + y /\ y < 16777216 /\ x \div 16777216 = b
  <2>1. PICK b \in Int : b = x \div 16777216
    OBVIOUS
  <2>2. b \in 0 .. 255
    BY <1>1, <2>1 DEF Byte
  <2>3. PICK y \in Int : y = x - 16777216 * b
    OBVIOUS
  <2>4. y \in Nat /\ y < 16777216 /\ x = 16777216 * b + y
    BY ONLY <2>1, <2>3, x \in Nat, y \in Int, b \in Int
  <2> QED
    BY ONLY <2>1, <2>2, <2>4
<1>3. PICK c \in 0 .. 255, z \in Nat : y = 65536 * c + z /\ z < 65536
  <2>1. PICK c \in Int, z \in Int : c = y \div 65536 /\ z = y % 65536
    OBVIOUS
  <2>2. z \in Nat /\ y = 65536 * c + z /\ z < 65536
    BY ONLY <2>1, y \in Nat
  <2>3. c \in 0 .. 255
    <3>1. c < 256
      BY ONLY <1>2, <2>2, c \in Int
    <3>2. -1 < c
      BY ONLY <2>2, y \in Nat, z \in Int, c \in Int
    <3> QED
      BY ONLY <3>1, <3>2, c \in Int
  <2> QED
    BY ONLY <2>2, <2>3
<1>4. PICK d \in 0 .. 255, e \in 0 .. 255 : z = 256 * d + e
  <2>1. PICK d \in Int, e \in Int : d = z \div 256 /\ e = z % 256
    OBVIOUS
  <2>2. e \in 0 .. 255 /\ z = 256 * d + e
    BY ONLY <2>1, z \in Nat
  <2>3. d \in 0 .. 255
    <3>1. d < 256
      BY ONLY <1>3, <2>2, d \in Int
    <3>2. -1 < d
      BY ONLY <2>2, z \in Nat, d \in Int, e \in Int
    <3> QED
      BY ONLY <3>1, <3>2, d \in Int
  <2> QED
    BY ONLY <2>2, <2>3, Zenon
<1>5. b % 256 = b /\ (x \div 65536) % 256 = c /\ (x \div 256) % 256 = d /\ x % 256 = e
  <2>1. x \div 65536 = 256 * b + c
    BY ONLY <1>2, <1>3, b \in 0 .. 255, c \in 0 .. 255, z \in Nat
  <2>2. x \div 256 = 256 * (256 * b + c) + d
    BY ONLY <1>2, <1>3, <1>4, b \in 0 .. 255, c \in 0 .. 255, d \in 0 .. 255, e \in 0 .. 255
  <2>3. x = 256 * (256 * (256 * b + c) + d) + e
    BY ONLY <1>2, <1>3, <1>4, b \in 0 .. 255, c \in 0 .. 255, d \in 0 .. 255, e \in 0 .. 255
  <2> QED
    BY ONLY <2>1, <2>2, <2>3, b \in 0 .. 255, c \in 0 .. 255, d \in 0 .. 255, e \in 0 .. 255
<1>6. PICK w : w = BE32(x)
  OBVIOUS
<1>7. w = [k \in 1 .. 4 |-> (x \div 256 ^ (4 - k)) % 256]
  BY ONLY <1>6 DEF BE32
<1>8. w[1] = b /\ w[2] = c /\ w[3] = d /\ w[4] = e
  <2>1. w[1] = (x \div 256 ^ 3) % 256 /\ w[2] = (x \div 256 ^ 2) % 256
    BY ONLY <1>7
  <2>2. w[3] = (x \div 256 ^ 1) % 256 /\ w[4] = (x \div 256 ^ 0) % 256
    BY ONLY <1>7
  <2>3. x \div 1 = x
    OBVIOUS
  <2> QED
    BY ONLY <1>1, <1>2, <1>5, <2>1, <2>2, <2>3
<1>9. w \in [1 .. 4 -> Byte]
  <2>1. \A k \in 1 .. 4 : k = 1 \/ k = 2 \/ k = 3 \/ k = 4
    OBVIOUS
  <2>2. \A k \in 1 .. 4 : w[k] \in Byte
    BY ONLY <1>8, <2>1, b \in 0 .. 255, c \in 0 .. 255, d \in 0 .. 255, e \in 0 .. 255 DEF Byte
  <2> QED
    BY ONLY <1>7, <2>2
<1>10. w \in Seq(Byte) /\ Len(w) = 4
  BY ONLY <1>9, ArrayIsSeq, 4 \in Nat
<1>11. BigEndian(w, 0) = x
  <2>1. BigEndian(w, 0) = 256 * (256 * (256 * w[1] + w[2]) + w[3]) + w[4]
    BY ONLY TRUE DEF BigEndian
  <2> QED
    BY ONLY <1>2, <1>3, <1>4, <1>8, <2>1, b \in 0 .. 255, c \in 0 .. 255, d \in 0 .. 255, e \in 0 .. 255
<1> QED
  BY ONLY <1>6, <1>10, <1>11

\* The values of fields that are read from the front.
LEMMA NumberIs ==
  ASSUME NEW d \in Seq(Int)
  PROVE  \E v : /\ Number(d) = v[Len(d)] /\ v[0] = 0
                /\ \A i \in 1 .. Len(d) : v[i] = 256 * v[i - 1] + d[i]
<1> DEFINE n == Len(d)
           F == [p \in (1 .. n) \X Int |-> 256 * p[2] + d[p[1]]]
           body(g) == [i \in 0 .. n |-> IF i = 0 THEN 0 ELSE 256 * g[i - 1] + d[i]]
           r == CHOOSE g : g = body(g)
<1>1. Number(d) = r[n]
  BY Zenon DEF Number
<1>2. n \in Nat /\ \A i \in 1 .. n : d[i] \in Int
  OBVIOUS
<1> HIDE DEF n
<1>3. F \in [(1 .. n) \X Int -> Int]
  <2>1. ASSUME NEW i \in 1 .. n, NEW v \in Int PROVE 256 * v + d[i] \in Int
    BY <1>2
  <2> QED
    BY ONLY <2>1
<1>4. PICK g \in [0 .. n -> Int] : Recurs(g, n, 0, F)
  <2> HIDE DEF F
  <2> QED
    BY ONLY <1>2, <1>3, 0 \in Int, Recursion
<1>5. g = body(g)
  <2> DEFINE term(i) == IF i = 0 THEN 0 ELSE 256 * g[i - 1] + d[i]
  <2>1. g = [i \in 0 .. n |-> g[i]]
    BY <1>4
  <2>2. ASSUME NEW i \in 0 .. n PROVE g[i] = term(i)
    <3>1. CASE i = 0
      BY <1>4, <3>1 DEF Recurs
    <3>2. CASE i # 0
      <4>1. i \in 1 .. n /\ i - 1 \in 0 .. n
        BY <1>2, <3>2
      <4>2. g[i] = F[<<i, g[i - 1]>>] /\ <<i, g[i - 1]>> \in (1 .. n) \X Int
        <5> HIDE DEF F
        <5> QED
          BY <1>4, <4>1 DEF Recurs
      <4>3. g[i] = 256 * g[i - 1] + d[i]
        BY ONLY <4>2
      <4> QED
        BY <3>2, <4>3
    <3> QED
      BY <3>1, <3>2
  <2>3. body(g) = [i \in 0 .. n |-> term(i)]
    OBVIOUS
  <2> HIDE DEF term, body
  <2> QED
    BY <2>1, <2>2, <2>3
<1>6. r = body(r)
  <2> HIDE DEF body
  <2> QED
    BY <1>5
<1> HIDE DEF r, F
<1>7. r = [i \in 0 .. n |-> IF i = 0 THEN 0 ELSE 256 * r[i - 1] + d[i]]
  BY ONLY <1>6
<1> HIDE DEF body
<1>8. r[0] = 0 /\ \A i \in 1 .. n : r[i] = 256 * r[i - 1] + d[i]
  BY ONLY <1>2, <1>7
<1> QED
  BY ONLY <1>1, <1>8 DEF n

Reads == [ok : BOOLEAN, it : Nat, out : Seq(Int)]

LEMMA Primitives ==
  /\ Primitive("U8") = [size |-> 1, big |-> FALSE, signed |-> FALSE]
  /\ Primitive("U32BE") = [size |-> 4, big |-> TRUE, signed |-> FALSE]
BY DEF Primitive

LEMMA BytesAre == \A b \in Byte : b \in Int /\ b \in Nat /\ b \in 0 .. 255
BY DEF Byte

LEMMA ByteAt == \A d \in Seq(Byte), p \in Nat, i \in Nat \ {0} : p + i <= Len(d) => d[p + i] \in Byte
<1> SUFFICES ASSUME NEW d \in Seq(Byte), NEW p \in Nat, NEW i \in Nat \ {0}, p + i <= Len(d)
             PROVE  d[p + i] \in Byte
  OBVIOUS
<1>1. PICK q : q = p + i
  OBVIOUS
<1>2. q \in 1 .. Len(d)
  BY <1>1
<1>3. d[q] \in Byte
  BY <1>2
<1> QED
  BY ONLY <1>1, <1>3

\* The value of a field, behind the first p bytes.
LEMMA OneByteField ==
  ASSUME NEW d \in Seq(Byte), NEW p \in Nat, p + 1 < Len(d)
  PROVE  FieldValue(Primitive("U8"), d, p) = d[p + 1] /\ d[p + 1] \in Byte
<1>1. d[p + 1] \in Byte /\ d[p + 1] \in Int
  <2>1. d[p + 1] \in Byte
    BY ByteAt
  <2> QED
    BY ONLY <2>1, BytesAre
<1>2. PICK f : f = Primitive("U8")
  OBVIOUS
<1>3. f.size = 1 /\ f.big = FALSE /\ f.signed = FALSE
  BY ONLY <1>2, Primitives
<1>4. PICK a : a = [k \in 1 .. 1 |-> d[p + ((1 + 1) - k)]]
  OBVIOUS
<1>5. a \in Seq(Int) /\ Len(a) = 1 /\ a[1] = d[p + 1]
  <2>1. a[1] = d[p + 1]
    BY <1>4
  <2>2. a \in [1 .. 1 -> Int]
    BY <1>1, <1>4, <2>1
  <2> QED
    BY ONLY <2>1, <2>2, ArrayIsSeq, 1 \in Nat
<1>6. PICK v : Number(a) = v[Len(a)] /\ v[0] = 0 /\ \A i \in 1 .. Len(a) : v[i] = 256 * v[i - 1] + a[i]
  BY ONLY <1>5, NumberIs
<1>7. Number(a) = d[p + 1]
  <2>1. v[1] = 256 * v[1 - 1] + a[1] /\ Number(a) = v[1] /\ 1 - 1 = 0
    BY ONLY <1>5, <1>6
  <2> QED
    BY ONLY <1>1, <1>5, <1>6, <2>1
<1>8. FieldValue(f, d, p) = Number([k \in 1 .. f.size |-> d[p + (IF f.big THEN k ELSE (f.size + 1) - k)]])
  BY ONLY <1>3, Zenon DEF FieldValue
<1>9. [k \in 1 .. f.size |-> d[p + (IF f.big THEN k ELSE (f.size + 1) - k)]] = a
  BY ONLY <1>3, <1>4
<1> QED
  BY ONLY <1>1, <1>2, <1>7, <1>8, <1>9

LEMMA WordField ==
  ASSUME NEW d \in Seq(Byte), NEW p \in Nat, p + 4 < Len(d)
  PROVE  FieldValue(Primitive("U32BE"), d, p) = BigEndian(d, p) /\ BigEndian(d, p) \in Nat
<1>1. PICK b \in 0 .. 255, c \in 0 .. 255, e \in 0 .. 255, g \in 0 .. 255 :
        b = d[p + 1] /\ c = d[p + 2] /\ e = d[p + 3] /\ g = d[p + 4]
  <2>1. d[p + 1] \in Byte /\ d[p + 2] \in Byte /\ d[p + 3] \in Byte /\ d[p + 4] \in Byte
    BY ByteAt
  <2> QED
    BY ONLY <2>1, Zenon DEF Byte
<1>2. PICK f : f = Primitive("U32BE")
  OBVIOUS
<1>3. f.size = 4 /\ f.big = TRUE /\ f.signed = FALSE
  BY ONLY <1>2, Primitives
<1>4. PICK a : a = [k \in 1 .. 4 |-> d[p + k]]
  OBVIOUS
<1>5. a \in Seq(Int) /\ Len(a) = 4 /\ a[1] = b /\ a[2] = c /\ a[3] = e /\ a[4] = g
  <2>1. a[1] = b /\ a[2] = c /\ a[3] = e /\ a[4] = g
    BY ONLY <1>1, <1>4
  <2>2. \A k \in 1 .. 4 : k = 1 \/ k = 2 \/ k = 3 \/ k = 4
    OBVIOUS
  <2>3. \A k \in 1 .. 4 : a[k] \in Int
    BY ONLY <2>1, <2>2, b \in 0 .. 255, c \in 0 .. 255, e \in 0 .. 255, g \in 0 .. 255
  <2>4. a \in [1 .. 4 -> Int]
    BY ONLY <1>4, <2>3
  <2> QED
    BY ONLY <2>1, <2>4, ArrayIsSeq, 4 \in Nat
<1>6. PICK v : Number(a) = v[Len(a)] /\ v[0] = 0 /\ \A i \in 1 .. Len(a) : v[i] = 256 * v[i - 1] + a[i]
  BY ONLY <1>5, NumberIs
<1>7. /\ v[1] = 256 * v[0] + a[1] /\ v[2] = 256 * v[1] + a[2]
      /\ v[3] = 256 * v[2] + a[3] /\ v[4] = 256 * v[3] + a[4]
  <2>1. 1 - 1 = 0 /\ 2 - 1 = 1 /\ 3 - 1 = 2 /\ 4 - 1 = 3
    OBVIOUS
  <2>2. 1 \in 1 .. Len(a) /\ 2 \in 1 .. Len(a) /\ 3 \in 1 .. Len(a) /\ 4 \in 1 .. Len(a)
    BY ONLY <1>5
  <2>3. /\ v[1] = 256 * v[1 - 1] + a[1] /\ v[2] = 256 * v[2 - 1] + a[2]
        /\ v[3] = 256 * v[3 - 1] + a[3] /\ v[4] = 256 * v[4 - 1] + a[4]
    BY ONLY <1>6, <2>2
  <2> QED
    BY ONLY <2>1, <2>3
<1>8. PICK x \in Nat : x = 256 * (256 * (256 * b + c) + e) + g
  OBVIOUS
<1>9. Number(a) = x
  <2>1. v[1] = b
    BY ONLY <1>5, <1>6, <1>7, b \in 0 .. 255
  <2>2. v[2] = 256 * b + c
    BY ONLY <1>5, <1>7, <2>1
  <2>3. v[3] = 256 * (256 * b + c) + e
    BY ONLY <1>5, <1>7, <2>2
  <2>4. v[4] = 256 * (256 * (256 * b + c) + e) + g
    BY ONLY <1>5, <1>7, <2>3
  <2> QED
    BY ONLY <1>5, <1>6, <1>8, <2>4
<1>10. BigEndian(d, p) = x
  BY ONLY <1>1, <1>8 DEF BigEndian
<1>11. FieldValue(f, d, p) = Number([k \in 1 .. f.size |-> d[p + (IF f.big THEN k ELSE (f.size + 1) - k)]])
  BY ONLY <1>3, Zenon DEF FieldValue
<1>12. [k \in 1 .. f.size |-> d[p + (IF f.big THEN k ELSE (f.size + 1) - k)]] = a
  BY ONLY <1>3, <1>4
<1> QED
  BY ONLY <1>2, <1>9, <1>10, <1>11, <1>12, x \in Nat

\* A field of n bytes with value w is read, or not.
FieldRead(d, before, after, n, w) ==
  /\ after \in Reads
  /\ before.ok /\ before.it + n < Len(d) => after.ok
  /\ after.ok => /\ before.ok /\ after.it = before.it + n /\ after.it < Len(d)
                 /\ IsAppend(after.out, before.out, w, Int)

Width(name) == IF name = "U8" THEN 1 ELSE 4
ValueAt(name, d, p) == IF name = "U8" THEN d[p + 1] ELSE BigEndian(d, p)

LEMMA FieldIsRead ==
  ASSUME NEW d \in Seq(Byte), NEW before \in Reads, NEW name \in {"U8", "U32BE"}
  PROVE  FieldRead(d, before, DecodeField(Primitive(name), d, before), Width(name), ValueAt(name, d, before.it))
<1>1. PICK b \in BOOLEAN, p \in Nat, o \in Seq(Int) : b = before.ok /\ p = before.it /\ o = before.out
  BY DEF Reads
<1>2. PICK n \in {1, 4} : n = Width(name)
  BY DEF Width
<1>3. Primitive(name).size = n
  BY ONLY <1>2, Primitives, name \in {"U8", "U32BE"} DEF Width
<1>4. PICK x : x = ValueAt(name, d, p)
  OBVIOUS
<1>5. CASE b /\ p + n < Len(d)
  <2>1. FieldValue(Primitive(name), d, p) = x /\ x \in Int
    <3>1. CASE name = "U8"
      <4>1. n = 1 /\ x = d[p + 1]
        BY ONLY <1>2, <1>4, <3>1 DEF Width, ValueAt
      <4>2. p + 1 < Len(d)
        BY ONLY <1>5, <4>1
      <4>3. FieldValue(Primitive("U8"), d, p) = d[p + 1] /\ d[p + 1] \in Byte
        BY ONLY <4>2, OneByteField, d \in Seq(Byte), p \in Nat
      <4>4. d[p + 1] \in Int
        BY ONLY <4>3, BytesAre
      <4> QED
        BY ONLY <3>1, <4>1, <4>3, <4>4
    <3>2. CASE name = "U32BE"
      BY <1>2, <1>4, <1>5, <3>2, WordField DEF Width, ValueAt
    <3> QED
      BY ONLY <3>1, <3>2, name \in {"U8", "U32BE"}
  <2>2. PICK a : a = Append(o, x)
    OBVIOUS
  <2>3. IsAppend(a, o, x, Int)
    BY ONLY <2>1, <2>2, Appended, o \in Seq(Int)
  <2>4. DecodeField(Primitive(name), d, before) = Decoded(TRUE, p + n, a)
    BY ONLY <1>1, <1>3, <1>5, <2>1, <2>2 DEF DecodeField, FieldFits
  <2>5. PICK after : after = Decoded(TRUE, p + n, a)
    OBVIOUS
  <2>6. after.ok = TRUE /\ after.it = p + n /\ after.out = a /\ after \in Reads
    <3>1. a \in Seq(Int)
      BY ONLY <2>3 DEF IsAppend
    <3>2. p + n \in Nat
      OBVIOUS
    <3> QED
      BY ONLY <2>5, <3>1, <3>2 DEF Decoded, Reads
  <2>7. FieldRead(d, before, after, n, x)
    BY ONLY <1>1, <1>5, <2>3, <2>6 DEF FieldRead
  <2> QED
    BY ONLY <1>1, <1>2, <1>4, <2>4, <2>5, <2>7
<1>6. CASE ~(b /\ p + n < Len(d))
  <2>1. DecodeField(Primitive(name), d, before) = Decoded(FALSE, p, o)
    BY ONLY <1>1, <1>3, <1>6 DEF DecodeField, FieldFits
  <2>2. PICK after : after = Decoded(FALSE, p, o)
    OBVIOUS
  <2>3. after.ok = FALSE /\ after \in Reads
    BY ONLY <2>2, p \in Nat, o \in Seq(Int) DEF Decoded, Reads
  <2>4. FieldRead(d, before, after, n, x)
    BY ONLY <1>1, <1>6, <2>3 DEF FieldRead
  <2> QED
    BY ONLY <1>1, <1>2, <1>4, <2>1, <2>2, <2>4
<1> QED
  BY ONLY <1>5, <1>6

\* The fields of a header, one after the other.
LEMMA HeaderFields ==
  ASSUME NEW d \in Seq(Byte)
  PROVE  \E f : /\ decode(HeaderFormat, d, 0) = f[8] /\ f[0] = Decoded(TRUE, 0, << >>)
                /\ \A i \in 1 .. 8 : f[i - 1] \in Reads /\ f[i] = DecodeField(Primitive(HeaderFormat[i]), d, f[i - 1])
<1> DEFINE first == Decoded(TRUE, 0, << >>)
           step(i, x) == DecodeField(Primitive(HeaderFormat[i]), d, x)
           F == [p \in (1 .. 8) \X Reads |-> step(p[1], p[2])]
           body(g) == [i \in 0 .. 8 |-> IF i = 0 THEN first ELSE step(i, g[i - 1])]
           r == CHOOSE g : g = body(g)
<1>1. decode(HeaderFormat, d, 0) = r[8]
  <2>1. Len(HeaderFormat) = 8
    BY DEF HeaderFormat
  <2>2. decode(HeaderFormat, d, 0) = (CHOOSE g : g = [i \in 0 .. Len(HeaderFormat) |-> IF i = 0 THEN first ELSE step(i, g[i - 1])])[Len(HeaderFormat)]
    BY Zenon DEF decode
  <2> QED
    BY ONLY <2>1, <2>2, Zenon
<1>2. first \in Reads
  BY DEF Decoded, Reads
<1>3. \A i \in 1 .. 8 : HeaderFormat[i] \in {"U8", "U32BE"}
  BY DEF HeaderFormat
<1>4. \A i \in 1 .. 8, x \in Reads : step(i, x) \in Reads
  BY ONLY <1>3, FieldIsRead, d \in Seq(Byte), Zenon DEF FieldRead
<1> HIDE DEF first, step
<1>5. F \in [(1 .. 8) \X Reads -> Reads]
  BY ONLY <1>4
<1>6. PICK g \in [0 .. 8 -> Reads] : Recurs(g, 8, first, F)
  <2> HIDE DEF F
  <2> QED
    BY ONLY <1>2, <1>5, 8 \in Nat, Recursion
<1>7. g = body(g)
  <2> DEFINE term(i) == IF i = 0 THEN first ELSE step(i, g[i - 1])
  <2>1. g = [i \in 0 .. 8 |-> g[i]]
    BY <1>6
  <2>2. ASSUME NEW i \in 0 .. 8 PROVE g[i] = term(i)
    <3>1. CASE i = 0
      BY <1>6, <3>1 DEF Recurs
    <3>2. CASE i # 0
      <4>1. i \in 1 .. 8 /\ i - 1 \in 0 .. 8
        BY <3>2
      <4>2. g[i - 1] \in Reads
        BY ONLY <4>1, g \in [0 .. 8 -> Reads]
      <4>3. g[i] = F[<<i, g[i - 1]>>] /\ <<i, g[i - 1]>> \in (1 .. 8) \X Reads
        <5> HIDE DEF F
        <5> QED
          BY ONLY <1>6, <4>1, <4>2 DEF Recurs
      <4>4. g[i] = step(i, g[i - 1])
        BY ONLY <4>3
      <4> QED
        BY <3>2, <4>4
    <3> QED
      BY <3>1, <3>2
  <2>3. body(g) = [i \in 0 .. 8 |-> term(i)]
    OBVIOUS
  <2> HIDE DEF term, body
  <2> QED
    BY <2>1, <2>2, <2>3
<1>8. r = body(r)
  <2> HIDE DEF body
  <2> QED
    BY <1>7
<1> HIDE DEF r, F
<1>9. r = [i \in 0 .. 8 |-> IF i = 0 THEN first ELSE step(i, r[i - 1])]
  BY ONLY <1>8
<1> HIDE DEF body
<1>10. r[0] = first
  BY ONLY <1>9
<1>11. ASSUME NEW i \in 1 .. 8 PROVE r[i] = step(i, r[i - 1])
  BY ONLY <1>9
<1>12. /\ r[0] \in Reads /\ r[1] \in Reads /\ r[2] \in Reads /\ r[3] \in Reads
       /\ r[4] \in Reads /\ r[5] \in Reads /\ r[6] \in Reads /\ r[7] \in Reads
  <2>1. r[0] \in Reads
    BY ONLY <1>2, <1>10
  <2>2. ASSUME NEW i \in 1 .. 8, r[i - 1] \in Reads PROVE r[i] \in Reads
    BY ONLY <1>4, <1>11, <2>2
  <2>3. r[1] \in Reads
    <3>1. r[1 - 1] = r[0]
      OBVIOUS
    <3> QED
      BY ONLY <2>1, <2>2, <3>1, 1 \in 1 .. 8
  <2>4. r[2] \in Reads
    <3>1. r[2 - 1] = r[1]
      OBVIOUS
    <3> QED
      BY ONLY <2>3, <2>2, <3>1, 2 \in 1 .. 8
  <2>5. r[3] \in Reads
    <3>1. r[3 - 1] = r[2]
      OBVIOUS
    <3> QED
      BY ONLY <2>4, <2>2, <3>1, 3 \in 1 .. 8
  <2>6. r[4] \in Reads
    <3>1. r[4 - 1] = r[3]
      OBVIOUS
    <3> QED
      BY ONLY <2>5, <2>2, <3>1, 4 \in 1 .. 8
  <2>7. r[5] \in Reads
    <3>1. r[5 - 1] = r[4]
      OBVIOUS
    <3> QED
      BY ONLY <2>6, <2>2, <3>1, 5 \in 1 .. 8
  <2>8. r[6] \in Reads
    <3>1. r[6 - 1] = r[5]
      OBVIOUS
    <3> QED
      BY ONLY <2>7, <2>2, <3>1, 6 \in 1 .. 8
  <2>9. r[7] \in Reads
    <3>1. r[7 - 1] = r[6]
      OBVIOUS
    <3> QED
      BY ONLY <2>8, <2>2, <3>1, 7 \in 1 .. 8
  <2> QED
    BY ONLY <2>1, <2>3, <2>4, <2>5, <2>6, <2>7, <2>8, <2>9
<1>13. ASSUME NEW i \in 1 .. 8 PROVE r[i - 1] \in Reads
  <2>1. i - 1 = 0 \/ i - 1 = 1 \/ i - 1 = 2 \/ i - 1 = 3 \/ i - 1 = 4 \/ i - 1 = 5 \/ i - 1 = 6 \/ i - 1 = 7
    OBVIOUS
  <2> QED
    BY ONLY <1>12, <2>1
<1> QED
  BY ONLY <1>1, <1>10, <1>11, <1>13 DEF first, step

\* How far a header has been read: the next offset and the values so far.
ReadTo(r, d, n, p, w) ==
  /\ r \in Reads
  /\ p < Len(d) => r.ok
  /\ r.ok => r.it = p /\ (0 < n => p < Len(d)) /\ Len(r.out) = n /\ \A i \in 1 .. n : r.out[i] = w[i]

LEMMA ReadsOn ==
  ASSUME NEW d \in Seq(Byte), NEW r, NEW after, NEW n \in Nat, NEW p \in Nat, NEW q \in Nat, NEW w, NEW name \in {"U8", "U32BE"},
         ReadTo(r, d, n, p, w), after = DecodeField(Primitive(name), d, r),
         q = p + Width(name), w[n + 1] = ValueAt(name, d, p)
  PROVE  ReadTo(after, d, n + 1, q, w)
<1>1. r \in Reads
  BY ONLY ReadTo(r, d, n, p, w) DEF ReadTo
<1>2. PICK s \in Nat : s = Width(name)
  BY DEF Width
<1>3. FieldRead(d, r, after, s, ValueAt(name, d, r.it))
  BY <1>1, <1>2, FieldIsRead
<1>4. after \in Reads
  BY ONLY <1>3 DEF FieldRead
<1>5. PICK f \in Nat : f = Len(d)
  OBVIOUS
<1>6. q = p + s
  BY <1>2
<1>7. PICK b \in BOOLEAN, x \in Nat, o \in Seq(Int) : b = r.ok /\ x = r.it /\ o = r.out
  BY ONLY <1>1 DEF Reads
<1>8. PICK c \in BOOLEAN, y \in Nat, z \in Seq(Int) : c = after.ok /\ y = after.it /\ z = after.out
  BY ONLY <1>4 DEF Reads
<1>9. /\ b /\ x + s < f => c
      /\ c => b /\ y = x + s /\ y < f /\ IsAppend(z, o, ValueAt(name, d, x), Int)
  BY ONLY <1>3, <1>5, <1>7, <1>8 DEF FieldRead
<1>10. /\ p < f => b
       /\ b => x = p /\ Len(o) = n /\ \A i \in 1 .. n : o[i] = w[i]
  BY ONLY <1>5, <1>7, ReadTo(r, d, n, p, w) DEF ReadTo
<1>11. q < f => c
  <2> SUFFICES ASSUME q < f PROVE c
    OBVIOUS
  <2>1. p < f
    BY ONLY <1>6, q < f, p \in Nat, s \in Nat, f \in Nat, q \in Nat
  <2>2. b /\ x = p
    BY ONLY <1>10, <2>1
  <2>3. x + s < f
    BY ONLY <1>6, <2>2, q < f
  <2> QED
    BY ONLY <1>9, <2>2, <2>3
<1>12. ASSUME c PROVE y = q /\ q < f /\ Len(z) = n + 1 /\ \A i \in 1 .. n + 1 : z[i] = w[i]
  <2>1. b /\ y = x + s /\ y < f /\ IsAppend(z, o, ValueAt(name, d, x), Int)
    BY ONLY <1>9, <1>12
  <2>2. x = p /\ Len(o) = n /\ \A i \in 1 .. n : o[i] = w[i]
    BY ONLY <1>10, <2>1
  <2>3. Len(z) = n + 1 /\ z[n + 1] = w[n + 1] /\ \A i \in 1 .. n : z[i] = o[i]
    BY ONLY <2>1, <2>2, w[n + 1] = ValueAt(name, d, p) DEF IsAppend
  <2>4. \A i \in 1 .. n + 1 : i \in 1 .. n \/ i = n + 1
    BY ONLY n \in Nat
  <2>5. \A i \in 1 .. n + 1 : z[i] = w[i]
    BY ONLY <2>2, <2>3, <2>4
  <2>6. y = q
    BY ONLY <1>6, <2>1, <2>2
  <2> QED
    BY ONLY <2>1, <2>3, <2>5, <2>6
<1> QED
  BY ONLY <1>4, <1>5, <1>8, <1>11, <1>12 DEF ReadTo

\* The values of the fields of a header.
Fields(d) == << d[1], d[2], d[3], d[4], BigEndian(d, 4), BigEndian(d, 8), d[13], d[14] >>

\* A header is read when a byte follows it.
LEMMA HeaderIs ==
  ASSUME NEW d \in Seq(Byte)
  PROVE  ReadTo(decode(HeaderFormat, d, 0), d, 8, 14, Fields(d))
<1>1. PICK f : /\ decode(HeaderFormat, d, 0) = f[8] /\ f[0] = Decoded(TRUE, 0, << >>)
               /\ \A i \in 1 .. 8 : f[i - 1] \in Reads /\ f[i] = DecodeField(Primitive(HeaderFormat[i]), d, f[i - 1])
  BY HeaderFields
<1>2. PICK w : w = Fields(d)
  OBVIOUS
<1>3. /\ w[1] = d[1] /\ w[2] = d[2] /\ w[3] = d[3] /\ w[4] = d[4]
      /\ w[5] = BigEndian(d, 4) /\ w[6] = BigEndian(d, 8) /\ w[7] = d[13] /\ w[8] = d[14]
  BY ONLY <1>2 DEF Fields
<1>4. /\ HeaderFormat[1] = "U8" /\ HeaderFormat[2] = "U8" /\ HeaderFormat[3] = "U8" /\ HeaderFormat[4] = "U8"
      /\ HeaderFormat[5] = "U32BE" /\ HeaderFormat[6] = "U32BE" /\ HeaderFormat[7] = "U8" /\ HeaderFormat[8] = "U8"
  BY DEF HeaderFormat
<1>5. /\ f[1] = DecodeField(Primitive("U8"), d, f[0]) /\ f[2] = DecodeField(Primitive("U8"), d, f[1])
      /\ f[3] = DecodeField(Primitive("U8"), d, f[2]) /\ f[4] = DecodeField(Primitive("U8"), d, f[3])
      /\ f[5] = DecodeField(Primitive("U32BE"), d, f[4]) /\ f[6] = DecodeField(Primitive("U32BE"), d, f[5])
      /\ f[7] = DecodeField(Primitive("U8"), d, f[6]) /\ f[8] = DecodeField(Primitive("U8"), d, f[7])
  <2>1. ASSUME NEW i \in 1 .. 8 PROVE f[i] = DecodeField(Primitive(HeaderFormat[i]), d, f[i - 1])
    BY ONLY <1>1
  <2>2. 1 - 1 = 0 /\ 2 - 1 = 1 /\ 3 - 1 = 2 /\ 4 - 1 = 3 /\ 5 - 1 = 4 /\ 6 - 1 = 5 /\ 7 - 1 = 6 /\ 8 - 1 = 7
    OBVIOUS
  <2>3. 1 \in 1 .. 8 /\ 2 \in 1 .. 8 /\ 3 \in 1 .. 8 /\ 4 \in 1 .. 8 /\ 5 \in 1 .. 8 /\ 6 \in 1 .. 8 /\ 7 \in 1 .. 8 /\ 8 \in 1 .. 8
    OBVIOUS
  <2>4. f[1] = DecodeField(Primitive("U8"), d, f[0]) /\ f[2] = DecodeField(Primitive("U8"), d, f[1])
    BY ONLY <1>4, <2>1, <2>2, <2>3
  <2>5. f[3] = DecodeField(Primitive("U8"), d, f[2]) /\ f[4] = DecodeField(Primitive("U8"), d, f[3])
    BY ONLY <1>4, <2>1, <2>2, <2>3
  <2>6. f[5] = DecodeField(Primitive("U32BE"), d, f[4]) /\ f[6] = DecodeField(Primitive("U32BE"), d, f[5])
    BY ONLY <1>4, <2>1, <2>2, <2>3
  <2>7. f[7] = DecodeField(Primitive("U8"), d, f[6]) /\ f[8] = DecodeField(Primitive("U8"), d, f[7])
    BY ONLY <1>4, <2>1, <2>2, <2>3
  <2> QED
    BY ONLY <2>4, <2>5, <2>6, <2>7
<1>6. Width("U8") = 1 /\ Width("U32BE") = 4
  BY DEF Width
<1>7. ASSUME NEW r, NEW after, NEW n \in Nat, NEW p \in Nat,
             ReadTo(r, d, n, p, w), after = DecodeField(Primitive("U8"), d, r), w[n + 1] = d[p + 1]
      PROVE  ReadTo(after, d, n + 1, p + 1, w)
  <2>1. w[n + 1] = ValueAt("U8", d, p)
    BY ONLY <1>7 DEF ValueAt
  <2>2. PICK q \in Nat : q = p + 1
    OBVIOUS
  <2>3. q = p + Width("U8")
    BY ONLY <1>6, <2>2
  <2>4. ReadTo(after, d, n + 1, q, w)
    BY <1>7, <2>1, <2>3, ReadsOn
  <2> QED
    BY ONLY <2>2, <2>4
<1>8. ASSUME NEW r, NEW after, NEW n \in Nat, NEW p \in Nat,
             ReadTo(r, d, n, p, w), after = DecodeField(Primitive("U32BE"), d, r), w[n + 1] = BigEndian(d, p)
      PROVE  ReadTo(after, d, n + 1, p + 4, w)
  <2>1. w[n + 1] = ValueAt("U32BE", d, p)
    BY ONLY <1>8 DEF ValueAt
  <2>2. PICK q \in Nat : q = p + 4
    OBVIOUS
  <2>3. q = p + Width("U32BE")
    BY ONLY <1>6, <2>2
  <2>4. ReadTo(after, d, n + 1, q, w)
    BY <1>8, <2>1, <2>3, ReadsOn
  <2> QED
    BY ONLY <2>2, <2>4
<1>9. ReadTo(f[0], d, 0, 0, w)
  <2>1. f[0] \in Reads
    <3>1. f[1 - 1] \in Reads /\ 1 - 1 = 0
      BY <1>1
    <3> QED
      BY ONLY <3>1
  <2>2. PICK o : o = << >>
    OBVIOUS
  <2>3. PICK r : r = f[0] /\ r = Decoded(TRUE, 0, o)
    BY ONLY <1>1, <2>2
  <2>4. r.ok = TRUE /\ r.it = 0 /\ r.out = o
    BY ONLY <2>3 DEF Decoded
  <2>5. Len(o) = 0
    BY <2>2
  <2> QED
    <3>1. ~(0 < 0) /\ \A i \in 1 .. 0 : FALSE
      OBVIOUS
    <3>2. ReadTo(r, d, 0, 0, w)
      BY ONLY <2>1, <2>3, <2>4, <2>5, <3>1, Zenon DEF ReadTo
    <3> QED
      BY ONLY <2>3, <3>2
<1>10. ReadTo(f[1], d, 1, 1, w)
  <2>1. w[0 + 1] = d[0 + 1] /\ 0 + 1 = 1 /\ 0 + 1 = 1
    BY ONLY <1>3
  <2>2. ReadTo(f[1], d, 0 + 1, 0 + 1, w)
    BY ONLY <1>5, <1>7, <1>9, <2>1, 0 \in Nat, 0 \in Nat
  <2> QED
    BY ONLY <2>1, <2>2
<1>11. ReadTo(f[2], d, 2, 2, w)
  <2>1. w[1 + 1] = d[1 + 1] /\ 1 + 1 = 2 /\ 1 + 1 = 2
    BY ONLY <1>3
  <2>2. ReadTo(f[2], d, 1 + 1, 1 + 1, w)
    BY ONLY <1>5, <1>7, <1>10, <2>1, 1 \in Nat, 1 \in Nat
  <2> QED
    BY ONLY <2>1, <2>2
<1>12. ReadTo(f[3], d, 3, 3, w)
  <2>1. w[2 + 1] = d[2 + 1] /\ 2 + 1 = 3 /\ 2 + 1 = 3
    BY ONLY <1>3
  <2>2. ReadTo(f[3], d, 2 + 1, 2 + 1, w)
    BY ONLY <1>5, <1>7, <1>11, <2>1, 2 \in Nat, 2 \in Nat
  <2> QED
    BY ONLY <2>1, <2>2
<1>13. ReadTo(f[4], d, 4, 4, w)
  <2>1. w[3 + 1] = d[3 + 1] /\ 3 + 1 = 4 /\ 3 + 1 = 4
    BY ONLY <1>3
  <2>2. ReadTo(f[4], d, 3 + 1, 3 + 1, w)
    BY ONLY <1>5, <1>7, <1>12, <2>1, 3 \in Nat, 3 \in Nat
  <2> QED
    BY ONLY <2>1, <2>2
<1>14. ReadTo(f[5], d, 5, 8, w)
  <2>1. w[4 + 1] = BigEndian(d, 4) /\ 4 + 1 = 5 /\ 4 + 4 = 8
    BY ONLY <1>3
  <2>2. ReadTo(f[5], d, 4 + 1, 4 + 4, w)
    BY ONLY <1>5, <1>8, <1>13, <2>1, 4 \in Nat, 4 \in Nat
  <2> QED
    BY ONLY <2>1, <2>2
<1>15. ReadTo(f[6], d, 6, 12, w)
  <2>1. w[5 + 1] = BigEndian(d, 8) /\ 5 + 1 = 6 /\ 8 + 4 = 12
    BY ONLY <1>3
  <2>2. ReadTo(f[6], d, 5 + 1, 8 + 4, w)
    BY ONLY <1>5, <1>8, <1>14, <2>1, 5 \in Nat, 8 \in Nat
  <2> QED
    BY ONLY <2>1, <2>2
<1>16. ReadTo(f[7], d, 7, 13, w)
  <2>1. w[6 + 1] = d[12 + 1] /\ 6 + 1 = 7 /\ 12 + 1 = 13
    BY ONLY <1>3
  <2>2. ReadTo(f[7], d, 6 + 1, 12 + 1, w)
    BY ONLY <1>5, <1>7, <1>15, <2>1, 6 \in Nat, 12 \in Nat
  <2> QED
    BY ONLY <2>1, <2>2
<1>17. ReadTo(f[8], d, 8, 14, w)
  <2>1. w[7 + 1] = d[13 + 1] /\ 7 + 1 = 8 /\ 13 + 1 = 14
    BY ONLY <1>3
  <2>2. ReadTo(f[8], d, 7 + 1, 13 + 1, w)
    BY ONLY <1>5, <1>7, <1>16, <2>1, 7 \in Nat, 13 \in Nat
  <2> QED
    BY ONLY <2>1, <2>2
<1> QED
  BY ONLY <1>1, <1>2, <1>17

\* The header of an image of n pixels in one row.
HeaderOf(n, d) ==
  /\ 14 <= Len(d)
  /\ d[1] = 113 /\ d[2] = 111 /\ d[3] = 105 /\ d[4] = 102
  /\ BigEndian(d, 4) = n /\ BigEndian(d, 8) = 1
  /\ d[13] = 4 /\ d[14] = 0

LEMMA WordsAgree ==
  ASSUME NEW d \in Seq(Byte), NEW p \in Nat, NEW a \in Seq(Byte), Len(a) = 4, Holds(d, p, a)
  PROVE  BigEndian(d, p) = BigEndian(a, 0)
<1>1. d[p + 1] = a[1] /\ d[p + 2] = a[2] /\ d[p + 3] = a[3] /\ d[p + 4] = a[4]
  BY DEF Holds
<1>2. BigEndian(a, 0) = 256 * (256 * (256 * a[1] + a[2]) + a[3]) + a[4]
  BY ONLY TRUE DEF BigEndian
<1> QED
  BY ONLY <1>1, <1>2 DEF BigEndian

LEMMA HoldsOn ==
  ASSUME NEW bs \in Seq(Byte), NEW c \in Seq(Byte), NEW a \in Seq(Byte), NEW p \in Nat, Holds(bs, p, a), Extends(c, bs)
  PROVE  Holds(c, p, a)
<1>1. PICK n \in Nat, f \in Nat, g \in Nat : n = Len(a) /\ f = Len(bs) /\ g = Len(c)
  OBVIOUS
<1>2. p + n <= f /\ f <= g /\ \A i \in 1 .. n : bs[p + i] = a[i]
  BY ONLY <1>1, Holds(bs, p, a), Extends(c, bs) DEF Holds, Extends
<1>3. \A i \in 1 .. n : p + i \in 1 .. f
  BY ONLY <1>2, p \in Nat, n \in Nat, f \in Nat
<1>4. \A i \in 1 .. n : c[p + i] = a[i]
  BY ONLY <1>1, <1>2, <1>3, Extends(c, bs) DEF Extends
<1>5. p + n <= g
  BY ONLY <1>2, p \in Nat, n \in Nat, f \in Nat, g \in Nat
<1> QED
  BY ONLY <1>1, <1>4, <1>5 DEF Holds

LEMMA HeaderWritten ==
  ASSUME NEW n \in Nat, n \div 256 ^ 3 \in Byte
  PROVE  to_bytes(n, 1) \in Seq(Byte) /\ Len(to_bytes(n, 1)) = 14 /\ HeaderOf(n, to_bytes(n, 1))
<1>1. PICK a : a = << 113, 111, 105, 102 >>
  OBVIOUS
<1>2. a \in Seq(Byte) /\ Len(a) = 4 /\ a[1] = 113 /\ a[2] = 111 /\ a[3] = 105 /\ a[4] = 102
  <2>1. 113 \in Byte /\ 111 \in Byte /\ 105 \in Byte /\ 102 \in Byte
    BY DEF Byte
  <2> QED
    BY ONLY <1>1, <2>1
<1>3. PICK b : b = BE32(n)
  OBVIOUS
<1>4. b \in Seq(Byte) /\ Len(b) = 4 /\ BigEndian(b, 0) = n
  BY <1>3, BytesOfWord
<1>5. PICK c : c = BE32(1)
  OBVIOUS
<1>6. c \in Seq(Byte) /\ Len(c) = 4 /\ BigEndian(c, 0) = 1
  <2>1. 256 ^ 3 = 16777216 /\ 1 \div 16777216 = 0
    OBVIOUS
  <2>2. 1 \div 256 ^ 3 \in Byte
    BY <2>1 DEF Byte
  <2> QED
    BY ONLY <1>5, <2>2, BytesOfWord, 1 \in Nat
<1>7. PICK e : e = << 4, 0 >>
  OBVIOUS
<1>8. e \in Seq(Byte) /\ Len(e) = 2 /\ e[1] = 4 /\ e[2] = 0
  <2>1. 4 \in Byte /\ 0 \in Byte
    BY DEF Byte
  <2> QED
    BY ONLY <1>7, <2>1
<1>9. PICK x : x = a \o b
  OBVIOUS
<1>10. Joined(x, a, b)
  BY ONLY <1>2, <1>4, <1>9, Joins
<1>11. x \in Seq(Byte) /\ Len(x) = 8 /\ Extends(x, a) /\ Holds(x, 4, b)
  BY ONLY <1>2, <1>4, <1>10 DEF Joined
<1>12. PICK y : y = x \o c
  OBVIOUS
<1>13. Joined(y, x, c)
  BY ONLY <1>6, <1>11, <1>12, Joins
<1>14. y \in Seq(Byte) /\ Len(y) = 12 /\ Extends(y, x) /\ Holds(y, 8, c)
  BY ONLY <1>6, <1>11, <1>13 DEF Joined
<1>15. PICK z : z = y \o e
  OBVIOUS
<1>16. Joined(z, y, e)
  BY ONLY <1>8, <1>14, <1>15, Joins
<1>17. z \in Seq(Byte) /\ Len(z) = 14 /\ Extends(z, y) /\ Holds(z, 12, e)
  BY ONLY <1>8, <1>14, <1>16 DEF Joined
<1>18. BigEndian(z, 4) = n
  <2>1. Holds(y, 4, b)
    BY ONLY <1>4, <1>11, <1>14, HoldsOn, 4 \in Nat
  <2>2. Holds(z, 4, b)
    BY ONLY <1>4, <1>14, <1>17, <2>1, HoldsOn, 4 \in Nat
  <2> QED
    BY ONLY <1>4, <1>17, <2>2, WordsAgree, 4 \in Nat
<1>19. BigEndian(z, 8) = 1
  <2>1. Holds(z, 8, c)
    BY ONLY <1>6, <1>14, <1>17, HoldsOn, 8 \in Nat
  <2> QED
    BY ONLY <1>6, <1>17, <2>1, WordsAgree, 8 \in Nat
<1>20. ASSUME NEW i \in 1 .. 4 PROVE z[i] = a[i]
  <2>1. i \in 1 .. 12 /\ i \in 1 .. 8
    OBVIOUS
  <2>2. z[i] = y[i]
    BY ONLY <1>14, <1>17, <2>1 DEF Extends
  <2>3. y[i] = x[i]
    BY ONLY <1>11, <1>14, <2>1 DEF Extends
  <2>4. x[i] = a[i]
    BY ONLY <1>2, <1>11, i \in 1 .. 4 DEF Extends
  <2> QED
    BY ONLY <2>2, <2>3, <2>4
<1>21. z[13] = 4 /\ z[14] = 0
  BY ONLY <1>8, <1>17 DEF Holds
<1>22. HeaderOf(n, z)
  <2>1. z[1] = 113 /\ z[2] = 111 /\ z[3] = 105 /\ z[4] = 102
    BY ONLY <1>2, <1>20
  <2> QED
    BY ONLY <1>17, <1>18, <1>19, <1>21, <2>1 DEF HeaderOf
<1>23. to_bytes(n, 1) = z
  <2>1. to_bytes(n, 1) = << 113, 111, 105, 102 >> \o BE32(n) \o BE32(1) \o << 4, 0 >>
    BY ONLY TRUE DEF to_bytes
  <2>2. to_bytes(n, 1) = ((<< 113, 111, 105, 102 >> \o BE32(n)) \o BE32(1)) \o << 4, 0 >>
    BY ONLY <2>1
  <2> QED
    BY ONLY <1>1, <1>3, <1>5, <1>7, <1>9, <1>12, <1>15, <2>2
<1> QED
  BY ONLY <1>17, <1>22, <1>23

\* It is in the first fourteen bytes.
LEMMA SameHeader ==
  ASSUME NEW n, NEW d, NEW c, 14 <= Len(c), \A i \in 1 .. 14 : c[i] = d[i], HeaderOf(n, d)
  PROVE  HeaderOf(n, c)
<1>1. /\ c[1] = d[1] /\ c[2] = d[2] /\ c[3] = d[3] /\ c[4] = d[4] /\ c[5] = d[5] /\ c[6] = d[6] /\ c[7] = d[7]
      /\ c[8] = d[8] /\ c[9] = d[9] /\ c[10] = d[10] /\ c[11] = d[11] /\ c[12] = d[12] /\ c[13] = d[13] /\ c[14] = d[14]
  BY ONLY \A i \in 1 .. 14 : c[i] = d[i]
<1>2. BigEndian(c, 4) = BigEndian(d, 4)
  <2>1. /\ BigEndian(c, 4) = 256 * (256 * (256 * c[5] + c[6]) + c[7]) + c[8]
        /\ BigEndian(d, 4) = 256 * (256 * (256 * d[5] + d[6]) + d[7]) + d[8]
    BY ONLY TRUE DEF BigEndian
  <2> QED
    BY ONLY <1>1, <2>1
<1>3. BigEndian(c, 8) = BigEndian(d, 8)
  <2>1. /\ BigEndian(c, 8) = 256 * (256 * (256 * c[9] + c[10]) + c[11]) + c[12]
        /\ BigEndian(d, 8) = 256 * (256 * (256 * d[9] + d[10]) + d[11]) + d[12]
    BY ONLY TRUE DEF BigEndian
  <2> QED
    BY ONLY <1>1, <2>1
<1> QED
  BY ONLY <1>1, <1>2, <1>3, 14 <= Len(c), HeaderOf(n, d), Zenon DEF HeaderOf

\* Bytes that begin with it have it as well.
LEMMA HeaderStays ==
  ASSUME NEW n, NEW d \in Seq(Byte), NEW c \in Seq(Byte), Extends(c, d), HeaderOf(n, d)
  PROVE  HeaderOf(n, c)
<1>1. 14 <= Len(d) /\ Len(d) <= Len(c)
  BY DEF HeaderOf, Extends
<1>2. \A i \in 1 .. 14 : c[i] = d[i]
  <2> SUFFICES ASSUME NEW i \in 1 .. 14 PROVE c[i] = d[i]
    OBVIOUS
  <2>1. i \in 1 .. Len(d)
    BY ONLY <1>1, d \in Seq(Byte), i \in 1 .. 14
  <2> QED
    BY ONLY <2>1, Extends(c, d) DEF Extends
<1>3. 14 <= Len(c)
  BY ONLY <1>1, c \in Seq(Byte), d \in Seq(Byte)
<1> QED
  BY ONLY <1>2, <1>3, HeaderOf(n, d), SameHeader

\* The decoder accepts it, when a byte follows.
LEMMA HeaderReadBack ==
  ASSUME NEW d \in Seq(Byte), NEW n \in Nat \ {0}, HeaderOf(n, d), 14 < Len(d)
  PROVE  /\ decode(HeaderFormat, d, 0).ok /\ decode(HeaderFormat, d, 0).it = 14
         /\ HeaderAccepted(decode(HeaderFormat, d, 0).out)
         /\ decode(HeaderFormat, d, 0).out[5] * decode(HeaderFormat, d, 0).out[6] = n
<1>1. PICK r : r = decode(HeaderFormat, d, 0)
  OBVIOUS
<1>2. ReadTo(r, d, 8, 14, Fields(d))
  BY <1>1, HeaderIs
<1>3. r.ok /\ r.it = 14 /\ r \in Reads
  BY <1>2 DEF ReadTo
<1>4. PICK h \in Seq(Int) : h = r.out
  BY ONLY <1>3 DEF Reads
<1>5. Len(h) = 8 /\ \A i \in 1 .. 8 : h[i] = Fields(d)[i]
  BY ONLY <1>2, <1>3, <1>4 DEF ReadTo
<1>6. /\ h[1] = 113 /\ h[2] = 111 /\ h[3] = 105 /\ h[4] = 102
      /\ h[5] = n /\ h[6] = 1 /\ h[7] = 4 /\ h[8] = 0
  <2>1. PICK w : w = Fields(d)
    OBVIOUS
  <2>2. /\ w[1] = d[1] /\ w[2] = d[2] /\ w[3] = d[3] /\ w[4] = d[4]
        /\ w[5] = BigEndian(d, 4) /\ w[6] = BigEndian(d, 8) /\ w[7] = d[13] /\ w[8] = d[14]
    BY ONLY <2>1 DEF Fields
  <2>3. /\ h[1] = w[1] /\ h[2] = w[2] /\ h[3] = w[3] /\ h[4] = w[4]
        /\ h[5] = w[5] /\ h[6] = w[6] /\ h[7] = w[7] /\ h[8] = w[8]
    BY ONLY <1>5, <2>1
  <2> QED
    BY ONLY <2>2, <2>3, HeaderOf(n, d), Zenon DEF HeaderOf
<1>7. SubSeq(h, 1, 4) = << 113, 111, 105, 102 >>
  <2>1. PICK s : s = SubSeq(h, 1, 4)
    OBVIOUS
  <2>2. s \in Seq(Int) /\ Len(s) = 4 /\ \A i \in 1 .. 4 : s[i] = h[i]
    <3>1. 0 + 4 <= Len(h) /\ 0 + 1 = 1 /\ 0 + 4 = 4
      BY ONLY <1>5
    <3>2. /\ SubSeq(h, 0 + 1, 0 + 4) \in Seq(Int) /\ Len(SubSeq(h, 0 + 1, 0 + 4)) = 4
          /\ \A i \in 1 .. 4 : SubSeq(h, 0 + 1, 0 + 4)[i] = h[0 + i]
      BY ONLY <3>1, PartOf, h \in Seq(Int), 0 \in Nat, 4 \in Nat
    <3>3. s \in Seq(Int) /\ Len(s) = 4 /\ \A i \in 1 .. 4 : s[i] = h[0 + i]
      BY ONLY <2>1, <3>1, <3>2
    <3>4. \A i \in 1 .. 4 : 0 + i = i
      OBVIOUS
    <3> QED
      BY ONLY <3>3, <3>4
  <2>3. s[1] = 113 /\ s[2] = 111 /\ s[3] = 105 /\ s[4] = 102
    BY ONLY <1>6, <2>2
  <2>4. s = << 113, 111, 105, 102 >>
    BY ONLY <2>2, <2>3, FourOf
  <2> QED
    BY ONLY <2>1, <2>4
<1>8. HeaderAccepted(h)
  BY ONLY <1>6, <1>7, n \in Nat \ {0} DEF HeaderAccepted
<1>9. h[5] * h[6] = n
  BY ONLY <1>6, n \in Nat \ {0}
<1> QED
  BY ONLY <1>1, <1>3, <1>4, <1>8, <1>9

\* From whatever bytes, the place behind the header and a number of pixels.
LEMMA HeaderGives ==
  ASSUME NEW d \in Seq(Byte), decode(HeaderFormat, d, 0).ok
  PROVE  /\ decode(HeaderFormat, d, 0).it = 14 /\ 14 < Len(d)
         /\ decode(HeaderFormat, d, 0).out[5] * decode(HeaderFormat, d, 0).out[6] \in Nat
<1>1. PICK r : r = decode(HeaderFormat, d, 0)
  OBVIOUS
<1>2. ReadTo(r, d, 8, 14, Fields(d))
  BY <1>1, HeaderIs
<1>3. r.ok /\ r.it = 14 /\ 14 < Len(d)
  BY <1>1, <1>2 DEF ReadTo
<1>4. r.out[5] = Fields(d)[5] /\ r.out[6] = Fields(d)[6]
  BY ONLY <1>2, <1>3 DEF ReadTo
<1>5. Fields(d)[5] = BigEndian(d, 4) /\ Fields(d)[6] = BigEndian(d, 8)
  BY ONLY TRUE DEF Fields
<1>6. BigEndian(d, 4) \in Nat /\ BigEndian(d, 8) \in Nat
  <2>1. 4 + 4 < Len(d) /\ 8 + 4 < Len(d)
    BY ONLY <1>3, d \in Seq(Byte)
  <2> QED
    BY ONLY <2>1, WordField, d \in Seq(Byte), 4 \in Nat, 8 \in Nat
<1>7. \A x \in Nat, y \in Nat : x * y \in Nat
  OBVIOUS
<1> QED
  BY ONLY <1>1, <1>3, <1>4, <1>5, <1>6, <1>7

-----------------------------------------------------------------------------
\* A block of bytes, read.
LEMMA ElementOf ==
  ASSUME NEW S, NEW s \in Seq(S), NEW i \in 1 .. Len(s)
  PROVE  s[i] \in S
OBVIOUS

LEMMA PixelBytes == \A c \in Pixel : c[1] \in Byte /\ c[2] \in Byte /\ c[3] \in Byte /\ c[4] \in Byte
BY DEF Pixel

LEMMA ExtraBytes ==
  ASSUME NEW d \in Seq(Byte), NEW p \in Nat, NEW x \in Nat, p + 1 + x <= Len(d)
  PROVE  /\ SubSeq(d, p + 2, p + 1 + x) \in Seq(Byte) /\ Len(SubSeq(d, p + 2, p + 1 + x)) = x
         /\ \A i \in 1 .. x : SubSeq(d, p + 2, p + 1 + x)[i] = d[p + (i + 1)]
<1>1. PICK m \in Nat \ {0}, n \in Nat : m = p + 2 /\ n = p + 1 + x
  OBVIOUS
<1>2. n <= Len(d) /\ (n - m) + 1 = x
  BY <1>1
<1>3. PICK s : s = SubSeq(d, m, n)
  OBVIOUS
<1>4. s \in Seq(Byte) /\ Len(s) = x /\ \A i \in 1 .. x : s[i] = d[(m + i) - 1]
  BY <1>2, <1>3
<1>5. \A i \in 1 .. x : (m + i) - 1 = p + (i + 1)
  BY ONLY <1>1, p \in Nat, x \in Nat
<1> QED
  BY ONLY <1>1, <1>3, <1>4, <1>5

LEMMA ColourIsPixel ==
  ASSUME NEW m \in Maps, NEW last \in Pixel, NEW b \in Byte, NEW e \in Seq(Byte),
         Len(e) = extra_data_size(block_type(b)), block_type(b) # "Run"
  PROVE  Colour(block_type(b), b, e, Coder(m, last)) \in Pixel
<1>0. PICK c : c = Coder(m, last)
  OBVIOUS
<1>1. c.map = m /\ c.last_seen = last
  BY <1>0 DEF Coder
<1>2. block_type(b) \in {"RGBA", "RGB", "Index", "Diff", "Luma"}
  BY DEF block_type
<1>3. ASSUME NEW x \in Int, NEW y \in Int, NEW z \in Int PROVE Moved(last, x, y, z) \in Pixel
  <2>1. last[1] \in Int /\ last[2] \in Int /\ last[3] \in Int /\ last[4] \in Byte
    BY ONLY PixelBytes, BytesAre, last \in Pixel
  <2>2. \A u \in Int : u % 256 \in Byte
    BY DEF Byte
  <2>3. (last[1] + x) % 256 \in Byte /\ (last[2] + y) % 256 \in Byte /\ (last[3] + z) % 256 \in Byte
    <3>1. last[1] + x \in Int /\ last[2] + y \in Int /\ last[3] + z \in Int
      BY ONLY <2>1, x \in Int, y \in Int, z \in Int
    <3> QED
      BY ONLY <2>2, <3>1, Zenon
  <2> QED
    BY ONLY <2>1, <2>3, IsPixel DEF Moved
<1>4. b \in Int
  BY BytesAre
<1>5. CASE block_type(b) = "RGBA"
  <2>1. Len(e) = 4
    BY <1>5, ExtraSizes
  <2>2. e = << e[1], e[2], e[3], e[4] >>
    BY ONLY <2>1, FourOf, e \in Seq(Byte)
  <2>3. e[1] \in Byte /\ e[2] \in Byte /\ e[3] \in Byte /\ e[4] \in Byte
    <3>1. 1 \in 1 .. Len(e) /\ 2 \in 1 .. Len(e) /\ 3 \in 1 .. Len(e) /\ 4 \in 1 .. Len(e)
      BY ONLY <2>1
    <3> QED
      BY ONLY <3>1, ElementOf, e \in Seq(Byte)
  <2>4. << e[1], e[2], e[3], e[4] >> \in Pixel
    BY ONLY <2>3, IsPixel
  <2>5. Colour("RGBA", b, e, c) = e
    BY ONLY TRUE DEF Colour
  <2> QED
    BY ONLY <1>0, <1>5, <2>2, <2>4, <2>5
<1>6. CASE block_type(b) = "RGB"
  <2>1. Len(e) = 3
    BY <1>6, ExtraSizes
  <2>2. PICK t \in Byte : t = last[4]
    BY PixelParts DEF Byte
  <2>3. PICK f : f = Append(e, t)
    OBVIOUS
  <2>4. IsAppend(f, e, t, Byte)
    BY ONLY <2>3, Appended, e \in Seq(Byte), t \in Byte
  <2>5. f \in Seq(Byte) /\ Len(f) = 4
    BY ONLY <2>1, <2>4 DEF IsAppend
  <2>6. f = << f[1], f[2], f[3], f[4] >>
    BY ONLY <2>5, FourOf
  <2>7. f[1] \in Byte /\ f[2] \in Byte /\ f[3] \in Byte /\ f[4] \in Byte
    <3>1. 1 \in 1 .. Len(f) /\ 2 \in 1 .. Len(f) /\ 3 \in 1 .. Len(f) /\ 4 \in 1 .. Len(f)
      BY ONLY <2>5
    <3> QED
      BY ONLY <2>5, <3>1, ElementOf
  <2>8. << f[1], f[2], f[3], f[4] >> \in Pixel
    BY ONLY <2>7, IsPixel
  <2>9. Colour("RGB", b, e, c) = Append(e, c.last_seen[4])
    BY ONLY TRUE DEF Colour
  <2> QED
    BY ONLY <1>0, <1>1, <1>6, <2>2, <2>3, <2>6, <2>8, <2>9
<1>7. CASE block_type(b) = "Index"
  <2>1. Colour("Index", b, e, c) = c.map[b % 64]
    BY ONLY TRUE DEF Colour
  <2>2. b % 64 \in 0 .. 63
    BY <1>4
  <2>3. m[b % 64] \in Pixel
    BY ONLY <2>2, m \in Maps DEF Maps
  <2> QED
    BY ONLY <1>0, <1>1, <1>7, <2>1, <2>3
<1>8. CASE block_type(b) = "Diff"
  <2>1. Colour("Diff", b, e, c) = Moved(c.last_seen, ((b \div 16) % 4) - 2, ((b \div 4) % 4) - 2, (b % 4) - 2)
    BY ONLY TRUE DEF Colour
  <2>2. ((b \div 16) % 4) - 2 \in Int /\ ((b \div 4) % 4) - 2 \in Int /\ (b % 4) - 2 \in Int
    BY <1>4
  <2> QED
    BY ONLY <1>0, <1>1, <1>3, <1>8, <2>1, <2>2
<1>9. CASE block_type(b) = "Luma"
  <2>1. Colour("Luma", b, e, c)
          = Moved(c.last_seen, (e[1] \div 16) + ((b % 64) - 32) - 8, (b % 64) - 32, (e[1] % 16) + ((b % 64) - 32) - 8)
    BY ONLY TRUE DEF Colour
  <2>2. Len(e) = 1
    BY <1>9, ExtraSizes
  <2>3. e[1] \in Byte
    BY ONLY <2>2, e \in Seq(Byte)
  <2>4. PICK w \in Int : w = e[1]
    BY ONLY <2>3, BytesAre
  <2>5. (w \div 16) + ((b % 64) - 32) - 8 \in Int /\ (b % 64) - 32 \in Int /\ (w % 16) + ((b % 64) - 32) - 8 \in Int
    BY ONLY <1>4, w \in Int
  <2> QED
    BY ONLY <1>0, <1>1, <1>3, <1>9, <2>1, <2>4, <2>5
<1> QED
  BY ONLY <1>2, <1>5, <1>6, <1>7, <1>8, <1>9

\* The bytes d are those of body, as far as they go.
Agrees(d, body) == \A i \in 1 .. Len(d) : i <= Len(body) => d[i] = body[i]

\* Between two blocks, with pixels to come, there is a block.
LEMMA ParseAt ==
  ASSUME NEW im, NEW body \in Seq(Byte), NEW B, NEW P \in Nat, NEW K \in Nat, Parse(im, body, B, P, K),
         NEW p \in Nat, NEW k \in Nat, << p, k >> \in B, k < K
  PROVE  p <= P /\ \E q \in Nat, l \in Nat : << q, l >> \in B /\ BlockStep(im, body, p, k, q, l)
<1>1. PICK b : b = << p, k >>
  OBVIOUS
<1>2. b[1] = p /\ b[2] = k /\ b \in B
  BY ONLY <1>1, << p, k >> \in B
<1>3. b # << P, K >>
  BY ONLY <1>2, k < K, k \in Nat, K \in Nat
<1>4. LeadsOn(im, body, B, b)
  BY ONLY <1>2, <1>3, Parse(im, body, B, P, K) DEF Parse
<1>5. p <= P
  BY ONLY <1>2, Parse(im, body, B, P, K) DEF Parse
<1> QED
  BY ONLY <1>2, <1>4, <1>5 DEF LeadsOn

\* With no pixel to come, the payload has ended.
LEMMA ParseEnd ==
  ASSUME NEW im \in Seq(Pixel), NEW body \in Seq(Byte), NEW B, NEW P \in Nat, Parse(im, body, B, P, Len(im)),
         NEW p \in Nat, NEW k \in Nat, << p, k >> \in B, Len(im) <= k
  PROVE  p = P /\ k = Len(im)
<1>1. PICK b : b = << p, k >>
  OBVIOUS
<1>2. b[1] = p /\ b[2] = k /\ b \in B
  BY ONLY <1>1, << p, k >> \in B
<1>3. b = << P, Len(im) >>
  <2> SUFFICES ASSUME b # << P, Len(im) >> PROVE FALSE
    OBVIOUS
  <2>1. LeadsOn(im, body, B, b)
    BY ONLY <1>2, b # << P, Len(im) >>, Parse(im, body, B, P, Len(im)) DEF Parse
  <2>2. PICK q \in Nat, l \in Nat : BlockStep(im, body, p, k, q, l)
    BY ONLY <1>2, <2>1 DEF LeadsOn
  <2>3. k < l /\ l <= Len(im)
    BY ONLY <2>2, StepMoves, body \in Seq(Byte), p \in Nat, k \in Nat, q \in Nat, l \in Nat
  <2> QED
    BY ONLY <2>3, Len(im) <= k, im \in Seq(Pixel), k \in Nat, l \in Nat
<1> QED
  BY ONLY <1>2, <1>3

LEMMA RunTypes == \A b \in 192 .. 253 : block_type(b) = "Run"
BY DEF block_type

\* What the decoder sees of a run.
LEMMA ReadsRun ==
  ASSUME NEW im, NEW body \in Seq(Byte), NEW d \in Seq(Byte), Agrees(d, body),
         NEW p \in Nat, NEW k \in Nat, NEW q \in Nat, NEW l \in Nat, RunStep(im, body, p, k, q, l), p < Len(d)
  PROVE  block_type(d[p + 1]) = "Run" /\ (d[p + 1] % 64) + 1 = l - k /\ q = p + 1
<1>1. q = p + 1 /\ q <= Len(body) /\ body[q] = 191 + (l - k) /\ k < l /\ l <= k + 62
  BY DEF RunStep
<1>2. q \in 1 .. Len(d)
  BY ONLY <1>1, p < Len(d), p \in Nat, d \in Seq(Byte)
<1>3. d[q] = body[q]
  BY ONLY <1>1, <1>2, Agrees(d, body) DEF Agrees
<1>4. PICK n \in 1 .. 62 : n = l - k
  BY ONLY <1>1, k \in Nat, l \in Nat
<1>5. d[p + 1] = 191 + n
  BY ONLY <1>1, <1>3, <1>4
<1>6. PICK v \in 192 .. 253 : v = 191 + n /\ (v % 64) + 1 = n
  OBVIOUS
<1>7. block_type(v) = "Run"
  BY ONLY RunTypes
<1>8. d[p + 1] = v
  BY ONLY <1>5, <1>6
<1> QED
  BY ONLY <1>1, <1>4, <1>6, <1>7, <1>8

\* And of the block of a colour.
LEMMA ReadsPixel ==
  ASSUME NEW body \in Seq(Byte), NEW d \in Seq(Byte), Agrees(d, body), NEW p \in Nat, NEW a \in Seq(Byte),
         NEW m, NEW last, NEW cur, StandsFor(a, cur, m, last), Holds(body, p, a), p < Len(d)
  PROVE  /\ d[p + 1] = a[1] /\ p + 1 + extra_data_size(block_type(d[p + 1])) = p + Len(a)
         /\ p + Len(a) <= Len(d) =>
              Extra(a, SubSeq(d, p + 2, p + 1 + extra_data_size(block_type(d[p + 1]))))
<1>1. Len(a) \in 1 .. 5 /\ Len(a) = 1 + extra_data_size(block_type(a[1]))
  BY ONLY StandsFor(a, cur, m, last), Zenon DEF StandsFor
<1>2. PICK n \in 1 .. 5 : n = Len(a)
  BY ONLY <1>1
<1>3. PICK f \in Nat, g \in Nat : f = Len(body) /\ g = Len(d)
  OBVIOUS
<1>4. p + n <= f /\ \A i \in 1 .. n : body[p + i] = a[i]
  BY ONLY <1>2, <1>3, Holds(body, p, a) DEF Holds
<1>5. ASSUME NEW i \in 1 .. n, p + i <= g PROVE d[p + i] = a[i]
  <2>1. p + i \in 1 .. g /\ p + i <= f
    BY ONLY <1>4, <1>5, p \in Nat, n \in 1 .. 5, i \in 1 .. n, f \in Nat, g \in Nat
  <2>2. d[p + i] = body[p + i]
    BY ONLY <1>3, <2>1, Agrees(d, body) DEF Agrees
  <2> QED
    BY ONLY <1>4, <2>2, i \in 1 .. n
<1>6. d[p + 1] = a[1]
  <2>1. 1 \in 1 .. n /\ p + 1 <= g
    BY ONLY <1>3, p < Len(d), p \in Nat, g \in Nat, n \in 1 .. 5
  <2> QED
    BY ONLY <1>5, <2>1
<1>7. PICK x \in Nat : x = n - 1
  OBVIOUS
<1>8. extra_data_size(block_type(d[p + 1])) = x
  <2>1. extra_data_size(block_type(a[1])) \in Nat
    BY DEF extra_data_size
  <2>2. PICK y \in Nat : y = extra_data_size(block_type(a[1]))
    BY ONLY <2>1
  <2>3. n = 1 + y
    BY ONLY <1>1, <1>2, <2>2
  <2>4. y = x
    BY ONLY <1>7, <2>3, y \in Nat, n \in 1 .. 5
  <2> QED
    BY ONLY <1>6, <2>2, <2>4
<1>9. p + 1 + x = p + n
  BY ONLY <1>7, p \in Nat, n \in 1 .. 5
<1>10. ASSUME p + n <= g PROVE Extra(a, SubSeq(d, p + 2, p + 1 + x))
  <2>1. PICK e : e = SubSeq(d, p + 2, p + 1 + x)
    OBVIOUS
  <2>2. e \in Seq(Byte) /\ Len(e) = x /\ \A i \in 1 .. x : e[i] = d[p + (i + 1)]
    <3>1. p + 1 + x <= Len(d)
      BY ONLY <1>3, <1>9, <1>10
    <3> QED
      BY ONLY <2>1, <3>1, ExtraBytes, d \in Seq(Byte), p \in Nat, x \in Nat
  <2>3. ASSUME NEW i \in 1 .. x PROVE e[i] = a[i + 1]
    <3>1. PICK j \in 1 .. n : j = i + 1
      BY ONLY <1>7, n \in 1 .. 5, i \in 1 .. x
    <3>2. p + j <= g
      BY ONLY <1>10, p \in Nat, n \in 1 .. 5, j \in 1 .. n, g \in Nat
    <3>3. d[p + j] = a[j]
      BY ONLY <1>5, <3>2, j \in 1 .. n
    <3> QED
      BY ONLY <2>2, <3>1, <3>3, i \in 1 .. x
  <2> QED
    BY ONLY <1>2, <1>7, <2>1, <2>2, <2>3 DEF Extra
<1> QED
  BY ONLY <1>2, <1>3, <1>6, <1>8, <1>9, <1>10

-----------------------------------------------------------------------------
(***************************************************************************)
(* The invariant of the codec                                              *)
(***************************************************************************)
Coders == [map : Maps, last_seen : Pixel, run_length : Nat]

QoITypeOK ==
  /\ image \in Images
  /\ bytes \in Seq(Byte)
  /\ pos \in Nat
  /\ coder \in Coders
  /\ out \in Seq(Pixel)
  /\ pixels \in Nat
  /\ stage \in {"encode", "sent", "header", "payload", "image", "error"}
  /\ damage \in {"none", "cut", "changed"}

\* Whatever the bytes: the decoder has put out no more than it may.
Within ==
  /\ Len(out) <= pixels
  /\ stage = "image" => Len(out) = pixels
  /\ stage \in {"encode", "sent", "header"} => out = << >>
  /\ stage \in {"encode", "sent"} => damage = "none"
  /\ stage = "header" => coder = FreshCoder

\* While it encodes: what is written are the blocks of the first k pixels, and the
\* next r are the run that is being counted.
Written(im, bs, n, c) ==
  /\ n <= Len(im) /\ MapIs(im, c.map, n) /\ c.last_seen = Last(im, n)
  /\ HeaderOf(Len(im), bs)
  /\ \E k \in Nat, r \in 0 .. 62 :
       r = c.run_length /\ n = k + r /\ RunOf(im, k, n) /\ Parsed(im, bs, k)

\* The bytes of an encoded image: the blocks of all pixels.
Encoded(im, body, B) ==
  body \in Seq(Byte) /\ HeaderOf(Len(im), body) /\ Parse(im, body, B, Len(body), Len(im))

\* Both sides hold the same colours, and what is out is the image so far.
InStep(im, c, o) ==
  /\ MapIs(im, c.map, Len(o)) /\ c.last_seen = Last(im, Len(o))
  /\ \A i \in 1 .. Len(o) : o[i] = im[i]

\* What is on the way is the encoded image, or the beginning of it.
OnTheWay(im, body, B, d) ==
  /\ Encoded(im, body, B)
  /\ Len(d) <= Len(body) + 8
  /\ \A i \in 1 .. Len(d) : d[i] = (body \o Ending)[i]

Delivered(body) ==
  /\ damage = "none" => Len(bytes) = Len(body) + 8 /\ stage # "error"
  /\ damage = "cut" => Len(bytes) < Len(body) + 8

\* The decoder stands between two blocks, in step with the encoder.
Decoding(B) ==
  /\ pixels = Len(image)
  /\ << pos, Len(out) >> \in B
  /\ image[1] # Black => InStep(image, coder, out)

AtTheEnd(body) == pos = Len(body) /\ pos + 7 <= Len(bytes)

Received ==
  \E body, B :
    /\ OnTheWay(image, body, B, bytes) /\ Delivered(body)
    /\ stage \in {"payload", "image"} => Decoding(B)
    /\ stage = "image" => AtTheEnd(body)

CodecInv ==
  /\ QoITypeOK
  /\ Within
  /\ stage = "encode" => Written(image, bytes, pos, coder)
  /\ stage = "sent" => \E body, B : Encoded(image, body, B) /\ bytes = body \o Ending
  /\ stage \in {"header", "payload", "image", "error"} /\ damage # "changed" => Received

LEMMA ImagesAre ==
  \A im \in Images : im \in Seq(Pixel) /\ Len(im) \in Nat \ {0} /\ Len(im) \div 256 ^ 3 \in Byte
<1> SUFFICES ASSUME NEW im \in Images
             PROVE  im \in Seq(Pixel) /\ Len(im) \in Nat \ {0} /\ Len(im) \div 256 ^ 3 \in Byte
  OBVIOUS
<1>1. im \in Seq(Pixel) /\ im # << >> /\ Len(im) \div 256 ^ 3 \in Byte
  BY QoIAssumption
<1>2. Len(im) \in Nat \ {0}
  BY ONLY <1>1
<1> QED
  BY ONLY <1>1, <1>2

LEMMA EndingIs == Ending \in Seq(Byte) /\ Len(Ending) = 8 /\ \A i \in 1 .. 7 : Ending[i] = 0
<1>1. 0 \in Byte /\ 1 \in Byte
  BY DEF Byte
<1>2. Ending \in Seq(Byte) /\ Len(Ending) = 8
  BY ONLY <1>1 DEF Ending
<1>3. \A i \in 1 .. 7 : Ending[i] = 0
  BY ONLY TRUE DEF Ending
<1> QED
  BY ONLY <1>2, <1>3

LEMMA FreshIs ==
  /\ FreshCoder \in Coders /\ FreshCoder.last_seen = Black /\ FreshCoder.run_length = 0
  /\ \A im : MapIs(im, FreshCoder.map, 0)
<1>1. PICK m : m = [h \in 0 .. 63 |-> Zero]
  OBVIOUS
<1>2. FreshCoder = [map |-> m, last_seen |-> Black, run_length |-> 0]
  BY ONLY <1>1 DEF FreshCoder, Zero
<1>3. m \in Maps /\ \A h \in 0 .. 63 : m[h] = Zero
  BY ONLY <1>1, BlackIs DEF Maps
<1>4. \A im : MapIs(im, m, 0)
  <2>1. \A i \in 1 .. 0 : FALSE
    OBVIOUS
  <2> QED
    BY ONLY <1>3, <2>1, Zenon DEF MapIs
<1> QED
  BY ONLY <1>2, <1>3, <1>4, BlackIs DEF Coders

\* Nothing encoded, nothing read: the header.
LEMMA ParsedNone ==
  ASSUME NEW im, NEW bs \in Seq(Byte), Len(bs) = 14
  PROVE  Parsed(im, bs, 0)
<1>1. PICK B : B = {<< 14, 0 >>}
  OBVIOUS
<1>2. B \subseteq Nat \X Nat /\ << 14, 0 >> \in B
  BY ONLY <1>1
<1>3. \A b \in B : b = << 14, 0 >> /\ b[1] = 14 /\ b[2] = 0
  BY ONLY <1>1
<1>4. \A b \in B : b[1] <= 14 /\ b[2] <= 0
  BY ONLY <1>3
<1>5. Parse(im, bs, B, 14, 0)
  BY ONLY <1>2, <1>3, <1>4, Zenon DEF Parse
<1> QED
  BY ONLY <1>5, Len(bs) = 14 DEF Parsed

LEMMA WrittenFirst ==
  ASSUME NEW im \in Images
  PROVE  to_bytes(Len(im), 1) \in Seq(Byte) /\ Written(im, to_bytes(Len(im), 1), 0, FreshCoder)
<1>1. Len(im) \in Nat \ {0} /\ Len(im) \div 256 ^ 3 \in Byte
  BY ImagesAre
<1>2. PICK bs : bs = to_bytes(Len(im), 1)
  OBVIOUS
<1>3. bs \in Seq(Byte) /\ Len(bs) = 14 /\ HeaderOf(Len(im), bs)
  BY ONLY <1>1, <1>2, HeaderWritten
<1>4. Parsed(im, bs, 0)
  BY ONLY <1>3, ParsedNone
<1>5. Last(im, 0) = Black
  BY DEF Last
<1>6. PICK c : c = FreshCoder
  OBVIOUS
<1>7. c.last_seen = Last(im, 0) /\ c.run_length = 0 /\ MapIs(im, c.map, 0)
  BY ONLY <1>5, <1>6, FreshIs
<1>8. \E k \in Nat, r \in 0 .. 62 : r = c.run_length /\ 0 = k + r /\ RunOf(im, k, 0) /\ Parsed(im, bs, k)
  <2>1. 0 = 0 + 0 /\ 0 \in 0 .. 62 /\ \A i \in 0 + 1 .. 0 : FALSE
    OBVIOUS
  <2>2. RunOf(im, 0, 0)
    BY ONLY <2>1, Zenon DEF RunOf
  <2> QED
    BY ONLY <1>4, <1>7, <2>1, <2>2, 0 \in Nat, Zenon
<1>9. 0 <= Len(im)
  BY ONLY <1>1
<1>10. Written(im, bs, 0, c)
  BY ONLY <1>3, <1>7, <1>8, <1>9, Zenon DEF Written
<1> QED
  BY ONLY <1>2, <1>3, <1>6, <1>10

LEMMA QoIStarts == QoIInit => CodecInv
<1> SUFFICES ASSUME QoIInit PROVE CodecInv
  OBVIOUS
<1>1. PICK im \in Images : im = image
  BY DEF QoIInit
<1>2. PICK bs \in Seq(Byte) : bs = bytes /\ Written(im, bs, 0, FreshCoder)
  BY <1>1, WrittenFirst DEF QoIInit
<1>3. /\ pos = 0 /\ coder = FreshCoder /\ out = << >> /\ pixels = 0 /\ stage = "encode" /\ damage = "none"
  BY DEF QoIInit
<1>4. PICK o : o = << >>
  OBVIOUS
<1>5. o \in Seq(Pixel) /\ Len(o) = 0
  BY ONLY <1>4
<1>6. out = o /\ Len(out) <= pixels
  BY ONLY <1>3, <1>4, <1>5
<1>7. QoITypeOK
  <2>1. "encode" \in {"encode", "sent", "header", "payload", "image", "error"} /\ "none" \in {"none", "cut", "changed"}
    OBVIOUS
  <2> QED
    BY ONLY <1>1, <1>2, <1>3, <1>5, <1>6, <2>1, FreshIs, 0 \in Nat, Zenon DEF QoITypeOK
<1>8. Within
  BY ONLY <1>3, <1>6 DEF Within
<1>9. Written(image, bytes, pos, coder)
  BY ONLY <1>1, <1>2, <1>3
<1> QED
  BY ONLY <1>3, <1>7, <1>8, <1>9 DEF CodecInv

Regrouped(s, t, u) == s \o (t \o u) = (s \o t) \o u

LEMMA Regroups ==
  \A s \in Seq(Byte), t \in Seq(Byte), u \in Seq(Byte) : Regrouped(s, t, u)
<1> SUFFICES ASSUME NEW s \in Seq(Byte), NEW t \in Seq(Byte), NEW u \in Seq(Byte)
             PROVE  Regrouped(s, t, u)
  OBVIOUS
<1>1. (s \o t) \o u = s \o (t \o u)
  BY ONLY ConcatAssociative, s \in Seq(Byte), t \in Seq(Byte), u \in Seq(Byte)
<1> QED
  BY ONLY <1>1 DEF Regrouped

\* What EncodePixel writes and keeps: the run that is full, then, if the colour is
\* another one, the run that was counted and the block of the colour.
FullRun(c) == IF MustFlush(c) THEN RunBlock(c.run_length) ELSE << >>
RunLeft(c) == IF MustFlush(c) THEN 0 ELSE c.run_length

NextBytes(bs, c, cur) ==
  (bs \o FullRun(c)) \o (IF cur = c.last_seen THEN << >>
                         ELSE (IF RunLeft(c) # 0 THEN RunBlock(RunLeft(c)) ELSE << >>) \o Block(cur, c))
NextCoder(c, cur) ==
  [map |-> [c.map EXCEPT ![hash(cur)] = cur], last_seen |-> cur,
   run_length |-> IF cur = c.last_seen THEN RunLeft(c) + 1 ELSE 0]

\* One pixel more is in step.
LEMMA EncodeStep ==
  ASSUME NEW im \in Images, NEW bs \in Seq(Byte), NEW n \in Nat, NEW c \in Coders, Written(im, bs, n, c), n < Len(im)
  PROVE  /\ NextBytes(bs, c, im[n + 1]) \in Seq(Byte) /\ NextCoder(c, im[n + 1]) \in Coders
         /\ Written(im, NextBytes(bs, c, im[n + 1]), n + 1, NextCoder(c, im[n + 1]))
<1>20. PICK full : full = FullRun(c) /\ full = (IF MustFlush(c) THEN RunBlock(c.run_length) ELSE << >>)
  BY DEF FullRun
<1>21. PICK run : run = RunLeft(c) /\ run = (IF MustFlush(c) THEN 0 ELSE c.run_length)
  BY DEF RunLeft
<1>22. PICK more : more = (IF im[n + 1] = c.last_seen THEN << >>
                             ELSE (IF run # 0 THEN RunBlock(run) ELSE << >>) \o Block(im[n + 1], c))
  OBVIOUS
<1>23. PICK next : next = [map |-> [c.map EXCEPT ![hash(im[n + 1])] = im[n + 1]], last_seen |-> im[n + 1],
                           run_length |-> IF im[n + 1] = c.last_seen THEN run + 1 ELSE 0]
  OBVIOUS
<1>1. PICK s \in Nat : im \in Seq(Pixel) /\ s = Len(im) /\ n < s
  BY ImagesAre
<1>2. PICK cur \in Pixel : cur = im[n + 1]
  <2>1. n + 1 \in 1 .. Len(im)
    BY ONLY <1>1, n \in Nat
  <2> QED
    BY ONLY <1>1, <2>1, ElementOf
<1>3. PICK m \in Maps, last \in Pixel, g \in Nat : m = c.map /\ last = c.last_seen /\ g = c.run_length
  BY DEF Coders
<1>4. /\ MapIs(im, m, n) /\ last = Last(im, n) /\ HeaderOf(s, bs)
  BY ONLY <1>1, <1>3, Written(im, bs, n, c) DEF Written
<1>5. PICK k \in Nat, r \in 0 .. 62 : r = g /\ n = k + r /\ RunOf(im, k, n) /\ Parsed(im, bs, k)
  BY ONLY <1>3, Written(im, bs, n, c) DEF Written
\* The run that is full is written.
<1>6. PICK x \in Nat, y \in 0 .. 61 :
        /\ y = run /\ n = x + y /\ RunOf(im, x, n)
        /\ bs \o full \in Seq(Byte) /\ Extends(bs \o full, bs) /\ Parsed(im, bs \o full, x)
  <2>1. CASE MustFlush(c)
    <3>1. r = 62 /\ run = 0 /\ full = RunBlock(r)
      <4>1. g >= 62
        BY ONLY <1>3, <2>1 DEF MustFlush
      <4> QED
        <5>1. run = 0 /\ full = RunBlock(g)
          BY ONLY <1>3, <2>1, <1>20,
                  <1>21, Zenon
        <5>2. r = g
          BY ONLY <1>5
        <5>3. r = 62
          BY ONLY <4>1, <5>2, r \in 0 .. 62
        <5> QED
          BY ONLY <5>1, <5>2, <5>3
    <3>2. k + r <= Len(im) /\ r \in 1 .. 62 /\ RunOf(im, k, k + r)
      <4>1. r \in 1 .. 62
        BY ONLY <3>1
      <4>2. k + r <= Len(im)
        BY ONLY <1>1, <1>5, n \in Nat
      <4> QED
        BY ONLY <1>5, <4>1, <4>2
    <3>3. Joined(bs \o full, bs, full) /\ Parsed(im, bs \o full, n)
      <4>1. Joined(bs \o RunBlock(r), bs, RunBlock(r)) /\ Parsed(im, bs \o RunBlock(r), k + r)
        BY ONLY <1>5, <3>2, WriteRun, bs \in Seq(Byte), k \in Nat
      <4> QED
        BY ONLY <1>5, <3>1, <4>1
    <3>4. RunOf(im, n, n)
      <4>1. \A i \in n + 1 .. n : FALSE
        BY ONLY n \in Nat
      <4> QED
        BY ONLY <4>1, Zenon DEF RunOf
    <3>5. bs \o full \in Seq(Byte) /\ Extends(bs \o full, bs)
      BY ONLY <3>3 DEF Joined
    <3>6. 0 = run /\ n = n + 0 /\ 0 \in 0 .. 61
      BY ONLY <3>1, n \in Nat
    <3> QED
      BY ONLY <3>3, <3>4, <3>5, <3>6, n \in Nat, Zenon
  <2>2. CASE ~MustFlush(c)
    <3>1. g < 62
      BY ONLY <1>3, <2>2, g \in Nat DEF MustFlush
    <3>2. run = r /\ full = << >> /\ r \in 0 .. 61
      BY ONLY <1>3, <1>5, <2>2, <3>1, r \in 0 .. 62, <1>20,
              <1>21
    <3>3. bs \o full = bs
      BY ONLY <3>2, bs \in Seq(Byte)
    <3>4. Extends(bs, bs)
      BY ONLY bs \in Seq(Byte) DEF Extends
    <3> QED
      BY ONLY <1>5, <3>2, <3>3, <3>4, bs \in Seq(Byte), k \in Nat, Zenon
  <2> QED
    BY ONLY <2>1, <2>2
<1>7. PICK d \in Seq(Byte) : d = bs \o full
  BY ONLY <1>6
<1>8. next.map = [m EXCEPT ![hash(cur)] = cur] /\ next.last_seen = cur
      /\ next.run_length = IF cur = last THEN y + 1 ELSE 0
  BY ONLY <1>2, <1>3, <1>6,
          <1>23
<1>9. next.map \in Maps /\ MapIs(im, next.map, n + 1)
  <2>1. n < Len(im)
    BY ONLY <1>1
  <2>2. /\ [m EXCEPT ![hash(im[n + 1])] = im[n + 1]] \in Maps
        /\ MapIs(im, [m EXCEPT ![hash(im[n + 1])] = im[n + 1]], n + 1)
    BY ONLY <1>1, <1>4, <2>1, MapNext, m \in Maps, n \in Nat
  <2> QED
    BY ONLY <1>2, <1>8, <2>2
<1>10. next \in Coders
  <2>1. PICK u \in Nat : u = (IF cur = last THEN y + 1 ELSE 0)
    OBVIOUS
  <2>2. next.run_length = u
    BY ONLY <1>8, <2>1
  <2>3. PICK w \in Maps : w = next.map
    BY ONLY <1>9
  <2>4. next = [map |-> w, last_seen |-> cur, run_length |-> u]
    BY ONLY <1>8, <2>2, <2>3, <1>23
  <2> QED
    BY ONLY <2>4, w \in Maps, cur \in Pixel, u \in Nat DEF Coders
<1>11. n + 1 <= Len(im) /\ next.last_seen = Last(im, n + 1)
  <2>1. n + 1 <= Len(im) /\ n + 1 # 0
    BY ONLY <1>1, n \in Nat
  <2> QED
    BY ONLY <1>2, <1>8, <2>1 DEF Last
<1>12. HeaderOf(s, d)
  <2>1. Extends(d, bs)
    BY ONLY <1>6, <1>7
  <2> QED
    BY ONLY <1>4, <2>1, HeaderStays, bs \in Seq(Byte), d \in Seq(Byte)
<1>13. ASSUME cur = last
       PROVE (bs \o full) \o more \in Seq(Byte) /\ next \in Coders /\ Written(im, (bs \o full) \o more, n + 1, next)
  <2>1. more = << >>
    BY ONLY <1>2, <1>3, <1>13, <1>22
  <2>2. (bs \o full) \o more = d
    BY ONLY <1>7, <2>1, d \in Seq(Byte)
  <2>3. RunOf(im, x, n + 1)
    <3>1. cur = Last(im, x)
      <4>1. CASE y = 0
        <5>1. x = n
          BY ONLY <1>6, <4>1, x \in Nat
        <5> QED
          BY ONLY <1>4, <1>13, <5>1
      <4>2. CASE y # 0
        <5>1. n \in x + 1 .. n /\ n # 0
          BY ONLY <1>6, <4>2, x \in Nat, y \in 0 .. 61
        <5>2. im[n] = Last(im, x)
          BY ONLY <1>6, <5>1 DEF RunOf
        <5>3. Last(im, n) = im[n]
          BY ONLY <5>1 DEF Last
        <5> QED
          BY ONLY <1>4, <1>13, <5>2, <5>3
      <4> QED
        BY ONLY <4>1, <4>2
    <3>2. \A i \in x + 1 .. n + 1 : i \in x + 1 .. n \/ i = n + 1
      BY ONLY x \in Nat, n \in Nat
    <3> QED
      BY ONLY <1>2, <1>6, <3>1, <3>2 DEF RunOf
  <2>4. PICK z \in 0 .. 62 : z = next.run_length /\ z = y + 1 /\ n + 1 = x + z
    <3>1. PICK z \in 0 .. 62 : z = y + 1
      BY ONLY y \in 0 .. 61
    <3>2. n + 1 = x + z
      BY ONLY <1>6, <3>1, x \in Nat, y \in 0 .. 61, n \in Nat
    <3> QED
      BY ONLY <1>8, <1>13, <3>1, <3>2
  <2>5. Parsed(im, d, x)
    BY ONLY <1>6, <1>7
  <2>6. Written(im, d, n + 1, next)
    BY ONLY <1>1, <1>9, <1>11, <1>12, <2>3, <2>4, <2>5, x \in Nat, Zenon DEF Written
  <2> QED
    BY ONLY <1>10, <2>2, <2>6, d \in Seq(Byte)
<1>14. ASSUME cur # last
       PROVE (bs \o full) \o more \in Seq(Byte) /\ next \in Coders /\ Written(im, (bs \o full) \o more, n + 1, next)
  <2>1. PICK f : f = (IF y # 0 THEN RunBlock(y) ELSE << >>)
    OBVIOUS
  <2>2. more = f \o Block(cur, c)
    BY ONLY <1>2, <1>3, <1>6, <1>14, <2>1, <1>22
  <2>3. f \in Seq(Byte) /\ d \o f \in Seq(Byte) /\ Extends(d \o f, d) /\ Parsed(im, d \o f, n)
    <3>1. CASE y = 0
      <4>1. f = << >> /\ d \o f = d
        BY ONLY <2>1, <3>1, d \in Seq(Byte)
      <4>2. x = n
        BY ONLY <1>6, <3>1, x \in Nat
      <4>3. Parsed(im, d, n)
        BY ONLY <1>6, <1>7, <4>2
      <4>4. Extends(d, d)
        BY ONLY d \in Seq(Byte) DEF Extends
      <4>5. << >> \in Seq(Byte)
        OBVIOUS
      <4> QED
        BY ONLY <4>1, <4>3, <4>4, <4>5, d \in Seq(Byte)
    <3>2. CASE y # 0
      <4>1. PICK z \in 1 .. 62 : z = y
        BY ONLY <3>2, y \in 0 .. 61
      <4>2. x + z <= Len(im) /\ RunOf(im, x, x + z) /\ x + z = n
        BY ONLY <1>1, <1>6, <4>1
      <4>3. Parsed(im, d, x)
        BY ONLY <1>6, <1>7
      <4>4. Joined(d \o RunBlock(z), d, RunBlock(z)) /\ Parsed(im, d \o RunBlock(z), x + z)
        BY ONLY <4>2, <4>3, WriteRun, d \in Seq(Byte), x \in Nat, z \in 1 .. 62
      <4>5. f = RunBlock(z)
        BY ONLY <2>1, <3>2, <4>1
      <4>6. RunBlock(z) \in Seq(Byte)
        BY ONLY RunBlockIs, z \in 1 .. 62
      <4>7. d \o RunBlock(z) \in Seq(Byte) /\ Extends(d \o RunBlock(z), d)
        BY ONLY <4>4 DEF Joined
      <4> QED
        BY ONLY <4>2, <4>4, <4>5, <4>6, <4>7
    <3> QED
      BY ONLY <3>1, <3>2
  <2>4. PICK e \in Seq(Byte) : e = d \o f
    BY ONLY <2>3
  <2>5. PICK b : b = Block(cur, c)
    OBVIOUS
  <2>6. Joined(e \o b, e, b) /\ Parsed(im, e \o b, n + 1)
    <3>1. n < Len(im) /\ MapIs(im, c.map, n) /\ c.last_seen = Last(im, n) /\ Parsed(im, e, n)
      BY ONLY <1>1, <1>3, <1>4, <2>3, <2>4
    <3>2. c \in [map : Maps, last_seen : Pixel, run_length : Nat]
      BY ONLY c \in Coders DEF Coders
    <3> QED
      BY ONLY <1>1, <1>2, <2>5, <3>1, <3>2, WriteBlock, e \in Seq(Byte), n \in Nat
  <2>7. PICK h \in Seq(Byte) : h = e \o b
    BY ONLY <2>6 DEF Joined
  <2>8. b \in Seq(Byte)
    <3>1. StandsFor(Block(cur, Coder(m, last)), cur, m, last)
      BY ONLY BlockStands, m \in Maps, last \in Pixel, cur \in Pixel
    <3>2. Block(cur, Coder(m, last)) = Block(cur, c)
      BY ONLY <1>3 DEF Block, Coder
    <3> QED
      BY ONLY <2>5, <3>1, <3>2 DEF StandsFor
  <2>9. (bs \o full) \o more = h
    <3>1. d \o (f \o b) = (d \o f) \o b
      <4>1. f \in Seq(Byte)
        BY ONLY <2>3
      <4>2. Regrouped(d, f, b)
        BY ONLY <2>8, <4>1, d \in Seq(Byte), Regroups, Zenon
      <4> QED
        BY ONLY <4>2, Zenon DEF Regrouped
    <3>2. (bs \o full) \o more = d \o (f \o b)
      BY ONLY <1>7, <2>2, <2>5, Zenon
    <3>3. (d \o f) \o b = h
      BY ONLY <2>4, <2>7, Zenon
    <3> QED
      BY ONLY <3>1, <3>2, <3>3, Zenon
  <2>10. HeaderOf(s, h)
    <3>1. HeaderOf(s, e)
      <4>1. Extends(e, d)
        BY ONLY <2>3, <2>4
      <4> QED
        BY ONLY <1>12, <4>1, HeaderStays, e \in Seq(Byte), d \in Seq(Byte)
    <3>2. Extends(h, e)
      BY ONLY <2>6, <2>7 DEF Joined
    <3> QED
      BY ONLY <3>1, <3>2, HeaderStays, e \in Seq(Byte), h \in Seq(Byte)
  <2>11. next.run_length = 0 /\ n + 1 = (n + 1) + 0 /\ 0 \in 0 .. 62 /\ n + 1 \in Nat
    BY ONLY <1>8, <1>14, n \in Nat
  <2>12. RunOf(im, n + 1, n + 1)
    <3>1. \A i \in (n + 1) + 1 .. n + 1 : FALSE
      BY ONLY n \in Nat
    <3> QED
      BY ONLY <3>1, Zenon DEF RunOf
  <2>13. Parsed(im, h, n + 1)
    BY ONLY <2>6, <2>7
  <2>14. Written(im, h, n + 1, next)
    BY ONLY <1>1, <1>9, <1>11, <2>10, <2>11, <2>12, <2>13, Zenon DEF Written
  <2> QED
    BY ONLY <1>10, <2>9, <2>14, h \in Seq(Byte)
<1> QED
  <2>1. NextBytes(bs, c, im[n + 1]) = (bs \o full) \o more /\ NextCoder(c, im[n + 1]) = next
    BY ONLY <1>20, <1>21, <1>22, <1>23, Zenon DEF NextBytes, NextCoder
  <2>2. (bs \o full) \o more \in Seq(Byte) /\ next \in Coders /\ Written(im, (bs \o full) \o more, n + 1, next)
    BY ONLY <1>13, <1>14
  <2> QED
    BY ONLY <2>1, <2>2

\* The last run and the ending are written.
LEMMA EncodeEnds ==
  ASSUME NEW im \in Images, NEW bs \in Seq(Byte), NEW c \in Coders, Written(im, bs, Len(im), c),
         NEW run, run = (IF c.run_length # 0 THEN RunBlock(c.run_length) ELSE << >>)
  PROVE  bs \o run \in Seq(Byte) /\ \E B : Encoded(im, bs \o run, B)
<1>1. PICK s \in Nat : im \in Seq(Pixel) /\ s = Len(im)
  BY ImagesAre
<1>2. PICK k \in Nat, r \in 0 .. 62 : r = c.run_length /\ s = k + r /\ RunOf(im, k, s) /\ Parsed(im, bs, k) /\ HeaderOf(s, bs)
  BY ONLY <1>1, Written(im, bs, Len(im), c) DEF Written
<1>3. PICK d : d = bs \o run
  OBVIOUS
<1>4. d \in Seq(Byte) /\ Extends(d, bs) /\ Parsed(im, d, s)
  <2>1. CASE r = 0
    <3>1. run = << >>
      BY ONLY <1>2, <2>1, run = (IF c.run_length # 0 THEN RunBlock(c.run_length) ELSE << >>)
    <3>2. d = bs
      BY ONLY <1>3, <3>1, bs \in Seq(Byte)
    <3>3. s = k
      BY ONLY <1>2, <2>1, k \in Nat
    <3>4. Extends(bs, bs)
      BY ONLY bs \in Seq(Byte) DEF Extends
    <3> QED
      BY ONLY <1>2, <3>2, <3>3, <3>4, bs \in Seq(Byte)
  <2>2. CASE r # 0
    <3>1. PICK z \in 1 .. 62 : z = r
      BY ONLY <2>2, r \in 0 .. 62
    <3>2. run = RunBlock(z)
      BY ONLY <1>2, <2>2, <3>1, run = (IF c.run_length # 0 THEN RunBlock(c.run_length) ELSE << >>)
    <3>3. k + z <= Len(im) /\ RunOf(im, k, k + z) /\ k + z = s
      BY ONLY <1>1, <1>2, <3>1
    <3>4. Joined(bs \o RunBlock(z), bs, RunBlock(z)) /\ Parsed(im, bs \o RunBlock(z), k + z)
      BY ONLY <1>2, <3>3, WriteRun, bs \in Seq(Byte), k \in Nat, z \in 1 .. 62
    <3>5. Joined(d, bs, RunBlock(z)) /\ Parsed(im, d, s)
      BY ONLY <1>3, <3>2, <3>3, <3>4
    <3> QED
      BY ONLY <3>5 DEF Joined
  <2> QED
    BY ONLY <2>1, <2>2
<1>5. HeaderOf(s, d)
  BY ONLY <1>2, <1>4, HeaderStays, bs \in Seq(Byte)
<1>6. PICK B : Parse(im, d, B, Len(d), s)
  BY ONLY <1>4 DEF Parsed
<1> QED
  BY ONLY <1>1, <1>3, <1>4, <1>5, <1>6, Zenon DEF Encoded

\* The bytes of a whole image begin and go on as they were written.
LEMMA StreamIs ==
  ASSUME NEW im, NEW body, NEW B, NEW d \in Seq(Byte), OnTheWay(im, body, B, d)
  PROVE  /\ body \in Seq(Byte) /\ HeaderOf(Len(im), body) /\ Parse(im, body, B, Len(body), Len(im))
         /\ 14 <= Len(body) /\ Len(d) <= Len(body) + 8
         /\ Agrees(d, body)
         /\ \A i \in 1 .. 7 : Len(body) + i <= Len(d) => d[Len(body) + i] = 0
<1>1. body \in Seq(Byte) /\ HeaderOf(Len(im), body) /\ Parse(im, body, B, Len(body), Len(im))
  BY DEF OnTheWay, Encoded
<1>2. PICK n \in Nat, m \in Nat : n = Len(body) /\ m = Len(d)
  BY <1>1
<1>3. PICK w : w = body \o Ending
  OBVIOUS
<1>4. Joined(w, body, Ending)
  BY ONLY <1>1, <1>3, EndingIs, Joins
<1>5. (\A i \in 1 .. n : w[i] = body[i]) /\ (\A i \in 1 .. 8 : w[n + i] = Ending[i])
  BY ONLY <1>2, <1>4, EndingIs DEF Joined, Extends, Holds
<1>6. m <= n + 8 /\ \A i \in 1 .. m : d[i] = w[i]
  BY ONLY <1>2, <1>3, OnTheWay(im, body, B, d) DEF OnTheWay
<1>7. Agrees(d, body)
  <2>1. ASSUME NEW i \in 1 .. m, i <= n PROVE d[i] = body[i]
    <3>1. i \in 1 .. n
      BY ONLY <2>1, n \in Nat, i \in 1 .. m
    <3> QED
      BY ONLY <1>5, <1>6, <3>1, i \in 1 .. m
  <2> QED
    BY ONLY <1>2, <2>1 DEF Agrees
<1>8. ASSUME NEW i \in 1 .. 7, n + i <= m PROVE d[n + i] = 0
  <2>1. n + i \in 1 .. m /\ i \in 1 .. 8
    BY ONLY <1>8, n \in Nat, m \in Nat, i \in 1 .. 7
  <2>2. d[n + i] = w[n + i] /\ w[n + i] = Ending[i]
    BY ONLY <1>5, <1>6, <2>1
  <2> QED
    BY ONLY <2>2, EndingIs, i \in 1 .. 7
<1>9. 14 <= Len(body)
  BY ONLY <1>1 DEF HeaderOf
<1> QED
  BY ONLY <1>1, <1>2, <1>6, <1>7, <1>8, <1>9

\* The whole of it, or its first bytes, are on the way.
LEMMA Sends ==
  ASSUME NEW im, NEW body, NEW B, Encoded(im, body, B), NEW d \in Seq(Byte), Len(d) <= Len(body) + 8,
         \A i \in 1 .. Len(d) : d[i] = (body \o Ending)[i]
  PROVE  OnTheWay(im, body, B, d)
BY DEF OnTheWay

LEMMA WholeStream ==
  ASSUME NEW im, NEW body, NEW B, Encoded(im, body, B)
  PROVE  body \o Ending \in Seq(Byte) /\ Len(body \o Ending) = Len(body) + 8
<1>1. body \in Seq(Byte)
  BY DEF Encoded
<1>2. Joined(body \o Ending, body, Ending)
  BY ONLY <1>1, EndingIs, Joins
<1> QED
  BY ONLY <1>2, EndingIs DEF Joined

\* A header that arrives whole, with a byte behind it, is that of the image.
LEMMA HeaderArrives ==
  ASSUME NEW im \in Images, NEW body, NEW B, NEW d \in Seq(Byte), OnTheWay(im, body, B, d), 14 < Len(d)
  PROVE  HeaderOf(Len(im), d)
<1>1. body \in Seq(Byte) /\ HeaderOf(Len(im), body) /\ 14 <= Len(body) /\ Agrees(d, body)
  BY StreamIs
<1>2. ASSUME NEW i \in 1 .. 14 PROVE d[i] = body[i]
  <2>1. i \in 1 .. Len(d) /\ i <= Len(body)
    BY ONLY <1>1, 14 < Len(d), d \in Seq(Byte), i \in 1 .. 14
  <2> QED
    BY ONLY <1>1, <2>1 DEF Agrees
<1>3. 14 <= Len(d)
  BY ONLY 14 < Len(d), d \in Seq(Byte)
<1> QED
  BY ONLY <1>1, <1>2, <1>3, SameHeader

-----------------------------------------------------------------------------
\* n pixels of a colour, put out.
PutOut(o, t, n) == o \o [i \in 1 .. n |-> t]

IsPutOut(w, o, t, n) ==
  /\ w \in Seq(Pixel) /\ Len(w) = Len(o) + n
  /\ \A i \in 1 .. Len(o) : w[i] = o[i]
  /\ \A i \in Len(o) + 1 .. Len(o) + n : w[i] = t

IsJoin(w, o, e, S) ==
  /\ w \in Seq(S) /\ Len(w) = Len(o) + Len(e)
  /\ \A i \in 1 .. Len(o) : w[i] = o[i]
  /\ \A i \in 1 .. Len(e) : w[Len(o) + i] = e[i]

LEMMA JoinIs ==
  ASSUME NEW S, NEW o \in Seq(S), NEW e \in Seq(S)
  PROVE  IsJoin(o \o e, o, e, S)
BY DEF IsJoin

LEMMA PutsOut ==
  ASSUME NEW o \in Seq(Pixel), NEW t \in Pixel, NEW n \in Nat
  PROVE  IsPutOut(PutOut(o, t, n), o, t, n)
<1>1. PICK e : e = [i \in 1 .. n |-> t]
  OBVIOUS
<1>2. e \in Seq(Pixel) /\ Len(e) = n /\ \A i \in 1 .. n : e[i] = t
  <2>1. e \in [1 .. n -> Pixel]
    BY ONLY <1>1, t \in Pixel
  <2>2. \A i \in 1 .. n : e[i] = t
    BY ONLY <1>1
  <2> QED
    BY ONLY <2>1, <2>2, ArrayIsSeq, n \in Nat
<1>3. PICK w : w = o \o e
  OBVIOUS
<1>4. PICK s \in Nat : s = Len(o)
  OBVIOUS
<1>5. /\ w \in Seq(Pixel) /\ Len(w) = Len(o) + Len(e)
      /\ \A i \in 1 .. Len(o) : w[i] = o[i]
      /\ \A i \in 1 .. Len(e) : w[Len(o) + i] = e[i]
  <2>1. IsJoin(w, o, e, Pixel)
    BY ONLY <1>2, <1>3, JoinIs, o \in Seq(Pixel)
  <2> QED
    BY ONLY <2>1 DEF IsJoin
<1>6. Len(w) = s + n /\ (\A i \in 1 .. s : w[i] = o[i]) /\ (\A i \in 1 .. n : w[s + i] = e[i])
  BY ONLY <1>2, <1>4, <1>5
<1>7. ASSUME NEW i \in s + 1 .. s + n PROVE w[i] = t
  <2>1. PICK j \in 1 .. n : i = s + j
    <3>1. i - s \in 1 .. n /\ i = s + (i - s)
      BY ONLY s \in Nat, n \in Nat, i \in s + 1 .. s + n
    <3> QED
      BY ONLY <3>1
  <2> QED
    BY ONLY <1>2, <1>6, <2>1
<1>8. PutOut(o, t, n) = w
  BY ONLY <1>1, <1>3 DEF PutOut
<1> QED
  BY ONLY <1>4, <1>5, <1>6, <1>7, <1>8 DEF IsPutOut

\* A run keeps both sides in step, but for one at the start: the decoder's map does
\* not have opaque black.
LEMMA RunInStep ==
  ASSUME NEW im \in Seq(Pixel), im[1] # Black, NEW c \in Coders, NEW o \in Seq(Pixel), InStep(im, c, o),
         NEW body, NEW p, NEW q, NEW l \in Nat, RunStep(im, body, p, Len(o), q, l),
         NEW next, next.map = c.map, next.last_seen = c.last_seen, NEW n \in Nat, n = l - Len(o)
  PROVE  InStep(im, next, PutOut(o, c.last_seen, n))
<1>1. PICK k \in Nat : k = Len(o)
  OBVIOUS
<1>2. k < l /\ l <= Len(im) /\ \A i \in k + 1 .. l : im[i] = Last(im, k)
  BY ONLY <1>1, RunStep(im, body, p, Len(o), q, l) DEF RunStep
<1>3. PICK m \in Maps, t \in Pixel : m = c.map /\ t = c.last_seen
  BY ONLY c \in Coders DEF Coders
<1>4. MapIs(im, m, k) /\ t = Last(im, k) /\ \A i \in 1 .. k : o[i] = im[i]
  BY ONLY <1>1, <1>3, InStep(im, c, o) DEF InStep
<1>5. 0 < k
  <2>1. CASE k = 0
    <3>1. 1 \in k + 1 .. l
      BY ONLY <1>2, <2>1, l \in Nat
    <3>2. im[1] = Last(im, 0)
      BY ONLY <1>2, <2>1, <3>1
    <3> QED
      BY ONLY <3>2, im[1] # Black DEF Last
  <2>2. CASE k # 0
    BY ONLY <2>2, k \in Nat
  <2> QED
    BY ONLY <2>1, <2>2
<1>6. Last(im, k) = im[k]
  BY ONLY <1>5, k \in Nat DEF Last
<1>7. MapIs(im, m, l)
  <2>1. k <= l /\ \A i \in k + 1 .. l : im[i] = im[k]
    BY ONLY <1>2, <1>6, k \in Nat, l \in Nat
  <2> QED
    BY ONLY <1>2, <1>4, <1>5, <2>1, MapRun, im \in Seq(Pixel), m \in Maps, k \in Nat, l \in Nat
<1>8. Last(im, l) = t
  <2>1. l \in k + 1 .. l /\ l # 0
    BY ONLY <1>2, k \in Nat, l \in Nat
  <2> QED
    BY ONLY <1>2, <1>4, <2>1 DEF Last
<1>9. PICK w : w = PutOut(o, t, n)
  OBVIOUS
<1>10. k + n = l
  BY ONLY <1>1, <1>2, n = l - Len(o), k \in Nat, l \in Nat, n \in Nat
<1>11. Len(w) = l /\ (\A i \in 1 .. k : w[i] = o[i]) /\ (\A i \in k + 1 .. l : w[i] = t)
  <2>1. IsPutOut(w, o, t, n)
    BY ONLY <1>9, PutsOut, o \in Seq(Pixel), t \in Pixel, n \in Nat
  <2> QED
    BY ONLY <1>1, <1>10, <2>1 DEF IsPutOut
<1>12. \A i \in 1 .. l : w[i] = im[i]
  <2>1. \A i \in 1 .. l : i \in 1 .. k \/ i \in k + 1 .. l
    BY ONLY k \in Nat, l \in Nat
  <2> QED
    BY ONLY <1>2, <1>4, <1>11, <2>1
<1>13. InStep(im, next, w)
  BY ONLY <1>3, <1>7, <1>8, <1>11, <1>12, next.map = c.map, next.last_seen = c.last_seen, Zenon DEF InStep
<1> QED
  BY ONLY <1>3, <1>9, <1>13

\* And so does the block of a colour: it is the colour the encoder had.
LEMMA PixelInStep ==
  ASSUME NEW im \in Seq(Pixel), NEW c \in Coders, NEW o \in Seq(Pixel), InStep(im, c, o), Len(o) < Len(im),
         NEW m \in Maps, NEW a, MapIs(im, m, Len(o)), StandsFor(a, im[Len(o) + 1], m, Last(im, Len(o))),
         NEW e, Extra(a, e), NEW t, t = Colour(block_type(a[1]), a[1], e, c),
         NEW next, next.map = (IF block_type(a[1]) = "Index" THEN c.map ELSE [c.map EXCEPT ![hash(t)] = t]),
         next.last_seen = t
  PROVE  InStep(im, next, PutOut(o, t, 1))
<1>1. PICK k \in Nat : k = Len(o)
  OBVIOUS
<1>2. PICK s \in Pixel : s = im[k + 1]
  <2>1. k + 1 \in 1 .. Len(im)
    BY ONLY <1>1, Len(o) < Len(im), k \in Nat, im \in Seq(Pixel)
  <2> QED
    BY ONLY <2>1, ElementOf, im \in Seq(Pixel)
<1>3. c.map \in Maps /\ c.last_seen \in Pixel
  BY ONLY c \in Coders DEF Coders
<1>4. MapIs(im, c.map, k) /\ c.last_seen = Last(im, k) /\ \A i \in 1 .. k : o[i] = im[i]
  BY ONLY <1>1, InStep(im, c, o) DEF InStep
<1>5. c.map = m
  BY ONLY <1>1, <1>3, <1>4, MapIs(im, m, Len(o)), MapUnique, m \in Maps, k \in Nat
<1>6. t = s
  <2>1. PICK d : d = Coder(m, Last(im, k))
    OBVIOUS
  <2>2. c.map = d.map /\ c.last_seen = d.last_seen
    BY ONLY <1>4, <1>5, <2>1 DEF Coder
  <2>3. Colour(block_type(a[1]), a[1], e, c) = Colour(block_type(a[1]), a[1], e, d)
    BY ONLY <2>2, Zenon DEF Colour
  <2>4. Colour(block_type(a[1]), a[1], e, Coder(m, Last(im, k))) = im[k + 1]
    BY ONLY <1>1, StandsFor(a, im[Len(o) + 1], m, Last(im, Len(o))), Extra(a, e), Zenon DEF StandsFor
  <2> QED
    BY ONLY <1>2, <2>1, <2>3, <2>4, t = Colour(block_type(a[1]), a[1], e, c)
<1>7. PICK g \in 0 .. 63 : g = hash(s)
  BY ONLY HashIs, s \in Pixel
<1>8. next.map = [m EXCEPT ![g] = s]
  <2>1. CASE block_type(a[1]) = "Index"
    <3>1. m[g] = s
      BY ONLY <1>1, <1>2, <1>7, <2>1, StandsFor(a, im[Len(o) + 1], m, Last(im, Len(o))), Zenon DEF StandsFor
    <3>2. next.map = m
      BY ONLY <1>5, <2>1, next.map = (IF block_type(a[1]) = "Index" THEN c.map ELSE [c.map EXCEPT ![hash(t)] = t])
    <3>3. [m EXCEPT ![g] = s] = m
      BY ONLY <3>1, m \in Maps, g \in 0 .. 63 DEF Maps
    <3> QED
      BY ONLY <3>2, <3>3
  <2>2. CASE block_type(a[1]) # "Index"
    BY ONLY <1>5, <1>6, <1>7, <2>2, next.map = (IF block_type(a[1]) = "Index" THEN c.map ELSE [c.map EXCEPT ![hash(t)] = t])
  <2> QED
    BY ONLY <2>1, <2>2
<1>9. MapIs(im, next.map, k + 1)
  <2>1. k < Len(im)
    BY ONLY <1>1, Len(o) < Len(im)
  <2>2. MapIs(im, [m EXCEPT ![hash(im[k + 1])] = im[k + 1]], k + 1)
    BY ONLY <1>4, <1>5, <2>1, MapNext, im \in Seq(Pixel), m \in Maps, k \in Nat
  <2> QED
    BY ONLY <1>2, <1>7, <1>8, <2>2
<1>10. Last(im, k + 1) = t
  <2>1. k + 1 # 0
    OBVIOUS
  <2> QED
    BY ONLY <1>2, <1>6, <2>1 DEF Last
<1>11. PICK w : w = PutOut(o, t, 1)
  OBVIOUS
<1>12. Len(w) = k + 1 /\ (\A i \in 1 .. k : w[i] = o[i]) /\ (\A i \in k + 1 .. k + 1 : w[i] = t)
  <2>1. t \in Pixel
    BY ONLY <1>6
  <2>2. IsPutOut(w, o, t, 1)
    BY ONLY <1>11, <2>1, PutsOut, o \in Seq(Pixel), 1 \in Nat
  <2> QED
    BY ONLY <1>1, <2>2 DEF IsPutOut
<1>13. \A i \in 1 .. k + 1 : w[i] = im[i]
  <2>1. \A i \in 1 .. k + 1 : i \in 1 .. k \/ (i = k + 1 /\ i \in k + 1 .. k + 1)
    BY ONLY k \in Nat
  <2> QED
    BY ONLY <1>2, <1>4, <1>6, <1>12, <2>1
<1>14. InStep(im, next, w)
  BY ONLY <1>9, <1>10, <1>12, <1>13, next.last_seen = t, Zenon DEF InStep
<1> QED
  BY ONLY <1>11, <1>14

\* A block, as DecodeBlock takes it: how many bytes behind the first one, how many
\* pixels, of which colour, and the colours kept after it.
More(d, p) == extra_data_size(block_type(d[p + 1]))
Count(d, p) == IF block_type(d[p + 1]) = "Run" THEN (d[p + 1] % 64) + 1 ELSE 1
Shown(d, p, c) ==
  IF block_type(d[p + 1]) = "Run" THEN c.last_seen
  ELSE Colour(block_type(d[p + 1]), d[p + 1], SubSeq(d, p + 2, p + 1 + More(d, p)), c)
Kept(d, p, c) ==
  [map |-> IF block_type(d[p + 1]) \in {"Run", "Index"} THEN c.map
           ELSE [c.map EXCEPT ![hash(Shown(d, p, c))] = Shown(d, p, c)],
   last_seen |-> Shown(d, p, c), run_length |-> 0]

\* From whatever bytes there are pixels.
LEMMA BlockGives ==
  ASSUME NEW d \in Seq(Byte), NEW p \in Nat, NEW c \in Coders, p < Len(d)
  PROVE  /\ More(d, p) \in Nat /\ Count(d, p) \in Nat
         /\ p + 1 + More(d, p) <= Len(d) => Shown(d, p, c) \in Pixel /\ Kept(d, p, c) \in Coders
<1>1. PICK b \in Byte : b = d[p + 1]
  <2>1. p + 1 \in 1 .. Len(d)
    BY ONLY p < Len(d), p \in Nat, d \in Seq(Byte)
  <2> QED
    BY ONLY <2>1, ElementOf, d \in Seq(Byte)
<1>2. PICK x \in Nat : x = More(d, p)
  BY DEF More, extra_data_size
<1>3. Count(d, p) \in Nat
  <2>1. b \in Nat
    BY ONLY BytesAre, b \in Byte
  <2>2. (b % 64) + 1 \in Nat
    BY ONLY <2>1
  <2> QED
    BY ONLY <1>1, <2>2, 1 \in Nat DEF Count
<1>4. PICK m \in Maps, last \in Pixel : m = c.map /\ last = c.last_seen
  BY DEF Coders
<1>5. ASSUME p + 1 + x <= Len(d) PROVE Shown(d, p, c) \in Pixel
  <2>1. CASE block_type(b) = "Run"
    BY ONLY <1>1, <1>4, <2>1 DEF Shown
  <2>2. CASE block_type(b) # "Run"
    <3>1. PICK e : e = SubSeq(d, p + 2, p + 1 + x)
      OBVIOUS
    <3>2. e \in Seq(Byte) /\ Len(e) = x
      BY ONLY <1>5, <3>1, ExtraBytes, d \in Seq(Byte), p \in Nat, x \in Nat
    <3>3. x = extra_data_size(block_type(b))
      BY ONLY <1>1, <1>2 DEF More
    <3>4. Colour(block_type(b), b, e, Coder(m, last)) \in Pixel
      BY ONLY <2>2, <3>2, <3>3, ColourIsPixel, m \in Maps, last \in Pixel, b \in Byte
    <3>5. PICK k : k = Coder(m, last)
      OBVIOUS
    <3>6. c.map = k.map /\ c.last_seen = k.last_seen
      BY ONLY <1>4, <3>5 DEF Coder
    <3>7. Colour(block_type(b), b, e, c) = Colour(block_type(b), b, e, k)
      BY ONLY <3>6, Zenon DEF Colour
    <3>8. Shown(d, p, c) = Colour(block_type(b), b, e, c)
      BY ONLY <1>1, <1>2, <2>2, <3>1 DEF Shown
    <3> QED
      BY ONLY <3>4, <3>5, <3>7, <3>8
  <2> QED
    BY ONLY <2>1, <2>2
<1>6. ASSUME Shown(d, p, c) \in Pixel PROVE Kept(d, p, c) \in Coders
  <2>1. PICK t \in Pixel : t = Shown(d, p, c)
    BY ONLY <1>6
  <2>2. PICK n : n = (IF block_type(b) \in {"Run", "Index"} THEN m ELSE [m EXCEPT ![hash(t)] = t])
    OBVIOUS
  <2>3. n \in Maps
    BY ONLY <2>2, m \in Maps, t \in Pixel DEF Maps
  <2>4. Kept(d, p, c) = [map |-> n, last_seen |-> t, run_length |-> 0]
    BY ONLY <1>1, <1>4, <2>1, <2>2 DEF Kept
  <2> QED
    BY ONLY <2>3, <2>4, t \in Pixel DEF Coders
<1> QED
  BY ONLY <1>2, <1>3, <1>5, <1>6

\* In step before the block, in step after it.
StepsOn(im, B, d, p, o, c) ==
  /\ << p + 1 + More(d, p), Len(o) + Count(d, p) >> \in B
  /\ im[1] # Black => InStep(im, Kept(d, p, c), PutOut(o, Shown(d, p, c), Count(d, p)))

LEMMA BlockInStep ==
  ASSUME NEW im \in Images, NEW body, NEW B, NEW d \in Seq(Byte), OnTheWay(im, body, B, d),
         NEW p \in Nat, NEW o \in Seq(Pixel), NEW c \in Coders, << p, Len(o) >> \in B,
         im[1] # Black => InStep(im, c, o), Len(o) < Len(im), p < Len(d)
  PROVE  /\ Len(o) + Count(d, p) <= Len(im)
         /\ p + 1 + More(d, p) <= Len(body)
         /\ p + 1 + More(d, p) <= Len(d) => StepsOn(im, B, d, p, o, c)
<1>1. im \in Seq(Pixel)
  BY ONLY ImagesAre, im \in Images
<1>2. body \in Seq(Byte) /\ Parse(im, body, B, Len(body), Len(im)) /\ Agrees(d, body)
  BY ONLY StreamIs, OnTheWay(im, body, B, d), d \in Seq(Byte)
<1>3. PICK k \in Nat, P \in Nat, K \in Nat : k = Len(o) /\ P = Len(body) /\ K = Len(im)
  BY ONLY <1>1, <1>2, o \in Seq(Pixel)
<1>4. PICK q \in Nat, l \in Nat : << q, l >> \in B /\ BlockStep(im, body, p, k, q, l)
  <2>1. Parse(im, body, B, P, K) /\ << p, k >> \in B /\ k < K
    BY ONLY <1>2, <1>3, << p, Len(o) >> \in B, Len(o) < Len(im)
  <2>2. p <= P /\ \E q \in Nat, l \in Nat : << q, l >> \in B /\ BlockStep(im, body, p, k, q, l)
    BY ONLY <1>2, <2>1, ParseAt, P \in Nat, K \in Nat, p \in Nat, k \in Nat
  <2> QED
    BY ONLY <2>2
<1>5. p < q /\ k < l /\ q <= P /\ l <= K
  <2>1. p < q /\ k < l /\ q <= Len(body) /\ l <= Len(im)
    BY ONLY <1>2, <1>4, StepMoves, p \in Nat, k \in Nat, q \in Nat, l \in Nat
  <2> QED
    BY ONLY <1>3, <2>1
<1>6. CASE RunStep(im, body, p, k, q, l)
  <2>1. block_type(d[p + 1]) = "Run" /\ (d[p + 1] % 64) + 1 = l - k /\ q = p + 1
    BY ONLY <1>2, <1>6, ReadsRun, d \in Seq(Byte), p < Len(d), p \in Nat, k \in Nat, q \in Nat, l \in Nat
  <2>2. PICK n \in Nat : n = l - k
    BY ONLY <1>5, k \in Nat, l \in Nat
  <2>3. More(d, p) = 0 /\ Count(d, p) = n /\ Shown(d, p, c) = c.last_seen
    BY ONLY <2>1, <2>2, ExtraSizes DEF More, Count, Shown
  <2>4. p + 1 + 0 = q /\ k + n = l
    BY ONLY <1>5, <2>1, <2>2, p \in Nat, q \in Nat, k \in Nat, l \in Nat
  <2>5. ASSUME im[1] # Black PROVE InStep(im, Kept(d, p, c), PutOut(o, c.last_seen, n))
    <3>1. PICK next : next = Kept(d, p, c)
      OBVIOUS
    <3>2. next.map = c.map /\ next.last_seen = c.last_seen
      BY ONLY <2>1, <2>3, <3>1 DEF Kept
    <3>3. InStep(im, c, o) /\ RunStep(im, body, p, Len(o), q, l) /\ n = l - Len(o)
      BY ONLY <1>3, <1>6, <2>2, <2>5, im[1] # Black => InStep(im, c, o)
    <3>4. InStep(im, next, PutOut(o, c.last_seen, n))
      BY ONLY <1>1, <2>5, <3>2, <3>3, RunInStep, c \in Coders, o \in Seq(Pixel), l \in Nat, n \in Nat
    <3> QED
      BY ONLY <3>1, <3>4
  <2>6. StepsOn(im, B, d, p, o, c)
    BY ONLY <1>3, <1>4, <2>3, <2>4, <2>5 DEF StepsOn
  <2> QED
    BY ONLY <1>3, <1>5, <2>3, <2>4, <2>6
<1>7. CASE PixelStep(im, body, p, k, q, l)
  <2>1. PICK m \in Maps, a \in Seq(Byte) :
          MapIs(im, m, k) /\ StandsFor(a, im[l], m, Last(im, k)) /\ q = p + Len(a) /\ Holds(body, p, a)
    BY ONLY <1>7 DEF PixelStep
  <2>2. l = k + 1
    BY ONLY <1>7 DEF PixelStep
  <2>3. /\ d[p + 1] = a[1] /\ p + 1 + More(d, p) = p + Len(a)
        /\ p + Len(a) <= Len(d) => Extra(a, SubSeq(d, p + 2, p + 1 + More(d, p)))
    BY ONLY <1>2, <2>1, ReadsPixel, d \in Seq(Byte), p \in Nat, a \in Seq(Byte), p < Len(d) DEF More
  <2>4. block_type(a[1]) # "Run"
    BY ONLY <2>1, Zenon DEF StandsFor
  <2>5. Count(d, p) = 1
    BY ONLY <2>3, <2>4 DEF Count
  <2>6. p + 1 + More(d, p) = q
    BY ONLY <2>1, <2>3
  <2>7. ASSUME p + 1 + More(d, p) <= Len(d), im[1] # Black
        PROVE  InStep(im, Kept(d, p, c), PutOut(o, Shown(d, p, c), 1))
    <3>1. PICK e : e = SubSeq(d, p + 2, p + 1 + More(d, p))
      OBVIOUS
    <3>2. Extra(a, e)
      BY ONLY <2>3, <2>7, <3>1
    <3>3. PICK t : t = Colour(block_type(a[1]), a[1], e, c)
      OBVIOUS
    <3>4. Shown(d, p, c) = t
      BY ONLY <2>3, <2>4, <3>1, <3>3 DEF Shown
    <3>5. PICK next : next = Kept(d, p, c)
      OBVIOUS
    <3>6. next.map = (IF block_type(a[1]) = "Index" THEN c.map ELSE [c.map EXCEPT ![hash(t)] = t]) /\ next.last_seen = t
      <4>1. next = [map |-> IF block_type(a[1]) \in {"Run", "Index"} THEN c.map ELSE [c.map EXCEPT ![hash(t)] = t],
                    last_seen |-> t, run_length |-> 0]
        BY ONLY <2>3, <3>4, <3>5 DEF Kept
      <4> QED
        BY ONLY <2>4, <4>1
    <3>7. InStep(im, c, o) /\ MapIs(im, m, Len(o)) /\ StandsFor(a, im[Len(o) + 1], m, Last(im, Len(o)))
      BY ONLY <1>3, <2>1, <2>2, <2>7, im[1] # Black => InStep(im, c, o)
    <3>8. InStep(im, next, PutOut(o, t, 1))
      BY ONLY <1>1, <3>2, <3>3, <3>6, <3>7, PixelInStep, c \in Coders, o \in Seq(Pixel), m \in Maps, Len(o) < Len(im)
    <3> QED
      BY ONLY <3>4, <3>5, <3>8
  <2>8. ASSUME p + 1 + More(d, p) <= Len(d) PROVE StepsOn(im, B, d, p, o, c)
    BY ONLY <1>3, <1>4, <2>2, <2>5, <2>6, <2>7, <2>8 DEF StepsOn
  <2> QED
    BY ONLY <1>3, <1>5, <2>2, <2>5, <2>6, <2>8
<1> QED
  BY ONLY <1>4, <1>6, <1>7 DEF BlockStep

-----------------------------------------------------------------------------
LEMMA EncodePixelKeeps == CodecInv /\ EncodePixel => CodecInv'
<1> SUFFICES ASSUME CodecInv, EncodePixel PROVE CodecInv'
  OBVIOUS
<1>1. QoITypeOK /\ Within /\ stage = "encode" /\ Written(image, bytes, pos, coder)
  BY DEF CodecInv, EncodePixel
<1>2. PICK im \in Images, bs \in Seq(Byte), n \in Nat, c \in Coders : im = image /\ bs = bytes /\ n = pos /\ c = coder
  BY ONLY <1>1 DEF QoITypeOK
<1>3. Written(im, bs, n, c) /\ n < Len(im)
  BY ONLY <1>1, <1>2, EncodePixel DEF EncodePixel
<1>4. PICK d : d = NextBytes(bs, c, im[n + 1])
  OBVIOUS
<1>5. PICK next : next = NextCoder(c, im[n + 1])
  OBVIOUS
<1>6. d \in Seq(Byte) /\ next \in Coders /\ Written(im, d, n + 1, next)
  BY ONLY <1>3, <1>4, <1>5, EncodeStep, im \in Images, bs \in Seq(Byte), n \in Nat, c \in Coders
<1>7. PICK x \in Nat : x = n + 1
  OBVIOUS
<1>8. /\ bytes' = d /\ coder' = next /\ pos' = x /\ image' = im /\ UNCHANGED << out, pixels, stage, damage >>
  BY ONLY <1>2, <1>4, <1>5, <1>7, EncodePixel, Zenon DEF EncodePixel, NextBytes, NextCoder, FullRun, RunLeft
<1>11. Written(im, d, x, next)
  BY ONLY <1>6, <1>7
<1>12. QoITypeOK'
  BY ONLY <1>1, <1>6, <1>8, im \in Images, x \in Nat, Zenon DEF QoITypeOK
<1>13. Within'
  <2>1. (stage = "encode" /\ stage' = stage) /\ out' = out /\ pixels' = pixels /\ damage' = damage
    BY ONLY <1>1, <1>8
  <2> QED
    BY ONLY <1>1, <2>1 DEF Within
<1>14. stage' = "encode" /\ (Written(image, bytes, pos, coder))'
  BY ONLY <1>1, <1>8, <1>11
<1> QED
  BY ONLY <1>12, <1>13, <1>14 DEF CodecInv

LEMMA FinishEncodeKeeps == CodecInv /\ FinishEncode => CodecInv'
<1> SUFFICES ASSUME CodecInv, FinishEncode PROVE CodecInv'
  OBVIOUS
<1>1. QoITypeOK /\ Within /\ stage = "encode" /\ Written(image, bytes, pos, coder)
  BY DEF CodecInv, FinishEncode
<1>2. PICK im \in Images, bs \in Seq(Byte), c \in Coders : im = image /\ bs = bytes /\ c = coder
  BY ONLY <1>1 DEF QoITypeOK
<1>3. Written(im, bs, Len(im), c)
  BY ONLY <1>1, <1>2, FinishEncode DEF FinishEncode
<1>4. PICK run : run = (IF c.run_length # 0 THEN RunBlock(c.run_length) ELSE << >>)
  OBVIOUS
<1>5. bs \o run \in Seq(Byte) /\ \E B : Encoded(im, bs \o run, B)
  BY ONLY <1>3, <1>4, EncodeEnds, im \in Images, bs \in Seq(Byte), c \in Coders
<1>6. PICK body, B : body = bs \o run /\ Encoded(im, body, B)
  BY ONLY <1>5
<1>7. PICK d : d = body \o Ending
  OBVIOUS
<1>8. d \in Seq(Byte)
  BY ONLY <1>6, <1>7, WholeStream
<1>9. bytes' = d /\ image' = im /\ stage' = "sent" /\ UNCHANGED << pos, coder, out, pixels, damage >>
  BY ONLY <1>2, <1>4, <1>6, <1>7, FinishEncode DEF FinishEncode
<1>10. QoITypeOK'
  <2>1. "sent" \in {"encode", "sent", "header", "payload", "image", "error"}
    OBVIOUS
  <2> QED
    BY ONLY <1>1, <1>8, <1>9, <2>1, im \in Images, Zenon DEF QoITypeOK
<1>11. Within'
  BY ONLY <1>1, <1>9 DEF Within
<1>12. (\E b, C : Encoded(image, b, C) /\ bytes = b \o Ending)'
  BY ONLY <1>6, <1>7, <1>9
<1> QED
  BY ONLY <1>9, <1>10, <1>11, <1>12 DEF CodecInv

LEMMA ChangedByte ==
  ASSUME NEW S, NEW s \in Seq(S), NEW i, NEW b \in S
  PROVE  [s EXCEPT ![i] = b] \in Seq(S)
<1>1. PICK n \in Nat : n = Len(s) /\ s \in [1 .. n -> S]
  OBVIOUS
<1>2. [s EXCEPT ![i] = b] \in [1 .. n -> S]
  BY ONLY <1>1, b \in S
<1> QED
  BY ONLY <1>2, ArrayIsSeq, n \in Nat

LEMMA DeliverKeeps == CodecInv /\ Deliver => CodecInv'
<1> SUFFICES ASSUME CodecInv, Deliver PROVE CodecInv'
  OBVIOUS
<1>1. QoITypeOK /\ Within /\ stage = "sent"
  BY DEF CodecInv, Deliver
<1>2. PICK im \in Images, bs \in Seq(Byte) : im = image /\ bs = bytes
  BY ONLY <1>1 DEF QoITypeOK
<1>3. PICK body, B : Encoded(im, body, B) /\ bs = body \o Ending
  BY <1>1, <1>2 DEF CodecInv
<1>4. Len(bs) = Len(body) + 8 /\ body \in Seq(Byte)
  BY ONLY <1>3, WholeStream DEF Encoded
<1>5. stage' = "header" /\ pos' = 0 /\ coder' = FreshCoder /\ image' = im /\ out' = out /\ pixels' = pixels
  BY ONLY <1>2, Deliver DEF Deliver
<1>6. out = << >> /\ damage = "none"
  BY ONLY <1>1 DEF Within
<1>7. ASSUME NEW d \in Seq(Byte), bytes' = d, damage' \in {"none", "cut", "changed"},
             damage' # "changed" => /\ OnTheWay(im, body, B, d)
                                    /\ damage' = "none" => Len(d) = Len(body) + 8
                                    /\ damage' = "cut" => Len(d) < Len(body) + 8
      PROVE  CodecInv'
  <2>1. QoITypeOK'
    <3>1. "header" \in {"encode", "sent", "header", "payload", "image", "error"}
      OBVIOUS
    <3> QED
      BY ONLY <1>1, <1>5, <1>7, <3>1, FreshIs, im \in Images, 0 \in Nat, Zenon DEF QoITypeOK
  <2>2. Within'
    BY ONLY <1>1, <1>5, <1>6 DEF Within
  <2>3. ASSUME damage' # "changed" PROVE Received'
    <3>1. OnTheWay(image, body, B, bytes)'
      BY ONLY <1>5, <1>7, <2>3
    <3>2. Delivered(body)'
      BY ONLY <1>5, <1>7, <2>3 DEF Delivered
    <3> QED
      BY ONLY <1>5, <3>1, <3>2 DEF Received
  <2> QED
    BY ONLY <1>5, <2>1, <2>2, <2>3 DEF CodecInv
<1>8. CASE UNCHANGED << bytes, damage >>
  <2>1. Len(bs) <= Len(body) + 8
    BY ONLY <1>4
  <2>2. OnTheWay(im, body, B, bs)
    BY ONLY <1>3, <1>4, <2>1, Sends, bs \in Seq(Byte)
  <2>3. bytes' = bs /\ damage' = "none"
    BY ONLY <1>2, <1>6, <1>8
  <2> QED
    BY ONLY <1>4, <1>7, <2>2, <2>3
<1>9. ASSUME damage' = "cut", NEW n \in 0 .. Len(bytes) - 1, bytes' = SubSeq(bytes, 1, n)
      PROVE  CodecInv'
  <2>1. PICK m \in Nat : m = n /\ m < Len(bs)
    BY ONLY <1>2, bs \in Seq(Byte), n \in 0 .. Len(bytes) - 1
  <2>2. PICK d : d = SubSeq(bs, 0 + 1, 0 + m)
    OBVIOUS
  <2>3. d \in Seq(Byte) /\ Len(d) = m /\ \A i \in 1 .. m : d[i] = bs[0 + i]
    <3>1. 0 + m <= Len(bs)
      BY ONLY <2>1, bs \in Seq(Byte)
    <3> QED
      BY ONLY <2>2, <3>1, PartOf, bs \in Seq(Byte), 0 \in Nat, m \in Nat
  <2>4. bytes' = d
    <3>1. 0 + 1 = 1 /\ 0 + m = m
      OBVIOUS
    <3> QED
      BY ONLY <1>2, <1>9, <2>1, <2>2, <3>1
  <2>5. Len(d) < Len(body) + 8 /\ Len(d) <= Len(body) + 8
    BY ONLY <1>4, <2>1, <2>3, bs \in Seq(Byte), m \in Nat
  <2>6. \A i \in 1 .. Len(d) : d[i] = (body \o Ending)[i]
    <3>1. \A i \in 1 .. m : 0 + i = i
      OBVIOUS
    <3> QED
      BY ONLY <1>3, <2>3, <3>1
  <2>7. OnTheWay(im, body, B, d)
    BY ONLY <1>3, <2>3, <2>5, <2>6, Sends
  <2> QED
    BY ONLY <1>7, <1>9, <2>3, <2>4, <2>5, <2>7
<1>10. ASSUME damage' = "changed", NEW i, NEW b \in BadBytes, bytes' = [bytes EXCEPT ![i] = b]
       PROVE  CodecInv'
  <2>1. b \in Byte
    BY ONLY QoIAssumption, b \in BadBytes
  <2>2. PICK d : d = [bs EXCEPT ![i] = b]
    OBVIOUS
  <2>3. d \in Seq(Byte)
    BY ONLY <2>1, <2>2, ChangedByte, bs \in Seq(Byte)
  <2>4. bytes' = d
    BY ONLY <1>2, <1>10, <2>2
  <2> QED
    BY ONLY <1>7, <1>10, <2>3, <2>4
<1> QED
  BY ONLY <1>8, <1>9, <1>10, Deliver DEF Deliver

LEMMA ReadHeaderKeeps == CodecInv /\ ReadHeader => CodecInv'
<1> SUFFICES ASSUME CodecInv, ReadHeader PROVE CodecInv'
  OBVIOUS
<1>1. QoITypeOK /\ Within /\ stage = "header" /\ (damage # "changed" => Received)
  BY DEF CodecInv, ReadHeader
<1>2. PICK im \in Images, d \in Seq(Byte) : im = image /\ d = bytes
  BY ONLY <1>1 DEF QoITypeOK
<1>3. PICK r : r = decode(HeaderFormat, d, 0)
  OBVIOUS
<1>4. image' = im /\ bytes' = d /\ UNCHANGED << coder, out, damage >> /\ out = << >> /\ coder = FreshCoder
  BY ONLY <1>1, <1>2, ReadHeader DEF ReadHeader, Within
<1>5. Len(im) \in Nat \ {0} /\ im \in Seq(Pixel)
  BY ONLY ImagesAre, im \in Images
<1>6. CASE r.ok /\ HeaderAccepted(r.out)
  <2>1. r.it = 14 /\ 14 < Len(d) /\ r.out[5] * r.out[6] \in Nat
    BY ONLY <1>3, <1>6, HeaderGives, d \in Seq(Byte)
  <2>2. PICK n \in Nat : n = r.out[5] * r.out[6]
    BY ONLY <2>1
  <2>3. stage' = "payload" /\ pos' = 14 /\ pixels' = n
    BY ONLY <1>2, <1>3, <1>6, <2>1, <2>2, ReadHeader DEF ReadHeader
  <2>4. PICK o : o = << >>
    OBVIOUS
  <2>5. out' = o /\ o \in Seq(Pixel) /\ Len(o) = 0
    BY ONLY <1>4, <2>4
  <2>6. QoITypeOK'
    <3>1. "payload" \in {"encode", "sent", "header", "payload", "image", "error"}
      OBVIOUS
    <3> QED
      BY ONLY <1>1, <1>4, <2>3, <2>5, <3>1, im \in Images, d \in Seq(Byte), n \in Nat, 14 \in Nat, Zenon DEF QoITypeOK
  <2>7. Within'
    <3>1. Len(out') <= pixels'
      BY ONLY <2>3, <2>5, n \in Nat
    <3> QED
      BY ONLY <2>3, <3>1 DEF Within
  <2>8. ASSUME damage # "changed" PROVE Received'
    <3>1. PICK body, B : OnTheWay(im, body, B, d) /\ Delivered(body)
      BY ONLY <1>1, <1>2, <2>8 DEF Received
    <3>2. HeaderOf(Len(im), d)
      BY ONLY <2>1, <3>1, HeaderArrives, im \in Images, d \in Seq(Byte)
    <3>3. n = Len(im)
      BY ONLY <1>3, <1>5, <2>1, <2>2, <3>2, HeaderReadBack, d \in Seq(Byte)
    <3>4. << 14, 0 >> \in B
      BY ONLY <3>1, StreamIs, d \in Seq(Byte), Zenon DEF Parse
    <3>5. InStep(im, FreshCoder, o)
      <4>1. Last(im, 0) = Black /\ \A i \in 1 .. 0 : FALSE
        BY DEF Last
      <4>2. FreshCoder.last_seen = Black /\ MapIs(im, FreshCoder.map, 0)
        BY ONLY FreshIs
      <4> QED
        BY ONLY <2>5, <4>1, <4>2, Zenon DEF InStep
    <3>6. Decoding(B)'
      <4>1. << 14, Len(o) >> \in B
        BY ONLY <2>5, <3>4
      <4> QED
        BY ONLY <1>4, <2>3, <2>5, <3>3, <3>5, <4>1, Zenon DEF Decoding
    <3>7. Delivered(body)'
      BY ONLY <1>2, <1>4, <2>3, <3>1 DEF Delivered
    <3>8. OnTheWay(image, body, B, bytes)'
      BY ONLY <1>4, <3>1
    <3> QED
      BY ONLY <2>3, <3>6, <3>7, <3>8 DEF Received
  <2> QED
    BY ONLY <1>4, <2>3, <2>6, <2>7, <2>8 DEF CodecInv
<1>7. CASE ~(r.ok /\ HeaderAccepted(r.out))
  <2>1. stage' = "error" /\ UNCHANGED << pos, pixels >>
    BY ONLY <1>2, <1>3, <1>7, ReadHeader DEF ReadHeader
  <2>2. QoITypeOK'
    <3>1. "error" \in {"encode", "sent", "header", "payload", "image", "error"}
      OBVIOUS
    <3> QED
      BY ONLY <1>1, <1>4, <2>1, <3>1, im \in Images, d \in Seq(Byte), Zenon DEF QoITypeOK
  <2>3. Within'
    BY ONLY <1>1, <1>4, <2>1 DEF Within
  <2>4. ASSUME damage # "changed" PROVE Received'
    <3>1. PICK body, B : OnTheWay(im, body, B, d) /\ Delivered(body)
      BY ONLY <1>1, <1>2, <2>4 DEF Received
    <3>2. damage # "none"
      <4>1. CASE damage = "none"
        <5>1. Len(d) = Len(body) + 8
          BY ONLY <1>2, <3>1, <4>1 DEF Delivered
        <5>2. 14 <= Len(body) /\ body \in Seq(Byte)
          BY ONLY <3>1, StreamIs, d \in Seq(Byte)
        <5>3. 14 < Len(d)
          BY ONLY <5>1, <5>2
        <5>4. HeaderOf(Len(im), d)
          BY ONLY <3>1, <5>3, HeaderArrives, im \in Images, d \in Seq(Byte)
        <5>5. r.ok /\ HeaderAccepted(r.out)
          BY ONLY <1>3, <1>5, <5>3, <5>4, HeaderReadBack, d \in Seq(Byte)
        <5> QED
          BY ONLY <1>7, <5>5
      <4> QED
        BY ONLY <4>1
    <3>3. Delivered(body)'
      BY ONLY <1>2, <1>4, <3>1, <3>2 DEF Delivered
    <3>4. OnTheWay(image, body, B, bytes)'
      BY ONLY <1>4, <3>1
    <3> QED
      BY ONLY <2>1, <3>3, <3>4 DEF Received
  <2> QED
    BY ONLY <1>4, <2>1, <2>2, <2>3, <2>4 DEF CodecInv
<1> QED
  BY ONLY <1>6, <1>7

LEMMA ReadEndingKeeps == CodecInv /\ ReadEnding => CodecInv'
<1> SUFFICES ASSUME CodecInv, ReadEnding PROVE CodecInv'
  OBVIOUS
<1>1. QoITypeOK /\ Within /\ stage = "payload" /\ (damage # "changed" => Received)
  BY DEF CodecInv, ReadEnding
<1>2. PICK im \in Images, d \in Seq(Byte), p \in Nat, o \in Seq(Pixel), n \in Nat :
        im = image /\ d = bytes /\ p = pos /\ o = out /\ n = pixels
  BY ONLY <1>1 DEF QoITypeOK
<1>3. UNCHANGED << image, bytes, pos, coder, out, pixels, damage >>
  BY DEF ReadEnding
<1>4. Len(o) >= n \/ p = Len(d)
  BY ONLY <1>2, ReadEnding DEF ReadEnding
<1>5. im \in Seq(Pixel)
  BY ONLY ImagesAre, im \in Images
<1>6. CASE p + 7 <= Len(d) /\ \A i \in 1 .. 7 : d[p + i] = 0
  <2>1. stage' = "image"
    BY ONLY <1>2, <1>6, ReadEnding DEF ReadEnding
  <2>2. Len(o) >= n
    BY ONLY <1>4, <1>6, p \in Nat, d \in Seq(Byte)
  <2>3. Len(o) = n
    <3>1. Len(o) <= n
      BY ONLY <1>1, <1>2 DEF Within
    <3> QED
      BY ONLY <2>2, <3>1, o \in Seq(Pixel), n \in Nat
  <2>4. QoITypeOK'
    <3>1. "image" \in {"encode", "sent", "header", "payload", "image", "error"}
      OBVIOUS
    <3> QED
      BY ONLY <1>1, <1>3, <2>1, <3>1, Zenon DEF QoITypeOK
  <2>5. Within'
    BY ONLY <1>1, <1>2, <1>3, <2>1, <2>3 DEF Within
  <2>6. ASSUME damage # "changed" PROVE Received'
    <3>1. PICK body, B : OnTheWay(im, body, B, d) /\ Delivered(body) /\ Decoding(B)
      BY ONLY <1>1, <1>2, <2>6 DEF Received
    <3>2. << p, Len(o) >> \in B /\ n = Len(im)
      BY ONLY <1>2, <3>1 DEF Decoding
    <3>3. body \in Seq(Byte) /\ Parse(im, body, B, Len(body), Len(im))
      BY ONLY <3>1, StreamIs, d \in Seq(Byte)
    <3>4. p = Len(body)
      <4>1. PICK k \in Nat, P \in Nat : k = Len(o) /\ P = Len(body)
        BY ONLY <3>3, o \in Seq(Pixel)
      <4>2. << p, k >> \in B /\ Len(im) <= k /\ Parse(im, body, B, P, Len(im))
        <5>1. Len(im) = k
          BY ONLY <2>3, <3>2, <4>1
        <5>2. Len(im) <= k
          BY ONLY <5>1, k \in Nat
        <5> QED
          BY ONLY <3>2, <3>3, <4>1, <5>2, Zenon
      <4> QED
        BY ONLY <1>5, <3>3, <4>1, <4>2, ParseEnd, p \in Nat, k \in Nat, P \in Nat
    <3>5. AtTheEnd(body)'
      BY ONLY <1>2, <1>3, <1>6, <3>4 DEF AtTheEnd
    <3>6. Decoding(B)'
      BY ONLY <1>3, <3>1, Zenon DEF Decoding
    <3>7. Delivered(body)'
      BY ONLY <1>3, <2>1, <3>1 DEF Delivered
    <3>8. OnTheWay(image, body, B, bytes)'
      BY ONLY <1>2, <1>3, <3>1
    <3> QED
      BY ONLY <2>1, <3>5, <3>6, <3>7, <3>8 DEF Received
  <2> QED
    BY ONLY <1>3, <2>1, <2>4, <2>5, <2>6 DEF CodecInv
<1>7. CASE ~(p + 7 <= Len(d) /\ \A i \in 1 .. 7 : d[p + i] = 0)
  <2>1. stage' = "error"
    BY ONLY <1>2, <1>7, ReadEnding DEF ReadEnding
  <2>2. QoITypeOK'
    <3>1. "error" \in {"encode", "sent", "header", "payload", "image", "error"}
      OBVIOUS
    <3> QED
      BY ONLY <1>1, <1>3, <2>1, <3>1, Zenon DEF QoITypeOK
  <2>3. Within'
    BY ONLY <1>1, <1>3, <2>1 DEF Within
  <2>4. ASSUME damage # "changed" PROVE Received'
    <3>1. PICK body, B : OnTheWay(im, body, B, d) /\ Delivered(body) /\ Decoding(B)
      BY ONLY <1>1, <1>2, <2>4 DEF Received
    <3>2. << p, Len(o) >> \in B /\ n = Len(im)
      BY ONLY <1>2, <3>1 DEF Decoding
    <3>3. /\ body \in Seq(Byte) /\ Parse(im, body, B, Len(body), Len(im))
          /\ \A i \in 1 .. 7 : Len(body) + i <= Len(d) => d[Len(body) + i] = 0
      BY ONLY <3>1, StreamIs, d \in Seq(Byte)
    <3>4. damage # "none"
      <4>1. CASE damage = "none"
        <5>1. PICK k \in Nat, P \in Nat, m \in Nat : k = Len(o) /\ P = Len(body) /\ m = Len(d)
          BY ONLY <3>3, o \in Seq(Pixel), d \in Seq(Byte)
        <5>2. m = P + 8
          BY ONLY <1>2, <3>1, <4>1, <5>1 DEF Delivered
        <5>3. << p, k >> \in B /\ Parse(im, body, B, P, Len(im))
          BY ONLY <3>2, <3>3, <5>1
        <5>4. p <= P
          <6>1. PICK b : b = << p, k >> /\ b[1] = p /\ b \in B
            BY ONLY <5>3
          <6> QED
            BY ONLY <5>3, <6>1, Zenon DEF Parse
        <5>5. Len(im) <= k
          BY ONLY <1>4, <3>2, <5>1, <5>2, <5>4, p \in Nat, P \in Nat, m \in Nat, k \in Nat
        <5>6. p = P
          BY ONLY <1>5, <3>3, <5>3, <5>5, ParseEnd, p \in Nat, k \in Nat, P \in Nat
        <5>7. p + 7 <= Len(d)
          BY ONLY <5>1, <5>2, <5>6, P \in Nat
        <5>8. \A i \in 1 .. 7 : P + i <= m
          BY ONLY <5>2, P \in Nat
        <5>9. \A i \in 1 .. 7 : d[p + i] = 0
          BY ONLY <3>3, <5>1, <5>6, <5>8
        <5> QED
          BY ONLY <1>7, <5>7, <5>9
      <4> QED
        BY ONLY <4>1
    <3>5. Delivered(body)'
      BY ONLY <1>3, <3>1, <3>4 DEF Delivered
    <3>6. OnTheWay(image, body, B, bytes)'
      BY ONLY <1>2, <1>3, <3>1
    <3> QED
      BY ONLY <2>1, <3>5, <3>6 DEF Received
  <2> QED
    BY ONLY <1>3, <2>1, <2>2, <2>3, <2>4 DEF CodecInv
<1> QED
  BY ONLY <1>6, <1>7

LEMMA DecodeBlockKeeps == CodecInv /\ DecodeBlock => CodecInv'
<1> SUFFICES ASSUME CodecInv, DecodeBlock PROVE CodecInv'
  OBVIOUS
<1>1. QoITypeOK /\ Within /\ stage = "payload" /\ (damage # "changed" => Received)
  BY DEF CodecInv, DecodeBlock
<1>2. PICK im \in Images, d \in Seq(Byte), p \in Nat, c \in Coders, o \in Seq(Pixel), n \in Nat :
        im = image /\ d = bytes /\ p = pos /\ c = coder /\ o = out /\ n = pixels
  BY ONLY <1>1 DEF QoITypeOK
<1>3. UNCHANGED << image, bytes, pixels, damage >> /\ Len(o) < n /\ p < Len(d)
  BY ONLY <1>2, DecodeBlock DEF DecodeBlock
<1>4. PICK x \in Nat, y \in Nat : x = More(d, p) /\ y = Count(d, p)
  BY ONLY <1>3, BlockGives, d \in Seq(Byte), p \in Nat, c \in Coders
<1>5. PICK t : t = Shown(d, p, c)
  OBVIOUS
<1>6. PICK next : next = Kept(d, p, c)
  OBVIOUS
<1>7. \/ /\ p + 1 + x > Len(d) \/ ~(Len(o) + y <= n)
         /\ stage' = "error" /\ UNCHANGED << pos, coder, out >>
      \/ /\ ~(p + 1 + x > Len(d) \/ ~(Len(o) + y <= n))
         /\ out' = PutOut(o, t, y) /\ coder' = next /\ pos' = p + 1 + x /\ stage' = stage
  BY ONLY <1>2, <1>4, <1>5, <1>6, DecodeBlock, Zenon DEF DecodeBlock, More, Count, Shown, Kept, PutOut, has_remaining
\* Of an undamaged beginning, the block is read, or its bytes end before it does
<1>8. ASSUME NEW body, NEW B, OnTheWay(im, body, B, d), Delivered(body), Decoding(B)
      PROVE  /\ Len(o) + y <= n
             /\ p + 1 + x <= Len(body)
             /\ p + 1 + x <= Len(d) => StepsOn(im, B, d, p, o, c)
             /\ n = Len(im)
  <2>1. n = Len(im) /\ << p, Len(o) >> \in B /\ (im[1] # Black => InStep(im, c, o))
    BY ONLY <1>2, <1>8 DEF Decoding
  <2>2. Len(o) < Len(im)
    BY ONLY <1>3, <2>1
  <2>3. /\ Len(o) + Count(d, p) <= Len(im)
        /\ p + 1 + More(d, p) <= Len(body)
        /\ p + 1 + More(d, p) <= Len(d) => StepsOn(im, B, d, p, o, c)
    BY ONLY <1>3, <1>8, <2>1, <2>2, BlockInStep, im \in Images, d \in Seq(Byte), p \in Nat, o \in Seq(Pixel), c \in Coders
  <2> QED
    BY ONLY <1>4, <2>1, <2>3
<1>9. ASSUME p + 1 + x > Len(d) \/ ~(Len(o) + y <= n), stage' = "error", UNCHANGED << pos, coder, out >>
      PROVE  CodecInv'
  <2>1. QoITypeOK'
    <3>1. "error" \in {"encode", "sent", "header", "payload", "image", "error"}
      OBVIOUS
    <3> QED
      BY ONLY <1>1, <1>3, <1>9, <3>1, Zenon DEF QoITypeOK
  <2>2. Within'
    BY ONLY <1>1, <1>3, <1>9 DEF Within
  <2>3. ASSUME damage # "changed" PROVE Received'
    <3>1. PICK body, B : OnTheWay(im, body, B, d) /\ Delivered(body) /\ Decoding(B)
      BY ONLY <1>1, <1>2, <2>3 DEF Received
    <3>2. damage # "none"
      <4>1. CASE damage = "none"
        <5>1. PICK P \in Nat, m \in Nat : P = Len(body) /\ m = Len(d)
          <6>1. body \in Seq(Byte)
            BY ONLY <3>1, StreamIs, d \in Seq(Byte)
          <6> QED
            BY ONLY <6>1, d \in Seq(Byte)
        <5>2. m = P + 8
          BY ONLY <1>2, <3>1, <4>1, <5>1 DEF Delivered
        <5>3. Len(o) + y <= n /\ p + 1 + x <= P
          BY ONLY <1>8, <3>1, <5>1
        <5>4. ~(p + 1 + x > m)
          BY ONLY <5>2, <5>3, p \in Nat, x \in Nat, P \in Nat, m \in Nat
        <5> QED
          BY ONLY <1>9, <5>1, <5>3, <5>4
      <4> QED
        BY ONLY <4>1
    <3>3. Delivered(body)'
      BY ONLY <1>3, <3>1, <3>2 DEF Delivered
    <3>4. OnTheWay(image, body, B, bytes)'
      BY ONLY <1>2, <1>3, <3>1
    <3> QED
      BY ONLY <1>9, <3>3, <3>4 DEF Received
  <2> QED
    BY ONLY <1>3, <1>9, <2>1, <2>2, <2>3 DEF CodecInv
<1>10. ASSUME ~(p + 1 + x > Len(d) \/ ~(Len(o) + y <= n)),
              out' = PutOut(o, t, y), coder' = next, pos' = p + 1 + x, stage' = stage
       PROVE  CodecInv'
  <2>1. p + 1 + x <= Len(d) /\ Len(o) + y <= n
    BY ONLY <1>10, p \in Nat, x \in Nat, d \in Seq(Byte)
  <2>2. t \in Pixel /\ next \in Coders
    BY ONLY <1>3, <1>4, <1>5, <1>6, <2>1, BlockGives, d \in Seq(Byte), p \in Nat, c \in Coders
  <2>3. PICK w \in Seq(Pixel) : w = PutOut(o, t, y) /\ Len(w) = Len(o) + y
    <3>1. IsPutOut(PutOut(o, t, y), o, t, y)
      BY ONLY <2>2, PutsOut, o \in Seq(Pixel), y \in Nat
    <3> QED
      BY ONLY <3>1 DEF IsPutOut
  <2>4. PICK q \in Nat : q = p + 1 + x
    OBVIOUS
  <2>5. out' = w /\ coder' = next /\ pos' = q /\ stage' = "payload"
    BY ONLY <1>1, <1>10, <2>3, <2>4
  <2>6. QoITypeOK'
    BY ONLY <1>1, <1>3, <2>2, <2>5, <1>10, w \in Seq(Pixel), q \in Nat, Zenon DEF QoITypeOK
  <2>7. Within'
    <3>1. Len(out') <= pixels'
      BY ONLY <1>2, <1>3, <2>1, <2>3, <2>5
    <3> QED
      BY ONLY <2>5, <3>1 DEF Within
  <2>8. ASSUME damage # "changed" PROVE Received'
    <3>1. PICK body, B : OnTheWay(im, body, B, d) /\ Delivered(body) /\ Decoding(B)
      BY ONLY <1>1, <1>2, <2>8 DEF Received
    <3>2. StepsOn(im, B, d, p, o, c) /\ n = Len(im)
      BY ONLY <1>8, <2>1, <3>1
    <3>3. << q, Len(w) >> \in B
      BY ONLY <1>4, <2>3, <2>4, <3>2 DEF StepsOn
    <3>4. im[1] # Black => InStep(im, next, w)
      BY ONLY <1>4, <1>5, <1>6, <2>3, <3>2 DEF StepsOn
    <3>5. Decoding(B)'
      BY ONLY <1>2, <1>3, <2>5, <3>2, <3>3, <3>4, Zenon DEF Decoding
    <3>6. Delivered(body)'
      BY ONLY <1>3, <2>5, <3>1 DEF Delivered
    <3>7. OnTheWay(image, body, B, bytes)'
      BY ONLY <1>2, <1>3, <3>1
    <3> QED
      BY ONLY <2>5, <3>5, <3>6, <3>7 DEF Received
  <2> QED
    BY ONLY <1>3, <2>5, <2>6, <2>7, <2>8 DEF CodecInv
<1> QED
  BY ONLY <1>7, <1>9, <1>10

\* What the codec holds in every state: as long as the bytes are those that were
\* written, every block is read at the place where it was written, with the colours
\* and the map that the encoder had there.
THEOREM QoIInvariance == QoISpec => []CodecInv
<1>1. CodecInv /\ [QoINext]_qoiVars => CodecInv'
  <2> SUFFICES ASSUME CodecInv, [QoINext]_qoiVars PROVE CodecInv'
    OBVIOUS
  <2>1. CASE EncodePixel
    BY <2>1, EncodePixelKeeps
  <2>2. CASE FinishEncode
    BY <2>2, FinishEncodeKeeps
  <2>3. CASE Deliver
    BY <2>3, DeliverKeeps
  <2>4. CASE ReadHeader
    BY <2>4, ReadHeaderKeeps
  <2>5. CASE DecodeBlock
    BY <2>5, DecodeBlockKeeps
  <2>6. CASE ReadEnding
    BY <2>6, ReadEndingKeeps
  <2>7. CASE UNCHANGED qoiVars
    <3>1. UNCHANGED << image, bytes, pos, coder, out, pixels, stage, damage >>
      BY <2>7 DEF qoiVars
    <3> QED
      BY <3>1, Zenon DEF CodecInv, QoITypeOK, Within, Received, Delivered, Decoding, AtTheEnd
  <2> QED
    BY <2>1, <2>2, <2>3, <2>4, <2>5, <2>6, <2>7 DEF QoINext
<1> QED
  BY QoIStarts, <1>1, PTL DEF QoISpec

\* Every image that does not begin with opaque black survives encoding and decoding,
\* whatever its pixels and however long its runs; the decoder never puts out more
\* pixels than the header says, and what it accepts of a stream that was cut is the
\* whole image, but for the last byte of the ending.
THEOREM PixelsAlwaysSurvive == QoISpec => []PixelsSurvive
<1>1. CodecInv => PixelsSurvive
  <2> SUFFICES ASSUME CodecInv PROVE PixelsSurvive
    OBVIOUS
  <2>1. QoITypeOK /\ Within
    BY DEF CodecInv
  <2>2. PICK im \in Images, d \in Seq(Byte), p \in Nat, o \in Seq(Pixel) : im = image /\ d = bytes /\ p = pos /\ o = out
    BY ONLY <2>1 DEF QoITypeOK
  <2>3. ASSUME stage = "image", damage # "changed", im[1] # Black PROVE o = im
    <3>1. Received
      BY ONLY <2>3, CodecInv DEF CodecInv
    <3>2. PICK B : Decoding(B)
      BY ONLY <2>3, <3>1 DEF Received
    <3>3. Len(o) = Len(im) /\ \A i \in 1 .. Len(o) : o[i] = im[i]
      BY ONLY <2>1, <2>2, <2>3, <3>2 DEF Decoding, InStep, Within
    <3>4. im \in Seq(Pixel)
      BY ONLY ImagesAre, im \in Images
    <3> QED
      BY ONLY <3>3, <3>4, SeqEqual, o \in Seq(Pixel)
  <2>4. RoundTripAfterColour
    <3> SUFFICES ASSUME im[1] # Black, stage \in {"image", "error"}, damage = "none" PROVE stage = "image" /\ o = im
      BY <2>2 DEF RoundTripAfterColour, RoundTrip
    <3>1. Received
      BY CodecInv DEF CodecInv
    <3>2. stage # "error"
      BY ONLY <3>1, damage = "none" DEF Received, Delivered
    <3> QED
      BY <2>3, <3>2
  <2>5. ASSUME stage = "image", damage = "cut" PROVE pos = Len(bytes) - 7
    <3>1. Received
      BY ONLY <2>5, CodecInv DEF CodecInv
    <3>2. PICK body, B : OnTheWay(im, body, B, d) /\ Delivered(body) /\ AtTheEnd(body)
      BY ONLY <2>2, <2>5, <3>1 DEF Received
    <3>3. p = Len(body) /\ p + 7 <= Len(d) /\ Len(d) < Len(body) + 8
      BY ONLY <2>2, <2>5, <3>2 DEF Delivered, AtTheEnd
    <3>4. p = Len(d) - 7
      BY ONLY <3>3, p \in Nat, d \in Seq(Byte)
    <3> QED
      BY ONLY <2>2, <3>4
  <2>6. AcceptedIsWhole
    BY ONLY <2>1, <2>2, <2>3, <2>5 DEF AcceptedIsWhole, Within
  <2> QED
    BY ONLY <2>4, <2>6 DEF PixelsSurvive
<1> QED
  BY QoIInvariance, <1>1, PTL

=============================================================================
