----------------------------- MODULE MCLibrary ------------------------------
(***************************************************************************)
(* The parts of the library that share nothing with another, for TLC:      *)
(* "part" is the one that takes steps, the others rest in an initial state. *)
(***************************************************************************)
EXTENDS QoI, ConvText, UTF8, Json, Memo, Images, Alloc

-----------------------------------------------------------------------------
(***************************************************************************)
(* QoI: all images of up to MaxPixels pixels of a palette that calls for   *)
(* every kind of block, with two colours of one hash, and images with runs *)
(* around the lengths 62 and 124                                           *)
(***************************************************************************)
CONSTANT MaxPixels

\* Opaque black, transparent black, a diff, two lumas and another alpha away;
\* the last has the hash of opaque black
Palette == { << 0, 0, 0, 255 >>, << 0, 0, 0, 0 >>, << 1, 1, 1, 255 >>, << 20, 25, 18, 255 >>,
             << 0, 5, 250, 254 >>, << 64, 64, 64, 255 >> }

LongRuns == { [i \in 1 .. n + 2 |-> IF i = 1 THEN << 9, 9, 9, 255 >> ELSE IF i = n + 2 THEN Black ELSE c]
              : n \in {61, 62, 63, 64, 124, 125}, c \in { << 9, 9, 9, 255 >>, << 9, 9, 9, 8 >> } }

\* A diff and a luma block that must keep an alpha which is not opaque
Faint == << << 9, 9, 9, 8 >>, << 10, 8, 9, 8 >>, << 20, 25, 18, 8 >> >>

TestImages == LongRuns \cup { Faint } \cup UNION { [1 .. n -> Palette] : n \in 1 .. MaxPixels }

-----------------------------------------------------------------------------
(***************************************************************************)
(* Numbers: narrow types have the boundaries of the wide ones              *)
(***************************************************************************)
NarrowTypes == { [digits |-> 7, signed |-> TRUE], [digits |-> 8, signed |-> FALSE],
                 [digits |-> 16, signed |-> FALSE] }

-----------------------------------------------------------------------------
(***************************************************************************)
(* UTF-8: the first and the last code point of every length                *)
(***************************************************************************)
Boundaries == { 0, 2^7 - 1, 2^7, 2^11 - 1, 2^11, 65534, 2^16 - 1, 2^16, 2^21 - 1, 2^21 }

-----------------------------------------------------------------------------
(***************************************************************************)
(* JSON: values of up to two items at up to two levels, some at three      *)
(***************************************************************************)
Leaves == { [leaf |-> "1"], [leaf |-> "a"] }

UpToTwo(S) == { << >> } \cup { << v >> : v \in S } \cup (S \X S)

Nested(S) ==
  { [items |-> s] : s \in UpToTwo(S) }
    \cup { [fields |-> [i \in DOMAIN s |-> [key |-> IF i = 1 THEN "k" ELSE "l", value |-> s[i]]]] : s \in UpToTwo(S) }

Flat == Leaves \cup Nested(Leaves)

TestValues ==
  Nested(Flat) \cup { [items |-> << v, w >>] : v \in Nested(Nested({ [leaf |-> "1"] })), w \in Leaves }

-----------------------------------------------------------------------------
(***************************************************************************)
(* The memoizer: Fibonacci numbers                                         *)
(***************************************************************************)
SmallArguments == 0 .. 4
Fibonacci == [a \in SmallArguments |-> IF a < 2 THEN << >> ELSE << a - 1, a - 2 >>]
Summed(a, values) == IF Len(values) = 2 THEN values[1] + values[2] ELSE a

-----------------------------------------------------------------------------
VARIABLE part

\* Whoever does not take part starts in one of its initial states
LibraryInit ==
  /\ part \in {"qoi", "conv", "utf8", "json", "memo", "images", "alloc"}
  /\ IF part = "qoi" THEN image \in TestImages ELSE image = << Black >>
  /\ IF part = "conv" THEN type \in Types ELSE type = [digits |-> 16, signed |-> FALSE]
  /\ IF part = "conv" THEN base \in Bases ELSE base = 10
  /\ IF part = "json" THEN value \in TestValues ELSE value = [items |-> << >>]
  /\ IF part = "alloc" THEN start \in Starts ELSE start = 0
  /\ QoIInit /\ ConvInit /\ Utf8Init /\ JsonInit /\ MemoInit /\ ImagesInit /\ AllocInit

LibraryNext ==
  /\ UNCHANGED part
  /\ \/ part = "qoi" /\ QoINext
        /\ UNCHANGED << convVars, utf8Vars, jsonVars, memoVars, imagesVars, allocVars >>
     \/ part = "conv" /\ ConvNext
        /\ UNCHANGED << qoiVars, utf8Vars, jsonVars, memoVars, imagesVars, allocVars >>
     \/ part = "utf8" /\ Utf8Next
        /\ UNCHANGED << qoiVars, convVars, jsonVars, memoVars, imagesVars, allocVars >>
     \/ part = "json" /\ JsonNext
        /\ UNCHANGED << qoiVars, convVars, utf8Vars, memoVars, imagesVars, allocVars >>
     \/ part = "memo" /\ MemoNext
        /\ UNCHANGED << qoiVars, convVars, utf8Vars, jsonVars, imagesVars, allocVars >>
     \/ part = "images" /\ ImagesNext
        /\ UNCHANGED << qoiVars, convVars, utf8Vars, jsonVars, memoVars, allocVars >>
     \/ part = "alloc" /\ AllocNext
        /\ UNCHANGED << qoiVars, convVars, utf8Vars, jsonVars, memoVars, imagesVars >>
=============================================================================
