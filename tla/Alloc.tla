------------------------------- MODULE Alloc -------------------------------
(***************************************************************************)
(* The bump allocator of Inc/Stuff/Util/Alloc.hpp: blocks are cut from the *)
(* front of a pool and never given back.  Addresses are bytes from an      *)
(* address every alignment divides; the pool may start anywhere.           *)
(*                                                                         *)
(* m_mutex is never locked, so one thread at a time must call: the actions *)
(* are whole calls.                                                        *)
(***************************************************************************)
EXTENDS Integers

CONSTANTS Starts, PoolSize,  \* where the pool may start, and its size
          TypeSizes,         \* sizeof, which is alignof, of what is allocated
          MaxCount           \* bound: n of one allocate

ASSUME AllocAssumption ==
  /\ Starts \subseteq Nat /\ PoolSize \in Nat
  /\ TypeSizes \subseteq Nat \ {0}
  /\ MaxCount \in Nat

VARIABLES start,     \* where the pool started
          pool,      \* m_pool: the address and the size of what is left
          allocated, discarded,
          blocks     \* the blocks handed out: address, size and alignment

allocVars == << start, pool, allocated, discarded, blocks >>

AllocInit ==
  /\ start \in Starts
  /\ pool = [data |-> start, size |-> PoolSize]
  /\ allocated = 0 /\ discarded = 0
  /\ blocks = {}

\* What std::align skips to reach a multiple of the alignment
Padding(alignment) == (alignment - (pool.data % alignment)) % alignment

\* (slip) The rest of the pool is counted from the aligned address
Rest_unpadded(padding, size) ==
  [data |-> pool.data + size, size |-> pool.size - padding - size]

\* (slip) The padding is taken from the address and not from the size
Rest_overlong(padding, size) ==
  [data |-> pool.data + padding + size, size |-> pool.size - size]

Rest(padding, size) ==
  [data |-> pool.data + padding + size, size |-> pool.size - padding - size]

\* allocate<T>(n): std::align fails when padding and block do not fit, and
\* then nothing changes
Allocate(t, n) ==
  LET padding == Padding(t)
      size == t * n
  IN  /\ padding + size <= pool.size
      /\ discarded' = discarded + padding
      /\ allocated' = allocated + size
      /\ pool' = Rest(padding, size)
      /\ blocks' = blocks \cup {[data |-> pool.data + padding, size |-> size, alignment |-> t]}
      /\ UNCHANGED start

AllocNext == \E t \in TypeSizes, n \in 0 .. MaxCount : Allocate(t, n)

AllocSpec == AllocInit /\ [][AllocNext]_allocVars

-----------------------------------------------------------------------------
(***************************************************************************)
(* The blocks are aligned, inside the pool, and no byte is in two of them  *)
(* or in what is left, whatever was asked for before; and every byte of    *)
(* the pool is counted once, as allocated, discarded or left.              *)
(***************************************************************************)
BlocksApart ==
  /\ \A b \in blocks :
       /\ b.data % b.alignment = 0
       /\ start <= b.data /\ b.data + b.size <= pool.data
       /\ \A c \in blocks : b = c \/ b.data + b.size <= c.data \/ c.data + c.size <= b.data
  /\ pool.data + pool.size = start + PoolSize
  /\ allocated + discarded + pool.size = PoolSize
=============================================================================
