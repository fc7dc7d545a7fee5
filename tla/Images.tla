------------------------------ MODULE Images ------------------------------
(***************************************************************************)
(* Who owns the pixels: Stf::Gfx::Image of Inc/Stuff/Graphics/Image.hpp.   *)
(*                                                                         *)
(* A program makes images, copies and moves them, gives them new sizes and *)
(* lets them go, in any order.  The dimensions are their product, counted  *)
(* in pixels of four bytes; what a block holds is a picture, or NoPicture when  *)
(* nothing was written since it was allocated.                             *)
(*                                                                         *)
(* Out of the model: an image assigned to itself (the copy reads the block *)
(* it has just allocated, the move drops the block it keeps).              *)
(***************************************************************************)
EXTENDS Integers, Sequences

CONSTANTS Image,      \* the variables of type Image
          Dimensions, \* numbers of pixels
          Pictures,   \* what a program fills an image with
          NoPicture,
          MaxBlocks   \* bound: blocks allocated

ASSUME ImagesAssumption == Dimensions \subseteq Nat

VARIABLES held,   \* the constructed images: their pixels, m_capacity and m_data
          heap,   \* the blocks allocated so far: size, times freed, picture
          shown   \* the picture the program gave each held, by fill or from another

imagesVars == << held, heap, shown >>

NULL == 0

-----------------------------------------------------------------------------
\* The allocator: allocate appends a block, deallocate counts
Allocated(h, size) == Append(h, [size |-> size, frees |-> 0, picture |-> NoPicture])
Deallocated(h, b) == IF b = NULL THEN h ELSE [h EXCEPT ![b].frees = @ + 1]

PictureOf(h, b) == IF b = NULL THEN NoPicture ELSE h[b].picture

\* An image after reset(), and its heap
Empty == [pixels |-> 0, capacity |-> 0, data |-> NULL]
Reset(h, im) == Deallocated(h, im.data)

\* An image after create(): reset() and one allocation; the heap has the block last
Created(h, im, n) == Allocated(Reset(h, im), n)
Holder(h, n) == [pixels |-> n, capacity |-> n, data |-> Len(h)]

Filled(h, b, p) == [h EXCEPT ![b].picture = p]

Constructed == DOMAIN held
Room == Len(heap) < MaxBlocks

\* held[i] becomes im
Becomes(i, im) == held' = [x \in Constructed \cup {i} |-> IF x = i THEN im ELSE held[x]]
Shows(i, p) == shown' = [shown EXCEPT ![i] = p]

-----------------------------------------------------------------------------
ImagesInit ==
  /\ held = << >>
  /\ heap = << >>
  /\ shown = [i \in Image |-> NoPicture]

Construct(i) ==
  /\ i \notin Constructed
  /\ Becomes(i, Empty)
  /\ UNCHANGED << heap, shown >>

ConstructFilled(i, n, p) ==
  /\ i \notin Constructed /\ Room
  /\ LET h == Created(heap, Empty, n)
     IN  /\ heap' = Filled(h, Len(h), p)
         /\ Becomes(i, Holder(h, n))
  /\ Shows(i, p)

\* The image create() makes of i, with the picture of image j copied into it
CopyInto(i, im, j) ==
  LET h == Created(heap, im, held[j].pixels)
  IN  /\ heap' = Filled(h, Len(h), PictureOf(h, held[j].data))
      /\ Becomes(i, Holder(h, held[j].pixels))
      /\ Shows(i, shown[j])

ConstructCopy(i, j) ==
  /\ i \notin Constructed /\ j \in Constructed /\ Room
  /\ CopyInto(i, Empty, j)

\* (slip) Assigns the pointer of the other image instead of its pixels
AssignCopy_shallow(i, j) ==
  /\ i \in Constructed /\ j \in Constructed /\ i # j
  /\ heap' = Reset(heap, held[i])
  /\ Becomes(i, held[j])
  /\ Shows(i, shown[j])

\* (slip) Creates the block and forgets to copy into it
AssignCopy_blank(i, j) ==
  /\ i \in Constructed /\ j \in Constructed /\ i # j /\ Room
  /\ heap' = Created(heap, held[i], held[j].pixels)
  /\ Becomes(i, Holder(heap', held[j].pixels))
  /\ Shows(i, shown[j])

AssignCopy(i, j) ==
  /\ i \in Constructed /\ j \in Constructed /\ i # j /\ Room
  /\ CopyInto(i, held[i], j)

\* i takes the block of j over, with the capacity it has itself; j is empty
TakeOver(i, capacity, j) ==
  /\ held' = [x \in Constructed \cup {i} |->
                 IF x = i THEN [held[j] EXCEPT !.capacity = capacity]
                 ELSE IF x = j THEN Empty ELSE held[x]]
  /\ shown' = [shown EXCEPT ![i] = shown[j], ![j] = NoPicture]
  /\ UNCHANGED heap

\* m_capacity of the new image stays at its initial 0
ConstructMove(i, j) ==
  /\ i \notin Constructed /\ j \in Constructed
  /\ TakeOver(i, 0, j)

\* (slip) The pointer of the other image is not cleared before its reset()
AssignMove_uncleared(i, j) ==
  /\ i \in Constructed /\ j \in Constructed /\ i # j
  /\ held' = [held EXCEPT ![i] = [held[j] EXCEPT !.capacity = held[i].capacity], ![j] = Empty]
  /\ shown' = [shown EXCEPT ![i] = shown[j], ![j] = NoPicture]
  /\ heap' = Reset(heap, held[j])

\* The block i had is not given back, and its m_capacity is kept
AssignMove(i, j) ==
  /\ i \in Constructed /\ j \in Constructed /\ i # j
  /\ TakeOver(i, held[i].capacity, j)

ResetImage(i) ==
  /\ i \in Constructed
  /\ heap' = Reset(heap, held[i])
  /\ Becomes(i, Empty)
  /\ Shows(i, NoPicture)

Destroy(i) ==
  /\ i \in Constructed
  /\ heap' = Reset(heap, held[i])
  /\ held' = [x \in Constructed \ {i} |-> held[x]]
  /\ Shows(i, NoPicture)

Create(i, n) ==
  /\ i \in Constructed /\ Room
  /\ heap' = Created(heap, held[i], n)
  /\ Becomes(i, Holder(heap', n))
  /\ Shows(i, NoPicture)

\* A temporary image of the new size is made, assigned, and destroyed
Resize(i, n) ==
  /\ i \in Constructed /\ Len(heap) + 1 < MaxBlocks
  /\ LET temporary == Len(heap) + 1
         h == Created(Created(heap, Empty, n), held[i], n)
     IN  /\ heap' = Deallocated(h, temporary)
         /\ Becomes(i, Holder(h, n))
  /\ Shows(i, NoPicture)

Fill(i, p) ==
  /\ i \in Constructed /\ held[i].data # NULL
  /\ heap' = Filled(heap, held[i].data, p)
  /\ Shows(i, p)
  /\ UNCHANGED held

ImagesNext ==
  \E i \in Image :
    \/ Construct(i)
    \/ \E n \in Dimensions : Create(i, n) \/ Resize(i, n)
    \/ \E n \in Dimensions, p \in Pictures : ConstructFilled(i, n, p)
    \/ \E j \in Image : \/ ConstructCopy(i, j) \/ ConstructMove(i, j)
                        \/ AssignCopy(i, j) \/ AssignMove(i, j)
    \/ ResetImage(i)
    \/ Destroy(i)
    \/ \E p \in Pictures : Fill(i, p)

ImagesSpec == ImagesInit /\ [][ImagesNext]_imagesVars

-----------------------------------------------------------------------------
(***************************************************************************)
(* However images are copied, moved, reset and destroyed, every block is   *)
(* freed at most once, an image that holds a block is the only one, and    *)
(* the block is alive and has room for all the pixels the image says.      *)
(***************************************************************************)
OneOwner ==
  /\ \A b \in DOMAIN heap : heap[b].frees <= 1
  /\ \A i \in Constructed : held[i].data # NULL =>
       /\ heap[held[i].data].frees = 0
       /\ held[i].pixels <= heap[held[i].data].size
       /\ \A j \in Constructed : j # i => held[j].data # held[i].data

(***************************************************************************)
(* An image shows what the program put in it: a copy has the pixels of its *)
(* original and keeps them when the original is filled again, moved from,  *)
(* given a new size or destroyed.                                          *)
(***************************************************************************)
PicturesKept ==
  \A i \in Constructed : shown[i] # NoPicture => PictureOf(heap, held[i].data) = shown[i]

\* Both of them: every image is the only owner of a block that is alive and has
\* its picture.
OwnedAndKept == OneOwner /\ PicturesKept
=============================================================================
