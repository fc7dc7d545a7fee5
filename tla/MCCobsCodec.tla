----------------------------- MODULE MCCobsCodec -----------------------------
(***************************************************************************)
(* Blocks of two bytes and a code: every message of up to five bytes of     *)
(* 0 .. 3, cut anywhere, and every frame of up to five, so that two full    *)
(* blocks, and zeros anywhere around their edges, occur.                    *)
(***************************************************************************)
EXTENDS CobsCodec

MCMessages == UNION {[1 .. n -> Byte] : n \in 0 .. 5}

MCFrames == UNION {[1 .. n -> Byte] : n \in 0 .. 5}
=============================================================================
