---------------------------- MODULE MCBufferCache ----------------------------
(***************************************************************************)
(* Finite instances of BufferCache: three buffers, four blocks, two buckets. *)
(***************************************************************************)
EXTENDS BufferCache

Contents == <<1, 2, 4>>
FreeAtFirst == <<4, 1>>
=============================================================================
