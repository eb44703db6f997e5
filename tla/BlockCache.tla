----------------------------- MODULE BlockCache -----------------------------
(***************************************************************************)
(* What the block cache of src/buffer promises: every buffer holds one     *)
(* block and no block is held twice; the buffers nobody uses wait in a     *)
(* sequence, the one to be given up first at its head; a buffer is given   *)
(* another block only when it is at the head and need not be written.      *)
(***************************************************************************)
EXTENDS Naturals, Sequences

CONSTANTS Buffer, Block, NoBlock

VARIABLES
    block,   \* the block in each buffer
    lru,     \* the buffers nobody uses
    dirty    \* the buffers marked for delayed write

vars == <<block, lru, dirty>>

Free == {lru[k] : k \in 1 .. Len(lru)}
Cached == {block[b] : b \in Buffer}

Empty == block = [b \in Buffer |-> NoBlock] /\ lru = <<>> /\ dirty = {}

Init == Empty

\* The cache is given its first content, and can lose all of it.
Fill ==
    /\ Empty
    /\ block' \in [Buffer -> Block]
    /\ \A b, c \in Buffer : block'[b] = block'[c] => b = c
    /\ \A j, k \in 1 .. Len(lru') : lru'[j] = lru'[k] => j = k
    /\ \A k \in 1 .. Len(lru') : lru'[k] \in Buffer
    /\ dirty' = {}

Clear == Empty'

\* A user takes the block it finds.
Hit(b) ==
    /\ \E k \in 1 .. Len(lru) :
          /\ lru[k] = b
          /\ lru' = SubSeq(lru, 1, k - 1) \o SubSeq(lru, k + 1, Len(lru))
    /\ UNCHANGED <<block, dirty>>

\* The oldest buffer is taken away to be written.
WriteBack ==
    /\ lru # <<>>
    /\ Head(lru) \in dirty
    /\ lru' = Tail(lru)
    /\ UNCHANGED <<block, dirty>>

\* A user takes the oldest buffer for a block that no buffer holds.
Replace ==
    /\ lru # <<>>
    /\ Head(lru) \notin dirty
    /\ block'[Head(lru)] \in Block \ Cached
    /\ block' = [block EXCEPT ![Head(lru)] = block'[Head(lru)]]
    /\ lru' = Tail(lru)
    /\ UNCHANGED dirty

Release(b) ==
    /\ b \notin Free
    /\ lru' \in {Append(lru, b), <<b>> \o lru}
    /\ UNCHANGED <<block, dirty>>

Mark == dirty' \in SUBSET Buffer /\ UNCHANGED <<block, lru>>

Next == \/ Fill
        \/ Clear
        \/ \E b \in Buffer : Hit(b) \/ Release(b)
        \/ WriteBack
        \/ Replace
        \/ Mark

Spec == Init /\ [][Next]_vars
=============================================================================
