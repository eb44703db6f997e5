------------------------------ MODULE MCMyDhcp ------------------------------
(***************************************************************************)
(* Finite instances of MyDhcp.                                             *)
(***************************************************************************)
EXTENDS MyDhcp, TLC

CONSTANTS a1, a2

OneAddress == <<a1>>
TwoAddresses == <<a1, a2>>
ShortTtl == {4}
LongTtl == {6}

Symmetry == Permutations(Client)
=============================================================================
