------------------------------ MODULE MCMyFtp ------------------------------
(* Two files, of two blocks and of none.                                   *)
EXTENDS MyFtp
CONSTANTS f1, f2
MCSize == [f \in File |-> IF f = f1 THEN 2 ELSE 0]
=============================================================================
