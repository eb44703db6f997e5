----------------------------- MODULE MCDijkstra -----------------------------
(* Every symmetric matrix over a few costs; the matrix of the program is   *)
(* symmetric with zeros in the diagonal, too.  And one that is refused.    *)
EXTENDS Dijkstra
CONSTANTS Costs
Pairs == {e \in Node \X Node : e[1] < e[2]}
Matrix(w) == [i \in Node |-> [j \in Node |->
    IF i = j THEN 0 ELSE IF i < j THEN w[<<i, j>>] ELSE w[<<j, i>>]]]
MCMatrices == {Matrix(w) : w \in [Pairs -> Costs]}
              \cup {[i \in Node |-> [j \in Node |-> INF + 1]]}
=============================================================================
