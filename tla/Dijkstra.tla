------------------------------ MODULE Dijkstra ------------------------------
(***************************************************************************)
(* src/dijkstra/dijkstra.c: the distances from every node to every other,  *)
(* one root after the other, over the static arrays D, p and Nprime.       *)
(* Nprime is the set of the entries of the array that are not -1; an       *)
(* iteration of the loop over k is one step.                               *)
(***************************************************************************)
EXTENDS Integers
CONSTANTS
    NNODE,
    INF,        \* the cost that stands for no edge
    Matrices    \* the matrices the program may be built with

Node == 0..NNODE-1

ASSUME NodeAssumption == NNODE \in Nat
ASSUME InfAssumption == INF \in Nat
ASSUME MatricesAssumption == Matrices \subseteq [Node -> [Node -> Int]]

VARIABLES cost, root, Nprime, D, p, pc
vars == <<cost, root, Nprime, D, p, pc>>

Valid == \A i, j \in Node : cost[i][j] \in 0..INF

TypeOK ==
    /\ cost \in [Node -> [Node -> Int]]
    /\ root \in Nat
    /\ Nprime \subseteq Node
    /\ D \in [Node -> Nat]
    /\ p \in [Node -> Nat]
    /\ pc \in {"check", "start", "loop", "shown", "undefined", "error"}
    /\ pc \in {"start", "loop", "shown", "undefined"} => Valid
    /\ pc \in {"loop", "shown", "undefined"} => root \in Nprime /\ root \in Node

Init ==
    /\ cost \in Matrices
    /\ root = 0
    /\ Nprime = {}
    /\ D = [i \in Node |-> 0]
    /\ p = [i \in Node |-> 0]
    /\ pc = "check"

(* The names of the nodes are taken as assigned.                           *)
value_check ==
    /\ pc = "check"
    /\ pc' = IF Valid THEN "start" ELSE "error"
    /\ UNCHANGED <<cost, root, Nprime, D, p>>

(* Mutant of Cleared: the nodes of the root before are still there.        *)
Cleared_not == Nprime
Cleared == {}
(* Mutant of InitialP: the predecessors of the root before stay.           *)
InitialP_not == p
InitialP == [i \in Node |-> root]

(* clear_Nprime, add_Nprime(root), and the row of the root.                *)
Start ==
    /\ pc = "start"
    /\ root < NNODE
    /\ Nprime' = Cleared \cup {root}
    /\ D' = [i \in Node |-> cost[root][i]]
    /\ p' = InitialP
    /\ pc' = "loop"
    /\ UNCHANGED <<cost, root>>

Rest == Node \ Nprime
Reached == {i \in Rest : D[i] < INF}
(* The scan keeps the first of the nearest nodes.                          *)
Nearest(m) ==
    /\ m \in Reached
    /\ \A i \in Reached : D[m] < D[i] \/ (D[m] = D[i] /\ m <= i)

Shorter(m, i) == i \notin Nprime \cup {m} /\ D[i] > D[m] + cost[m][i]
Iterate ==
    /\ pc = "loop"
    /\ \E m \in Node :
          /\ Nearest(m)
          /\ Nprime' = Nprime \cup {m}
          /\ D' = [i \in Node |-> IF Shorter(m, i) THEN D[m] + cost[m][i] ELSE D[i]]
          /\ p' = [i \in Node |-> IF Shorter(m, i) THEN m ELSE p[i]]
    /\ UNCHANGED <<cost, root, pc>>

(* No node of the rest is nearer than INF: min[0] is -1, and D[-1] and     *)
(* cost[-1][i] are read, which is undefined; nothing is said of what       *)
(* follows.                                                                *)
Unreached ==
    /\ pc = "loop"
    /\ Rest # {}
    /\ Reached = {}
    /\ pc' = "undefined"
    /\ UNCHANGED <<cost, root, Nprime, D, p>>

Finished ==
    /\ pc = "loop"
    /\ Rest = {}
    /\ pc' = "shown"
    /\ UNCHANGED <<cost, root, Nprime, D, p>>

(* main: show_graph has printed p and D, and the next root follows.        *)
NextRoot ==
    /\ pc = "shown"
    /\ root' = root + 1
    /\ pc' = "start"
    /\ UNCHANGED <<cost, Nprime, D, p>>

Ended ==
    /\ pc \in {"error", "undefined"} \/ (pc = "start" /\ root >= NNODE)
    /\ UNCHANGED vars

Next == value_check \/ Start \/ Iterate \/ Unreached \/ Finished \/ NextRoot \/ Ended
Spec == Init /\ [][Next]_vars

(***************************************************************************)
(* Distances.  d is feasible if no edge leads to a node for less; the      *)
(* distances from the root are the largest feasible d that is 0 there.     *)
(***************************************************************************)
Feasible(d) ==
    /\ d[root] = 0
    /\ \A i, j \in Node : d[j] <= d[i] + cost[i][j]
(* The program leaves the diagonal entry of the root in D[root].           *)
Dist == [D EXCEPT ![root] = 0]

(* While dijkstra runs, the nodes in N' are nearer than the others, and    *)
(* every edge that leaves N' has been used (the loop over k).              *)
Settled ==
    pc \in {"loop", "shown", "undefined"} =>
        /\ \A i \in Nprime, j \in Rest : Dist[i] <= Dist[j]
        /\ \A i \in Nprime, j \in Node : Dist[j] <= Dist[i] + cost[i][j]

(* No feasible d is larger than what has been found, D never promises a    *)
(* way that is shorter than all ways (line 94).                            *)
Reachable ==
    pc \in {"loop", "shown", "undefined"} =>
        \A d \in [Node -> 0..INF] : Feasible(d) => \A i \in Node : d[i] <= Dist[i]

(* What show_graph prints is the distances; and when the remaining nodes   *)
(* cannot be reached and the code reads before the arrays, D already is    *)
(* what it should be: the loop should have ended there.                    *)
Shortest ==
    pc \in {"shown", "undefined"} =>
        /\ Feasible(Dist)
        /\ \A d \in [Node -> 0..INF] : Feasible(d) => \A i \in Node : d[i] <= Dist[i]

(* p[i] is the node before i on a shortest way (lines 95, 96).             *)
Predecessors ==
    pc \in {"loop", "shown", "undefined"} =>
        \A i \in Node \ {root} : p[i] \in Nprime /\ Dist[i] = Dist[p[i]] + cost[p[i]][i]
=============================================================================
