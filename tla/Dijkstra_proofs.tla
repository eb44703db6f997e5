--------------------------- MODULE Dijkstra_proofs ---------------------------
(***************************************************************************)
(* What dijkstra computes, for any number of nodes, any INF and any set of *)
(* matrices: the loop of the code keeps Settled, Reachable and             *)
(* Predecessors, and at its end they say that D is the distances.          *)
(***************************************************************************)
EXTENDS Dijkstra, TLAPS

Inv == TypeOK /\ Settled /\ Reachable /\ Predecessors

(* Dist is D, but 0 at the root.                                           *)
LEMMA DistIs ==
    ASSUME root \in Node, D \in [Node -> Nat]
    PROVE  /\ Dist \in [Node -> Nat]
           /\ Dist[root] = 0
           /\ \A i \in Node \ {root} : Dist[i] = D[i]
  BY DEF Dist

LEMMA CostIsNat ==
    ASSUME Valid
    PROVE  \A i, j \in Node : cost[i][j] \in Nat /\ cost[i][j] <= INF
  BY InfAssumption DEF Valid

LEMMA TypeInit == Init => TypeOK
  BY MatricesAssumption DEF Init, TypeOK

LEMMA TypeNext == TypeOK /\ [Next]_vars => TypeOK'
  <1> SUFFICES ASSUME TypeOK, [Next]_vars PROVE TypeOK'
    OBVIOUS
  <1> USE DEF TypeOK
  <1>1. CASE value_check
    BY <1>1 DEF value_check, Valid
  <1>2. CASE Start
    <2>1. Valid /\ root \in Node
      BY <1>2, NodeAssumption DEF Start, Node
    <2>2. D' \in [Node -> Nat] /\ p' \in [Node -> Nat]
      BY <1>2, <2>1, CostIsNat DEF Start, InitialP
    <2>3. Nprime' \subseteq Node /\ root' \in Nprime'
      BY <1>2, <2>1 DEF Start, Cleared
    <2>4. Valid'
      BY <1>2, <2>1 DEF Start, Valid
    <2> QED BY <1>2, <2>1, <2>2, <2>3, <2>4 DEF Start
  <1>3. CASE Iterate
    <2>1. PICK m \in Node :
            /\ Nprime' = Nprime \cup {m}
            /\ D' = [i \in Node |-> IF Shorter(m, i) THEN D[m] + cost[m][i] ELSE D[i]]
            /\ p' = [i \in Node |-> IF Shorter(m, i) THEN m ELSE p[i]]
      BY <1>3 DEF Iterate
    <2>2. Valid /\ Valid'
      BY <1>3 DEF Iterate, Valid
    <2>3. m \in Nat
      BY DEF Node
    <2>4. D' \in [Node -> Nat]
      BY <2>1, <2>2, CostIsNat
    <2>5. p' \in [Node -> Nat]
      BY <2>1, <2>3
    <2> QED BY <1>3, <2>1, <2>2, <2>4, <2>5 DEF Iterate
  <1>4. CASE Unreached
    BY <1>4 DEF Unreached, Valid
  <1>5. CASE Finished
    BY <1>5 DEF Finished, Valid
  <1>6. CASE NextRoot
    BY <1>6 DEF NextRoot, Valid
  <1>7. CASE UNCHANGED vars
    BY <1>7 DEF vars, Valid
  <1> QED BY <1>1, <1>2, <1>3, <1>4, <1>5, <1>6, <1>7 DEF Next, Ended

(***************************************************************************)
(* One iteration, with the node m.                                         *)
(***************************************************************************)
Chosen(m) ==
    /\ pc = "loop"
    /\ Nearest(m)
    /\ Nprime' = Nprime \cup {m}
    /\ D' = [i \in Node |-> IF Shorter(m, i) THEN D[m] + cost[m][i] ELSE D[i]]
    /\ p' = [i \in Node |-> IF Shorter(m, i) THEN m ELSE p[i]]
    /\ UNCHANGED <<cost, root, pc>>

(* What the iteration does to Dist, and what is known of m.                *)
LEMMA IterationStep ==
    ASSUME Inv, NEW m \in Node, Chosen(m)
    PROVE  /\ Dist \in [Node -> Nat] /\ Dist' \in [Node -> Nat]
           /\ m \in Rest /\ root \in Nprime /\ Valid
           /\ \A i \in Nprime \cup {m} : Dist'[i] = Dist[i]
           /\ \A i \in Rest \ {m} :
                 /\ Dist'[i] = IF Shorter(m, i) THEN Dist[m] + cost[m][i] ELSE Dist[i]
                 /\ Dist[m] <= Dist[i]
                 /\ Shorter(m, i) <=> Dist[i] > Dist[m] + cost[m][i]
           /\ Dist[root] = 0
           /\ Rest' = Rest \ {m}
  <1>1. /\ root \in Node /\ root \in Nprime /\ Valid /\ m \in Rest /\ m # root
        /\ D \in [Node -> Nat] /\ Nprime \subseteq Node
    BY DEF Inv, TypeOK, Chosen, Nearest, Reached, Rest
  <1>2. D' \in [Node -> Nat]
    BY <1>1, CostIsNat DEF Chosen
  <1>3. /\ Dist \in [Node -> Nat]
        /\ Dist[root] = 0
        /\ \A i \in Node \ {root} : Dist[i] = D[i]
    BY <1>1, DistIs
  <1>4. /\ Dist' \in [Node -> Nat]
        /\ Dist'[root] = 0
        /\ \A i \in Node \ {root} : Dist'[i] = D'[i]
    BY <1>1, <1>2 DEF Dist, Chosen
  <1>5. ASSUME NEW i \in Nprime \cup {m} PROVE Dist'[i] = Dist[i]
    <2>1. ~Shorter(m, i)
      BY DEF Shorter
    <2> QED BY <1>1, <1>3, <1>4, <2>1 DEF Chosen
  <1>6. ASSUME NEW i \in Rest \ {m}
        PROVE  /\ Dist'[i] = IF Shorter(m, i) THEN Dist[m] + cost[m][i] ELSE Dist[i]
               /\ Dist[m] <= Dist[i]
               /\ Shorter(m, i) <=> Dist[i] > Dist[m] + cost[m][i]
    <2>1. i \in Node /\ i # root /\ i \notin Nprime \cup {m}
      BY <1>1 DEF Rest
    <2>2. D[m] <= D[i]
      <3>1. CASE D[i] < INF
        <4>1. i \in Reached
          BY <3>1 DEF Reached
        <4> QED BY <1>1, <2>1, <4>1 DEF Chosen, Nearest
      <3>2. CASE ~(D[i] < INF)
        <4>1. D[m] < INF
          BY DEF Chosen, Nearest, Reached
        <4> QED BY <1>1, <2>1, <3>2, <4>1, InfAssumption
      <3> QED BY <3>1, <3>2
    <2>3. Dist'[i] = IF Shorter(m, i) THEN D[m] + cost[m][i] ELSE D[i]
      BY <1>4, <2>1 DEF Chosen
    <2>4. Dist[i] = D[i] /\ Dist[m] = D[m]
      BY <1>1, <1>3, <2>1
    <2> QED BY <2>1, <2>2, <2>3, <2>4 DEF Shorter
  <1>7. Rest' = Rest \ {m}
    BY DEF Chosen, Rest
  <1> QED BY <1>1, <1>3, <1>4, <1>5, <1>6, <1>7

LEMMA IterationSettles ==
    ASSUME Inv, NEW m \in Node, Chosen(m)
    PROVE  Settled'
  <1>1. /\ Dist \in [Node -> Nat] /\ Dist' \in [Node -> Nat]
        /\ m \in Rest /\ Valid
        /\ \A i \in Nprime \cup {m} : Dist'[i] = Dist[i]
        /\ \A i \in Rest \ {m} :
              /\ Dist'[i] = IF Shorter(m, i) THEN Dist[m] + cost[m][i] ELSE Dist[i]
              /\ Dist[m] <= Dist[i]
              /\ Shorter(m, i) <=> Dist[i] > Dist[m] + cost[m][i]
        /\ Rest' = Rest \ {m}
    BY IterationStep
  <1>2. \A i \in Nprime, j \in Rest : Dist[i] <= Dist[j]
    BY DEF Inv, Settled, Chosen
  <1>3. \A i \in Nprime, j \in Node : Dist[j] <= Dist[i] + cost[i][j]
    BY DEF Inv, Settled, Chosen
  <1>4. \A i, j \in Node : cost[i][j] \in Nat
    BY <1>1, CostIsNat
  <1>5. /\ Nprime' = Nprime \cup {m} /\ cost' = cost
        /\ Nprime \subseteq Node /\ Rest \subseteq Node
    BY DEF Chosen, Inv, TypeOK, Rest
  <1>6. \A j \in Node : Dist'[j] <= Dist[j]
    <2> TAKE j \in Node
    <2>1. CASE j \in Nprime \cup {m}
      BY <1>1, <2>1
    <2>2. CASE j \in Rest \ {m}
      BY <1>1, <1>4, <1>5, <2>2
    <2> QED BY <2>1, <2>2 DEF Rest
  <1>7. ASSUME NEW i \in Nprime', NEW j \in Rest' PROVE Dist'[i] <= Dist'[j]
    <2>1. j \in Rest \ {m} /\ i \in Nprime \cup {m} /\ i \in Node /\ j \in Node
      BY <1>1, <1>5
    <2>2. Dist'[i] = Dist[i] /\ Dist[i] <= Dist[m]
      <3>1. Dist'[i] = Dist[i]
        BY <1>1, <2>1
      <3>2. CASE i \in Nprime
        BY <3>1, <3>2, <1>1, <1>2
      <3>3. CASE i = m
        BY <3>1, <3>3, <1>1
      <3> QED BY <2>1, <3>2, <3>3
    <2>3. Dist[m] <= Dist'[j]
      BY <1>1, <1>4, <2>1
    <2>4. Dist[i] \in Nat /\ Dist[m] \in Nat /\ Dist'[j] \in Nat
      BY <1>1, <2>1
    <2> QED BY <2>2, <2>3, <2>4
  <1>8. ASSUME NEW i \in Nprime', NEW j \in Node
        PROVE  Dist'[j] <= Dist'[i] + cost'[i][j]
    <2>1. Dist[j] \in Nat /\ Dist'[j] \in Nat /\ Dist[m] \in Nat
      BY <1>1
    <2>2. CASE i \in Nprime
      <3>1. Dist'[i] = Dist[i] /\ Dist[i] \in Nat /\ cost[i][j] \in Nat
        BY <1>1, <1>4, <1>5, <2>2
      <3>2. Dist[j] <= Dist[i] + cost[i][j]
        BY <1>3, <2>2
      <3>3. Dist'[j] <= Dist[j]
        BY <1>6
      <3> QED BY <1>5, <2>1, <3>1, <3>2, <3>3
    <2>3. CASE i = m
      <3>1. Dist'[i] = Dist[m] /\ cost'[i][j] = cost[m][j] /\ cost[m][j] \in Nat
        BY <1>1, <1>4, <1>5, <2>3
      <3>2. Dist'[j] <= Dist[m] + cost[m][j]
        <4>1. CASE j \in Nprime
          <5>1. Dist'[j] = Dist[j] /\ Dist[j] <= Dist[m]
            BY <1>1, <1>2, <4>1
          <5> QED BY <2>1, <3>1, <5>1
        <4>2. CASE j = m
          <5>1. Dist'[j] = Dist[m]
            BY <1>1, <4>2
          <5> QED BY <2>1, <3>1, <5>1
        <4>3. CASE j \in Rest \ {m}
          BY <1>1, <2>1, <3>1, <4>3
        <4> QED BY <4>1, <4>2, <4>3 DEF Rest
      <3> QED BY <3>1, <3>2
    <2> QED BY <1>5, <2>2, <2>3
  <1> QED BY <1>7, <1>8 DEF Settled

LEMMA IterationReaches ==
    ASSUME Inv, NEW m \in Node, Chosen(m)
    PROVE  Reachable'
  <1>1. /\ Dist \in [Node -> Nat]
        /\ m \in Rest
        /\ \A i \in Nprime \cup {m} : Dist'[i] = Dist[i]
        /\ \A i \in Rest \ {m} :
              Dist'[i] = IF Shorter(m, i) THEN Dist[m] + cost[m][i] ELSE Dist[i]
    BY IterationStep
  <1>2. cost' = cost /\ root' = root
    BY DEF Chosen
  <1> SUFFICES ASSUME NEW d \in [Node -> 0..INF], Feasible(d)', NEW i \in Node
               PROVE  d[i] <= Dist'[i]
    BY DEF Reachable
  <1>3. Feasible(d)
    BY <1>2 DEF Feasible
  <1>4. \A j \in Node : d[j] <= Dist[j]
    BY <1>3 DEF Inv, Reachable, Chosen
  <1>5. CASE i \in Nprime \cup {m} \/ ~Shorter(m, i)
    <2>1. Dist'[i] = Dist[i]
      BY <1>1, <1>5 DEF Rest
    <2> QED BY <1>4, <2>1
  <1>6. CASE i \in Rest \ {m} /\ Shorter(m, i)
    <2>1. Dist'[i] = Dist[m] + cost[m][i]
      BY <1>1, <1>6
    <2>2. d[i] <= d[m] + cost[m][i]
      BY <1>3 DEF Feasible
    <2>3. d[m] <= Dist[m]
      BY <1>4
    <2>4. /\ d[i] \in Nat /\ d[m] \in Nat /\ Dist[m] \in Nat
          /\ cost[m][i] \in Nat
      BY <1>1, IterationStep, CostIsNat, InfAssumption
    <2> QED BY <2>1, <2>2, <2>3, <2>4
  <1> QED BY <1>5, <1>6 DEF Rest

LEMMA IterationPrecedes ==
    ASSUME Inv, NEW m \in Node, Chosen(m)
    PROVE  Predecessors'
  <1>1. /\ m \in Rest
        /\ \A i \in Nprime \cup {m} : Dist'[i] = Dist[i]
        /\ \A i \in Rest \ {m} :
              Dist'[i] = IF Shorter(m, i) THEN Dist[m] + cost[m][i] ELSE Dist[i]
    BY IterationStep
  <1>2. /\ cost' = cost /\ root' = root /\ Nprime' = Nprime \cup {m}
        /\ p' = [i \in Node |-> IF Shorter(m, i) THEN m ELSE p[i]]
    BY DEF Chosen
  <1> SUFFICES ASSUME NEW i \in Node \ {root}
               PROVE  p'[i] \in Nprime' /\ Dist'[i] = Dist'[p'[i]] + cost[p'[i]][i]
    BY <1>2 DEF Predecessors
  <1>3. p[i] \in Nprime /\ Dist[i] = Dist[p[i]] + cost[p[i]][i]
    BY DEF Inv, Predecessors, Chosen
  <1>4. CASE Shorter(m, i)
    <2>1. i \in Rest \ {m}
      BY <1>4 DEF Shorter, Rest
    <2> QED BY <1>1, <1>2, <1>4, <2>1
  <1>5. CASE ~Shorter(m, i)
    <2>1. Dist'[i] = Dist[i]
      BY <1>1, <1>5 DEF Rest
    <2> QED BY <1>1, <1>2, <1>3, <1>5, <2>1
  <1> QED BY <1>4, <1>5

(***************************************************************************)
(* The invariant.                                                          *)
(***************************************************************************)
LEMMA InvInit == Init => Inv
  <1> SUFFICES ASSUME Init PROVE Inv
    OBVIOUS
  <1>1. TypeOK
    BY TypeInit
  <1>2. pc = "check"
    BY DEF Init
  <1> QED BY <1>1, <1>2 DEF Inv, Settled, Reachable, Predecessors

(* The row of the root is all that is known after Start.                   *)
LEMMA StartInv == ASSUME Inv, Start, TypeOK' PROVE Inv'
  <1>1. /\ root' = root /\ cost' = cost /\ Nprime' = {root}
        /\ D' = [i \in Node |-> cost[root][i]] /\ p' = [i \in Node |-> root]
        /\ root \in Node /\ Valid
    BY NodeAssumption DEF Start, Cleared, InitialP, Inv, TypeOK, Node
  <1>2. /\ Dist' \in [Node -> Nat]
        /\ Dist'[root] = 0
        /\ \A i \in Node \ {root} : Dist'[i] = cost[root][i]
    BY <1>1, CostIsNat DEF Dist
  <1>3. \A i, j \in Node : cost[i][j] \in Nat
    BY <1>1, CostIsNat
  <1>4. Settled'
    <2>1. \A i \in Nprime', j \in Rest' : Dist'[i] <= Dist'[j]
      BY <1>1, <1>2 DEF Rest
    <2>2. \A j \in Node : Dist'[j] <= Dist'[root] + cost[root][j]
      BY <1>1, <1>2, <1>3
    <2> QED BY <1>1, <2>1, <2>2 DEF Settled
  <1>5. Reachable'
    <2> SUFFICES ASSUME NEW d \in [Node -> 0..INF], Feasible(d)', NEW i \in Node
                 PROVE  d[i] <= Dist'[i]
      BY DEF Reachable
    <2>1. d[root] = 0 /\ d[i] <= d[root] + cost[root][i] /\ d[i] \in Nat
      BY <1>1, InfAssumption DEF Feasible
    <2>2. CASE i = root
      BY <1>2, <2>1, <2>2
    <2>3. CASE i # root
      BY <1>1, <1>2, <1>3, <2>1, <2>3
    <2> QED BY <2>2, <2>3
  <1>6. Predecessors'
    BY <1>1, <1>2, <1>3 DEF Predecessors
  <1> QED BY <1>4, <1>5, <1>6 DEF Inv

(* The steps that leave the arrays alone, or the loop.                     *)
LEMMA FramedInv ==
    ASSUME Inv, TypeOK', UNCHANGED <<cost, Nprime, D, p>>,
           \/ pc' \in {"check", "start", "error"}
           \/ UNCHANGED root /\ pc \in {"loop", "shown", "undefined"}
    PROVE  Inv'
  <1>1. CASE pc' \in {"check", "start", "error"}
    BY <1>1 DEF Inv, Settled, Reachable, Predecessors
  <1>2. CASE UNCHANGED root /\ pc \in {"loop", "shown", "undefined"}
    <2>1. Dist' = Dist /\ Rest' = Rest
      BY <1>2 DEF Dist, Rest
    <2>2. Settled'
      BY <1>2, <2>1 DEF Inv, Settled
    <2>3. Reachable'
      <3>1. ASSUME NEW d \in [Node -> 0..INF], Feasible(d)'
            PROVE  \A i \in Node : d[i] <= Dist'[i]
        <4>1. Feasible(d)
          BY <1>2, <3>1 DEF Feasible
        <4> QED BY <1>2, <2>1, <4>1 DEF Inv, Reachable
      <3> QED BY <3>1 DEF Reachable
    <2>4. Predecessors'
      BY <1>2, <2>1 DEF Inv, Predecessors
    <2> QED BY <2>2, <2>3, <2>4 DEF Inv
  <1> QED BY <1>1, <1>2

LEMMA InvNext == Inv /\ [Next]_vars => Inv'
  <1> SUFFICES ASSUME Inv, [Next]_vars PROVE Inv'
    OBVIOUS
  <1>0. TypeOK /\ TypeOK'
    BY TypeNext DEF Inv
  <1>1. CASE value_check
    BY <1>0, <1>1, FramedInv DEF value_check
  <1>2. CASE Start
    BY <1>0, <1>2, StartInv
  <1>3. CASE Iterate
    <2>1. PICK m \in Node : Chosen(m)
      BY <1>3 DEF Iterate, Chosen
    <2> QED BY <1>0, <2>1, IterationSettles, IterationReaches, IterationPrecedes
            DEF Inv
  <1>4. CASE Unreached
    BY <1>0, <1>4, FramedInv DEF Unreached
  <1>5. CASE Finished
    BY <1>0, <1>5, FramedInv DEF Finished
  <1>6. CASE NextRoot
    BY <1>0, <1>6, FramedInv DEF NextRoot
  <1>7. CASE UNCHANGED vars
    BY <1>0, <1>7, FramedInv DEF vars, TypeOK
  <1> QED BY <1>1, <1>2, <1>3, <1>4, <1>5, <1>6, <1>7 DEF Next, Ended

LEMMA Invariant == Spec => []Inv
  BY InvInit, InvNext, PTL DEF Spec

(* When the loop ends there is no node of the rest, or none that can be    *)
(* reached.                                                                *)
Halted ==
    /\ pc = "shown" => Rest = {}
    /\ pc = "undefined" => Reached = {}

LEMMA HaltedNext == Halted /\ [Next]_vars => Halted'
  BY DEF Halted, Next, Ended, vars, value_check, Start, Iterate, Unreached,
         Finished, NextRoot, Rest, Reached

LEMMA AlwaysHalted == Spec => []Halted
  <1>1. Init => Halted
    BY DEF Init, Halted
  <1> QED BY <1>1, HaltedNext, PTL DEF Spec

LEMMA InvShortest == Inv /\ Halted => Shortest
  <1> SUFFICES ASSUME Inv, Halted, pc \in {"shown", "undefined"}
               PROVE  Feasible(Dist)
    BY DEF Inv, Shortest, Reachable
  <1>1. /\ root \in Node /\ root \in Nprime /\ Valid /\ D \in [Node -> Nat]
    BY DEF Inv, TypeOK
  <1>2. Dist \in [Node -> Nat] /\ Dist[root] = 0
    BY <1>1, DistIs
  <1>3. \A i, j \in Node : cost[i][j] \in Nat /\ cost[i][j] <= INF
    BY <1>1, CostIsNat
  <1>4. \A i \in Nprime, j \in Node : Dist[j] <= Dist[i] + cost[i][j]
    BY DEF Inv, Settled
  <1>5. ASSUME NEW i \in Node, NEW j \in Node PROVE Dist[j] <= Dist[i] + cost[i][j]
    <2>1. CASE i \in Nprime
      BY <1>4, <2>1
    <2>2. CASE i \in Rest
      <3>1. Dist[i] = D[i] /\ ~(D[i] < INF)
        BY <1>1, <2>2, DistIs DEF Halted, Rest, Reached
      <3>2. Dist[j] <= Dist[root] + cost[root][j]
        BY <1>1, <1>4
      <3> QED BY <1>1, <1>2, <1>3, <3>1, <3>2, InfAssumption
    <2> QED BY <2>1, <2>2 DEF Rest
  <1> QED BY <1>2, <1>5 DEF Feasible

(* dijkstra(root) leaves the distances from the root in D, for every valid *)
(* matrix; and D is right, too, when the loop goes on although no node of  *)
(* the rest can be reached (dijkstra.c:71).                                *)
THEOREM DistancesShortest == Spec => []Shortest
  BY Invariant, AlwaysHalted, InvShortest, PTL

(* p[i] always is the node before i on a way as long as D[i] says, and a   *)
(* node whose distance is final.                                           *)
THEOREM PathsFollow == Spec => []Predecessors
  <1>1. Inv => Predecessors
    BY DEF Inv
  <1> QED BY Invariant, <1>1, PTL
=============================================================================
