---------------------------- MODULE AddressLease ----------------------------
(***************************************************************************)
(* What mydhcp's server promises, seen from one address at a time: an      *)
(* address is free, promised to one endpoint by an OFFER, or leased to it  *)
(* by an ACK.  It never passes from one endpoint to another without being  *)
(* free in between, is leased only to the endpoint it was promised to, and *)
(* an endpoint never has two.                                              *)
(***************************************************************************)
CONSTANTS Address, Holder, NoHolder

VARIABLES holder, leased

TypeOK == /\ holder \in [Address -> Holder \cup {NoHolder}]
          /\ leased \in [Address -> BOOLEAN]

Init == /\ holder = [a \in Address |-> NoHolder]
        /\ leased = [a \in Address |-> FALSE]

HasNone(h) == \A a \in Address : holder[a] # h

Promise(a, h) ==
    /\ holder[a] = NoHolder
    /\ HasNone(h)
    /\ holder' = [holder EXCEPT ![a] = h]
    /\ UNCHANGED leased

Lease(a) ==
    /\ holder[a] # NoHolder
    /\ ~ leased[a]
    /\ leased' = [leased EXCEPT ![a] = TRUE]
    /\ UNCHANGED holder

Return(a) ==
    /\ holder[a] # NoHolder
    /\ holder' = [holder EXCEPT ![a] = NoHolder]
    /\ leased' = [leased EXCEPT ![a] = FALSE]

Next == \E a \in Address : \/ \E h \in Holder : Promise(a, h)
                           \/ Lease(a)
                           \/ Return(a)

Spec == Init /\ [][Next]_<<holder, leased>>
=============================================================================
