------------------------------- MODULE MyDhcp -------------------------------
(***************************************************************************)
(* mydhcp as a whole: MyDhcpServer and the processes of MyDhcpClient, a    *)
(* UDP network that loses, delays, reorders and duplicates datagrams, and  *)
(* seconds that pass: every second the interval timer of each process      *)
(* fires once.                                                             *)
(*                                                                         *)
(* All datagrams are those the two programs send, and nobody stops the     *)
(* server.  That a datagram is delivered within MaxAge seconds or never,   *)
(* that no process falls behind its timer by more than MaxAlarm, and that  *)
(* no SIGALRM falls between the read and the write of alarm_flag--, which  *)
(* would lose a second, are assumptions of this module.                    *)
(***************************************************************************)
EXTENDS DhcpMessages, Sequences

CONSTANTS
    Client, Server,
    Config, ConfigTtl, MessageTimeout, MaxAlarm,
    MaxAge,       \* seconds after which a datagram that was not delivered is lost
    Duplicates    \* whether the network delivers a datagram more than once

ASSUME ServerAssumption == Server \notin Client
ASSUME ConfigAssumption ==
    /\ Config \in Seq(Addr)
    /\ \A i, j \in 1 .. Len(Config) : Config[i] = Config[j] => i = j
ASSUME ConfigTtlAssumption == ConfigTtl \subseteq Int
ASSUME MessageTimeoutAssumption == MessageTimeout \in Nat \ {0}
ASSUME MaxAlarmAssumption == MaxAlarm \in Nat
ASSUME MaxAgeAssumption == MaxAge \in Nat
ASSUME DuplicatesAssumption == Duplicates \in BOOLEAN

VARIABLES
    pc, ttl_max, pool, client, client_ptr, alarm_flag, stop_flag, sa_restart,
    from, sent,   \* of the server
    cl, csent,    \* of the clients
    net,          \* datagrams in flight
    due           \* processes whose timer has not fired yet this second

S == INSTANCE MyDhcpServer WITH
        Endpoint <- Client, Nobody <- Server, Datagram <- {}
C == INSTANCE MyDhcpClient WITH Datagram <- {}

svars == <<pc, ttl_max, pool, client, client_ptr, alarm_flag, stop_flag, sa_restart>>
vars == <<svars, from, sent, cl, csent, net, due>>

(***************************************************************************)
(* The network.  The datagram of client c goes up to the server or down    *)
(* to the client.                                                          *)
(***************************************************************************)
Up(d) == [up |-> TRUE, client |-> d.from, msg |-> d.msg, age |-> 0]
Down(d) == [up |-> FALSE, client |-> d.to, msg |-> d.msg, age |-> 0]

\* What is left of net when d is delivered.
Delivered(d) == IF Duplicates THEN {net, net \ {d}} ELSE {net \ {d}}

\* net' once the step gave its datagrams to the network that held `rest`.
Carry(rest) == net' = rest \cup {Up(d) : d \in csent'} \cup {Down(d) : d \in sent'}

ServerIdle == UNCHANGED svars /\ from' = Server /\ sent' = {}
ClientsIdle == UNCHANGED cl /\ csent' = {}

ToServer(d) ==
    /\ d.up
    /\ \/ S!RecvKnown(d.client, d.msg)
       \/ S!RecvNew(d.client, d.msg)
       \/ S!RecvNoIp(d.client, d.msg)
       \/ S!RecvStranger(d.client, d.msg)
    /\ ClientsIdle

ToClient(d) ==
    /\ ~ d.up
    /\ C!RecvMessage(d.client, d.msg)
    /\ ServerIdle

Deliver ==
    /\ \E d \in net : /\ ToServer(d) \/ ToClient(d)
                      /\ \E rest \in Delivered(d) : Carry(rest)
    /\ UNCHANGED due

(***************************************************************************)
(* Time.                                                                   *)
(***************************************************************************)
Alive == {c \in Client : cl[c].pc = "recv"} \cup {p \in {Server} : S!Running}

\* A second has passed, in which all timers fired.  A datagram that was not
\* delivered within MaxAge seconds is lost.
Tick ==
    /\ due \cap Alive = {}
    /\ pc \in {"recv", "crash"}
    /\ net' = {[d EXCEPT !.age = @ + 1] : d \in {x \in net : x.age < MaxAge}}
    /\ due' = Alive
    /\ ServerIdle /\ ClientsIdle

ServerTimer ==
    /\ Server \in due
    /\ S!InterruptedByAlarm \/ (S!Running /\ S!sigalrm_handler)
    /\ due' = due \ {Server}
    /\ ClientsIdle
    /\ Carry(net)

ClientTimer(c) ==
    /\ c \in due
    /\ C!InterruptedByAlarm(c) \/ C!sigalrm_handler(c)
    /\ due' = due \ {c}
    /\ ServerIdle
    /\ Carry(net)

(***************************************************************************)
(* The other steps of the processes.                                       *)
(***************************************************************************)
ServerStep ==
    /\ S!read_config \/ S!Timers
    /\ ClientsIdle /\ UNCHANGED due
    /\ Carry(net)

\* A client starts, or its user ends it.
ClientStep(c) ==
    /\ C!Start(c) \/ C!InterruptedByHup(c) \/ C!InterruptedByInt(c)
    /\ ServerIdle /\ UNCHANGED due
    /\ Carry(net)

Init ==
    /\ S!Init /\ ~ sa_restart
    /\ C!Init /\ \A c \in Client : ~ cl[c].sa_restart
    /\ net = {}
    /\ due = {}

Next ==
    \/ Deliver
    \/ Tick
    \/ ServerTimer
    \/ ServerStep
    \/ \E c \in Client : ClientTimer(c) \/ ClientStep(c)

Spec == Init /\ [][Next]_vars

\* Time passes, timers fire, the server goes through its scans; nothing is
\* assumed of the network.
Fairness ==
    /\ WF_vars(Tick)
    /\ WF_vars(ServerTimer)
    /\ WF_vars(ServerStep)
    /\ \A c \in Client : WF_vars(ClientTimer(c))

FairSpec == Spec /\ Fairness
-----------------------------------------------------------------------------
(***************************************************************************)
(* Properties.                                                             *)
(***************************************************************************)
Packet == [up : BOOLEAN, client : Client, msg : Message, age : 0 .. MaxAge]

\* The types of the variables of both programs and of the network.
TypeOK == /\ S!TypeOK
          /\ C!TypeOK
          /\ net \subseteq Packet
          /\ due \subseteq Client \cup {Server}

\* How far the client's clock of a lease may lag behind the server's: the delay
\* of an ACK, one second at either end of it, since within a second the order of
\* the two timers is open, and the alarms that the client has not handled yet, or
\* that were left to the server when it answered.
Slack == MaxAge + 2 + MaxAlarm + S!Decremented(MaxAlarm)

\* Datagrams do not outlive the exchange they belong to: the server keeps its
\* record of a client for longer than the DISCOVERs of that client and the OFFERs
\* for them can still arrive.  With more than one address to give nothing else
\* keeps the client from taking the OFFER of another record of its for a change
\* of the address it uses (recv_offer stores it in every state).
Punctual == Len(Config) <= 1 \/ MessageTimeout > 2 * MaxAge + MaxAlarm + 1

\* If Punctual, the address a client uses is, unless its lease is about to end,
\* leased to it by the server, which will not give it away earlier: the server
\* starts to count when it sends the ACK, the client when it receives it.
UseIsBacked ==
    \A c \in Client : (C!Using(c) /\ cl[c].ttl > Slack) =>
        /\ client[c].stat = "in_use"
        /\ client[c].addr = cl[c].addr
        /\ client[c].ttl + Slack >= cl[c].ttl

\* Two clients use one address only for the moment in which the lease of one
\* of them is about to end.
OverlapBounded ==
    \A c, d \in Client :
        (c # d /\ C!Using(c) /\ C!Using(d) /\ cl[c].addr = cl[d].addr) =>
            cl[c].ttl <= Slack \/ cl[d].ttl <= Slack

\* The address of a client that is gone becomes free, with or without RELEASE,
\* whatever the network loses.
AddressReturns ==
    \A c \in Client : C!Exited(c) ~> (client[c].stat = "none" \/ pc = "crash")

\* memo.txt:4 reports that TTL timeout and message timeout were tried: no
\* sequence of messages of the client program ends the server.
ServerSurvives == pc # "crash"
=============================================================================
