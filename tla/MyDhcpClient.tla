---------------------------- MODULE MyDhcpClient ----------------------------
(***************************************************************************)
(* src/mydhcp/mydhcpclient.c: client processes, each a single-threaded     *)
(* event loop that is interrupted by SIGALRM (every second), SIGHUP        *)
(* (release the address and stop) and SIGINT (stop).  The global variables *)
(* of a process are the fields of one record.  A signal handler only sets  *)
(* a flag, so one pass of the loop is one step.                            *)
(*                                                                         *)
(* Abstracted: a counter that reached zero stays there (the code only asks *)
(* whether it is positive).                                                *)
(***************************************************************************)
EXTENDS DhcpMessages

CONSTANTS
    Client,          \* the processes
    MessageTimeout,  \* MESSAGE_TIMEOUT of common.h
    Datagram,        \* the twelve-byte messages that may arrive
    MaxAlarm         \* bound on alarm_flag: ticks the loop may lag behind

ASSUME MessageTimeoutAssumption == MessageTimeout \in Nat \ {0}
ASSUME DatagramAssumption == Datagram \subseteq Message
ASSUME MaxAlarmAssumption == MaxAlarm \in Nat

VARIABLES
    cl,     \* the processes
    csent   \* what the last step gave to sendto: process and message

cvars == <<cl, csent>>

Stat == {"init", "wait_offer1", "wait_offer2", "wait_ack1", "wait_ack2",
         "in_use", "wait_ext_ack", "term"}

Process ==
    [pc : {"start", "recv", "exit"},       \* before, in and after the loop
     stat : Stat, ttlcounter : Ttl, ttl : Ttl, tout : 0 .. MessageTimeout,
     addr : Addr \cup {NoAddr}, netmask : Netmask,
     stop_flag : BOOLEAN, sighup_flag : BOOLEAN, sigint_flag : BOOLEAN,
     alarm_flag : 0 .. MaxAlarm,
     sa_restart : BOOLEAN]                 \* the uninitialized sa_flags

WaitingStat == {"wait_offer1", "wait_offer2", "wait_ack1", "wait_ack2"}
UsingStat == {"in_use", "wait_ext_ack"}

(***************************************************************************)
(* Timers: the alarm block of the loop.                                    *)
(***************************************************************************)
Decremented(n) == IF n > 0 THEN n - 1 ELSE 0

decrement_ttl(r) == [r EXCEPT !.ttl = Decremented(@)]
decrement_tout(r) == [r EXCEPT !.tout = Decremented(@)]

\* Mutant of ticked: the lease is not counted while an extension is asked for.
ticked_in_use(r) == CASE r.stat = "in_use" -> decrement_ttl(r)
                      [] r.stat \in WaitingStat -> decrement_tout(r)
                      [] OTHER -> r

ticked(r) == CASE r.stat \in UsingStat -> decrement_ttl(r)
               [] r.stat \in WaitingStat -> decrement_tout(r)
               [] OTHER -> r

\* The process once the loop saw its pending alarms: it consumes one.  A SIGALRM
\* between the read and the write of alarm_flag-- is lost; that is one that does
\* not come, and none has to, except those that interrupt recvfrom.
AfterAlarm(r) ==
    IF r.alarm_flag > 0 THEN [ticked(r) EXCEPT !.alarm_flag = @ - 1] ELSE r

(***************************************************************************)
(* The functions of pstab.  r is the process at the point of the call.     *)
(***************************************************************************)
change_state(r, stat) ==
    [r EXCEPT !.stat = stat, !.tout = MessageTimeout, !.stop_flag = @ \/ stat = "term"]

Send(c, m) == csent' = {[from |-> c, msg |-> m]}
SendNothing == csent' = {}

\* Mutant of Become: while (1).
Become_forever(c, r) == cl' = [cl EXCEPT ![c] = [r EXCEPT !.pc = "recv"]]

\* while (!stop_flag): the pass ends with the process in state r.
Become(c, r) == cl' = [cl EXCEPT ![c] = [r EXCEPT !.pc = IF r.stop_flag THEN "exit" ELSE "recv"]]

Request(code, r) == Grant("REQUEST", code, r.ttlcounter, r.addr, r.netmask)

send_discover(c, r) ==
    Send(c, Bare("DISCOVER", "OK")) /\ Become(c, change_state(r, "wait_offer1"))

resend_discover(c, r) ==
    Send(c, Bare("DISCOVER", "OK")) /\ Become(c, change_state(r, "wait_offer2"))

send_request_alloc(c, r) ==
    Send(c, Request("REQ_ALLOC", r)) /\ Become(c, change_state(r, "wait_ack1"))

resend_request_alloc(c, r) ==
    Send(c, Request("REQ_ALLOC", r)) /\ Become(c, change_state(r, "wait_ack2"))

\* Mutant of send_request_ext: the extension counts from the request on.
send_request_ext_early(c, r) ==
    /\ Send(c, Request("REQ_EXT", r))
    /\ Become(c, change_state([r EXCEPT !.ttl = r.ttlcounter], "wait_ext_ack"))

send_request_ext(c, r) ==
    Send(c, Request("REQ_EXT", r)) /\ Become(c, change_state(r, "wait_ext_ack"))

\* Mutant of send_release: the state stays.
send_release_stay(c, r) ==
    /\ Send(c, [Bare("RELEASE", "OK") EXCEPT !.ipaddr = r.addr])
    /\ Become(c, r)

send_release(c, r) ==
    /\ Send(c, [Bare("RELEASE", "OK") EXCEPT !.ipaddr = r.addr])
    /\ Become(c, change_state(r, "term"))

start_using(c, r) ==
    SendNothing /\ Become(c, change_state([r EXCEPT !.ttl = r.ttlcounter], "in_use"))

terminate(c, r) == SendNothing /\ Become(c, change_state(r, "term"))

pstab ==
    { <<"wait_offer1", "offer_ok", "send_request_alloc">>,
      <<"wait_offer1", "offer_ng", "terminate">>,
      <<"wait_offer1", "timeout", "resend_discover">>,
      <<"wait_offer1", "unknown_msg", "terminate">>,
      <<"wait_offer2", "offer_ok", "send_request_alloc">>,
      <<"wait_offer2", "offer_ng", "terminate">>,
      <<"wait_offer2", "timeout", "terminate">>,
      <<"wait_offer2", "unknown_msg", "terminate">>,
      <<"wait_ack1", "ack_ok", "start_using">>,
      <<"wait_ack1", "ack_ng", "terminate">>,
      <<"wait_ack1", "timeout", "resend_request_alloc">>,
      <<"wait_ack1", "unknown_msg", "terminate">>,
      <<"wait_ack2", "ack_ok", "start_using">>,
      <<"wait_ack2", "ack_ng", "terminate">>,
      <<"wait_ack2", "timeout", "terminate">>,
      <<"wait_ack2", "unknown_msg", "terminate">>,
      <<"in_use", "half_ttl", "send_request_ext">>,
      <<"in_use", "sighup", "send_release">>,
      <<"in_use", "ttl_timeout", "terminate">>,
      <<"wait_ext_ack", "ack_ok", "start_using">>,
      <<"wait_ext_ack", "sighup", "send_release">>,
      <<"wait_ext_ack", "ttl_timeout", "terminate">>,
      <<"wait_ext_ack", "ack_ng", "terminate">>,
      <<"wait_ext_ack", "unknown_msg", "terminate">> }

\* FSM_func finds the row of this function in pstab.
Calls(r, event, func) == <<r.stat, event, func>> \in pstab

\* FSM_func finds no row.
Ignored(r, event) == \A row \in pstab : <<row[1], row[2]>> # <<r.stat, event>>

FSM_func(c, r, event) ==
    \/ Calls(r, event, "resend_discover") /\ resend_discover(c, r)
    \/ Calls(r, event, "send_request_alloc") /\ send_request_alloc(c, r)
    \/ Calls(r, event, "resend_request_alloc") /\ resend_request_alloc(c, r)
    \/ Calls(r, event, "send_request_ext") /\ send_request_ext(c, r)
    \/ Calls(r, event, "send_release") /\ send_release(c, r)
    \/ Calls(r, event, "start_using") /\ start_using(c, r)
    \/ Calls(r, event, "terminate") /\ terminate(c, r)
    \/ Ignored(r, event) /\ SendNothing /\ Become(c, r)

(***************************************************************************)
(* The functions of pmsgtab.  They store the fields of the message before  *)
(* FSM_func looks at the state of the client.                              *)
(***************************************************************************)
\* Mutant of Stored: the ttl of a message is the ttl of the lease.
Stored_ttl(m, r) == [r EXCEPT !.ttl = m.ttl, !.addr = m.ipaddr, !.netmask = m.netmask]

Stored(m, r) == [r EXCEPT !.ttlcounter = m.ttl, !.addr = m.ipaddr, !.netmask = m.netmask]

\* The process and the event a message leads to.
recv_offer(m, r) ==
    IF m.code = "ERR_NOIP"
    THEN [proc |-> [r EXCEPT !.stop_flag = TRUE], event |-> "offer_ng"]
    ELSE [proc |-> Stored(m, r), event |-> "offer_ok"]

recv_ack(m, r) ==
    IF m.code = "ERR_REQ"
    THEN [proc |-> r, event |-> "ack_ng"]
    ELSE [proc |-> Stored(m, r), event |-> "ack_ok"]

get_event(m, r) == CASE m.type = "OFFER" -> recv_offer(m, r)
                     [] m.type = "ACK" -> recv_ack(m, r)
                     [] OTHER -> [proc |-> r, event |-> "none"]

(***************************************************************************)
(* main.                                                                   *)
(***************************************************************************)
NewProcess(restart) ==
    [pc |-> "start", stat |-> "init", ttlcounter |-> 0, ttl |-> 0, tout |-> MessageTimeout,
     addr |-> NoAddr, netmask |-> "zero", stop_flag |-> FALSE, sighup_flag |-> FALSE,
     sigint_flag |-> FALSE, alarm_flag |-> 0, sa_restart |-> restart]

Init ==
    /\ \E restart \in BOOLEAN : cl = [c \in Client |-> NewProcess(restart)]
    /\ csent = {}

\* What main does before the loop.
Start(c) ==
    /\ cl[c].pc = "start"
    /\ send_discover(c, cl[c])

\* A signal that does not interrupt recvfrom.
Signal(c, r) ==
    /\ cl[c].pc # "exit"
    /\ cl' = [cl EXCEPT ![c] = r]
    /\ SendNothing

Alarmed(c) == [cl[c] EXCEPT !.alarm_flag = @ + 1]

sigalrm_handler(c) == cl[c].alarm_flag < MaxAlarm /\ Signal(c, Alarmed(c))
sighup_handler(c) == ~ cl[c].sighup_flag /\ Signal(c, [cl[c] EXCEPT !.sighup_flag = TRUE])
sigint_handler(c) == ~ cl[c].sigint_flag /\ Signal(c, [cl[c] EXCEPT !.sigint_flag = TRUE])

\* A twelve-byte datagram, from whomever.
RecvMessage(c, m) ==
    LET got == get_event(m, AfterAlarm(cl[c]))
    IN  /\ cl[c].pc = "recv"
        /\ FSM_func(c, got.proc, got.event)

\* A datagram of another length.
RecvUnknown(c) ==
    /\ cl[c].pc = "recv"
    /\ FSM_func(c, AfterAlarm(cl[c]), "unknown_msg")

\* The event of a pass without a message, in the order the code looks for one.
IdleEvent(r) ==
    IF r.ttl <= r.ttlcounter \div 2 /\ 0 < r.ttl THEN "half_ttl"
    ELSE IF r.tout <= 0 THEN "timeout"
    ELSE IF r.ttl <= 0 THEN "ttl_timeout"
    ELSE "none"

\* A pass without a message, the process being r when recvfrom returns.
IdlePass(c, r) ==
    LET now == AfterAlarm(r)
    IN  /\ cl[c].pc = "recv"
        /\ \/ /\ now.sighup_flag
              /\ FSM_func(c, [now EXCEPT !.sighup_flag = FALSE], "sighup")
           \/ /\ ~ now.sighup_flag
              /\ now.sigint_flag
              /\ SendNothing
              /\ Become(c, [now EXCEPT !.stop_flag = TRUE])
           \/ /\ ~ now.sighup_flag
              /\ ~ now.sigint_flag
              /\ FSM_func(c, now, IdleEvent(now))

\* A datagram of length zero: get_msg returns -1 for it as well.
RecvEmpty(c) == IdlePass(c, cl[c])

\* recvfrom fails with EINTR.
InterruptedByAlarm(c) == ~ cl[c].sa_restart /\ IdlePass(c, Alarmed(c))
InterruptedByHup(c) == ~ cl[c].sa_restart /\ IdlePass(c, [cl[c] EXCEPT !.sighup_flag = TRUE])
InterruptedByInt(c) == ~ cl[c].sa_restart /\ IdlePass(c, [cl[c] EXCEPT !.sigint_flag = TRUE])

Signals(c) == sigalrm_handler(c) \/ sighup_handler(c) \/ sigint_handler(c)

Interrupts(c) == InterruptedByAlarm(c) \/ InterruptedByHup(c) \/ InterruptedByInt(c)

\* All processes are gone.
Ended == (\A c \in Client : cl[c].pc = "exit") /\ UNCHANGED cvars

Next ==
    \/ \E c \in Client : \/ Start(c)
                         \/ Signals(c)
                         \/ Interrupts(c)
                         \/ \E m \in Datagram : RecvMessage(c, m)
                         \/ RecvUnknown(c)
                         \/ RecvEmpty(c)
    \/ Ended

Spec == Init /\ [][Next]_cvars

\* The loop runs; the interval timer keeps firing, and again and again it does
\* so while no datagram is queued, so that recvfrom is interrupted.
Fairness == \A c \in Client : WF_cvars(Start(c)) /\ SF_cvars(InterruptedByAlarm(c))

FairSpec == Spec /\ Fairness
-----------------------------------------------------------------------------
(***************************************************************************)
(* Properties.                                                             *)
(***************************************************************************)

\* The types of all variables (mydhcpclient.h:95-106, mydhcpclient_types.h).
TypeOK == /\ cl \in [Client -> Process]
          /\ csent \in SUBSET [from : Client, msg : Message]

Using(c) == cl[c].pc = "recv" /\ cl[c].stat \in UsingStat
WaitingFor(c) == cl[c].pc = "recv" /\ cl[c].stat \in WaitingStat
Exited(c) == cl[c].pc = "exit"

\* The right to use an address is only ever prolonged by an ACK that was asked
\* for: ttl grows in no other step, whatever datagrams arrive in whatever order
\* (start_using is reached from wait_ack1, wait_ack2 and wait_ext_ack only).
ProlongedByAckOnly ==
    [][\A c \in Client : cl'[c].ttl > cl[c].ttl =>
          /\ cl[c].stat \in {"wait_ack1", "wait_ack2", "wait_ext_ack"}
          /\ \E m \in Datagram : m.type = "ACK" /\ m.code # "ERR_REQ" /\ RecvMessage(c, m)]_cvars

Hup(c) == cl[c].sighup_flag \/ InterruptedByHup(c)
Given(c, types) == {d \in csent' : d.from = c /\ d.msg.type \in types}

\* A client that uses an address sends RELEASE exactly when it acts on a SIGHUP,
\* and that ends the use; with a SIGHUP pending it stops without a RELEASE only
\* in a pass with a datagram, in which the loop does not look at the flags.
\* A RELEASE or REQUEST names the address the client has: never one that it has
\* not been offered yet or has no more (the flags of main, send_release, stored
\* addr of recv_offer and recv_ack).
ReleaseEndsUse ==
    [][\A c \in Client :
          /\ Given(c, {"RELEASE"}) # {} <=> Using(c) /\ Hup(c) /\ ~ cl'[c].sighup_flag
          /\ Given(c, {"RELEASE"}) # {} => cl'[c].pc = "exit"
          /\ Using(c) /\ Hup(c) /\ cl'[c].pc = "exit" =>
                \/ Given(c, {"RELEASE"}) # {}
                \/ RecvUnknown(c)
                \/ \E m \in Datagram : RecvMessage(c, m)
          /\ \A d \in Given(c, {"RELEASE", "REQUEST"}) :
                /\ d.msg.ipaddr = cl'[c].addr
                /\ Using(c) => cl'[c].addr = cl[c].addr]_cvars

Rank(stat) == CASE stat = "init" -> 0
                [] stat = "wait_offer1" -> 1
                [] stat = "wait_offer2" -> 2
                [] stat = "wait_ack1" -> 3
                [] stat = "wait_ack2" -> 4
                [] stat \in UsingStat -> 5
                [] stat = "term" -> 6

\* Each message is repeated at most once and no datagram sets a client back:
\* DISCOVER, its repetition, REQUEST, its repetition, use, end (pstab).
ForwardOnly ==
    [][\A c \in Client :
          /\ Rank(cl'[c].stat) >= Rank(cl[c].stat)
          /\ (csent' # {} /\ cl'[c] # cl[c] /\ cl[c].stat # "in_use") =>
                Rank(cl'[c].stat) > Rank(cl[c].stat)]_cvars

Interruptible(c) == ~ cl[c].sa_restart

\* SIGHUP does not keep arriving for ever: outside in_use and wait_ext_ack each
\* one uses up a pass in which the loop looks at nothing else.
HupsCease(c) == <>[][~ (sighup_handler(c) \/ InterruptedByHup(c))]_cvars

\* A client never waits for an OFFER or the ACK of a first REQUEST for ever.
WaitingEnds ==
    \A c \in Client : HupsCease(c) =>
        ((WaitingFor(c) /\ Interruptible(c)) ~> ~ WaitingFor(c))

\* A client uses its address for ever only if it is prolonged for ever: when the
\* extension is not acknowledged any more, it stops (half_ttl, ttl_timeout).
UseEnds ==
    \A c \in Client : Interruptible(c) =>
        []<>(~ Using(c)) \/ []<><<cl'[c].ttl > cl[c].ttl>>_cvars

\* SIGINT ends the process, SIGHUP ends one that has an address: the flags are
\* not lost in a pass that handles a message.
StopsOnSignal ==
    \A c \in Client : HupsCease(c) =>
        ((/\ Interruptible(c)
          /\ cl[c].sigint_flag \/ (cl[c].sighup_flag /\ Using(c))) ~> Exited(c))
=============================================================================
