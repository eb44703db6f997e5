---------------------------- MODULE MyDhcpServer ----------------------------
(***************************************************************************)
(* src/mydhcp/mydhcpserver.c: one single-threaded event loop, interrupted  *)
(* by SIGALRM (every second), SIGINT and SIGHUP.  A signal handler only    *)
(* sets a flag, so one pass of the loop is one step, except the two timer  *)
(* scans and the final drain, whose iterations are steps of their own.     *)
(*                                                                         *)
(* Abstracted: the client list is a function from endpoints (address and   *)
(* port), its order is left open; a counter that reached zero stays there  *)
(* (the code only asks whether it is <= 0); all configured addresses have  *)
(* one netmask.                                                            *)
(***************************************************************************)
EXTENDS DhcpMessages, Sequences

CONSTANTS
    Endpoint,        \* address and port pairs datagrams come from
    Nobody,          \* no endpoint
    Config,          \* the addresses of the configuration file, in its order
    ConfigTtl,       \* integers its first line may hold
    MessageTimeout,  \* MESSAGE_TIMEOUT of common.h
    Datagram,        \* the twelve-byte messages that may arrive
    MaxAlarm         \* bound on alarm_flag: ticks the loop may lag behind

ASSUME NobodyAssumption == Nobody \notin Endpoint
ASSUME ConfigAssumption ==
    /\ Config \in Seq(Addr)
    /\ \A i, j \in 1 .. Len(Config) : Config[i] = Config[j] => i = j
ASSUME ConfigTtlAssumption == ConfigTtl \subseteq Int
ASSUME MessageTimeoutAssumption == MessageTimeout \in Nat \ {0}
ASSUME DatagramAssumption == Datagram \subseteq Message
ASSUME MaxAlarmAssumption == MaxAlarm \in Nat

VARIABLES
    pc,          \* where the loop of main is
    ttl_max,     \* uint16_t, from the configuration
    pool,        \* addr_pool_h: fetched at the head, returned at the tail
    client,      \* the records of client_h, by endpoint
    client_ptr,  \* main's variable of that name; it survives from pass to pass
    alarm_flag,  \* SIGALRMs not consumed yet
    stop_flag,   \* SIGINT or SIGHUP arrived
    sa_restart,  \* whether the uninitialized sa_flags holds SA_RESTART
    from,        \* whose datagram the last step consumed
    sent         \* datagrams the last step gave to sendto

vars == <<pc, ttl_max, pool, client, client_ptr, alarm_flag, stop_flag,
          sa_restart, from, sent>>

Stat == {"init", "wait_req1", "wait_req2", "in_use"}

ClientRec == [stat : Stat, tout : 0 .. MessageTimeout, addr : Addr,
              ttlcounter : Ttl, ttl : Ttl]

\* No record in the list for this endpoint.
NoClient == [stat |-> "none", tout |-> 0, addr |-> NoAddr, ttlcounter |-> 0, ttl |-> 0]

Live(cl) == {e \in Endpoint : cl[e].stat # "none"}

(***************************************************************************)
(* Timers.                                                                 *)
(***************************************************************************)
Decremented(n) == IF n > 0 THEN n - 1 ELSE 0
decrement_ttl(c) == [c EXCEPT !.ttl = Decremented(@)]
decrement_tout(c) == [c EXCEPT !.tout = Decremented(@)]

\* Mutant of ticked: leases are not counted.
ticked_waiting(c) ==
    IF c.stat \in {"wait_req1", "wait_req2"} THEN decrement_tout(c) ELSE c

ticked(c) == CASE c.stat = "in_use" -> decrement_ttl(c)
               [] c.stat \in {"wait_req1", "wait_req2"} -> decrement_tout(c)
               [] OTHER -> c

\* The records once the loop saw `alarms` pending alarms: it consumes one.  A
\* SIGALRM between the read and the write of alarm_flag-- is lost; that is one
\* that does not come, and none has to, except those that interrupt recvfrom.
AfterAlarm(alarms) ==
    IF alarms > 0 THEN [e \in Endpoint |-> ticked(client[e])] ELSE client

(***************************************************************************)
(* The address pool and the state of a record.  An operator with the       *)
(* parameters p and cl is a part of a step: p is the pool and cl are the   *)
(* records at the point where the code calls the function.                 *)
(***************************************************************************)
\* Mutant of is_addr_pool_empty: counts one too few.
is_addr_pool_empty_minus1 == Len(pool) - 1

is_addr_pool_empty == Len(pool)     \* named so in the code: zero when empty

insert_addr_pool(p, a) == Append(p, a)

\* fetch_addr_pool: the address it returns, and the pool it leaves.
Fetched(p) == Head(p)
fetch_addr_pool(p) == Tail(p)

Send(e, m) == sent' = {[to |-> e, msg |-> m]}
SendNothing == sent' = {}

\* The records cl with c in the place of endpoint e's.
Put(cl, e, c) == [f \in Endpoint |-> IF f = e THEN c ELSE cl[f]]

in_state(c, stat) == [c EXCEPT !.stat = stat, !.tout = MessageTimeout]

change_state(p, cl, e, c, stat) ==
    /\ client' = Put(cl, e, in_state(c, stat))
    /\ pool' = p

\* Mutant of terminate: the address does not go back.
terminate_leak(p, cl, e) ==
    /\ client' = Put(cl, e, NoClient)
    /\ pool' = p

\* change_state(client, term): back to the tail of the pool, record freed.
terminate(p, cl, e) ==
    /\ client' = Put(cl, e, NoClient)
    /\ pool' = insert_addr_pool(p, cl[e].addr)

(***************************************************************************)
(* The functions of pstab.                                                 *)
(***************************************************************************)
OfferOk(c) == Grant("OFFER", "OK", ttl_max, c.addr, "mask")

send_offer_ok(p, cl, e) ==
    Send(e, OfferOk(cl[e])) /\ change_state(p, cl, e, cl[e], "wait_req1")

resend_offer(p, cl, e) ==
    Send(e, OfferOk(cl[e])) /\ change_state(p, cl, e, cl[e], "wait_req2")

send_ack_ok(p, cl, e) ==
    /\ Send(e, Grant("ACK", "OK", cl[e].ttlcounter, cl[e].addr, "mask"))
    /\ change_state(p, cl, e, [cl[e] EXCEPT !.ttl = cl[e].ttlcounter], "in_use")

\* Mutant of reset_ttl: the ACK is sent, ttl is not set.
reset_ttl_stale(p, cl, e) ==
    /\ Send(e, Grant("ACK", "OK", cl[e].ttlcounter, cl[e].addr, "mask"))
    /\ change_state(p, cl, e, cl[e], "in_use")

\* Sets ttl, then calls send_ack_ok, which sets it again.
reset_ttl(p, cl, e) == send_ack_ok(p, cl, e)

send_ack_ng(p, cl, e) == Send(e, Bare("ACK", "ERR_REQ")) /\ terminate(p, cl, e)

send_offer_ng(e) == Send(e, Bare("OFFER", "ERR_NOIP"))

release_client(p, cl, e) == SendNothing /\ terminate(p, cl, e)

pstab ==
    { <<"init", "discover", "send_offer_ok">>,
      <<"wait_req1", "request_alloc_ok", "send_ack_ok">>,
      <<"wait_req1", "request_alloc_ng", "send_ack_ng">>,
      <<"wait_req1", "req_timeout", "resend_offer">>,
      <<"wait_req1", "unknown_msg", "release_client">>,
      <<"in_use", "request_ext_ok", "reset_ttl">>,
      <<"in_use", "release_ok", "release_client">>,
      <<"in_use", "ttl_timeout", "release_client">>,
      <<"in_use", "release_ng", "NULL">>,
      <<"in_use", "request_ext_ng", "send_ack_ng">>,
      <<"in_use", "unknown_msg", "release_client">>,
      <<"wait_req2", "request_alloc_ok", "send_ack_ok">>,
      <<"wait_req2", "request_alloc_ng", "send_ack_ng">>,
      <<"wait_req2", "unknown_msg", "release_client">>,
      <<"wait_req2", "req_timeout", "release_client">> }

\* Mutant of Calls: a repeated DISCOVER starts over.
Calls_again(cl, e, event, func) ==
    <<cl[e].stat, event, func>> \in pstab \cup {<<"wait_req2", "discover", "send_offer_ok">>}

\* FSM_func finds the row of this function in pstab.
Calls(cl, e, event, func) == <<cl[e].stat, event, func>> \in pstab

\* FSM_func finds no row.
Ignored(cl, e, event) == \A row \in pstab : <<row[1], row[2]>> # <<cl[e].stat, event>>

NoRow(p, cl) == client' = cl /\ pool' = p /\ SendNothing

\* FSM_func; what the row of a null pointer leads to is left to the caller.
FSM_func(p, cl, e, event) ==
    \/ Calls(cl, e, event, "send_offer_ok") /\ send_offer_ok(p, cl, e)
    \/ Calls(cl, e, event, "resend_offer") /\ resend_offer(p, cl, e)
    \/ Calls(cl, e, event, "send_ack_ok") /\ send_ack_ok(p, cl, e)
    \/ Calls(cl, e, event, "reset_ttl") /\ reset_ttl(p, cl, e)
    \/ Calls(cl, e, event, "send_ack_ng") /\ send_ack_ng(p, cl, e)
    \/ Calls(cl, e, event, "release_client") /\ release_client(p, cl, e)
    \/ Ignored(cl, e, event) /\ NoRow(p, cl)

(***************************************************************************)
(* The functions of pmsgtab: the event a message means for a record.       *)
(***************************************************************************)
recv_discover(m) ==
    IF m = Bare("DISCOVER", "OK") THEN "discover" ELSE "unknown_msg"

\* The address and netmask of the message are those of the record.
Names(m, c) == m.ipaddr = c.addr /\ m.netmask = "mask"

\* Mutant of recv_request: any ttl is good.
recv_request_anyttl(m, c) ==
    CASE m.code = "REQ_ALLOC" -> IF Names(m, c) THEN "request_alloc_ok" ELSE "request_alloc_ng"
      [] m.code = "REQ_EXT" -> IF Names(m, c) THEN "request_ext_ok" ELSE "request_ext_ng"
      [] OTHER -> "unknown_msg"

recv_request(m, c) ==
    LET ok == m.ttl <= ttl_max /\ Names(m, c)
    IN  CASE m.code = "REQ_ALLOC" -> IF ok THEN "request_alloc_ok" ELSE "request_alloc_ng"
          [] m.code = "REQ_EXT" -> IF ok THEN "request_ext_ok" ELSE "request_ext_ng"
          [] OTHER -> "unknown_msg"

recv_release(m, c) ==
    IF [m EXCEPT !.ipaddr = NoAddr] = Bare("RELEASE", "OK") /\ m.ipaddr = c.addr
    THEN "release_ok" ELSE "release_ng"

get_event(m, c) == CASE m.type = "DISCOVER" -> recv_discover(m)
                     [] m.type = "REQUEST" -> recv_request(m, c)
                     [] m.type = "RELEASE" -> recv_release(m, c)
                     [] OTHER -> "none"

\* recv_request stores the requested ttl, before it knows the request is valid.
Requests(m) == m.type = "REQUEST" /\ m.code \in {"REQ_ALLOC", "REQ_EXT"}

Noted(m, c) == IF Requests(m) THEN [c EXCEPT !.ttlcounter = m.ttl] ELSE c

\* recv_request and recv_release read client->addr->addr.
ReadsAddr(m) == Requests(m) \/ m.type = "RELEASE"

(***************************************************************************)
(* main: start, and signals.                                               *)
(***************************************************************************)
Init ==
    /\ pc = "config"
    /\ ttl_max = 0
    /\ pool = <<>>
    /\ client = [e \in Endpoint |-> NoClient]
    /\ client_ptr = "wild"
    /\ alarm_flag = 0
    /\ stop_flag = FALSE
    /\ sa_restart \in BOOLEAN
    /\ from = Nobody
    /\ sent = {}

\* The test that should reject a ttl outside 1 .. 65535.
ttl_rejected(ttl) == ttl > TtlModulus - 1 /\ ttl < 1

read_config ==
    /\ pc = "config"
    /\ \E ttl \in ConfigTtl :
         IF ttl_rejected(ttl)
         THEN pc' = "exit" /\ UNCHANGED <<ttl_max, pool>>
         ELSE pc' = "recv" /\ ttl_max' = ttl % TtlModulus /\ pool' = Config
    /\ UNCHANGED <<client, client_ptr, alarm_flag, stop_flag, sa_restart, from, sent>>

\* A signal that arrives while the loop works, or just before recvfrom.
sigalrm_handler ==
    /\ alarm_flag < MaxAlarm
    /\ alarm_flag' = alarm_flag + 1
    /\ UNCHANGED <<pc, ttl_max, pool, client, client_ptr, stop_flag, sa_restart, from, sent>>

sigint_handler ==
    /\ ~ stop_flag
    /\ stop_flag' = TRUE
    /\ UNCHANGED <<pc, ttl_max, pool, client, client_ptr, alarm_flag, sa_restart, from, sent>>

\* Mutant of LoopTop: while (1).
LoopTop_forever == pc' = "recv"

\* while (!stop_flag)
LoopTop == pc' = IF stop_flag THEN "drain" ELSE "recv"

(***************************************************************************)
(* main: a pass of the loop.                                               *)
(***************************************************************************)
\* Mutant of ConsumeAlarm: the count is not lowered.
ConsumeAlarm_not(alarms) == alarm_flag' = alarms

ConsumeAlarm(alarms) == alarm_flag' = Decremented(alarms)

\* recvfrom fails with EINTR, so the pass goes on to the timer scans.
Interrupted(alarms, stop) ==
    /\ pc = "recv"
    /\ ~ sa_restart
    /\ client' = AfterAlarm(alarms)
    /\ ConsumeAlarm(alarms)
    /\ stop_flag' = stop
    /\ pc' = "ttl_scan"
    /\ from' = Nobody
    /\ SendNothing
    /\ UNCHANGED <<ttl_max, pool, client_ptr, sa_restart>>

InterruptedByAlarm == Interrupted(alarm_flag + 1, stop_flag)
InterruptedByStop == Interrupted(alarm_flag, TRUE)

\* A datagram of length zero: get_msg returns -1 for it as well.
RecvEmpty(f) ==
    /\ pc = "recv"
    /\ client' = AfterAlarm(alarm_flag)
    /\ ConsumeAlarm(alarm_flag)
    /\ pc' = "ttl_scan"
    /\ from' = f
    /\ SendNothing
    /\ UNCHANGED <<ttl_max, pool, client_ptr, stop_flag, sa_restart>>

\* What all passes that handle a datagram of f have in common.
Pass(f) ==
    /\ pc = "recv"
    /\ ConsumeAlarm(alarm_flag)
    /\ from' = f
    /\ UNCHANGED <<ttl_max, stop_flag, sa_restart>>

Crash(cl) == pc' = "crash" /\ NoRow(pool, cl)

\* A message of an endpoint that has a record.
RecvKnown(f, m) ==
    LET now == AfterAlarm(alarm_flag)
        cl == Put(now, f, Noted(m, now[f]))
        event == get_event(m, cl[f])
    IN  /\ f \in Live(client)
        /\ Pass(f)
        /\ client_ptr' = f
        /\ \/ Calls(cl, f, event, "NULL") /\ Crash(cl)
           \/ FSM_func(pool, cl, f, event) /\ LoopTop

\* create_client: the record of a new endpoint takes the first free address.
create_client == [stat |-> "init", tout |-> MessageTimeout, addr |-> Fetched(pool),
                  ttlcounter |-> 0, ttl |-> 0]

\* Mutant of RecvNew: the address is taken and stays in the pool.
RecvNew_peek(f, m) ==
    /\ f \notin Live(client)
    /\ m.type = "DISCOVER"
    /\ is_addr_pool_empty # 0
    /\ Pass(f)
    /\ client_ptr' = f
    /\ FSM_func(pool, Put(AfterAlarm(alarm_flag), f, create_client), f, recv_discover(m))
    /\ LoopTop

\* A DISCOVER of a new endpoint, an address free.
RecvNew(f, m) ==
    /\ f \notin Live(client)
    /\ m.type = "DISCOVER"
    /\ is_addr_pool_empty # 0
    /\ Pass(f)
    /\ client_ptr' = f
    /\ FSM_func(fetch_addr_pool(pool), Put(AfterAlarm(alarm_flag), f, create_client), f, recv_discover(m))
    /\ LoopTop

\* A DISCOVER of a new endpoint, no address free.
RecvNoIp(f, m) ==
    /\ f \notin Live(client)
    /\ m.type = "DISCOVER"
    /\ is_addr_pool_empty = 0
    /\ Pass(f)
    /\ client_ptr' = "null"
    /\ send_offer_ng(f)
    /\ client' = AfterAlarm(alarm_flag)
    /\ LoopTop
    /\ UNCHANGED pool

\* Another message of an endpoint without a record: client_ptr is the list
\* head, whose stat matches no row and whose addr is a null pointer.
RecvStranger(f, m) ==
    /\ f \notin Live(client)
    /\ m.type # "DISCOVER"
    /\ Pass(f)
    /\ client_ptr' = "head"
    /\ \/ ReadsAddr(m) /\ Crash(AfterAlarm(alarm_flag))
       \/ ~ ReadsAddr(m) /\ NoRow(pool, AfterAlarm(alarm_flag)) /\ LoopTop

\* A datagram of another length: unknown_msg for whatever client_ptr holds.  A
\* pointer to a freed record reads stat = term there, which no row has.
RecvUnknown(f) ==
    LET cl == AfterAlarm(alarm_flag)
    IN  /\ Pass(f)
        /\ UNCHANGED client_ptr
        /\ \/ /\ client_ptr \in Live(client)
              /\ FSM_func(pool, cl, client_ptr, "unknown_msg")
              /\ LoopTop
           \/ /\ client_ptr \notin Live(client) \cup {"null"}
              /\ NoRow(pool, cl)
              /\ LoopTop
           \/ client_ptr \in {"null", "wild"} /\ Crash(cl)

(***************************************************************************)
(* main: the timer scans of an idle pass, and the drain after the loop.    *)
(***************************************************************************)
Scan(at) ==
    /\ pc = at
    /\ from' = Nobody
    /\ UNCHANGED <<ttl_max, client_ptr, alarm_flag, stop_flag, sa_restart>>

\* A record whose ttl, or tout, ran out, in a state with a row for it.
Expired(e) == client[e].ttl = 0 /\ ~ Ignored(client, e, "ttl_timeout")
Silent(e) == client[e].tout = 0 /\ ~ Ignored(client, e, "req_timeout")

TtlTimeout(e) ==
    /\ Scan("ttl_scan")
    /\ Expired(e)
    /\ FSM_func(pool, client, e, "ttl_timeout")
    /\ UNCHANGED pc

TtlScanned ==
    /\ Scan("ttl_scan")
    /\ \A e \in Endpoint : ~ Expired(e)
    /\ pc' = "tout_scan"
    /\ NoRow(pool, client)

ReqTimeout(e) ==
    /\ Scan("tout_scan")
    /\ Silent(e)
    /\ FSM_func(pool, client, e, "req_timeout")
    /\ UNCHANGED pc

ToutScanned ==
    /\ Scan("tout_scan")
    /\ \A e \in Endpoint : ~ Silent(e)
    /\ LoopTop
    /\ NoRow(pool, client)

Drain(e) ==
    /\ Scan("drain")
    /\ e \in Live(client)
    /\ release_client(pool, client, e)
    /\ UNCHANGED pc

Drained ==
    /\ Scan("drain")
    /\ Live(client) = {}
    /\ pc' = "exit"
    /\ NoRow(pool, client)

\* The process is gone.
Ended == pc \in {"exit", "crash"} /\ UNCHANGED vars

Running == pc \notin {"exit", "crash"}

Receive(f) ==
    \/ \E m \in Datagram : \/ RecvKnown(f, m)
                           \/ RecvNew(f, m)
                           \/ RecvNoIp(f, m)
                           \/ RecvStranger(f, m)
    \/ RecvUnknown(f)
    \/ RecvEmpty(f)

Timers == \/ \E e \in Endpoint : TtlTimeout(e) \/ ReqTimeout(e)
          \/ TtlScanned
          \/ ToutScanned

Stopping == Drained \/ \E e \in Endpoint : Drain(e)

Signals == Running /\ (sigalrm_handler \/ sigint_handler)

Next ==
    \/ read_config
    \/ Signals
    \/ InterruptedByAlarm
    \/ InterruptedByStop
    \/ \E f \in Endpoint : Receive(f)
    \/ Timers
    \/ Stopping
    \/ Ended

Spec == Init /\ [][Next]_vars

\* The loop runs; the interval timer keeps firing, and again and again it does
\* so while no datagram is queued, so that recvfrom is interrupted.
Fairness ==
    /\ WF_vars(read_config)
    /\ SF_vars(InterruptedByAlarm)
    /\ WF_vars(Timers)
    /\ WF_vars(Stopping)

FairSpec == Spec /\ Fairness

-----------------------------------------------------------------------------
(***************************************************************************)
(* Properties.                                                             *)
(***************************************************************************)
Location == {"config", "recv", "ttl_scan", "tout_scan", "drain", "exit", "crash"}

\* The types of all variables (mydhcpserver.h:105-110, mydhcpserver_types.h).
TypeOK ==
    /\ pc \in Location
    /\ ttl_max \in Ttl
    /\ pool \in Seq(Addr)
    /\ client \in [Endpoint -> ClientRec \cup {NoClient}]
    /\ client_ptr \in Endpoint \cup {"wild", "null", "head"}
    /\ alarm_flag \in 0 .. MaxAlarm
    /\ stop_flag \in BOOLEAN
    /\ sa_restart \in BOOLEAN
    /\ from \in Endpoint \cup {Nobody}
    /\ sent \in SUBSET [to : Endpoint, msg : Message]

Elements(s) == {s[i] : i \in 1 .. Len(s)}
Configured == pc # "config"

PoolDistinct == \A i, j \in 1 .. Len(pool) : pool[i] = pool[j] => i = j

HeldOnce == \A e, f \in Live(client) : client[e].addr = client[f].addr => e = f

FreeNotHeld == \A e \in Live(client) : client[e].addr \notin Elements(pool)

NoneLost == Configured =>
    Elements(Config) = Elements(pool) \cup {client[e].addr : e \in Live(client)}

\* Every configured address is in the pool once or belongs to one record: none
\* is lost, free twice, or given to two endpoints, whatever arrives and in
\* whatever state a record is freed (fetch_addr_pool, change_state to term).
PoolPartition == PoolDistinct /\ HeldOnce /\ FreeNotHeld /\ NoneLost

\* A lease counts down from a value the configuration allows, although
\* recv_request stores the requested ttl even when it rejects the request.
LeaseWithinMax == \A e \in Endpoint : client[e].stat = "in_use" => client[e].ttl <= ttl_max

\* An OFFER or ACK that grants an address names one that is reserved for the
\* endpoint it goes to, for no longer than the configuration allows: neither in
\* the pool nor in another record (send_offer_ok, resend_offer, send_ack_ok).
GrantIsBacked == \A d \in sent : d.msg.code = "OK" =>
    /\ d.msg.ttl <= ttl_max
    /\ {e \in Live(client) : client[e].addr = d.msg.ipaddr} = {d.to}
    /\ d.msg.ipaddr \notin Elements(pool)

Rank(c) == CASE c.stat = "none" -> 0
             [] c.stat = "init" -> 1
             [] c.stat = "wait_req1" -> 2
             [] c.stat = "wait_req2" -> 3
             [] c.stat = "in_use" -> 4

\* A record only moves forward, from the OFFER over its one repetition to the
\* lease, or ends; a duplicated or late message never sets it back, and it keeps
\* its address all the way (pstab, change_state).
ForwardOnly ==
    [][\A e \in Live(client) \cap Live(client') :
          /\ Rank(client'[e]) >= Rank(client[e])
          /\ client'[e].addr = client[e].addr]_vars

\* A new endpoint is refused (OFFER, ERR_NOIP) only if every configured address
\* belongs to the record of somebody else (create_client, send_offer_ng).
RefusedOnlyWhenFull == \A d \in sent : d.msg.code = "ERR_NOIP" =>
    /\ d.to \notin Live(client)
    /\ \A a \in Elements(Config) : \E e \in Live(client) : client[e].addr = a

\* The server implements AddressLease: an address belongs to the endpoint whose
\* record names it, and is leased when that record is in use.
HolderOf(a) == IF \E e \in Live(client) : client[e].addr = a
               THEN CHOOSE e \in Live(client) : client[e].addr = a
               ELSE Nobody
LeasedNow(a) == \E e \in Live(client) : client[e].addr = a /\ client[e].stat = "in_use"

Leases == INSTANCE AddressLease WITH
    Address <- Elements(Config), Holder <- Endpoint, NoHolder <- Nobody,
    holder <- [a \in Elements(Config) |-> HolderOf(a)],
    leased <- [a \in Elements(Config) |-> LeasedNow(a)]

ImplementsLease == Leases!Spec

Waiting(e) == client[e].stat \in {"wait_req1", "wait_req2"}
Acked(e) == \E d \in sent : d.to = e /\ d.msg.type = "ACK" /\ d.msg.code = "OK"

\* An endpoint that received an OFFER and goes silent does not keep the address:
\* the message timeout repeats the OFFER once, then frees the record.
WaitingEnds == ~ sa_restart => \A e \in Endpoint : Waiting(e) ~> (~ Waiting(e) \/ pc = "crash")

\* A lease that is not extended again and again ends, also when ticks are
\* consumed by passes that do not scan (decrement_ttl, ttl_timeout).
LeaseEnds == ~ sa_restart =>
    \A e \in Endpoint : []<>(client[e].stat # "in_use" \/ Acked(e) \/ pc = "crash")

\* SIGINT and SIGHUP end the server, and not before every record is freed and
\* every address is back in the pool, even if the signal arrives just before
\* recvfrom blocks.
StopDrains == ~ sa_restart =>
    (stop_flag ~> \/ pc = "exit" /\ Live(client) = {} /\ Elements(pool) = Elements(Config)
                  \/ pc = "crash")
=============================================================================
