------------------------ MODULE MyDhcpServer_proofs ------------------------
(***************************************************************************)
(* What holds of the server for every configuration, any number of         *)
(* endpoints and any messages: type correctness, the partition of the      *)
(* configured addresses, the bound on leases; what a step may send and do  *)
(* to a record; and that the server implements AddressLease.               *)
(***************************************************************************)
EXTENDS MyDhcpServer, SequenceTheorems, TLAPS

Records == [Endpoint -> ClientRec \cup {NoClient}]

(***************************************************************************)
(* Lemmas about records and timers.                                        *)
(***************************************************************************)

\* A record is live exactly when it is not the record of no client.
LEMMA LiveRecords ==
    ASSUME NEW cl \in Records
    PROVE  /\ \A e \in Endpoint : e \in Live(cl) <=> cl[e] \in ClientRec
           /\ \A e \in Endpoint : e \notin Live(cl) <=> cl[e] = NoClient
BY DEF Records, Live, ClientRec, NoClient, Stat

\* A counter that is decremented stays in its range and does not grow
\* (decrement_ttl, decrement_tout).
LEMMA DecrementedRange ==
    ASSUME NEW max \in Nat, NEW n \in 0 .. max
    PROVE  Decremented(n) \in 0 .. max /\ Decremented(n) <= n
BY DEF Decremented

\* A tick keeps the state and the address of a record and does not lengthen it.
LEMMA TickedRecord ==
    ASSUME NEW c \in ClientRec
    PROVE  /\ ticked(c) \in ClientRec
           /\ ticked(c).stat = c.stat
           /\ ticked(c).addr = c.addr
           /\ ticked(c).ttl <= c.ttl
<1>1. /\ Decremented(c.ttl) \in Ttl /\ Decremented(c.ttl) <= c.ttl
      /\ Decremented(c.tout) \in 0 .. MessageTimeout
      /\ c.ttl \in Int
  BY DecrementedRange, TtlModulusAssumption, MessageTimeoutAssumption DEF ClientRec, Ttl
<1>2. CASE c.stat = "in_use"
  BY <1>1, <1>2 DEF ticked, decrement_ttl, ClientRec
<1>3. CASE c.stat \in {"wait_req1", "wait_req2"}
  BY <1>1, <1>3 DEF ticked, decrement_tout, ClientRec
<1>4. CASE c.stat = "init"
  BY <1>1, <1>4 DEF ticked, ClientRec
<1> QED  BY <1>2, <1>3, <1>4 DEF ClientRec, Stat

\* The records after the alarm block of main.
LEMMA AfterAlarmRecords ==
    ASSUME client \in Records, NEW alarms
    PROVE  /\ AfterAlarm(alarms) \in Records
           /\ Live(AfterAlarm(alarms)) = Live(client)
           /\ \A e \in Endpoint : /\ AfterAlarm(alarms)[e].addr = client[e].addr
                                  /\ AfterAlarm(alarms)[e].stat = client[e].stat
                                  /\ AfterAlarm(alarms)[e].ttl <= client[e].ttl
<1>1. ticked(NoClient) = NoClient
  BY DEF ticked, NoClient
<1>2. \A e \in Endpoint : /\ ticked(client[e]) \in ClientRec \cup {NoClient}
                          /\ ticked(client[e]).addr = client[e].addr
                          /\ ticked(client[e]).stat = client[e].stat
                          /\ ticked(client[e]).ttl <= client[e].ttl
  <2> TAKE e \in Endpoint
  <2>1. CASE client[e] \in ClientRec
    BY <2>1, TickedRecord
  <2>2. CASE client[e] = NoClient
    BY <2>2, <1>1 DEF NoClient
  <2> QED  BY <2>1, <2>2 DEF Records
<1>3. \A e \in Endpoint : client[e].ttl \in Int
  BY TtlModulusAssumption DEF Records, ClientRec, NoClient, Ttl
<1>4. CASE alarms > 0
  BY <1>2, <1>4 DEF AfterAlarm, Records, Live
<1>5. CASE ~ (alarms > 0)
  BY <1>3, <1>5 DEF AfterAlarm, Records, Live
<1> QED  BY <1>4, <1>5

(***************************************************************************)
(* The partition of the configured addresses, for a pool p and records cl  *)
(* in the middle of a step.                                                *)
(***************************************************************************)
Held(cl) == {cl[e].addr : e \in Live(cl)}

Partition(p, cl) ==
    /\ \A i, j \in 1 .. Len(p) : p[i] = p[j] => i = j
    /\ \A e, f \in Live(cl) : cl[e].addr = cl[f].addr => e = f
    /\ \A e \in Live(cl) : cl[e].addr \notin Elements(p)
    /\ Elements(Config) = Elements(p) \cup Held(cl)

\* The partition depends only on who has which address.
LEMMA PartitionKept ==
    ASSUME NEW p \in Seq(Addr), NEW cl \in Records, NEW new \in Records,
           Partition(p, cl), Live(new) = Live(cl),
           \A e \in Endpoint : new[e].addr = cl[e].addr
    PROVE  Partition(p, new)
<1>1. Live(cl) \subseteq Endpoint
  BY DEF Live
<1>2. Held(new) = Held(cl)
  BY <1>1 DEF Held
<1> QED  BY <1>1, <1>2 DEF Partition

\* Replacing a record and keeping its address (change_state).
LEMMA PartitionReplaced ==
    ASSUME NEW p \in Seq(Addr), NEW cl \in Records, NEW e \in Endpoint,
           cl[e] \in ClientRec, NEW c \in ClientRec, c.addr = cl[e].addr,
           Partition(p, cl)
    PROVE  Put(cl, e, c) \in Records /\ Partition(p, Put(cl, e, c))
<1>1. Put(cl, e, c) \in Records
  BY DEF Put, Records
<1>2. Live(Put(cl, e, c)) = Live(cl)
  BY <1>1, LiveRecords DEF Put, Live, ClientRec, Stat
<1>3. \A f \in Endpoint : Put(cl, e, c)[f].addr = cl[f].addr
  BY DEF Put
<1> QED  BY <1>1, <1>2, <1>3, PartitionKept

\* Freeing a record and returning its address (change_state to term).
LEMMA PartitionFreed ==
    ASSUME NEW p \in Seq(Addr), NEW cl \in Records, NEW e \in Endpoint,
           cl[e] \in ClientRec, Partition(p, cl)
    PROVE  /\ Put(cl, e, NoClient) \in Records
           /\ Append(p, cl[e].addr) \in Seq(Addr)
           /\ Partition(Append(p, cl[e].addr), Put(cl, e, NoClient))
<1> DEFINE a == cl[e].addr
           new == Put(cl, e, NoClient)
           q == Append(p, a)
<1>1. a \in Addr /\ e \in Live(cl)
  BY LiveRecords DEF ClientRec
<1>2. new \in Records
  BY DEF Put, Records
<1>3. q \in Seq(Addr) /\ Len(q) = Len(p) + 1 /\ q[Len(p) + 1] = a
      /\ \A i \in 1 .. Len(p) : q[i] = p[i]
  BY <1>1
<1>4. Elements(q) = Elements(p) \cup {a}
  BY <1>3, LenProperties DEF Elements
<1>5. Live(new) = Live(cl) \ {e} /\ \A f \in Live(new) : new[f].addr = cl[f].addr
  BY DEF Live, Put, NoClient
<1>6. Held(cl) = Held(new) \cup {a}
  BY <1>1, <1>5 DEF Held
<1>7. a \notin Elements(p) /\ \A f \in Live(new) : new[f].addr # a
  BY <1>1, <1>5 DEF Partition
<1>8. \A i, j \in 1 .. Len(q) : q[i] = q[j] => i = j
  <2>1. Len(p) \in Nat
    BY LenProperties
  <2>2. \A i \in 1 .. Len(p) : q[i] # a
    BY <1>3, <1>7 DEF Elements
  <2> QED  BY <1>3, <2>1, <2>2 DEF Partition
<1>9. Elements(Config) = Elements(q) \cup Held(new)
  BY <1>4, <1>6 DEF Partition
<1> QED  BY <1>2, <1>3, <1>4, <1>5, <1>7, <1>8, <1>9 DEF Partition

\* A new record takes the head of the pool (create_client, fetch_addr_pool).
LEMMA PartitionCreated ==
    ASSUME NEW p \in Seq(Addr), Len(p) # 0, NEW cl \in Records, NEW e \in Endpoint,
           e \notin Live(cl), NEW c \in ClientRec, c.addr = Head(p), Partition(p, cl)
    PROVE  /\ Put(cl, e, c) \in Records
           /\ Tail(p) \in Seq(Addr)
           /\ Partition(Tail(p), Put(cl, e, c))
<1> DEFINE a == Head(p)
           new == Put(cl, e, c)
           q == Tail(p)
<1>1. p # << >> /\ Len(p) \in Nat /\ Len(p) >= 1
  BY LenProperties
<1>2. a \in Addr /\ a = p[1] /\ q \in Seq(Addr) /\ Len(q) = Len(p) - 1
      /\ \A i \in 1 .. Len(q) : q[i] = p[i + 1]
  BY <1>1, HeadTailProperties
<1>3. new \in Records
  BY DEF Put, Records
<1>4. Elements(p) = Elements(q) \cup {a}
  <2>1. \A i \in 1 .. Len(p) : i = 1 \/ (i - 1 \in 1 .. Len(q) /\ q[i - 1] = p[i])
    BY <1>1, <1>2
  <2>2. \A i \in 1 .. Len(q) : i + 1 \in 1 .. Len(p)
    BY <1>1, <1>2
  <2> QED  BY <1>1, <1>2, <2>1, <2>2 DEF Elements
<1>5. Live(new) = Live(cl) \cup {e} /\ new[e].addr = a
      /\ \A f \in Live(cl) : new[f].addr = cl[f].addr
  BY DEF Live, Put, ClientRec, Stat
<1>6. Held(new) = Held(cl) \cup {a}
  BY <1>5 DEF Held
<1>7. a \notin Elements(q)
  <2> SUFFICES ASSUME NEW i \in 1 .. Len(q), q[i] = a PROVE FALSE
    BY DEF Elements
  <2>1. i + 1 \in 1 .. Len(p) /\ 1 \in 1 .. Len(p) /\ p[i + 1] = p[1] /\ i + 1 # 1
    BY <1>1, <1>2
  <2> QED  BY <2>1 DEF Partition
<1>8. \A f \in Live(cl) : cl[f].addr # a /\ cl[f].addr \notin Elements(q)
  BY <1>4 DEF Partition
<1>9. \A i, j \in 1 .. Len(q) : q[i] = q[j] => i = j
  <2> TAKE i, j \in 1 .. Len(q)
  <2>1. i + 1 \in 1 .. Len(p) /\ j + 1 \in 1 .. Len(p)
    BY <1>1, <1>2
  <2>2. q[i] = p[i + 1] /\ q[j] = p[j + 1]
    BY <1>2
  <2> QED  BY <2>1, <2>2 DEF Partition
<1>10. Elements(Config) = Elements(q) \cup Held(new)
  BY <1>4, <1>6 DEF Partition
<1>11. \A f, g \in Live(new) : new[f].addr = new[g].addr => f = g
  BY <1>5, <1>8 DEF Partition
<1>12. \A f \in Live(new) : new[f].addr \notin Elements(q)
  BY <1>5, <1>7, <1>8
<1> QED  BY <1>2, <1>3, <1>9, <1>10, <1>11, <1>12 DEF Partition

(***************************************************************************)
(* The transition function.  Whatever row FSM_func finds, it leaves the    *)
(* records alone, replaces one that keeps its address, or frees one.       *)
(***************************************************************************)
Replaced(p, cl, e) ==
    \E c \in ClientRec : /\ cl[e] \in ClientRec
                         /\ c.addr = cl[e].addr
                         /\ client' = Put(cl, e, c)
                         /\ pool' = p

Freed(p, cl, e) ==
    /\ cl[e] \in ClientRec
    /\ client' = Put(cl, e, NoClient)
    /\ pool' = Append(p, cl[e].addr)

SentType == sent' \in SUBSET [to : Endpoint, msg : Message]

\* The messages the handlers build are messages.
LEMMA GrantMessages ==
    ASSUME ttl_max \in Ttl, NEW c \in ClientRec, NEW e \in Endpoint,
           NEW m \in {OfferOk(c), Grant("ACK", "OK", c.ttlcounter, c.addr, "mask"),
                      Bare("ACK", "ERR_REQ"), Bare("OFFER", "ERR_NOIP")},
           Send(e, m)
    PROVE  SentType
<1>1. 0 \in Ttl
  BY TtlModulusAssumption DEF Ttl
<1>2. m \in Message
  BY <1>1 DEF OfferOk, Grant, Bare, Message, ClientRec, DhcpType, DhcpCode, Netmask
<1> QED  BY <1>2 DEF Send, SentType

\* The state change_state leaves a record in.
LEMMA InStateRecord ==
    ASSUME NEW c \in ClientRec, NEW stat \in Stat
    PROVE  /\ in_state(c, stat) \in ClientRec
           /\ in_state(c, stat).addr = c.addr
           /\ in_state(c, stat).stat = stat
           /\ in_state(c, stat).ttl = c.ttl
<1>1. MessageTimeout \in 0 .. MessageTimeout
  BY MessageTimeoutAssumption
<1> DEFINE d == [c EXCEPT !.stat = stat]
<1>2. d \in ClientRec /\ d.addr = c.addr /\ d.stat = stat /\ d.ttl = c.ttl
  BY DEF ClientRec
<1>3. in_state(c, stat) = [d EXCEPT !.tout = MessageTimeout]
  BY DEF in_state, ClientRec
<1> HIDE DEF d
<1> QED  BY <1>1, <1>2, <1>3 DEF ClientRec

\* Effect of FSM_func on the records, the pool and the datagrams sent.
LEMMA FSMEffect ==
    ASSUME NEW p \in Seq(Addr), NEW cl \in Records, NEW e \in Endpoint, NEW event,
           ttl_max \in Ttl, FSM_func(p, cl, e, event)
    PROVE  /\ NoRow(p, cl) \/ Replaced(p, cl, e) \/ Freed(p, cl, e)
           /\ SentType
<1>1. ASSUME NEW func, Calls(cl, e, event, func)
      PROVE  cl[e] \in ClientRec
  BY <1>1 DEF Calls, pstab, Records, NoClient
<1>2. CASE Calls(cl, e, event, "send_offer_ok") /\ send_offer_ok(p, cl, e)
  BY <1>1, <1>2, InStateRecord, GrantMessages DEF send_offer_ok, change_state, Replaced, Stat
<1>3. CASE Calls(cl, e, event, "resend_offer") /\ resend_offer(p, cl, e)
  BY <1>1, <1>3, InStateRecord, GrantMessages DEF resend_offer, change_state, Replaced, Stat
<1>4. ASSUME send_ack_ok(p, cl, e), cl[e] \in ClientRec
      PROVE  Replaced(p, cl, e) /\ SentType
  <2> DEFINE c == [cl[e] EXCEPT !.ttl = cl[e].ttlcounter]
  <2>1. c \in ClientRec /\ c.addr = cl[e].addr
    BY <1>4 DEF ClientRec
  <2>2. in_state(c, "in_use") \in ClientRec /\ in_state(c, "in_use").addr = cl[e].addr
    BY <2>1, InStateRecord DEF Stat
  <2>3. client' = Put(cl, e, in_state(c, "in_use")) /\ pool' = p
    BY <1>4 DEF send_ack_ok, change_state
  <2>4. Replaced(p, cl, e)
    BY <1>4, <2>2, <2>3 DEF Replaced
  <2>5. SentType
    BY <1>4, GrantMessages DEF send_ack_ok
  <2> QED  BY <2>4, <2>5
<1>5. CASE Calls(cl, e, event, "send_ack_ok") /\ send_ack_ok(p, cl, e)
  BY <1>1, <1>4, <1>5
<1>6. CASE Calls(cl, e, event, "reset_ttl") /\ reset_ttl(p, cl, e)
  BY <1>1, <1>4, <1>6 DEF reset_ttl
<1>7. CASE Calls(cl, e, event, "send_ack_ng") /\ send_ack_ng(p, cl, e)
  BY <1>1, <1>7, GrantMessages DEF send_ack_ng, terminate, insert_addr_pool, Freed
<1>8. CASE Calls(cl, e, event, "release_client") /\ release_client(p, cl, e)
  BY <1>1, <1>8 DEF release_client, terminate, insert_addr_pool, Freed, SendNothing, SentType
<1>9. CASE Ignored(cl, e, event) /\ NoRow(p, cl)
  BY <1>9 DEF NoRow, SendNothing, SentType
<1> QED  BY <1>2, <1>3, <1>5, <1>6, <1>7, <1>8, <1>9 DEF FSM_func

\* Such an effect keeps types and partition.
LEMMA EffectPartition ==
    ASSUME NEW p \in Seq(Addr), NEW cl \in Records, NEW e \in Endpoint, Partition(p, cl),
           NoRow(p, cl) \/ Replaced(p, cl, e) \/ Freed(p, cl, e)
    PROVE  pool' \in Seq(Addr) /\ client' \in Records /\ Partition(pool', client')
<1>1. CASE NoRow(p, cl)
  BY <1>1 DEF NoRow
<1>2. CASE Replaced(p, cl, e)
  BY <1>2, PartitionReplaced DEF Replaced
<1>3. CASE Freed(p, cl, e)
  BY <1>3, PartitionFreed DEF Freed
<1> QED  BY <1>1, <1>2, <1>3

(***************************************************************************)
(* The inductive invariant.                                                *)
(***************************************************************************)

\* Before the configuration is read nothing is in the pool and nobody is known.
ConfigFirst == pc = "config" => pool = << >> /\ Live(client) = {}

IInv == TypeOK /\ PoolPartition /\ ConfigFirst

\* Once the server runs, PoolPartition is Partition of the pool and the records.
LEMMA PartitionNow == Configured => (PoolPartition <=> Partition(pool, client))
BY DEF PoolPartition, Partition, PoolDistinct, HeldOnce, FreeNotHeld, NoneLost, Held

LEMMA PartitionNext == Configured' => (PoolPartition' <=> Partition(pool', client'))
BY DEF PoolPartition, Partition, PoolDistinct, HeldOnce, FreeNotHeld, NoneLost, Held

\* A step of the running server that keeps types and partition keeps IInv.
LEMMA RunningStep ==
    ASSUME TypeOK, pc' \in Location \ {"config"}, ttl_max' = ttl_max,
           pool' \in Seq(Addr), client' \in Records, Partition(pool', client'),
           client_ptr' \in Endpoint \cup {"wild", "null", "head"},
           alarm_flag' \in 0 .. MaxAlarm, stop_flag' \in BOOLEAN, sa_restart' = sa_restart,
           from' \in Endpoint \cup {Nobody}, SentType
    PROVE  IInv'
<1>1. TypeOK'
  BY DEF TypeOK, SentType, Records
<1>2. PoolPartition' /\ ConfigFirst'
  BY PartitionNext DEF Configured, ConfigFirst
<1> QED  BY <1>1, <1>2 DEF IInv

\* What an action of the running server finds.
LEMMA RunningState ==
    ASSUME IInv, pc # "config"
    PROVE  /\ TypeOK /\ client \in Records /\ pool \in Seq(Addr) /\ ttl_max \in Ttl
           /\ Partition(pool, client)
           /\ \A alarms : /\ AfterAlarm(alarms) \in Records
                          /\ Partition(pool, AfterAlarm(alarms))
<1>1. client \in Records /\ pool \in Seq(Addr) /\ ttl_max \in Ttl /\ TypeOK
  BY DEF IInv, TypeOK, Records
<1>2. Partition(pool, client)
  BY PartitionNow DEF IInv, Configured
<1>3. ASSUME NEW alarms
      PROVE  AfterAlarm(alarms) \in Records /\ Partition(pool, AfterAlarm(alarms))
  BY <1>1, <1>2, AfterAlarmRecords, PartitionKept
<1> QED  BY <1>1, <1>2, <1>3

\* recv_request notes the requested ttl: the record keeps its address and state.
LEMMA NotedRecord ==
    ASSUME NEW c \in ClientRec, NEW m \in Datagram
    PROVE  /\ Noted(m, c) \in ClientRec
           /\ Noted(m, c).addr = c.addr /\ Noted(m, c).stat = c.stat
           /\ Noted(m, c).ttl = c.ttl
           /\ Requests(m) => Noted(m, c).ttlcounter = m.ttl
<1>1. m.ttl \in Ttl
  BY DatagramAssumption DEF Message
<1> QED  BY <1>1 DEF Noted, ClientRec

\* create_client returns a record when the pool is not empty.
LEMMA CreatedRecord ==
    ASSUME pool \in Seq(Addr), Len(pool) # 0
    PROVE  create_client \in ClientRec /\ create_client.addr = Head(pool)
           /\ create_client.stat = "init"
<1>1. Head(pool) \in Addr /\ 0 \in Ttl /\ MessageTimeout \in 0 .. MessageTimeout
  BY HeadTailProperties, TtlModulusAssumption, MessageTimeoutAssumption DEF Ttl
<1> QED  BY <1>1 DEF create_client, Fetched, ClientRec, Stat

LEMMA InitIInv == Init => IInv
<1> SUFFICES ASSUME Init PROVE IInv
  OBVIOUS
<1>1. 0 \in Ttl /\ 0 \in 0 .. MaxAlarm
  BY TtlModulusAssumption, MaxAlarmAssumption DEF Ttl
<1>2. TypeOK
  <2>1. pool \in Seq(Addr) /\ sent \in SUBSET [to : Endpoint, msg : Message]
    BY DEF Init
  <2>2. client \in [Endpoint -> ClientRec \cup {NoClient}]
    BY DEF Init
  <2>3. /\ pc \in Location /\ ttl_max \in Ttl /\ alarm_flag \in 0 .. MaxAlarm
        /\ client_ptr \in Endpoint \cup {"wild", "null", "head"}
        /\ stop_flag \in BOOLEAN /\ sa_restart \in BOOLEAN
        /\ from \in Endpoint \cup {Nobody}
    BY <1>1 DEF Init, Location
  <2> QED  BY <2>1, <2>2, <2>3 DEF TypeOK
<1>3. Live(client) = {} /\ Len(pool) = 0 /\ pool = << >>
  BY DEF Init, Live, NoClient
<1>4. PoolPartition
  BY <1>3 DEF Init, PoolPartition, PoolDistinct, HeldOnce, FreeNotHeld, NoneLost, Configured
<1> QED  BY <1>2, <1>3, <1>4 DEF IInv, ConfigFirst

\* A pass consumes an alarm or leaves the flag at zero.
LEMMA ConsumeAlarmRange ==
    ASSUME alarm_flag \in 0 .. MaxAlarm
    PROVE  /\ ConsumeAlarm(alarm_flag) => alarm_flag' \in 0 .. MaxAlarm
           /\ ConsumeAlarm(alarm_flag + 1) => alarm_flag' \in 0 .. MaxAlarm
BY MaxAlarmAssumption DEF ConsumeAlarm, Decremented

\* What the passes that handle a datagram leave to show.
LEMMA PassStep ==
    ASSUME IInv, NEW f \in Endpoint, Pass(f), pc' \in Location \ {"config"},
           pool' \in Seq(Addr), client' \in Records, Partition(pool', client'),
           client_ptr' \in Endpoint \cup {"wild", "null", "head"}, SentType
    PROVE  IInv'
<1>1. alarm_flag' \in 0 .. MaxAlarm
  BY ConsumeAlarmRange DEF Pass, IInv, TypeOK
<1> QED  BY <1>1, RunningStep DEF Pass, IInv, TypeOK

\* The scans and the drain.
LEMMA ScanStep ==
    ASSUME IInv, NEW at, Scan(at), pc' \in Location \ {"config"},
           pool' \in Seq(Addr), client' \in Records, Partition(pool', client'), SentType
    PROVE  IInv'
BY RunningStep DEF Scan, IInv, TypeOK

LEMMA LoopTopLocation == LoopTop => pc' \in Location \ {"config"}
BY DEF LoopTop, Location

LEMMA NoRowSends == ASSUME NEW p, NEW cl, NoRow(p, cl) PROVE SentType
BY DEF NoRow, SendNothing, SentType

LEMMA RecvKnownStep ==
    ASSUME IInv, NEW f \in Endpoint, NEW m \in Datagram, RecvKnown(f, m)
    PROVE  IInv'
<1> DEFINE now == AfterAlarm(alarm_flag)
           cl == Put(now, f, Noted(m, now[f]))
           event == get_event(m, cl[f])
<1>1. Pass(f) /\ pc # "config" /\ f \in Live(client) /\ client_ptr' = f
  BY DEF RecvKnown, Pass
<1>2. now \in Records /\ Partition(pool, now) /\ pool \in Seq(Addr) /\ ttl_max \in Ttl
      /\ client \in Records
  BY <1>1, RunningState
<1>3. now[f] \in ClientRec
  BY <1>1, <1>2, AfterAlarmRecords, LiveRecords
<1>4. cl \in Records /\ Partition(pool, cl)
  BY <1>2, <1>3, NotedRecord, PartitionReplaced
<1>5. \/ Calls(cl, f, event, "NULL") /\ Crash(cl)
      \/ FSM_func(pool, cl, f, event) /\ LoopTop
  BY DEF RecvKnown
<1> HIDE DEF now, cl, event
<1>6. CASE Crash(cl)
  <2>1. pool' = pool /\ client' = cl /\ SentType
    BY <1>6, NoRowSends DEF Crash, NoRow
  <2>2. pc' \in Location \ {"config"}
    BY <1>6 DEF Crash, Location
  <2> QED  BY <1>1, <1>2, <1>4, <2>1, <2>2, PassStep
<1>7. CASE FSM_func(pool, cl, f, event) /\ LoopTop
  <2>1. SentType /\ pool' \in Seq(Addr) /\ client' \in Records /\ Partition(pool', client')
    BY <1>2, <1>4, <1>7, FSMEffect, EffectPartition
  <2> QED  BY <1>1, <1>7, <2>1, LoopTopLocation, PassStep
<1> QED  BY <1>5, <1>6, <1>7

LEMMA RecvNewStep ==
    ASSUME IInv, NEW f \in Endpoint, NEW m \in Datagram, RecvNew(f, m)
    PROVE  IInv'
<1> DEFINE now == AfterAlarm(alarm_flag)
           cl == Put(now, f, create_client)
<1>1. /\ Pass(f) /\ pc # "config" /\ f \notin Live(client) /\ client_ptr' = f
      /\ Len(pool) # 0 /\ LoopTop
      /\ FSM_func(fetch_addr_pool(pool), cl, f, recv_discover(m))
  BY DEF RecvNew, Pass, is_addr_pool_empty
<1>2. now \in Records /\ Partition(pool, now) /\ pool \in Seq(Addr) /\ ttl_max \in Ttl
      /\ client \in Records
  BY <1>1, RunningState
<1>3. f \notin Live(now)
  BY <1>1, <1>2, AfterAlarmRecords
<1>4. cl \in Records /\ fetch_addr_pool(pool) \in Seq(Addr)
      /\ Partition(fetch_addr_pool(pool), cl)
  BY <1>1, <1>2, <1>3, CreatedRecord, PartitionCreated DEF fetch_addr_pool
<1> HIDE DEF now, cl
<1>5. SentType /\ pool' \in Seq(Addr) /\ client' \in Records /\ Partition(pool', client')
  BY <1>1, <1>2, <1>4, FSMEffect, EffectPartition
<1> QED  BY <1>1, <1>5, LoopTopLocation, PassStep

LEMMA RecvNoIpStep ==
    ASSUME IInv, NEW f \in Endpoint, NEW m \in Datagram, RecvNoIp(f, m)
    PROVE  IInv'
<1>1. /\ Pass(f) /\ pc # "config" /\ client_ptr' = "null" /\ LoopTop
      /\ Send(f, Bare("OFFER", "ERR_NOIP"))
      /\ client' = AfterAlarm(alarm_flag) /\ pool' = pool
  BY DEF RecvNoIp, Pass, send_offer_ng
<1>2. Bare("OFFER", "ERR_NOIP") \in Message
  BY TtlModulusAssumption DEF Bare, Message, DhcpType, DhcpCode, Netmask, Ttl
<1>3. SentType
  BY <1>1, <1>2 DEF Send, SentType
<1> QED  BY <1>1, <1>3, RunningState, LoopTopLocation, PassStep

LEMMA RecvStrangerStep ==
    ASSUME IInv, NEW f \in Endpoint, NEW m \in Datagram, RecvStranger(f, m)
    PROVE  IInv'
<1>1. /\ Pass(f) /\ pc # "config" /\ client_ptr' = "head"
      /\ NoRow(pool, AfterAlarm(alarm_flag))
      /\ pc' = "crash" \/ LoopTop
  BY DEF RecvStranger, Pass, Crash
<1>2. pc' \in Location \ {"config"}
  BY <1>1, LoopTopLocation DEF Location
<1>3. SentType /\ client' = AfterAlarm(alarm_flag) /\ pool' = pool
  BY <1>1, NoRowSends DEF NoRow
<1> QED  BY <1>1, <1>2, <1>3, RunningState, PassStep

LEMMA RecvUnknownStep ==
    ASSUME IInv, NEW f \in Endpoint, RecvUnknown(f)
    PROVE  IInv'
<1> DEFINE cl == AfterAlarm(alarm_flag)
<1>1. Pass(f) /\ pc # "config" /\ client_ptr' = client_ptr
  BY DEF RecvUnknown, Pass
<1>2. \/ client_ptr \in Live(client) /\ FSM_func(pool, cl, client_ptr, "unknown_msg") /\ LoopTop
      \/ NoRow(pool, cl) /\ LoopTop
      \/ NoRow(pool, cl) /\ pc' = "crash"
  BY DEF RecvUnknown, Crash
<1>3. cl \in Records /\ Partition(pool, cl) /\ pool \in Seq(Addr) /\ ttl_max \in Ttl
      /\ client_ptr \in Endpoint \cup {"wild", "null", "head"}
  BY <1>1, RunningState DEF TypeOK
<1>4. pc' \in Location \ {"config"}
  BY <1>2, LoopTopLocation DEF Location
<1> HIDE DEF cl
<1>5. CASE client_ptr \in Live(client) /\ FSM_func(pool, cl, client_ptr, "unknown_msg")
  <2>1. client_ptr \in Endpoint
    BY <1>5 DEF Live
  <2>2. SentType /\ pool' \in Seq(Addr) /\ client' \in Records /\ Partition(pool', client')
    BY <1>3, <1>5, <2>1, FSMEffect, EffectPartition
  <2> QED  BY <1>1, <1>3, <1>4, <2>2, PassStep
<1>6. CASE NoRow(pool, cl)
  <2>1. SentType /\ client' = cl /\ pool' = pool
    BY <1>6, NoRowSends DEF NoRow
  <2> QED  BY <1>1, <1>3, <1>4, <2>1, PassStep
<1> QED  BY <1>2, <1>5, <1>6

LEMMA RecvEmptyStep ==
    ASSUME IInv, NEW f \in Endpoint, RecvEmpty(f)
    PROVE  IInv'
<1>1. /\ pc # "config" /\ pc' \in Location \ {"config"}
      /\ client' = AfterAlarm(alarm_flag) /\ pool' = pool
      /\ SentType
  BY DEF RecvEmpty, Location, SendNothing, SentType
<1>2. alarm_flag' \in 0 .. MaxAlarm
  BY ConsumeAlarmRange DEF RecvEmpty, IInv, TypeOK
<1> QED  BY <1>1, <1>2, RunningState, RunningStep DEF RecvEmpty, IInv, TypeOK

LEMMA InterruptedStep ==
    ASSUME IInv, InterruptedByAlarm \/ InterruptedByStop
    PROVE  IInv'
<1>1. PICK alarms \in {alarm_flag, alarm_flag + 1}, stop \in BOOLEAN : Interrupted(alarms, stop)
  BY DEF InterruptedByAlarm, InterruptedByStop, IInv, TypeOK
<1>2. /\ pc # "config" /\ pc' \in Location \ {"config"}
      /\ client' = AfterAlarm(alarms) /\ pool' = pool
      /\ SentType
  BY <1>1 DEF Interrupted, Location, SendNothing, SentType
<1>3. alarm_flag' \in 0 .. MaxAlarm
  BY <1>1, ConsumeAlarmRange DEF Interrupted, IInv, TypeOK
<1> QED  BY <1>1, <1>2, <1>3, RunningState, RunningStep DEF Interrupted, IInv, TypeOK

LEMMA ReadConfigStep ==
    ASSUME IInv, read_config
    PROVE  IInv'
<1>1. PICK ttl \in ConfigTtl : /\ pc' = "recv"
                               /\ ttl_max' = ttl % TtlModulus
                               /\ pool' = Config
  <2>1. \A ttl \in ConfigTtl : ~ ttl_rejected(ttl)
    BY TtlModulusAssumption, ConfigTtlAssumption DEF ttl_rejected
  <2> QED  BY <2>1 DEF read_config
<1>2. ttl_max' \in Ttl
  BY <1>1, TtlModulusAssumption, ConfigTtlAssumption DEF Ttl
<1>3. TypeOK'
  BY <1>1, <1>2, ConfigAssumption DEF IInv, TypeOK, read_config, Location
<1>4. Live(client') = {} /\ Live(client) = {}
  BY DEF IInv, ConfigFirst, read_config
<1>5. PoolPartition'
  BY <1>1, <1>4, ConfigAssumption
     DEF PoolPartition, PoolDistinct, HeldOnce, FreeNotHeld, NoneLost
<1> QED  BY <1>1, <1>3, <1>5 DEF IInv, ConfigFirst

\* Steps that leave the pool and the records alone.
LEMMA IdleStep ==
    ASSUME IInv, pool' = pool, client' = client, pc' = pc, TypeOK'
    PROVE  IInv'
BY DEF IInv, PoolPartition, PoolDistinct, HeldOnce, FreeNotHeld, NoneLost, Configured,
       ConfigFirst

LEMMA SignalStep ==
    ASSUME IInv, sigalrm_handler \/ sigint_handler
    PROVE  IInv'
<1>1. CASE sigalrm_handler
  <2>1. alarm_flag' \in 0 .. MaxAlarm
    BY <1>1, MaxAlarmAssumption DEF sigalrm_handler, IInv, TypeOK
  <2> QED  BY <1>1, <2>1, IdleStep DEF sigalrm_handler, IInv, TypeOK
<1>2. CASE sigint_handler
  BY <1>2, IdleStep DEF sigint_handler, IInv, TypeOK
<1> QED  BY <1>1, <1>2

LEMMA TimerStep ==
    ASSUME IInv, NEW e \in Endpoint, TtlTimeout(e) \/ ReqTimeout(e)
    PROVE  IInv'
<1>1. PICK at \in {"ttl_scan", "tout_scan"}, event \in {"ttl_timeout", "req_timeout"} :
        Scan(at) /\ FSM_func(pool, client, e, event) /\ pc' = pc /\ pc = at
  BY DEF TtlTimeout, ReqTimeout, Scan
<1>2. pc # "config" /\ pc' \in Location \ {"config"}
  BY <1>1 DEF Location
<1>3. client \in Records /\ Partition(pool, client) /\ pool \in Seq(Addr) /\ ttl_max \in Ttl
  BY <1>2, RunningState
<1>4. SentType /\ pool' \in Seq(Addr) /\ client' \in Records /\ Partition(pool', client')
  BY <1>1, <1>3, FSMEffect, EffectPartition
<1> QED  BY <1>1, <1>2, <1>4, ScanStep

LEMMA ScannedStep ==
    ASSUME IInv, TtlScanned \/ ToutScanned \/ Drained
    PROVE  IInv'
<1>1. PICK at \in {"ttl_scan", "tout_scan", "drain"} : Scan(at) /\ pc = at
  BY DEF TtlScanned, ToutScanned, Drained, Scan
<1>2. NoRow(pool, client) /\ pc' \in Location \ {"config"}
  BY LoopTopLocation DEF TtlScanned, ToutScanned, Drained, Location, NoRow
<1>3. client \in Records /\ Partition(pool, client) /\ pool \in Seq(Addr)
  BY <1>1, RunningState
<1>4. client' = client /\ pool' = pool /\ SentType
  BY <1>2, NoRowSends DEF NoRow
<1> QED  BY <1>1, <1>2, <1>3, <1>4, ScanStep

LEMMA DrainStep ==
    ASSUME IInv, NEW e \in Endpoint, Drain(e)
    PROVE  IInv'
<1>1. Scan("drain") /\ pc = "drain" /\ pc' = "drain" /\ e \in Live(client)
      /\ release_client(pool, client, e)
  BY DEF Drain, Scan
<1>2. client \in Records /\ Partition(pool, client) /\ pool \in Seq(Addr)
  BY <1>1, RunningState
<1>3. Freed(pool, client, e) /\ SentType
  BY <1>1, <1>2, LiveRecords DEF release_client, terminate, insert_addr_pool, Freed, SendNothing, SentType
<1>4. pool' \in Seq(Addr) /\ client' \in Records /\ Partition(pool', client')
  BY <1>2, <1>3, EffectPartition
<1>5. pc' \in Location \ {"config"}
  BY <1>1 DEF Location
<1> QED  BY <1>1, <1>3, <1>4, <1>5, ScanStep

LEMMA NextIInv == IInv /\ [Next]_vars => IInv'
<1> SUFFICES ASSUME IInv, [Next]_vars PROVE IInv'
  OBVIOUS
<1>1. ASSUME NEW f \in Endpoint, Receive(f) PROVE IInv'
  BY <1>1, RecvKnownStep, RecvNewStep, RecvNoIpStep, RecvStrangerStep, RecvUnknownStep,
     RecvEmptyStep DEF Receive
<1>2. CASE Timers
  BY <1>2, TimerStep, ScannedStep DEF Timers
<1>3. CASE Stopping
  BY <1>3, DrainStep, ScannedStep DEF Stopping
<1>4. CASE UNCHANGED vars
  BY <1>4, IdleStep DEF vars, IInv, TypeOK
<1>5. CASE Signals
  BY <1>5, SignalStep DEF Signals
<1> QED  BY <1>1, <1>2, <1>3, <1>4, <1>5, ReadConfigStep, InterruptedStep DEF Next, Ended

\* The variables keep their types in every reachable state of the server.
THEOREM TypeCorrect == Spec => []TypeOK
<1>1. IInv => TypeOK
  BY DEF IInv
<1> QED  BY InitIInv, NextIInv, <1>1, PTL DEF Spec

\* Every configured address is, in every reachable state, in the pool once or in
\* exactly one record (fetch_addr_pool, change_state).
THEOREM AddressesPartitioned == Spec => []PoolPartition
<1>1. IInv => PoolPartition
  BY DEF IInv
<1> QED  BY InitIInv, NextIInv, <1>1, PTL DEF Spec

(***************************************************************************)
(* Leases never exceed the configured maximum.  The step to watch is an    *)
(* ACK: it starts the lease with ttlcounter, which recv_request overwrites *)
(* for valid and invalid requests alike.                                   *)
(***************************************************************************)
LeaseBound(cl) == \A e \in Endpoint : cl[e].stat = "in_use" => cl[e].ttl <= ttl_max

Granting == {"request_alloc_ok", "request_ext_ok"}

LEMMA FSMLease ==
    ASSUME NEW p, NEW cl \in Records, NEW e \in Endpoint, NEW event, LeaseBound(cl),
           event \in Granting => cl[e].ttlcounter <= ttl_max,
           FSM_func(p, cl, e, event)
    PROVE  LeaseBound(client')
<1>1. ASSUME NEW func, Calls(cl, e, event, func)
      PROVE  cl[e] \in ClientRec
  BY <1>1 DEF Calls, pstab, Records, NoClient
<1>2. ASSUME NEW stat \in {"wait_req1", "wait_req2"}, cl[e] \in ClientRec,
             change_state(p, cl, e, cl[e], stat)
      PROVE  LeaseBound(client')
  <2>1. in_state(cl[e], stat).stat # "in_use"
    BY <1>2, InStateRecord DEF Stat
  <2> QED  BY <1>2, <2>1 DEF change_state, Put, LeaseBound
<1>3. CASE Calls(cl, e, event, "send_offer_ok") /\ send_offer_ok(p, cl, e)
  BY <1>1, <1>2, <1>3 DEF send_offer_ok
<1>4. CASE Calls(cl, e, event, "resend_offer") /\ resend_offer(p, cl, e)
  BY <1>1, <1>2, <1>4 DEF resend_offer
<1>5. ASSUME send_ack_ok(p, cl, e), cl[e] \in ClientRec, event \in Granting
      PROVE  LeaseBound(client')
  <2> DEFINE c == [cl[e] EXCEPT !.ttl = cl[e].ttlcounter]
  <2>1. c \in ClientRec /\ c.ttl = cl[e].ttlcounter
    BY <1>5 DEF ClientRec
  <2>2. in_state(c, "in_use").ttl <= ttl_max
    <3>1. in_state(c, "in_use").ttl = c.ttl
      BY <2>1, InStateRecord DEF Stat
    <3>2. c.ttl <= ttl_max
      BY <1>5, <2>1
    <3> HIDE DEF c
    <3> QED  BY <3>1, <3>2
  <2>3. client' = Put(cl, e, in_state(c, "in_use"))
    BY <1>5 DEF send_ack_ok, change_state
  <2> HIDE DEF c
  <2> QED  BY <2>2, <2>3 DEF Put, LeaseBound
<1>6. CASE Calls(cl, e, event, "send_ack_ok") /\ send_ack_ok(p, cl, e)
  <2>1. event \in Granting
    BY <1>6 DEF Calls, pstab, Granting
  <2> QED  BY <1>1, <1>5, <1>6, <2>1
<1>7. CASE Calls(cl, e, event, "reset_ttl") /\ reset_ttl(p, cl, e)
  <2>1. event \in Granting
    BY <1>7 DEF Calls, pstab, Granting
  <2> QED  BY <1>1, <1>5, <1>7, <2>1 DEF reset_ttl
<1>8. ASSUME terminate(p, cl, e)
      PROVE  LeaseBound(client')
  BY <1>8 DEF terminate, insert_addr_pool, Put, NoClient, LeaseBound
<1>9. CASE Calls(cl, e, event, "send_ack_ng") /\ send_ack_ng(p, cl, e)
  BY <1>8, <1>9 DEF send_ack_ng
<1>10. CASE Calls(cl, e, event, "release_client") /\ release_client(p, cl, e)
  BY <1>8, <1>10 DEF release_client
<1>11. CASE Ignored(cl, e, event) /\ NoRow(p, cl)
  BY <1>11 DEF NoRow
<1> QED  BY <1>3, <1>4, <1>6, <1>7, <1>9, <1>10, <1>11 DEF FSM_func

\* The alarm block only shortens leases.
LEMMA AfterAlarmLease ==
    ASSUME IInv, LeaseWithinMax, NEW alarms
    PROVE  LeaseBound(AfterAlarm(alarms)) /\ LeaseBound(client)
<1>1. client \in Records /\ ttl_max \in Int
  BY TtlModulusAssumption DEF IInv, TypeOK, Records, Ttl
<1>2. \A e \in Endpoint : AfterAlarm(alarms)[e].ttl \in Int /\ client[e].ttl \in Int
  BY <1>1, AfterAlarmRecords, TtlModulusAssumption DEF Records, ClientRec, NoClient, Ttl
<1> HIDE DEF AfterAlarm
<1> QED  BY <1>1, <1>2, AfterAlarmRecords DEF LeaseBound, LeaseWithinMax

\* recv_request accepts only what the configuration allows.
LEMMA GrantedTtl ==
    ASSUME NEW c \in ClientRec, NEW m \in Datagram,
           get_event(m, Noted(m, c)) \in Granting
    PROVE  Noted(m, c).ttlcounter <= ttl_max
<1>1. m.type = "REQUEST"
  BY DEF get_event, recv_discover, recv_release, Granting
<1>2. m.code \in {"REQ_ALLOC", "REQ_EXT"} /\ m.ttl <= ttl_max
  BY <1>1 DEF get_event, recv_request, Granting
<1> QED  BY <1>1, <1>2, NotedRecord DEF Requests

LEMMA RecvKnownLease ==
    ASSUME IInv, LeaseWithinMax, NEW f \in Endpoint, NEW m \in Datagram, RecvKnown(f, m)
    PROVE  LeaseBound(client')
<1> DEFINE now == AfterAlarm(alarm_flag)
           cl == Put(now, f, Noted(m, now[f]))
           event == get_event(m, cl[f])
<1>1. f \in Live(client) /\ pc # "config"
  BY DEF RecvKnown, Pass
<1>2. now \in Records /\ client \in Records
  BY <1>1, RunningState
<1>3. now[f] \in ClientRec
  BY <1>1, <1>2, AfterAlarmRecords, LiveRecords
<1>4. Noted(m, now[f]) \in ClientRec /\ Noted(m, now[f]).stat = now[f].stat
      /\ Noted(m, now[f]).ttl = now[f].ttl
  BY <1>3, NotedRecord
<1>5. LeaseBound(now)
  BY AfterAlarmLease
<1>6. cl \in Records /\ LeaseBound(cl) /\ cl[f] = Noted(m, now[f])
  BY <1>2, <1>4, <1>5 DEF Put, Records, LeaseBound
<1>7. event \in Granting => cl[f].ttlcounter <= ttl_max
  BY <1>3, <1>6, GrantedTtl
<1>8. Crash(cl) \/ FSM_func(pool, cl, f, event)
  BY DEF RecvKnown
<1> HIDE DEF now, cl, event
<1> QED  BY <1>6, <1>7, <1>8, FSMLease DEF Crash, NoRow

LEMMA RecvNewLease ==
    ASSUME IInv, LeaseWithinMax, NEW f \in Endpoint, NEW m \in Datagram, RecvNew(f, m)
    PROVE  LeaseBound(client')
<1> DEFINE now == AfterAlarm(alarm_flag)
           cl == Put(now, f, create_client)
<1>1. /\ pc # "config" /\ Len(pool) # 0
      /\ FSM_func(fetch_addr_pool(pool), cl, f, recv_discover(m))
  BY DEF RecvNew, Pass, is_addr_pool_empty
<1>2. now \in Records /\ pool \in Seq(Addr) /\ LeaseBound(now)
  BY <1>1, RunningState, AfterAlarmLease
<1>3. cl \in Records /\ LeaseBound(cl)
  BY <1>1, <1>2, CreatedRecord DEF Put, Records, LeaseBound
<1>4. recv_discover(m) \notin Granting
  BY DEF recv_discover, Granting
<1> HIDE DEF now, cl
<1> QED  BY <1>1, <1>3, <1>4, FSMLease

LEMMA RecvUnknownLease ==
    ASSUME IInv, LeaseWithinMax, NEW f \in Endpoint, RecvUnknown(f)
    PROVE  LeaseBound(client')
<1> DEFINE cl == AfterAlarm(alarm_flag)
<1>1. pc # "config"
  BY DEF RecvUnknown, Pass
<1>2. cl \in Records /\ LeaseBound(cl)
  BY <1>1, RunningState, AfterAlarmLease
<1>3. \/ client_ptr \in Endpoint /\ FSM_func(pool, cl, client_ptr, "unknown_msg")
      \/ client' = cl
  BY DEF RecvUnknown, Crash, NoRow, Live
<1> HIDE DEF cl
<1> QED  BY <1>2, <1>3, FSMLease DEF Granting

LEMMA NextLease == IInv /\ LeaseWithinMax /\ [Next]_vars => LeaseWithinMax'
<1> SUFFICES ASSUME IInv, LeaseWithinMax, [Next]_vars PROVE LeaseWithinMax'
  OBVIOUS
<1>1. ASSUME LeaseBound(client'), ttl_max' = ttl_max PROVE LeaseWithinMax'
  BY <1>1 DEF LeaseBound, LeaseWithinMax
<1>2. ASSUME NEW f \in Endpoint, Receive(f) PROVE LeaseWithinMax'
  <2>1. ttl_max' = ttl_max
    BY <1>2 DEF Receive, RecvKnown, RecvNew, RecvNoIp, RecvStranger, RecvUnknown,
                RecvEmpty, Pass
  <2>2. LeaseBound(client')
    <3>1. ASSUME NEW m \in Datagram, RecvNoIp(f, m) \/ RecvStranger(f, m)
          PROVE  client' = AfterAlarm(alarm_flag)
      BY <3>1 DEF RecvNoIp, RecvStranger, Crash, NoRow
    <3> QED  BY <1>2, <3>1, RecvKnownLease, RecvNewLease, RecvUnknownLease,
                AfterAlarmLease DEF Receive, RecvEmpty
  <2> QED  BY <1>1, <2>1, <2>2
<1>3. CASE InterruptedByAlarm \/ InterruptedByStop
  <2>1. PICK alarms : client' = AfterAlarm(alarms) /\ ttl_max' = ttl_max
    BY <1>3 DEF InterruptedByAlarm, InterruptedByStop, Interrupted
  <2> QED  BY <1>1, <2>1, AfterAlarmLease
<1>4. ASSUME NEW e \in Endpoint, TtlTimeout(e) \/ ReqTimeout(e) PROVE LeaseWithinMax'
  <2>1. PICK event \in {"ttl_timeout", "req_timeout"} :
          FSM_func(pool, client, e, event) /\ ttl_max' = ttl_max
    BY <1>4 DEF TtlTimeout, ReqTimeout, Scan
  <2>2. client \in Records /\ LeaseBound(client)
    BY AfterAlarmLease DEF IInv, TypeOK, Records
  <2>3. event \notin Granting
    BY DEF Granting
  <2> QED  BY <1>1, <2>1, <2>2, <2>3, FSMLease
<1>5. ASSUME NEW e \in Endpoint, Drain(e) PROVE LeaseWithinMax'
  <2>1. client' = Put(client, e, NoClient) /\ ttl_max' = ttl_max
    BY <1>5 DEF Drain, Scan, release_client, terminate, insert_addr_pool
  <2> QED  BY <2>1 DEF LeaseWithinMax, Put, NoClient
<1>6. CASE TtlScanned \/ ToutScanned \/ Drained \/ Signals \/ UNCHANGED vars
  BY <1>6 DEF TtlScanned, ToutScanned, Drained, Signals, sigalrm_handler, sigint_handler,
              Scan, NoRow, vars, LeaseWithinMax
<1>7. CASE read_config
  <2>1. client' = client /\ Live(client) = {}
    BY <1>7 DEF read_config, IInv, ConfigFirst
  <2> QED  BY <2>1 DEF Live, LeaseWithinMax
<1> QED  BY <1>2, <1>3, <1>4, <1>5, <1>6, <1>7 DEF Next, Timers, Stopping, Ended

\* The time a lease still runs is never more than the configuration allows,
\* whatever ttl the client asks for (recv_request, send_ack_ok).
THEOREM LeasesBounded == Spec => []LeaseWithinMax
<1>1. Init => LeaseWithinMax
  BY DEF Init, NoClient, LeaseWithinMax
<1> QED  BY InitIInv, NextIInv, NextLease, <1>1, PTL DEF Spec
-----------------------------------------------------------------------------
(***************************************************************************)
(* What a step of the server may send and what it may do to a record, for  *)
(* every configuration: grants are backed by a record, refusals mean that  *)
(* no address is free, and a record only moves forward.                    *)
(***************************************************************************)

(***************************************************************************)
(* Grants.  cl are the records after the step that sent d.                 *)
(***************************************************************************)
Granted(d, cl) ==
    /\ d.msg.code # "ERR_NOIP"
    /\ d.msg.code = "OK" => /\ d.to \in Live(cl)
                            /\ d.msg.ipaddr = cl[d.to].addr
                            /\ d.msg.ttl <= ttl_max

\* The datagrams of FSM_func name the address of the record they go to.
LEMMA FSMGranted ==
    ASSUME NEW p, NEW cl \in Records, NEW e \in Endpoint, NEW event, ttl_max \in Ttl,
           event \in Granting => cl[e].ttlcounter <= ttl_max,
           FSM_func(p, cl, e, event)
    PROVE  \A d \in sent' : Granted(d, client')
<1>1. ASSUME NEW func, Calls(cl, e, event, func)
      PROVE  cl[e] \in ClientRec
  BY <1>1 DEF Calls, pstab, Records, NoClient
<1>2. ASSUME NEW c \in ClientRec, c.addr = cl[e].addr, NEW stat \in Stat,
             NEW type, NEW ttl, ttl <= ttl_max,
             Send(e, Grant(type, "OK", ttl, cl[e].addr, "mask")),
             client' = Put(cl, e, in_state(c, stat))
      PROVE  \A d \in sent' : Granted(d, client')
  <2>1. in_state(c, stat).stat \in Stat /\ in_state(c, stat).addr = cl[e].addr
    BY <1>2, InStateRecord
  <2>2. e \in Live(client') /\ client'[e].addr = cl[e].addr
    BY <1>2, <2>1 DEF Put, Live, Stat
  <2> QED  BY <1>2, <2>2 DEF Send, Granted, Grant
<1>3. ttl_max <= ttl_max
  BY TtlModulusAssumption DEF Ttl
<1>4. CASE Calls(cl, e, event, "send_offer_ok") /\ send_offer_ok(p, cl, e)
  BY <1>1, <1>2, <1>3, <1>4 DEF send_offer_ok, OfferOk, change_state, Stat
<1>5. CASE Calls(cl, e, event, "resend_offer") /\ resend_offer(p, cl, e)
  BY <1>1, <1>2, <1>3, <1>5 DEF resend_offer, OfferOk, change_state, Stat
<1>6. ASSUME send_ack_ok(p, cl, e), cl[e] \in ClientRec, event \in Granting
      PROVE  \A d \in sent' : Granted(d, client')
  <2> DEFINE c == [cl[e] EXCEPT !.ttl = cl[e].ttlcounter]
  <2>1. c \in ClientRec /\ c.addr = cl[e].addr /\ cl[e].ttlcounter <= ttl_max
    BY <1>6 DEF ClientRec
  <2>2. /\ Send(e, Grant("ACK", "OK", cl[e].ttlcounter, cl[e].addr, "mask"))
        /\ client' = Put(cl, e, in_state(c, "in_use"))
    BY <1>6 DEF send_ack_ok, change_state
  <2> HIDE DEF c
  <2> QED  BY <1>2, <2>1, <2>2 DEF Stat
<1>7. CASE Calls(cl, e, event, "send_ack_ok") /\ send_ack_ok(p, cl, e)
  <2>1. event \in Granting
    BY <1>7 DEF Calls, pstab, Granting
  <2> QED  BY <1>1, <1>6, <1>7, <2>1
<1>8. CASE Calls(cl, e, event, "reset_ttl") /\ reset_ttl(p, cl, e)
  <2>1. event \in Granting
    BY <1>8 DEF Calls, pstab, Granting
  <2> QED  BY <1>1, <1>6, <1>8, <2>1 DEF reset_ttl
<1>9. CASE Calls(cl, e, event, "send_ack_ng") /\ send_ack_ng(p, cl, e)
  BY <1>9 DEF send_ack_ng, Send, Bare, Granted
<1>10. CASE SendNothing
  BY <1>10 DEF SendNothing
<1> QED  BY <1>4, <1>5, <1>7, <1>8, <1>9, <1>10 DEF FSM_func, release_client, NoRow

\* With the partition, the address of a record is free nowhere and nobody else's.
LEMMA GrantedBacked ==
    ASSUME NEW p, NEW cl \in Records, Partition(p, cl), NEW d, Granted(d, cl),
           d.msg.code = "OK"
    PROVE  /\ d.msg.ttl <= ttl_max
           /\ {e \in Live(cl) : cl[e].addr = d.msg.ipaddr} = {d.to}
           /\ d.msg.ipaddr \notin Elements(p)
<1>1. d.to \in Live(cl) /\ cl[d.to].addr = d.msg.ipaddr /\ d.msg.ttl <= ttl_max
  BY DEF Granted
<1> QED  BY <1>1 DEF Partition

Answered == GrantIsBacked /\ RefusedOnlyWhenFull
SilentFirst == pc = "config" => sent = {}

\* Once the configuration is read, it is not read again.
LEMMA RunningNext ==
    ASSUME [Next]_vars, pc # "config"
    PROVE  pc' # "config"
BY DEF Next, vars, read_config, Signals, sigalrm_handler, sigint_handler, InterruptedByAlarm,
       InterruptedByStop, Interrupted, Receive, RecvKnown, RecvNew, RecvNoIp, RecvStranger,
       RecvUnknown, RecvEmpty, Crash, LoopTop, Timers, TtlTimeout, ReqTimeout, TtlScanned,
       ToutScanned, Stopping, Drain, Drained, Scan, Ended

\* What a step reaches that keeps the inductive invariant.
LEMMA NextPartition ==
    ASSUME IInv, [Next]_vars, pc # "config"
    PROVE  pc' # "config" /\ client' \in Records /\ Partition(pool', client')
<1>1. IInv' /\ pc' # "config"
  BY NextIInv, RunningNext
<1>2. client' \in Records
  BY <1>1 DEF IInv, TypeOK, Records
<1> QED  BY <1>1, <1>2, PartitionNext DEF IInv, Configured

\* A step whose datagrams are all granted.
LEMMA GrantedStep ==
    ASSUME IInv, [Next]_vars, pc # "config", ttl_max' = ttl_max,
           \A d \in sent' : Granted(d, client')
    PROVE  Answered'
<1>1. client' \in Records /\ Partition(pool', client')
  BY NextPartition
<1>2. ASSUME NEW d \in sent', d.msg.code = "OK"
      PROVE  /\ d.msg.ttl <= ttl_max'
             /\ {e \in Live(client') : client'[e].addr = d.msg.ipaddr} = {d.to}
             /\ d.msg.ipaddr \notin Elements(pool')
  BY <1>1, <1>2, GrantedBacked
<1>3. GrantIsBacked'
  BY <1>2 DEF GrantIsBacked
<1>4. RefusedOnlyWhenFull'
  BY DEF RefusedOnlyWhenFull, Granted
<1> QED  BY <1>3, <1>4 DEF Answered

\* A step that sends nothing.
LEMMA SilentStep ==
    ASSUME SendNothing
    PROVE  Answered'
BY DEF SendNothing, Answered, GrantIsBacked, RefusedOnlyWhenFull

LEMMA RecvKnownAnswered ==
    ASSUME IInv, [Next]_vars, NEW f \in Endpoint, NEW m \in Datagram, RecvKnown(f, m)
    PROVE  Answered'
<1> DEFINE now == AfterAlarm(alarm_flag)
           cl == Put(now, f, Noted(m, now[f]))
           event == get_event(m, cl[f])
<1>1. f \in Live(client) /\ pc # "config" /\ ttl_max' = ttl_max
  BY DEF RecvKnown, Pass
<1>2. now \in Records /\ client \in Records /\ ttl_max \in Ttl
  BY <1>1, RunningState
<1>3. now[f] \in ClientRec
  BY <1>1, <1>2, AfterAlarmRecords, LiveRecords
<1>4. cl \in Records /\ cl[f] = Noted(m, now[f])
  BY <1>2, <1>3, NotedRecord DEF Put, Records
<1>5. event \in Granting => cl[f].ttlcounter <= ttl_max
  BY <1>3, <1>4, GrantedTtl
<1>6. Crash(cl) \/ FSM_func(pool, cl, f, event)
  BY DEF RecvKnown
<1> HIDE DEF now, cl, event
<1>7. CASE FSM_func(pool, cl, f, event)
  BY <1>1, <1>2, <1>4, <1>5, <1>7, FSMGranted, GrantedStep
<1> QED  BY <1>6, <1>7, SilentStep DEF Crash, NoRow

LEMMA RecvNewAnswered ==
    ASSUME IInv, [Next]_vars, NEW f \in Endpoint, NEW m \in Datagram, RecvNew(f, m)
    PROVE  Answered'
<1> DEFINE now == AfterAlarm(alarm_flag)
           cl == Put(now, f, create_client)
<1>1. /\ pc # "config" /\ Len(pool) # 0 /\ ttl_max' = ttl_max
      /\ FSM_func(fetch_addr_pool(pool), cl, f, recv_discover(m))
  BY DEF RecvNew, Pass, is_addr_pool_empty
<1>2. now \in Records /\ pool \in Seq(Addr) /\ ttl_max \in Ttl
  BY <1>1, RunningState
<1>3. cl \in Records
  BY <1>1, <1>2, CreatedRecord DEF Put, Records
<1>4. recv_discover(m) \notin Granting
  BY DEF recv_discover, Granting
<1> HIDE DEF now, cl
<1> QED  BY <1>1, <1>2, <1>3, <1>4, FSMGranted, GrantedStep

\* The pool is empty and the endpoint has no record: the configured addresses
\* are those of the records.
LEMMA RecvNoIpAnswered ==
    ASSUME IInv, [Next]_vars, NEW f \in Endpoint, NEW m \in Datagram, RecvNoIp(f, m)
    PROVE  Answered'
<1>1. /\ pc # "config" /\ f \notin Live(client) /\ Len(pool) = 0 /\ pool' = pool
      /\ Send(f, Bare("OFFER", "ERR_NOIP")) /\ client' = AfterAlarm(alarm_flag)
  BY DEF RecvNoIp, Pass, send_offer_ng, is_addr_pool_empty
<1>2. client \in Records /\ Partition(pool', client')
  BY <1>1, RunningState, NextPartition
<1>3. f \notin Live(client')
  BY <1>1, <1>2, AfterAlarmRecords
<1>4. Elements(pool') = {}
  BY <1>1 DEF Elements
<1>5. \A a \in Elements(Config) : \E e \in Live(client') : client'[e].addr = a
  BY <1>2, <1>4 DEF Partition, Held
<1>6. \A d \in sent' : d.to = f /\ d.msg.code = "ERR_NOIP"
  BY <1>1 DEF Send, Bare
<1> QED  BY <1>3, <1>5, <1>6 DEF Answered, GrantIsBacked, RefusedOnlyWhenFull

LEMMA RecvUnknownAnswered ==
    ASSUME IInv, [Next]_vars, NEW f \in Endpoint, RecvUnknown(f)
    PROVE  Answered'
<1> DEFINE cl == AfterAlarm(alarm_flag)
<1>1. pc # "config" /\ ttl_max' = ttl_max
  BY DEF RecvUnknown, Pass
<1>2. cl \in Records /\ ttl_max \in Ttl
  BY <1>1, RunningState
<1>3. \/ client_ptr \in Endpoint /\ FSM_func(pool, cl, client_ptr, "unknown_msg")
      \/ SendNothing
  BY DEF RecvUnknown, Crash, NoRow, Live
<1>4. "unknown_msg" \notin Granting
  BY DEF Granting
<1> HIDE DEF cl
<1> QED  BY <1>1, <1>2, <1>3, <1>4, FSMGranted, GrantedStep, SilentStep

LEMMA NextAnswered ==
    IInv /\ Answered /\ SilentFirst /\ [Next]_vars => Answered' /\ SilentFirst'
<1> SUFFICES ASSUME IInv, Answered, SilentFirst, [Next]_vars
             PROVE  Answered' /\ SilentFirst'
  OBVIOUS
<1>1. ASSUME NEW f \in Endpoint, Receive(f) PROVE Answered'
  <2>1. ASSUME NEW m \in Datagram, RecvStranger(f, m) PROVE SendNothing
    BY <2>1 DEF RecvStranger, Crash, NoRow
  <2> QED  BY <1>1, <2>1, RecvKnownAnswered, RecvNewAnswered, RecvNoIpAnswered,
              RecvUnknownAnswered, SilentStep DEF Receive, RecvEmpty
<1>2. ASSUME NEW e \in Endpoint, TtlTimeout(e) \/ ReqTimeout(e) PROVE Answered'
  <2>1. PICK event \in {"ttl_timeout", "req_timeout"} :
          FSM_func(pool, client, e, event) /\ ttl_max' = ttl_max /\ pc # "config"
    BY <1>2 DEF TtlTimeout, ReqTimeout, Scan
  <2>2. client \in Records /\ ttl_max \in Ttl /\ event \notin Granting
    BY DEF IInv, TypeOK, Records, Granting
  <2> QED  BY <2>1, <2>2, FSMGranted, GrantedStep
<1>3. ASSUME InterruptedByAlarm \/ InterruptedByStop \/ TtlScanned \/ ToutScanned \/ Drained
      PROVE  Answered'
  BY <1>3, SilentStep DEF InterruptedByAlarm, InterruptedByStop, Interrupted, TtlScanned,
                          ToutScanned, Drained, NoRow
<1>4. ASSUME NEW e \in Endpoint, Drain(e) PROVE Answered'
  BY <1>4, SilentStep DEF Drain, release_client
<1>5. ASSUME read_config PROVE Answered'
  <2>1. SendNothing
    BY <1>5 DEF read_config, SilentFirst, SendNothing
  <2> QED  BY <2>1, SilentStep
<1>6. ASSUME Signals \/ UNCHANGED vars PROVE Answered'
  BY <1>6 DEF Signals, sigalrm_handler, sigint_handler, vars, Answered, GrantIsBacked,
              RefusedOnlyWhenFull
<1>7. SilentFirst'
  <2>1. CASE pc # "config"
    BY <2>1, RunningNext DEF SilentFirst
  <2>2. CASE pc = "config"
    <3>1. sent' = sent
      BY <2>2 DEF Next, vars, read_config, Signals, sigalrm_handler, sigint_handler,
         InterruptedByAlarm, InterruptedByStop, Interrupted, Receive, RecvKnown, RecvNew,
         RecvNoIp, RecvStranger, RecvUnknown, RecvEmpty, Pass, Timers, TtlTimeout,
         ReqTimeout, TtlScanned, ToutScanned, Stopping, Drain, Drained, Scan, Ended
    <3> QED  BY <2>2, <3>1 DEF SilentFirst
  <2> QED  BY <2>1, <2>2
<1> QED  BY <1>1, <1>2, <1>3, <1>4, <1>5, <1>6, <1>7 DEF Next, Timers, Stopping, Ended

LEMMA InitAnswered == Init => Answered /\ SilentFirst
BY DEF Init, Answered, GrantIsBacked, RefusedOnlyWhenFull, SilentFirst

\* What an OFFER or ACK grants is reserved for its receiver when it is sent, for
\* no longer than the configuration allows (send_offer_ok, resend_offer,
\* send_ack_ok).
THEOREM GrantsBacked == Spec => []GrantIsBacked
<1>1. Answered => GrantIsBacked
  BY DEF Answered
<1> QED  BY InitIInv, NextIInv, InitAnswered, NextAnswered, <1>1, PTL DEF Spec

\* An endpoint is refused only while every configured address belongs to the
\* record of another (create_client, send_offer_ng).
THEOREM RefusedWhenFull == Spec => []RefusedOnlyWhenFull
<1>1. Answered => RefusedOnlyWhenFull
  BY DEF Answered
<1> QED  BY InitIInv, NextIInv, InitAnswered, NextAnswered, <1>1, PTL DEF Spec

(***************************************************************************)
(* Records.  old are the records before the step, or in the middle of it.  *)
(***************************************************************************)
ForwardFrom(old) ==
    \A e \in Live(old) \cap Live(client') : /\ Rank(client'[e]) >= Rank(old[e])
                                            /\ client'[e].addr = old[e].addr

\* The rank of a record is that of its state.
LEMMA RankRecord ==
    ASSUME NEW c \in ClientRec
    PROVE  /\ Rank(c) \in 1 .. 4
           /\ \A d \in ClientRec : d.stat = c.stat => Rank(d) = Rank(c)
           /\ c.stat = "init" => Rank(c) = 1
           /\ c.stat = "wait_req1" => Rank(c) = 2
           /\ c.stat = "wait_req2" => Rank(c) = 3
           /\ c.stat = "in_use" => Rank(c) = 4
BY DEF Rank, ClientRec, Stat

\* Records with the same states and addresses are no step back.
LEMMA SameForward ==
    ASSUME NEW old \in Records, client' \in Records,
           \A e \in Live(old) \cap Live(client') : /\ client'[e].stat = old[e].stat
                                                   /\ client'[e].addr = old[e].addr
    PROVE  ForwardFrom(old)
<1> SUFFICES ASSUME NEW e \in Live(old) \cap Live(client')
             PROVE  /\ Rank(client'[e]) >= Rank(old[e])
                    /\ client'[e].addr = old[e].addr
  BY DEF ForwardFrom
<1>1. old[e] \in ClientRec /\ client'[e] \in ClientRec
  BY LiveRecords DEF Live
<1> QED  BY <1>1, RankRecord

\* No row of pstab leads to an earlier state.
LEMMA FSMForward ==
    ASSUME NEW p, NEW cl \in Records, NEW e \in Endpoint, NEW event,
           client' \in Records, FSM_func(p, cl, e, event)
    PROVE  ForwardFrom(cl)
<1>1. ASSUME NEW c \in ClientRec, NEW stat \in Stat, cl[e] \in ClientRec,
             c.addr = cl[e].addr, client' = Put(cl, e, in_state(c, stat)),
             \/ cl[e].stat = "init"
             \/ cl[e].stat \in {"wait_req1", "wait_req2"} /\ stat \in {"wait_req2", "in_use"}
             \/ stat = "in_use"
      PROVE  ForwardFrom(cl)
  <2>1. /\ in_state(c, stat) \in ClientRec /\ in_state(c, stat).stat = stat
        /\ in_state(c, stat).addr = cl[e].addr
    BY <1>1, InStateRecord
  <2>2. Rank(in_state(c, stat)) >= Rank(cl[e])
    BY <1>1, <2>1, RankRecord DEF ClientRec, Stat
  <2>3. ASSUME NEW f \in Live(cl), f # e
        PROVE  client'[f] = cl[f] /\ Rank(cl[f]) \in 1 .. 4
    BY <1>1, <2>3, LiveRecords, RankRecord DEF Put, Live
  <2>4. client'[e] = in_state(c, stat)
    BY <1>1 DEF Put
  <2> QED  BY <2>1, <2>2, <2>3, <2>4 DEF ForwardFrom
<1>2. ASSUME NEW func, Calls(cl, e, event, func)
      PROVE  cl[e] \in ClientRec
  BY <1>2 DEF Calls, pstab, Records, NoClient
<1>3. CASE Calls(cl, e, event, "send_offer_ok") /\ send_offer_ok(p, cl, e)
  <2>1. cl[e].stat = "init"
    BY <1>3 DEF Calls, pstab
  <2> QED  BY <1>1, <1>2, <1>3, <2>1 DEF send_offer_ok, change_state, Stat
<1>4. CASE Calls(cl, e, event, "resend_offer") /\ resend_offer(p, cl, e)
  <2>1. cl[e].stat = "wait_req1"
    BY <1>4 DEF Calls, pstab
  <2> QED  BY <1>1, <1>2, <1>4, <2>1 DEF resend_offer, change_state, Stat
<1>5. ASSUME send_ack_ok(p, cl, e), cl[e] \in ClientRec
      PROVE  ForwardFrom(cl)
  <2> DEFINE c == [cl[e] EXCEPT !.ttl = cl[e].ttlcounter]
  <2>1. c \in ClientRec /\ c.addr = cl[e].addr
    BY <1>5 DEF ClientRec
  <2>2. client' = Put(cl, e, in_state(c, "in_use"))
    BY <1>5 DEF send_ack_ok, change_state
  <2> HIDE DEF c
  <2> QED  BY <1>1, <1>5, <2>1, <2>2 DEF Stat
<1>6. CASE Calls(cl, e, event, "send_ack_ok") /\ send_ack_ok(p, cl, e)
  BY <1>2, <1>5, <1>6
<1>7. CASE Calls(cl, e, event, "reset_ttl") /\ reset_ttl(p, cl, e)
  BY <1>2, <1>5, <1>7 DEF reset_ttl
<1>8. ASSUME terminate(p, cl, e)
      PROVE  ForwardFrom(cl)
  <2>1. \A f \in Live(client') : client'[f] = cl[f]
    BY <1>8 DEF terminate, Put, Live, NoClient
  <2> QED  BY <2>1, SameForward
<1>9. CASE Calls(cl, e, event, "send_ack_ng") /\ send_ack_ng(p, cl, e)
  BY <1>8, <1>9 DEF send_ack_ng
<1>10. CASE Calls(cl, e, event, "release_client") /\ release_client(p, cl, e)
  BY <1>8, <1>10 DEF release_client
<1>11. CASE Ignored(cl, e, event) /\ NoRow(p, cl)
  BY <1>11, SameForward DEF NoRow
<1> QED  BY <1>3, <1>4, <1>6, <1>7, <1>9, <1>10, <1>11 DEF FSM_func

\* What is no step back from the middle of a step is none from its beginning,
\* when the records in the middle have the states and addresses of the first.
LEMMA ForwardFromStart ==
    ASSUME client \in Records, client' \in Records, NEW cl \in Records, ForwardFrom(cl),
           \A e \in Live(client) \cap Live(client') :
              cl[e].stat = client[e].stat /\ cl[e].addr = client[e].addr
    PROVE  ForwardFrom(client)
<1> SUFFICES ASSUME NEW e \in Live(client) \cap Live(client')
             PROVE  /\ Rank(client'[e]) >= Rank(client[e])
                    /\ client'[e].addr = client[e].addr
  BY DEF ForwardFrom
<1>1. e \in Live(cl) /\ cl[e].stat = client[e].stat /\ cl[e].addr = client[e].addr
  BY DEF Live
<1>2. client[e] \in ClientRec /\ cl[e] \in ClientRec
  BY <1>1, LiveRecords DEF Live
<1> QED  BY <1>1, <1>2, RankRecord DEF ForwardFrom

LEMMA ReceiveForward ==
    ASSUME IInv, [Next]_vars, NEW f \in Endpoint, Receive(f)
    PROVE  ForwardFrom(client)
<1> DEFINE now == AfterAlarm(alarm_flag)
<1>1. pc # "config"
  BY DEF Receive, RecvKnown, RecvNew, RecvNoIp, RecvStranger, RecvUnknown, RecvEmpty, Pass
<1>2. client \in Records /\ client' \in Records /\ now \in Records /\ pool \in Seq(Addr)
  BY <1>1, RunningState, NextPartition
<1>3. /\ Live(now) = Live(client)
      /\ \A e \in Endpoint : now[e].addr = client[e].addr /\ now[e].stat = client[e].stat
  BY <1>2, AfterAlarmRecords
<1>4. ASSUME client' = now PROVE ForwardFrom(client)
  BY <1>2, <1>3, <1>4, SameForward DEF Live
<1>5. ASSUME NEW m \in Datagram, RecvKnown(f, m)
      PROVE  ForwardFrom(client)
  <2> DEFINE cl == Put(now, f, Noted(m, now[f]))
             event == get_event(m, cl[f])
  <2>1. f \in Live(client)
    BY <1>5 DEF RecvKnown
  <2>2. now[f] \in ClientRec
    BY <1>2, <1>3, <2>1, LiveRecords
  <2>3. cl \in Records /\ \A e \in Endpoint : /\ cl[e].addr = client[e].addr
                                              /\ cl[e].stat = client[e].stat
    BY <1>2, <1>3, <2>2, NotedRecord DEF Put, Records
  <2>4. client' = cl \/ FSM_func(pool, cl, f, event)
    BY <1>5 DEF RecvKnown, Crash, NoRow
  <2> HIDE DEF now, cl, event
  <2>5. ForwardFrom(cl)
    BY <1>2, <2>3, <2>4, FSMForward, SameForward
  <2> QED  BY <1>2, <2>3, <2>5, ForwardFromStart DEF Live
<1>6. ASSUME NEW m \in Datagram, RecvNew(f, m)
      PROVE  ForwardFrom(client)
  <2> DEFINE cl == Put(now, f, create_client)
  <2>1. /\ f \notin Live(client) /\ Len(pool) # 0
        /\ FSM_func(fetch_addr_pool(pool), cl, f, recv_discover(m))
    BY <1>6 DEF RecvNew, is_addr_pool_empty
  <2>2. cl \in Records /\ \A e \in Live(client) : cl[e] = now[e]
    BY <1>2, <2>1, CreatedRecord DEF Put, Records, Live
  <2> HIDE DEF now, cl
  <2>3. ForwardFrom(cl)
    BY <1>2, <2>1, <2>2, FSMForward
  <2> QED  BY <1>2, <1>3, <2>2, <2>3, ForwardFromStart DEF Live
<1>7. ASSUME RecvUnknown(f)
      PROVE  ForwardFrom(client)
  <2>1. \/ client_ptr \in Endpoint /\ FSM_func(pool, now, client_ptr, "unknown_msg")
        \/ client' = now
    BY <1>7 DEF RecvUnknown, Crash, NoRow, Live
  <2> HIDE DEF now
  <2>2. ForwardFrom(now)
    BY <1>2, <2>1, FSMForward, SameForward
  <2> QED  BY <1>2, <1>3, <2>2, ForwardFromStart DEF Live
<1>8. ASSUME NEW m \in Datagram, RecvNoIp(f, m) \/ RecvStranger(f, m)
      PROVE  client' = now
  BY <1>8 DEF RecvNoIp, RecvStranger, Crash, NoRow
<1> QED  BY <1>4, <1>5, <1>6, <1>7, <1>8 DEF Receive, RecvEmpty

LEMMA NextForward == IInv /\ [Next]_vars => ForwardFrom(client)
<1> SUFFICES ASSUME IInv, [Next]_vars PROVE ForwardFrom(client)
  OBVIOUS
<1>1. client \in Records /\ client' \in Records
  BY NextIInv DEF IInv, TypeOK, Records
<1>2. ASSUME NEW e \in Endpoint, TtlTimeout(e) \/ ReqTimeout(e) PROVE ForwardFrom(client)
  BY <1>1, <1>2, FSMForward DEF TtlTimeout, ReqTimeout
<1>3. CASE InterruptedByAlarm \/ InterruptedByStop
  <2>1. PICK alarms : client' = AfterAlarm(alarms)
    BY <1>3 DEF InterruptedByAlarm, InterruptedByStop, Interrupted
  <2> QED  BY <1>1, <2>1, AfterAlarmRecords, SameForward DEF Live
<1>4. ASSUME NEW e \in Endpoint, Drain(e) PROVE ForwardFrom(client)
  <2>1. \A f \in Live(client') : client'[f] = client[f]
    BY <1>4 DEF Drain, release_client, terminate, Put, Live, NoClient
  <2> QED  BY <1>1, <2>1, SameForward
<1>5. CASE client' = client
  BY <1>1, <1>5, SameForward
<1> QED  BY <1>2, <1>3, <1>4, <1>5, ReceiveForward
         DEF Next, Timers, Stopping, Ended, TtlScanned, ToutScanned, Drained, NoRow,
             Signals, sigalrm_handler, sigint_handler, read_config, vars

\* A record only moves towards the lease and its end, and keeps its address, so
\* that no late or repeated message sets it back (pstab, change_state).
THEOREM RecordsMoveForward == Spec => ForwardOnly
<1>1. IInv /\ [Next]_vars =>
        [\A e \in Live(client) \cap Live(client') :
            /\ Rank(client'[e]) >= Rank(client[e])
            /\ client'[e].addr = client[e].addr]_vars
  BY NextForward DEF ForwardFrom
<1> QED  BY InitIInv, NextIInv, <1>1, PTL DEF Spec, ForwardOnly
-----------------------------------------------------------------------------
(***************************************************************************)
(* What a step means for one record: what the composition with the clients *)
(* builds on.  n and k are the pending alarms before and after the step: a *)
(* counter of a record that a step keeps goes down by no more alarms than  *)
(* the step consumes.                                                      *)
(***************************************************************************)
OnTime(old, n, new, k) ==
    /\ new.stat = old.stat /\ new.addr = old.addr
    /\ old.stat = "in_use" => new.ttl - k >= old.ttl - n
    /\ old.stat \in {"wait_req1", "wait_req2"} => new.tout - k >= old.tout - n

LEMMA TickedOnTime ==
    ASSUME NEW c \in ClientRec \cup {NoClient}, NEW n \in Nat, n > 0
    PROVE  OnTime(c, n, ticked(c), n - 1)
<1>1. c.ttl \in Nat /\ c.tout \in Nat
  BY TtlModulusAssumption, MessageTimeoutAssumption DEF ClientRec, NoClient, Ttl
<1>2. Decremented(c.ttl) >= c.ttl - 1 /\ Decremented(c.tout) >= c.tout - 1
      /\ Decremented(c.ttl) \in Nat /\ Decremented(c.tout) \in Nat
  BY <1>1 DEF Decremented
<1>3. CASE c = NoClient
  BY <1>3 DEF NoClient, ticked, OnTime
<1>4. ASSUME c \in ClientRec, c.stat = "in_use" PROVE OnTime(c, n, ticked(c), n - 1)
  <2>1. ticked(c) = decrement_ttl(c)
    BY <1>4 DEF ticked
  <2>2. ticked(c).stat = c.stat /\ ticked(c).addr = c.addr
        /\ ticked(c).ttl = Decremented(c.ttl)
    BY <1>4, <2>1 DEF decrement_ttl, ClientRec
  <2> QED  BY <1>1, <1>2, <1>4, <2>2 DEF OnTime
<1>5. ASSUME c \in ClientRec, c.stat \in {"wait_req1", "wait_req2"}
      PROVE  OnTime(c, n, ticked(c), n - 1)
  <2>1. ticked(c) = decrement_tout(c)
    BY <1>5 DEF ticked
  <2>2. ticked(c).stat = c.stat /\ ticked(c).addr = c.addr
        /\ ticked(c).tout = Decremented(c.tout)
    BY <1>5, <2>1 DEF decrement_tout, ClientRec
  <2> QED  BY <1>1, <1>2, <1>5, <2>2 DEF OnTime
<1>6. CASE c \in ClientRec /\ c.stat = "init"
  BY <1>6 DEF ticked, OnTime
<1> QED  BY <1>3, <1>4, <1>5, <1>6 DEF ClientRec, Stat

\* A pass ticks the records once for each alarm it consumes.
LEMMA AlarmOnTime ==
    ASSUME client \in Records, NEW n \in Nat
    PROVE  \A e \in Endpoint : OnTime(client[e], n, AfterAlarm(n)[e], Decremented(n))
<1>1. CASE n > 0
  BY <1>1, TickedOnTime DEF AfterAlarm, Records, Decremented
<1>2. CASE ~ (n > 0)
  <2>1. AfterAlarm(n) = client /\ Decremented(n) = n
    BY <1>2 DEF AfterAlarm, Decremented
  <2>2. \A e \in Endpoint : client[e].ttl \in Nat /\ client[e].tout \in Nat
    BY TtlModulusAssumption, MessageTimeoutAssumption
       DEF Records, ClientRec, NoClient, Ttl
  <2> QED  BY <2>1, <2>2 DEF OnTime
<1> QED  BY <1>1, <1>2

Kept(e) == OnTime(client[e], alarm_flag, client'[e], alarm_flag')

\* A request was granted: the lease starts.
LeasedTo(f, m) ==
    /\ m.type = "REQUEST" /\ m.ttl <= ttl_max /\ Names(m, client[f])
    /\ client'[f].stat = "in_use" /\ client'[f].ttl = m.ttl
    /\ client'[f].addr = client[f].addr
    /\ sent' = {[to |-> f, msg |-> Grant("ACK", "OK", m.ttl, client[f].addr, "mask")]}

\* An OFFER of address a was made, or repeated.
OfferedTo(f, a, stat) ==
    /\ client'[f].stat = stat /\ client'[f].tout = MessageTimeout
    /\ client'[f].addr = a
    /\ sent' = {[to |-> f, msg |-> Grant("OFFER", "OK", ttl_max, a, "mask")]}

\* A message that a client whose record is c does not send while it uses c's
\* address or asks for it.
Malformed(m, c) ==
    \/ m.type = "DISCOVER" /\ m # Bare("DISCOVER", "OK")
    \/ m.type = "REQUEST" /\ m.code \notin {"REQ_ALLOC", "REQ_EXT"}
    \/ m.type = "REQUEST" /\ ~ (m.ttl <= ttl_max /\ Names(m, c))
    \/ m.type = "RELEASE"

\* A record is freed by such a message.
Refused(f, m) ==
    /\ Malformed(m, client[f])
    /\ client'[f] = NoClient
    /\ sent' \subseteq {[to |-> f, msg |-> Bare("ACK", "ERR_REQ")]}

\* The events a message leads to.
LEMMA MessageEvent ==
    ASSUME NEW c \in ClientRec, NEW m \in Datagram
    PROVE  LET event == get_event(m, Noted(m, c))
           IN  /\ event \notin {"ttl_timeout", "req_timeout"}
               /\ event \in Granting =>
                     /\ m.type = "REQUEST" /\ m.ttl <= ttl_max /\ Names(m, c)
                     /\ Noted(m, c).ttlcounter = m.ttl
               /\ event \in {"unknown_msg", "release_ok", "request_alloc_ng",
                             "request_ext_ng"} => Malformed(m, c)
<1> DEFINE d == Noted(m, c)
           event == get_event(m, d)
<1>1. m.type \in DhcpType
  BY DatagramAssumption DEF Message
<1>2. Names(m, d) <=> Names(m, c)
  BY NotedRecord DEF Names
<1>3. CASE m.type = "DISCOVER"
  BY <1>3 DEF get_event, recv_discover, Granting, Malformed
<1>4. CASE m.type = "REQUEST"
  <2>1. event = recv_request(m, d)
    BY <1>4 DEF get_event
  <2>2. CASE m.code \notin {"REQ_ALLOC", "REQ_EXT"}
    <3>1. event = "unknown_msg"
      BY <2>1, <2>2 DEF recv_request
    <3> QED  BY <1>4, <2>2, <3>1 DEF Granting, Malformed
  <2>3. CASE m.code \in {"REQ_ALLOC", "REQ_EXT"}
    <3>1. d.ttlcounter = m.ttl
      BY <1>4, <2>3, NotedRecord DEF Requests
    <3>2. CASE m.ttl <= ttl_max /\ Names(m, c)
      <4>1. event \in Granting
        BY <1>2, <2>1, <2>3, <3>2 DEF recv_request, Granting
      <4> QED  BY <1>4, <3>1, <3>2, <4>1 DEF Granting
    <3>3. CASE ~ (m.ttl <= ttl_max /\ Names(m, c))
      <4>1. event \in {"request_alloc_ng", "request_ext_ng"}
        BY <1>2, <2>1, <2>3, <3>3 DEF recv_request
      <4> QED  BY <1>4, <3>3, <4>1 DEF Granting, Malformed
    <3> QED  BY <3>2, <3>3
  <2> QED  BY <2>2, <2>3
<1>5. CASE m.type = "RELEASE"
  BY <1>5 DEF get_event, recv_release, Granting, Malformed
<1>6. CASE m.type \notin {"DISCOVER", "REQUEST", "RELEASE"}
  BY <1>6 DEF get_event, Granting
<1> QED  BY <1>3, <1>4, <1>5, <1>6

\* send_ack_ok and reset_ttl, when they answer m.
LEMMA AckedRecord ==
    ASSUME NEW cl \in Records, NEW f \in Endpoint, cl[f] \in ClientRec, NEW p,
           send_ack_ok(p, cl, f)
    PROVE  /\ client'[f].stat = "in_use" /\ client'[f].ttl = cl[f].ttlcounter
           /\ client'[f].addr = cl[f].addr
           /\ \A e \in Endpoint \ {f} : client'[e] = cl[e]
           /\ sent' = {[to |-> f, msg |-> Grant("ACK", "OK", cl[f].ttlcounter, cl[f].addr, "mask")]}
<1> DEFINE c == [cl[f] EXCEPT !.ttl = cl[f].ttlcounter]
<1>1. c \in ClientRec /\ c.ttl = cl[f].ttlcounter /\ c.addr = cl[f].addr
  BY DEF ClientRec
<1>2. client' = Put(cl, f, in_state(c, "in_use"))
  BY DEF send_ack_ok, change_state
<1> HIDE DEF c
<1>3. client'[f] = in_state(c, "in_use") /\ \A e \in Endpoint \ {f} : client'[e] = cl[e]
  BY <1>2 DEF Put
<1>4. sent' = {[to |-> f, msg |-> Grant("ACK", "OK", cl[f].ttlcounter, cl[f].addr, "mask")]}
  BY DEF send_ack_ok, Send
<1> QED  BY <1>1, <1>3, <1>4, InStateRecord DEF Stat

\* send_offer_ok and resend_offer.
LEMMA OfferedRecord ==
    ASSUME NEW cl \in Records, NEW f \in Endpoint, cl[f] \in ClientRec, NEW p,
           NEW stat \in {"wait_req1", "wait_req2"},
           Send(f, OfferOk(cl[f])), change_state(p, cl, f, cl[f], stat)
    PROVE  /\ OfferedTo(f, cl[f].addr, stat)
           /\ \A e \in Endpoint \ {f} : client'[e] = cl[e]
<1>1. client'[f] = in_state(cl[f], stat) /\ \A e \in Endpoint \ {f} : client'[e] = cl[e]
  BY DEF change_state, Put
<1>2. /\ in_state(cl[f], stat).stat = stat /\ in_state(cl[f], stat).addr = cl[f].addr
      /\ in_state(cl[f], stat).tout = MessageTimeout
  BY MessageTimeoutAssumption DEF in_state, ClientRec
<1> QED  BY <1>1, <1>2 DEF OfferedTo, OfferOk, Send

\* A message of an endpoint that has a record.
LEMMA KnownRecord ==
    ASSUME IInv, NEW f \in Endpoint, NEW m \in Datagram, RecvKnown(f, m)
    PROVE  /\ \A e \in Endpoint \ {f} : Kept(e)
           /\ alarm_flag' = Decremented(alarm_flag)
           /\ \/ Kept(f) /\ sent' = {}
              \/ LeasedTo(f, m)
              \/ client[f].stat = "init"
              \/ Refused(f, m)
<1> DEFINE now == AfterAlarm(alarm_flag)
           cl == Put(now, f, Noted(m, now[f]))
           event == get_event(m, cl[f])
<1>1. f \in Live(client) /\ pc # "config" /\ alarm_flag' = Decremented(alarm_flag)
  BY DEF RecvKnown, Pass, ConsumeAlarm
<1>2. now \in Records /\ client \in Records /\ alarm_flag \in Nat
  BY <1>1, RunningState, MaxAlarmAssumption DEF TypeOK
<1>3. now[f] \in ClientRec
  BY <1>1, <1>2, AfterAlarmRecords, LiveRecords
<1>4. \A e \in Endpoint : OnTime(client[e], alarm_flag, now[e], alarm_flag')
  BY <1>1, <1>2, AlarmOnTime
<1>5. /\ Noted(m, now[f]) \in ClientRec /\ Noted(m, now[f]).stat = now[f].stat
      /\ Noted(m, now[f]).ttl = now[f].ttl /\ Noted(m, now[f]).addr = now[f].addr
      /\ Noted(m, now[f]).tout = now[f].tout
  BY <1>3, NotedRecord DEF Noted, ClientRec
<1>6. cl \in Records /\ cl[f] = Noted(m, now[f]) /\ \A e \in Endpoint \ {f} : cl[e] = now[e]
  BY <1>2, <1>5 DEF Put, Records
<1>7. Crash(cl) \/ FSM_func(pool, cl, f, event)
  BY DEF RecvKnown
<1>8. event = get_event(m, Noted(m, now[f]))
  BY <1>6
<1> HIDE DEF now, cl, event
<1>9. \A e \in Endpoint : OnTime(client[e], alarm_flag, cl[e], alarm_flag')
  BY <1>4, <1>5, <1>6 DEF OnTime
<1>10. client[f].stat = now[f].stat /\ client[f].addr = now[f].addr
  BY <1>4 DEF OnTime
<1>11. Malformed(m, now[f]) => Malformed(m, client[f])
  BY <1>10 DEF Malformed, Names
<1>12. CASE client' = cl /\ sent' = {}
  BY <1>1, <1>9, <1>12 DEF Kept
<1>13. ASSUME NEW func, Calls(cl, f, event, func), func \in {"send_ack_ok", "reset_ttl"},
              send_ack_ok(pool, cl, f)
       PROVE  (\A e \in Endpoint \ {f} : Kept(e)) /\ LeasedTo(f, m)
  <2>1. event \in Granting
    BY <1>13 DEF Calls, pstab, Granting
  <2>2. /\ m.type = "REQUEST" /\ m.ttl <= ttl_max /\ Names(m, now[f])
        /\ Noted(m, now[f]).ttlcounter = m.ttl
    BY <1>3, <1>8, <2>1, MessageEvent
  <2>3. /\ client'[f].stat = "in_use" /\ client'[f].ttl = m.ttl
        /\ client'[f].addr = now[f].addr
        /\ \A e \in Endpoint \ {f} : client'[e] = cl[e]
        /\ sent' = {[to |-> f, msg |-> Grant("ACK", "OK", m.ttl, now[f].addr, "mask")]}
    BY <1>5, <1>6, <1>13, <2>2, AckedRecord
  <2>4. Names(m, client[f])
    BY <1>10, <2>2 DEF Names
  <2> QED  BY <1>9, <1>10, <2>2, <2>3, <2>4 DEF Kept, LeasedTo
<1>14. ASSUME NEW func, Calls(cl, f, event, func), func \in {"send_ack_ng", "release_client"},
              client' = Put(cl, f, NoClient),
              sent' \subseteq {[to |-> f, msg |-> Bare("ACK", "ERR_REQ")]}
       PROVE  (\A e \in Endpoint \ {f} : Kept(e)) /\ Refused(f, m)
  <2>1. event \in {"unknown_msg", "release_ok", "request_alloc_ng", "request_ext_ng",
                   "ttl_timeout", "req_timeout"}
    BY <1>14 DEF Calls, pstab
  <2>2. Malformed(m, now[f])
    BY <1>3, <1>8, <2>1, MessageEvent
  <2>3. client'[f] = NoClient /\ \A e \in Endpoint \ {f} : client'[e] = cl[e]
    BY <1>14 DEF Put
  <2> QED  BY <1>9, <1>11, <1>14, <2>2, <2>3 DEF Kept, Refused
<1>15. CASE Crash(cl)
  BY <1>12, <1>15 DEF Crash, NoRow, SendNothing
<1>16. CASE Calls(cl, f, event, "send_offer_ok") /\ send_offer_ok(pool, cl, f)
  <2>1. cl[f].stat = "init"
    BY <1>16 DEF Calls, pstab
  <2>2. \A e \in Endpoint \ {f} : client'[e] = cl[e]
    BY <1>16 DEF send_offer_ok, change_state, Put
  <2> QED  BY <1>1, <1>5, <1>6, <1>9, <1>10, <2>1, <2>2 DEF Kept
<1>17. CASE Calls(cl, f, event, "resend_offer")
  <2>1. event = "req_timeout"
    BY <1>17 DEF Calls, pstab
  <2> QED  BY <1>3, <1>8, <2>1, MessageEvent
<1>18. CASE Calls(cl, f, event, "send_ack_ok") /\ send_ack_ok(pool, cl, f)
  BY <1>1, <1>13, <1>18
<1>19. CASE Calls(cl, f, event, "reset_ttl") /\ reset_ttl(pool, cl, f)
  BY <1>1, <1>13, <1>19 DEF reset_ttl
<1>20. CASE Calls(cl, f, event, "send_ack_ng") /\ send_ack_ng(pool, cl, f)
  BY <1>1, <1>14, <1>20 DEF send_ack_ng, terminate, Send
<1>21. CASE Calls(cl, f, event, "release_client") /\ release_client(pool, cl, f)
  BY <1>1, <1>14, <1>21 DEF release_client, terminate, SendNothing
<1>22. CASE Ignored(cl, f, event) /\ NoRow(pool, cl)
  BY <1>12, <1>22 DEF NoRow, SendNothing
<1> QED  BY <1>1, <1>7, <1>15, <1>16, <1>17, <1>18, <1>19, <1>20, <1>21, <1>22 DEF FSM_func

\* A DISCOVER of a new endpoint, when there is an address: it is offered.
LEMMA NewRecord ==
    ASSUME IInv, NEW f \in Endpoint, RecvNew(f, Bare("DISCOVER", "OK"))
    PROVE  /\ \A e \in Endpoint \ {f} : Kept(e)
           /\ client[f].stat = "none" /\ Len(pool) # 0
           /\ OfferedTo(f, Head(pool), "wait_req1")
<1> DEFINE now == AfterAlarm(alarm_flag)
           cl == Put(now, f, create_client)
<1>1. /\ f \notin Live(client) /\ pc # "config" /\ alarm_flag' = Decremented(alarm_flag)
      /\ FSM_func(fetch_addr_pool(pool), cl, f, "discover") /\ Len(pool) # 0
  BY DEF RecvNew, Pass, ConsumeAlarm, recv_discover, is_addr_pool_empty
<1>2. now \in Records /\ client \in Records /\ alarm_flag \in Nat /\ pool \in Seq(Addr)
  BY <1>1, RunningState, MaxAlarmAssumption DEF TypeOK
<1>3. \A e \in Endpoint : OnTime(client[e], alarm_flag, now[e], alarm_flag')
  BY <1>1, <1>2, AlarmOnTime
<1>4. create_client \in ClientRec /\ create_client.addr = Head(pool)
      /\ create_client.stat = "init"
  BY <1>1, <1>2, CreatedRecord
<1>5. cl \in Records /\ cl[f] = create_client /\ \A e \in Endpoint \ {f} : cl[e] = now[e]
  BY <1>2, <1>4 DEF Put, Records
<1> HIDE DEF now, cl
<1>6. send_offer_ok(fetch_addr_pool(pool), cl, f)
  BY <1>1, <1>4, <1>5 DEF FSM_func, Calls, Ignored, pstab
<1>7. /\ OfferedTo(f, Head(pool), "wait_req1")
      /\ \A e \in Endpoint \ {f} : client'[e] = cl[e]
  BY <1>4, <1>5, <1>6, OfferedRecord DEF send_offer_ok
<1> QED  BY <1>1, <1>3, <1>5, <1>7 DEF Kept, Live

\* Messages that leave all records alone.
LEMMA OtherRecords ==
    ASSUME IInv, NEW f \in Endpoint, NEW m \in Datagram, RecvNoIp(f, m) \/ RecvStranger(f, m)
    PROVE  /\ \A e \in Endpoint : Kept(e)
           /\ sent' \subseteq {[to |-> f, msg |-> Bare("OFFER", "ERR_NOIP")]}
<1>1. pc # "config" /\ alarm_flag' = Decremented(alarm_flag)
  BY DEF RecvNoIp, RecvStranger, Pass, ConsumeAlarm
<1>2. client' = AfterAlarm(alarm_flag)
  BY DEF RecvNoIp, RecvStranger, Crash, NoRow
<1>3. client \in Records /\ alarm_flag \in Nat
  BY <1>1, RunningState, MaxAlarmAssumption DEF TypeOK
<1>4. sent' \subseteq {[to |-> f, msg |-> Bare("OFFER", "ERR_NOIP")]}
  BY DEF RecvNoIp, RecvStranger, send_offer_ng, Send, Crash, NoRow, SendNothing
<1> QED  BY <1>1, <1>2, <1>3, <1>4, AlarmOnTime DEF Kept

\* The alarm that interrupts recvfrom is consumed by the pass it starts.
LEMMA InterruptedRecord ==
    ASSUME IInv, InterruptedByAlarm
    PROVE  /\ \A e \in Endpoint : OnTime(client[e], alarm_flag + 1, client'[e], alarm_flag')
           /\ sent' = {} /\ alarm_flag' = alarm_flag
<1>1. /\ pc # "config" /\ client' = AfterAlarm(alarm_flag + 1) /\ sent' = {}
      /\ alarm_flag' = Decremented(alarm_flag + 1)
  BY DEF InterruptedByAlarm, Interrupted, ConsumeAlarm, SendNothing
<1>2. client \in Records /\ alarm_flag \in Nat
  BY <1>1, RunningState, MaxAlarmAssumption DEF TypeOK
<1>3. alarm_flag' = alarm_flag
  BY <1>1, <1>2 DEF Decremented
<1> QED  BY <1>1, <1>2, <1>3, AlarmOnTime

\* The scans of an idle pass: only a record whose counter ran out changes.
LEMMA TimeoutRecord ==
    ASSUME IInv, NEW f \in Endpoint, TtlTimeout(f) \/ ReqTimeout(f)
    PROVE  /\ \A e \in Endpoint \ {f} : client'[e] = client[e]
           /\ \/ /\ client[f].stat = "in_use" /\ client[f].ttl = 0
                 /\ client'[f] = NoClient /\ sent' = {}
              \/ /\ client[f].stat = "wait_req1" /\ client[f].tout = 0
                 /\ OfferedTo(f, client[f].addr, "wait_req2")
              \/ /\ client[f].stat = "wait_req2" /\ client[f].tout = 0
                 /\ client'[f] = NoClient /\ sent' = {}
<1>1. pc # "config"
  BY DEF TtlTimeout, ReqTimeout, Scan
<1>2. client \in Records
  BY <1>1, RunningState
<1>3. ASSUME release_client(pool, client, f)
      PROVE  /\ \A e \in Endpoint \ {f} : client'[e] = client[e]
             /\ client'[f] = NoClient /\ sent' = {}
  BY <1>3 DEF release_client, terminate, SendNothing, Put
<1>4. CASE TtlTimeout(f)
  <2>1. FSM_func(pool, client, f, "ttl_timeout") /\ Expired(f)
    BY <1>4 DEF TtlTimeout
  <2>2. client[f].stat = "in_use" /\ client[f].ttl = 0 /\ release_client(pool, client, f)
    BY <2>1 DEF Expired, FSM_func, Calls, Ignored, pstab
  <2> QED  BY <1>3, <2>2
<1>5. CASE ReqTimeout(f)
  <2>1. FSM_func(pool, client, f, "req_timeout") /\ Silent(f)
    BY <1>5 DEF ReqTimeout
  <2>2. client[f].tout = 0
    BY <2>1 DEF Silent
  <2>3. \/ client[f].stat = "wait_req1" /\ resend_offer(pool, client, f)
        \/ client[f].stat = "wait_req2" /\ release_client(pool, client, f)
    BY <2>1 DEF Silent, FSM_func, Calls, Ignored, pstab
  <2>4. CASE client[f].stat = "wait_req1" /\ resend_offer(pool, client, f)
    <3>1. client[f] \in ClientRec
      BY <1>2, <2>4, LiveRecords DEF Live
    <3> QED  BY <1>2, <2>2, <2>4, <3>1, OfferedRecord DEF resend_offer
  <2>5. CASE client[f].stat = "wait_req2" /\ release_client(pool, client, f)
    BY <1>3, <2>2, <2>5
  <2> QED  BY <2>3, <2>4, <2>5
<1> QED  BY <1>4, <1>5
-----------------------------------------------------------------------------
(***************************************************************************)
(* The server implements AddressLease for every configuration: each step   *)
(* leaves the holders and leases of the addresses alone, or takes an       *)
(* address for one endpoint, starts one lease, or frees one record.        *)
(***************************************************************************)

(***************************************************************************)
(* What a step may do to the records, from old to new.                     *)
(***************************************************************************)
InUse(cl, e) == cl[e].stat = "in_use"

Alike(old, new, e) == new[e].addr = old[e].addr /\ (InUse(new, e) <=> InUse(old, e))

AllAlike(old, new) == Live(new) = Live(old) /\ \A e \in Live(old) : Alike(old, new, e)

LeaseStarts(old, new, e) ==
    /\ Live(new) = Live(old) /\ e \in Live(old)
    /\ ~ InUse(old, e) /\ InUse(new, e) /\ new[e].addr = old[e].addr
    /\ \A f \in Live(old) \ {e} : Alike(old, new, f)

RecordEnds(old, new, e) ==
    /\ e \in Live(old) /\ Live(new) = Live(old) \ {e}
    /\ \A f \in Live(new) : Alike(old, new, f)

RecordBegins(old, new, e) ==
    /\ e \in Endpoint \ Live(old) /\ Live(new) = Live(old) \cup {e}
    /\ ~ InUse(new, e)
    /\ \A f \in Live(old) : Alike(old, new, f)

Change(old, new) ==
    \/ AllAlike(old, new)
    \/ \E e \in Endpoint : \/ LeaseStarts(old, new, e)
                           \/ RecordEnds(old, new, e)
                           \/ RecordBegins(old, new, e)

\* What happens from the middle of a step on happens from its beginning on.
LEMMA ChangeFromStart ==
    ASSUME NEW old, NEW mid, NEW new, AllAlike(old, mid), Change(mid, new)
    PROVE  Change(old, new)
<1>1. CASE AllAlike(mid, new)
  BY <1>1 DEF AllAlike, Alike, Change
<1>2. ASSUME NEW e \in Endpoint, LeaseStarts(mid, new, e) PROVE LeaseStarts(old, new, e)
  BY <1>2 DEF AllAlike, Alike, LeaseStarts
<1>3. ASSUME NEW e \in Endpoint, RecordEnds(mid, new, e) PROVE RecordEnds(old, new, e)
  BY <1>3 DEF AllAlike, Alike, RecordEnds
<1>4. ASSUME NEW e \in Endpoint, RecordBegins(mid, new, e) PROVE RecordBegins(old, new, e)
  BY <1>4 DEF AllAlike, Alike, RecordBegins
<1> QED  BY <1>1, <1>2, <1>3, <1>4 DEF Change

\* The alarm block only moves counters.
LEMMA AfterAlarmAlike ==
    ASSUME client \in Records, NEW alarms
    PROVE  AllAlike(client, AfterAlarm(alarms))
BY AfterAlarmRecords DEF AllAlike, Alike, InUse, Live

\* Putting a record in the place of another that is not in use, or is as this.
LEMMA PutChange ==
    ASSUME NEW cl \in Records, NEW e \in Endpoint, cl[e] \in ClientRec,
           NEW c \in ClientRec, c.addr = cl[e].addr,
           c.stat = "in_use" \/ cl[e].stat # "in_use"
    PROVE  AllAlike(cl, Put(cl, e, c)) \/ LeaseStarts(cl, Put(cl, e, c), e)
<1> DEFINE new == Put(cl, e, c)
<1>1. new[e] = c /\ \A f \in Endpoint : f # e => new[f] = cl[f]
  BY DEF Put
<1>2. Live(new) = Live(cl) /\ e \in Live(cl) /\ Live(cl) \subseteq Endpoint
  BY <1>1 DEF Live, ClientRec, Stat
<1>3. \A f \in Live(cl) \ {e} : new[f] = cl[f]
  BY <1>1, <1>2
<1> HIDE DEF new
<1>4. new[e].addr = cl[e].addr /\ \A f \in Live(cl) \ {e} : Alike(cl, new, f)
  BY <1>1, <1>3 DEF Alike, InUse
<1>5. ASSUME InUse(new, e) <=> InUse(cl, e)
      PROVE  AllAlike(cl, new)
  <2>1. Alike(cl, new, e)
    BY <1>4, <1>5 DEF Alike
  <2> QED  BY <1>2, <1>4, <2>1 DEF AllAlike
<1>6. ASSUME ~ (InUse(new, e) <=> InUse(cl, e))
      PROVE  LeaseStarts(cl, new, e)
  <2>1. ~ InUse(cl, e) /\ InUse(new, e)
    BY <1>1, <1>6 DEF InUse
  <2> QED  BY <1>2, <1>4, <2>1 DEF LeaseStarts
<1> QED  BY <1>5, <1>6 DEF new

\* What the functions of pstab do to the records.
LEMMA FSMChange ==
    ASSUME NEW p, NEW cl \in Records, NEW e \in Endpoint, NEW event, FSM_func(p, cl, e, event)
    PROVE  Change(cl, client')
<1>1. ASSUME NEW func, Calls(cl, e, event, func)
      PROVE  cl[e] \in ClientRec
  BY <1>1 DEF Calls, pstab, Records, NoClient
<1>2. ASSUME NEW c \in ClientRec, c.addr = cl[e].addr, cl[e] \in ClientRec, NEW stat \in Stat,
             stat = "in_use" \/ cl[e].stat # "in_use", client' = Put(cl, e, in_state(c, stat))
      PROVE  Change(cl, client')
  <2>1. /\ in_state(c, stat) \in ClientRec /\ in_state(c, stat).addr = cl[e].addr
        /\ in_state(c, stat).stat = stat
    BY <1>2, InStateRecord
  <2> QED  BY <1>2, <2>1, PutChange DEF Change
<1>3. CASE Calls(cl, e, event, "send_offer_ok") /\ send_offer_ok(p, cl, e)
  <2>1. cl[e].stat = "init"
    BY <1>3 DEF Calls, pstab
  <2> QED  BY <1>1, <1>2, <1>3, <2>1 DEF send_offer_ok, change_state, Stat
<1>4. CASE Calls(cl, e, event, "resend_offer") /\ resend_offer(p, cl, e)
  <2>1. cl[e].stat = "wait_req1"
    BY <1>4 DEF Calls, pstab
  <2> QED  BY <1>1, <1>2, <1>4, <2>1 DEF resend_offer, change_state, Stat
<1>5. ASSUME send_ack_ok(p, cl, e), cl[e] \in ClientRec
      PROVE  Change(cl, client')
  <2> DEFINE c == [cl[e] EXCEPT !.ttl = cl[e].ttlcounter]
  <2>1. c \in ClientRec /\ c.addr = cl[e].addr
    BY <1>5 DEF ClientRec
  <2>2. client' = Put(cl, e, in_state(c, "in_use"))
    BY <1>5 DEF send_ack_ok, change_state
  <2> HIDE DEF c
  <2> QED  BY <1>2, <1>5, <2>1, <2>2 DEF Stat
<1>6. CASE Calls(cl, e, event, "send_ack_ok") /\ send_ack_ok(p, cl, e)
  BY <1>1, <1>5, <1>6
<1>7. CASE Calls(cl, e, event, "reset_ttl") /\ reset_ttl(p, cl, e)
  BY <1>1, <1>5, <1>7 DEF reset_ttl
<1>8. ASSUME terminate(p, cl, e), cl[e] \in ClientRec
      PROVE  Change(cl, client')
  <2>1. client' = Put(cl, e, NoClient) /\ e \in Live(cl)
    BY <1>8, LiveRecords DEF terminate
  <2>2. Live(client') = Live(cl) \ {e} /\ \A f \in Live(client') : client'[f] = cl[f]
    BY <2>1 DEF Put, Live, NoClient
  <2>3. RecordEnds(cl, client', e)
    BY <2>1, <2>2 DEF RecordEnds, Alike, InUse
  <2> QED  BY <2>3 DEF Change
<1>9. CASE Calls(cl, e, event, "send_ack_ng") /\ send_ack_ng(p, cl, e)
  BY <1>1, <1>8, <1>9 DEF send_ack_ng
<1>10. CASE Calls(cl, e, event, "release_client") /\ release_client(p, cl, e)
  BY <1>1, <1>8, <1>10 DEF release_client
<1>11. CASE Ignored(cl, e, event) /\ NoRow(p, cl)
  BY <1>11 DEF NoRow, Change, AllAlike, Alike
<1> QED  BY <1>3, <1>4, <1>6, <1>7, <1>9, <1>10, <1>11 DEF FSM_func

LEMMA ReceiveChange ==
    ASSUME IInv, NEW f \in Endpoint, Receive(f)
    PROVE  Change(client, client')
<1> DEFINE now == AfterAlarm(alarm_flag)
<1>1. pc # "config"
  BY DEF Receive, RecvKnown, RecvNew, RecvNoIp, RecvStranger, RecvUnknown, RecvEmpty, Pass
<1>2. client \in Records /\ now \in Records /\ pool \in Seq(Addr) /\ AllAlike(client, now)
  BY <1>1, RunningState, AfterAlarmAlike
<1>3. ASSUME client' = now PROVE Change(client, client')
  BY <1>2, <1>3 DEF Change
<1>4. ASSUME NEW m \in Datagram, RecvKnown(f, m)
      PROVE  Change(client, client')
  <2> DEFINE cl == Put(now, f, Noted(m, now[f]))
             event == get_event(m, cl[f])
  <2>1. f \in Live(now)
    BY <1>2, <1>4 DEF RecvKnown, AllAlike
  <2>2. now[f] \in ClientRec
    BY <1>2, <2>1, LiveRecords
  <2>3. /\ Noted(m, now[f]) \in ClientRec /\ Noted(m, now[f]).addr = now[f].addr
        /\ Noted(m, now[f]).stat = now[f].stat
    BY <2>2, NotedRecord
  <2>4. cl \in Records /\ cl[f] = Noted(m, now[f]) /\ \A e \in Endpoint \ {f} : cl[e] = now[e]
    BY <1>2, <2>3 DEF Put, Records
  <2>5. client' = cl \/ FSM_func(pool, cl, f, event)
    BY <1>4 DEF RecvKnown, Crash, NoRow
  <2> HIDE DEF now, cl, event
  <2>6. Live(cl) = Live(now)
    BY <2>3, <2>4 DEF Live
  <2>7. AllAlike(now, cl)
    BY <2>3, <2>4, <2>6 DEF AllAlike, Alike, InUse, Live
  <2>8. AllAlike(client, cl)
    BY <1>2, <2>7 DEF AllAlike, Alike
  <2>9. CASE client' = cl
    BY <2>8, <2>9 DEF Change
  <2> QED  BY <2>4, <2>5, <2>8, <2>9, FSMChange, ChangeFromStart
<1>5. ASSUME NEW m \in Datagram, RecvNew(f, m)
      PROVE  Change(client, client')
  <2> DEFINE cl == Put(now, f, create_client)
  <2>1. /\ f \notin Live(client) /\ Len(pool) # 0
        /\ FSM_func(fetch_addr_pool(pool), cl, f, recv_discover(m))
    BY <1>5 DEF RecvNew, is_addr_pool_empty
  <2>2. create_client \in ClientRec /\ create_client.stat = "init"
    BY <1>2, <2>1, CreatedRecord
  <2>3. cl \in Records /\ cl[f] = create_client /\ \A e \in Endpoint \ {f} : cl[e] = now[e]
    BY <1>2, <2>2 DEF Put, Records
  <2> HIDE DEF now, cl
  <2>4. ASSUME NEW func, Calls(cl, f, recv_discover(m), func)
        PROVE  func = "send_offer_ok"
    BY <2>2, <2>3, <2>4 DEF Calls, pstab, recv_discover
  <2>5. \/ client' = cl
        \/ client' = Put(cl, f, in_state(cl[f], "wait_req1"))
    BY <2>1, <2>4 DEF FSM_func, send_offer_ok, change_state, NoRow
  <2>6. in_state(cl[f], "wait_req1").stat = "wait_req1"
    BY <2>2, <2>3, InStateRecord DEF Stat
  <2>7. /\ client'[f].stat \in {"init", "wait_req1"}
        /\ \A e \in Endpoint \ {f} : client'[e] = now[e]
    BY <2>2, <2>3, <2>5, <2>6 DEF Put
  <2>8. f \notin Live(now)
    BY <1>2, <2>1 DEF AllAlike
  <2>9. Live(client') = Live(now) \cup {f}
    BY <2>7 DEF Live
  <2>10. \A e \in Live(now) : client'[e] = now[e]
    BY <2>7, <2>8 DEF Live
  <2>11. RecordBegins(now, client', f)
    BY <2>7, <2>8, <2>9, <2>10 DEF RecordBegins, Alike, InUse
  <2> QED  BY <1>2, <2>11, ChangeFromStart DEF Change
<1>6. ASSUME RecvUnknown(f)
      PROVE  Change(client, client')
  <2>1. \/ client_ptr \in Endpoint /\ FSM_func(pool, now, client_ptr, "unknown_msg")
        \/ client' = now
    BY <1>6 DEF RecvUnknown, Crash, NoRow, Live
  <2> HIDE DEF now
  <2> QED  BY <1>2, <1>3, <2>1, FSMChange, ChangeFromStart
<1>7. ASSUME NEW m \in Datagram, RecvNoIp(f, m) \/ RecvStranger(f, m)
      PROVE  client' = now
  BY <1>7 DEF RecvNoIp, RecvStranger, Crash, NoRow
<1> QED  BY <1>3, <1>4, <1>5, <1>6, <1>7 DEF Receive, RecvEmpty

LEMMA NextChange == IInv /\ [Next]_vars => Change(client, client')
<1> SUFFICES ASSUME IInv, [Next]_vars PROVE Change(client, client')
  OBVIOUS
<1>1. client \in Records
  BY DEF IInv, TypeOK, Records
<1>2. ASSUME NEW e \in Endpoint, TtlTimeout(e) \/ ReqTimeout(e) PROVE Change(client, client')
  BY <1>1, <1>2, FSMChange DEF TtlTimeout, ReqTimeout
<1>3. CASE InterruptedByAlarm \/ InterruptedByStop
  <2>1. PICK alarms : client' = AfterAlarm(alarms)
    BY <1>3 DEF InterruptedByAlarm, InterruptedByStop, Interrupted
  <2> QED  BY <1>1, <2>1, AfterAlarmAlike DEF Change
<1>4. ASSUME NEW e \in Endpoint, Drain(e) PROVE Change(client, client')
  <2>1. e \in Live(client) /\ client' = Put(client, e, NoClient)
    BY <1>4 DEF Drain, release_client, terminate
  <2>2. Live(client') = Live(client) \ {e} /\ \A f \in Live(client') : client'[f] = client[f]
    BY <2>1 DEF Put, Live, NoClient
  <2>3. RecordEnds(client, client', e)
    BY <2>1, <2>2 DEF RecordEnds, Alike, InUse
  <2> QED  BY <2>3 DEF Change
<1>5. CASE client' = client
  BY <1>5 DEF Change, AllAlike, Alike
<1> QED  BY <1>2, <1>3, <1>4, <1>5, ReceiveChange
         DEF Next, Timers, Stopping, Ended, TtlScanned, ToutScanned, Drained, NoRow,
             Signals, sigalrm_handler, sigint_handler, read_config, vars

(***************************************************************************)
(* The refinement mapping.                                                 *)
(***************************************************************************)
Has(cl, e, a) == e \in Live(cl) /\ cl[e].addr = a

holderMap(cl) ==
    [a \in Elements(Config) |-> IF \E e \in Live(cl) : cl[e].addr = a
                                THEN CHOOSE e \in Live(cl) : cl[e].addr = a
                                ELSE Nobody]
leasedMap(cl) ==
    [a \in Elements(Config) |-> \E e \in Live(cl) : cl[e].addr = a /\ cl[e].stat = "in_use"]

\* Nobody holds an address twice: the choice of HolderOf is determined.
Apart(cl) ==
    /\ \A e, f \in Live(cl) : cl[e].addr = cl[f].addr => e = f
    /\ \A e \in Live(cl) : cl[e].addr \in Elements(Config)

LEMMA MapFacts ==
    ASSUME NEW cl, Apart(cl), NEW a \in Elements(Config)
    PROVE  /\ \A e \in Live(cl) : cl[e].addr = a => holderMap(cl)[a] = e
           /\ (\A e \in Live(cl) : cl[e].addr # a) => holderMap(cl)[a] = Nobody
           /\ \A e \in Endpoint : holderMap(cl)[a] = e => Has(cl, e, a)
           /\ leasedMap(cl)[a] \in BOOLEAN
           /\ leasedMap(cl)[a] <=> \E e \in Live(cl) : cl[e].addr = a /\ InUse(cl, e)
<1>1. CASE \A e \in Live(cl) : cl[e].addr # a
  BY <1>1, NobodyAssumption DEF holderMap, leasedMap, Has, InUse
<1>2. ASSUME NEW e \in Live(cl), cl[e].addr = a
      PROVE  holderMap(cl)[a] = e
  <2>1. \A f \in Live(cl) : cl[f].addr = a => f = e
    BY <1>2 DEF Apart
  <2> QED  BY <1>2, <2>1 DEF holderMap
<1>3. leasedMap(cl)[a] = \E e \in Live(cl) : cl[e].addr = a /\ InUse(cl, e)
  BY DEF leasedMap, InUse
<1> QED  BY <1>1, <1>2, <1>3 DEF Has, Live

\* An address nobody's record changes for keeps its holder and its lease.
LEMMA MapKept ==
    ASSUME NEW old, NEW new, Apart(old), Apart(new), NEW a \in Elements(Config),
           \A e : Has(old, e, a) <=> Has(new, e, a),
           \A e : Has(old, e, a) => (InUse(old, e) <=> InUse(new, e))
    PROVE  holderMap(new)[a] = holderMap(old)[a] /\ leasedMap(new)[a] = leasedMap(old)[a]
<1>1. leasedMap(new)[a] = leasedMap(old)[a]
  <2>1. leasedMap(new)[a] <=> leasedMap(old)[a]
    BY MapFacts DEF Has
  <2> QED  BY <2>1, MapFacts
<1>2. CASE \E e : Has(old, e, a)
  BY <1>1, <1>2, MapFacts DEF Has
<1>3. CASE ~ \E e : Has(old, e, a)
  BY <1>1, <1>3, MapFacts DEF Has
<1> QED  BY <1>2, <1>3

LEMMA MapAlike ==
    ASSUME NEW old, NEW new, Apart(old), Apart(new), AllAlike(old, new)
    PROVE  holderMap(new) = holderMap(old) /\ leasedMap(new) = leasedMap(old)
<1>1. ASSUME NEW a \in Elements(Config)
      PROVE  holderMap(new)[a] = holderMap(old)[a] /\ leasedMap(new)[a] = leasedMap(old)[a]
  <2>1. /\ \A e : Has(old, e, a) <=> Has(new, e, a)
        /\ \A e : Has(old, e, a) => (InUse(old, e) <=> InUse(new, e))
    BY DEF AllAlike, Alike, Has
  <2> QED  BY <2>1, MapKept
<1>2. holderMap(new) = holderMap(old)
  BY <1>1 DEF holderMap
<1>3. leasedMap(new) = leasedMap(old)
  BY <1>1 DEF leasedMap
<1> QED  BY <1>2, <1>3

\* A lease that starts is Lease of the address.
LEMMA MapLease ==
    ASSUME NEW old, NEW new, Apart(old), Apart(new), NEW e \in Endpoint,
           LeaseStarts(old, new, e)
    PROVE  LET a == old[e].addr
           IN  /\ a \in Elements(Config)
               /\ holderMap(old)[a] # Nobody /\ ~ leasedMap(old)[a]
               /\ leasedMap(new) = [leasedMap(old) EXCEPT ![a] = TRUE]
               /\ holderMap(new) = holderMap(old)
<1> DEFINE a == old[e].addr
<1>1. e \in Live(old) /\ e \in Live(new) /\ new[e].addr = a /\ a \in Elements(Config)
  BY DEF LeaseStarts, Apart
<1>2. \A f \in Live(old) : f # e => old[f].addr # a /\ new[f].addr # a
  BY <1>1 DEF LeaseStarts, Apart
<1> HIDE DEF a
<1>3. holderMap(old)[a] = e /\ holderMap(new)[a] = e /\ e # Nobody
  BY <1>1, MapFacts, NobodyAssumption DEF a
<1>4. ~ leasedMap(old)[a] /\ leasedMap(new)[a] = TRUE
  <2>1. ~ leasedMap(old)[a]
    BY <1>1, <1>2, MapFacts DEF LeaseStarts
  <2>2. leasedMap(new)[a]
    BY <1>1, MapFacts DEF LeaseStarts
  <2> QED  BY <1>1, <2>1, <2>2, MapFacts
<1>5. ASSUME NEW b \in Elements(Config), b # a
      PROVE  holderMap(new)[b] = holderMap(old)[b] /\ leasedMap(new)[b] = leasedMap(old)[b]
  <2>1. /\ \A f : Has(old, f, b) <=> Has(new, f, b)
        /\ \A f : Has(old, f, b) => (InUse(old, f) <=> InUse(new, f))
    BY <1>1, <1>5 DEF LeaseStarts, Alike, Has, a
  <2> QED  BY <2>1, MapKept
<1>6. holderMap(new) = holderMap(old)
  <2>1. \A b \in Elements(Config) : holderMap(new)[b] = holderMap(old)[b]
    BY <1>3, <1>5
  <2> QED  BY <2>1 DEF holderMap
<1>7. leasedMap(new) = [leasedMap(old) EXCEPT ![a] = TRUE]
  <2>1. \A b \in Elements(Config) : leasedMap(new)[b] = IF b = a THEN TRUE ELSE leasedMap(old)[b]
    BY <1>4, <1>5
  <2> QED  BY <2>1 DEF leasedMap
<1> QED  BY <1>1, <1>3, <1>4, <1>6, <1>7 DEF a

\* A record that ends is Return of its address.
LEMMA MapReturn ==
    ASSUME NEW old, NEW new, Apart(old), Apart(new), NEW e \in Endpoint,
           RecordEnds(old, new, e)
    PROVE  LET a == old[e].addr
           IN  /\ a \in Elements(Config)
               /\ holderMap(old)[a] # Nobody
               /\ holderMap(new) = [holderMap(old) EXCEPT ![a] = Nobody]
               /\ leasedMap(new) = [leasedMap(old) EXCEPT ![a] = FALSE]
<1> DEFINE a == old[e].addr
<1>1. e \in Live(old) /\ e \notin Live(new) /\ a \in Elements(Config)
  BY DEF RecordEnds, Apart
<1>2. \A f \in Live(new) : old[f].addr # a /\ new[f].addr # a
  BY <1>1 DEF RecordEnds, Alike, Apart
<1> HIDE DEF a
<1>3. holderMap(old)[a] = e /\ holderMap(new)[a] = Nobody /\ e # Nobody
  BY <1>1, <1>2, MapFacts, NobodyAssumption DEF a
<1>4. leasedMap(new)[a] = FALSE
  BY <1>1, <1>2, MapFacts
<1>5. ASSUME NEW b \in Elements(Config), b # a
      PROVE  holderMap(new)[b] = holderMap(old)[b] /\ leasedMap(new)[b] = leasedMap(old)[b]
  <2>1. /\ \A f : Has(old, f, b) <=> Has(new, f, b)
        /\ \A f : Has(old, f, b) => (InUse(old, f) <=> InUse(new, f))
    BY <1>1, <1>5 DEF RecordEnds, Alike, Has, a
  <2> QED  BY <2>1, MapKept
<1>6. holderMap(new) = [holderMap(old) EXCEPT ![a] = Nobody]
  <2>1. \A b \in Elements(Config) : holderMap(new)[b] = IF b = a THEN Nobody ELSE holderMap(old)[b]
    BY <1>3, <1>5
  <2> QED  BY <2>1 DEF holderMap
<1>7. leasedMap(new) = [leasedMap(old) EXCEPT ![a] = FALSE]
  <2>1. \A b \in Elements(Config) : leasedMap(new)[b] = IF b = a THEN FALSE ELSE leasedMap(old)[b]
    BY <1>4, <1>5
  <2> QED  BY <2>1 DEF leasedMap
<1> QED  BY <1>1, <1>3, <1>6, <1>7 DEF a

\* A record that begins is Promise of its address, which was free.
LEMMA MapPromise ==
    ASSUME NEW old, NEW new, Apart(old), Apart(new), NEW e \in Endpoint,
           RecordBegins(old, new, e)
    PROVE  LET a == new[e].addr
           IN  /\ a \in Elements(Config)
               /\ holderMap(old)[a] = Nobody
               /\ \A b \in Elements(Config) : holderMap(old)[b] # e
               /\ holderMap(new) = [holderMap(old) EXCEPT ![a] = e]
               /\ leasedMap(new) = leasedMap(old)
<1> DEFINE a == new[e].addr
<1>1. e \notin Live(old) /\ e \in Live(new) /\ a \in Elements(Config)
  BY DEF RecordBegins, Apart
<1>2. \A f \in Live(old) : old[f].addr # a /\ new[f].addr # a
  BY <1>1 DEF RecordBegins, Alike, Apart
<1> HIDE DEF a
<1>3. holderMap(old)[a] = Nobody /\ holderMap(new)[a] = e
  BY <1>1, <1>2, MapFacts DEF a
<1>4. leasedMap(new)[a] = leasedMap(old)[a]
  <2>1. ~ leasedMap(old)[a]
    BY <1>1, <1>2, MapFacts
  <2>2. ~ leasedMap(new)[a]
    <3>1. \A f \in Live(new) : new[f].addr = a => f = e
      BY <1>2 DEF RecordBegins
    <3> QED  BY <1>1, <3>1, MapFacts DEF RecordBegins
  <2> QED  BY <1>1, <2>1, <2>2, MapFacts
<1>5. ASSUME NEW b \in Elements(Config), b # a
      PROVE  holderMap(new)[b] = holderMap(old)[b] /\ leasedMap(new)[b] = leasedMap(old)[b]
  <2>1. /\ \A f : Has(old, f, b) <=> Has(new, f, b)
        /\ \A f : Has(old, f, b) => (InUse(old, f) <=> InUse(new, f))
    BY <1>1, <1>5 DEF RecordBegins, Alike, Has, a
  <2> QED  BY <2>1, MapKept
<1>6. holderMap(new) = [holderMap(old) EXCEPT ![a] = e]
  <2>1. \A b \in Elements(Config) : holderMap(new)[b] = IF b = a THEN e ELSE holderMap(old)[b]
    BY <1>3, <1>5
  <2> QED  BY <2>1 DEF holderMap
<1>7. leasedMap(new) = leasedMap(old)
  <2>1. \A b \in Elements(Config) : leasedMap(new)[b] = leasedMap(old)[b]
    BY <1>4, <1>5
  <2> QED  BY <2>1 DEF leasedMap
<1>8. \A b \in Elements(Config) : holderMap(old)[b] # e
  BY <1>1, MapFacts DEF Has
<1> QED  BY <1>1, <1>3, <1>6, <1>7, <1>8 DEF a

LEMMA ApartNow == IInv => Apart(client)
BY DEF IInv, PoolPartition, HeldOnce, NoneLost, Configured, ConfigFirst, Apart

LEMMA ApartNext == IInv' => Apart(client')
BY DEF IInv, PoolPartition, HeldOnce, NoneLost, Configured, ConfigFirst, Apart

LEMMA MapsNow ==
    /\ [a \in Elements(Config) |-> HolderOf(a)] = holderMap(client)
    /\ [a \in Elements(Config) |-> LeasedNow(a)] = leasedMap(client)
BY DEF HolderOf, LeasedNow, holderMap, leasedMap

LEMMA MapsNext ==
    /\ [a \in Elements(Config) |-> HolderOf(a)]' = holderMap(client')
    /\ [a \in Elements(Config) |-> LeasedNow(a)]' = leasedMap(client')
BY DEF HolderOf, LeasedNow, holderMap, leasedMap

LEMMA InitImplements == Init => Leases!Init
<1> SUFFICES ASSUME Init PROVE Leases!Init
  OBVIOUS
<1>1. Live(client) = {}
  BY DEF Init, Live, NoClient
<1> QED  BY <1>1 DEF Leases!Init, HolderOf, LeasedNow

LEMMA NextImplements ==
    IInv /\ [Next]_vars
    => [Leases!Next]_<<[a \in Elements(Config) |-> HolderOf(a)],
                       [a \in Elements(Config) |-> LeasedNow(a)]>>
<1> SUFFICES ASSUME IInv, [Next]_vars
             PROVE  [Leases!Next]_<<[a \in Elements(Config) |-> HolderOf(a)],
                                    [a \in Elements(Config) |-> LeasedNow(a)]>>
  OBVIOUS
<1>1. Apart(client) /\ Apart(client') /\ Change(client, client')
  BY NextIInv, NextChange, ApartNow, ApartNext
<1>2. CASE AllAlike(client, client')
  BY <1>1, <1>2, MapAlike, MapsNow, MapsNext
<1>3. ASSUME NEW e \in Endpoint, LeaseStarts(client, client', e)
      PROVE  Leases!Next
  <2> DEFINE a == client[e].addr
  <2>1. /\ a \in Elements(Config)
        /\ holderMap(client)[a] # Nobody /\ ~ leasedMap(client)[a]
        /\ leasedMap(client') = [leasedMap(client) EXCEPT ![a] = TRUE]
        /\ holderMap(client') = holderMap(client)
    BY <1>1, <1>3, MapLease
  <2> HIDE DEF a
  <2>2. Leases!Lease(a)
    BY <2>1, MapsNow, MapsNext DEF Leases!Lease
  <2> QED  BY <2>1, <2>2 DEF Leases!Next
<1>4. ASSUME NEW e \in Endpoint, RecordEnds(client, client', e)
      PROVE  Leases!Next
  <2> DEFINE a == client[e].addr
  <2>1. /\ a \in Elements(Config)
        /\ holderMap(client)[a] # Nobody
        /\ holderMap(client') = [holderMap(client) EXCEPT ![a] = Nobody]
        /\ leasedMap(client') = [leasedMap(client) EXCEPT ![a] = FALSE]
    BY <1>1, <1>4, MapReturn
  <2> HIDE DEF a
  <2>2. Leases!Return(a)
    BY <2>1, MapsNow, MapsNext DEF Leases!Return
  <2> QED  BY <2>1, <2>2 DEF Leases!Next
<1>5. ASSUME NEW e \in Endpoint, RecordBegins(client, client', e)
      PROVE  Leases!Next
  <2>1. Leases!Promise(client'[e].addr, e)
    BY <1>1, <1>5, MapPromise, MapsNow, MapsNext DEF Leases!Promise, Leases!HasNone
  <2> QED  BY <1>1, <1>5, <2>1, MapPromise DEF Leases!Next
<1> QED  BY <1>1, <1>2, <1>3, <1>4, <1>5 DEF Change

\* The server implements AddressLease: an address passes from one endpoint to
\* another only through the pool, is leased only to the endpoint it was offered
\* to, and no endpoint has two (create_client, send_ack_ok, change_state).
THEOREM ServerImplementsLease == Spec => ImplementsLease
BY InitIInv, NextIInv, InitImplements, NextImplements, PTL
   DEF Spec, ImplementsLease, Leases!Spec
=============================================================================
