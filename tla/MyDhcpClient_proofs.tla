------------------------ MODULE MyDhcpClient_proofs ------------------------
(***************************************************************************)
(* What holds of the client processes for any number of them and whatever  *)
(* messages arrive: type correctness, that a client only moves forward,    *)
(* that only an ACK prolongs a lease, and that RELEASE ends its use.       *)
(***************************************************************************)
EXTENDS MyDhcpClient, TLAPS

(***************************************************************************)
(* Processes.  A signal raises alarm_flag before the pass that lowers it   *)
(* again, so in between it may be above MaxAlarm: Raised has no bound.     *)
(***************************************************************************)
Raised ==
    [pc : {"start", "recv", "exit"}, stat : Stat, ttlcounter : Ttl, ttl : Ttl,
     tout : 0 .. MessageTimeout, addr : Addr \cup {NoAddr}, netmask : Netmask,
     stop_flag : BOOLEAN, sighup_flag : BOOLEAN, sigint_flag : BOOLEAN,
     alarm_flag : Nat, sa_restart : BOOLEAN]

\* Fields that neither a timer nor a transition changes.
SameLease(r, s) == /\ s.addr = r.addr /\ s.netmask = r.netmask
                   /\ s.ttlcounter = r.ttlcounter

SameFlags(r, s) == /\ s.sighup_flag = r.sighup_flag /\ s.sigint_flag = r.sigint_flag
                   /\ s.sa_restart = r.sa_restart

LEMMA RaisedProcess ==
    ASSUME NEW r
    PROVE  r \in Process <=> r \in Raised /\ r.alarm_flag \in 0 .. MaxAlarm
<1>1. 0 .. MaxAlarm \subseteq Nat
  BY MaxAlarmAssumption
<1> QED  BY <1>1 DEF Process, Raised

LEMMA DecrementedRange ==
    ASSUME NEW max \in Nat, NEW n \in 0 .. max
    PROVE  Decremented(n) \in 0 .. max /\ Decremented(n) <= n
BY DEF Decremented

\* The timers: a lease that is counted loses what the alarms lose, or is at zero.
LEMMA AfterAlarmProcess ==
    ASSUME NEW r \in Raised
    PROVE  /\ AfterAlarm(r) \in Raised
           /\ AfterAlarm(r).pc = r.pc /\ AfterAlarm(r).stat = r.stat
           /\ AfterAlarm(r).stop_flag = r.stop_flag
           /\ SameLease(r, AfterAlarm(r)) /\ SameFlags(r, AfterAlarm(r))
           /\ AfterAlarm(r).ttl <= r.ttl
           /\ AfterAlarm(r).alarm_flag = Decremented(r.alarm_flag)
           /\ r.stat \in UsingStat =>
                 \/ AfterAlarm(r).ttl - AfterAlarm(r).alarm_flag = r.ttl - r.alarm_flag
                 \/ AfterAlarm(r).ttl = 0
<1>1. CASE ~ r.alarm_flag > 0
  <2>1. AfterAlarm(r) = r
    BY <1>1 DEF AfterAlarm
  <2>2. r.alarm_flag \in Nat /\ r.ttl \in Nat
    BY DEF Raised, Ttl
  <2>3. Decremented(r.alarm_flag) = r.alarm_flag
    BY <1>1, <2>2 DEF Decremented
  <2> QED  BY <2>1, <2>2, <2>3 DEF SameLease, SameFlags
<1>2. CASE r.alarm_flag > 0
  <2> DEFINE t == ticked(r)
  <2>1. r.ttl \in Ttl /\ Ttl \subseteq Nat /\ r.tout \in 0 .. MessageTimeout /\ r.alarm_flag \in Nat
    BY DEF Raised, Ttl
  <2>2. /\ Decremented(r.ttl) \in Ttl /\ Decremented(r.ttl) <= r.ttl
        /\ Decremented(r.tout) \in 0 .. MessageTimeout
    BY <2>1, TtlModulusAssumption, MessageTimeoutAssumption DEF Decremented, Ttl
  <2>3. /\ t \in Raised /\ t.pc = r.pc /\ t.stat = r.stat /\ t.stop_flag = r.stop_flag
        /\ SameLease(r, t) /\ SameFlags(r, t) /\ t.alarm_flag = r.alarm_flag
        /\ t.ttl \in {r.ttl, Decremented(r.ttl)}
        /\ r.stat \in UsingStat => t.ttl = Decremented(r.ttl)
    <3>1. CASE r.stat \in UsingStat
      <4>1. t = [r EXCEPT !.ttl = Decremented(r.ttl)]
        BY <3>1 DEF ticked, decrement_ttl, UsingStat, WaitingStat, Raised
      <4>2. Decremented(r.ttl) \in Ttl
        BY <2>2
      <4> HIDE DEF t
      <4>3. t \in Raised /\ t.ttl = Decremented(r.ttl)
        BY <4>1, <4>2 DEF Raised
      <4>4. t.pc = r.pc /\ t.stat = r.stat /\ t.stop_flag = r.stop_flag /\ t.alarm_flag = r.alarm_flag
        BY <4>1 DEF Raised
      <4>5. SameLease(r, t) /\ SameFlags(r, t)
        BY <4>1 DEF Raised, SameLease, SameFlags
      <4> QED  BY <4>3, <4>4, <4>5
    <3>2. CASE r.stat \in WaitingStat
      <4>1. t = [r EXCEPT !.tout = Decremented(r.tout)] /\ r.stat \notin UsingStat
        BY <3>2 DEF ticked, decrement_tout, UsingStat, WaitingStat, Raised
      <4>2. r.tout = r.tout /\ Decremented(r.tout) \in 0 .. MessageTimeout
        BY <2>2
      <4> HIDE DEF t
      <4> QED  BY <4>1, <4>2 DEF Raised, SameLease, SameFlags
    <3>3. CASE r.stat \notin UsingStat \cup WaitingStat
      <4>1. t = r
        BY <3>3 DEF ticked
      <4> QED  BY <3>3, <4>1 DEF SameLease, SameFlags
    <3> QED  BY <3>1, <3>2, <3>3
  <2>4. AfterAlarm(r) = [t EXCEPT !.alarm_flag = r.alarm_flag - 1]
    BY <1>2, <2>3 DEF AfterAlarm, Raised
  <2>5. r.alarm_flag - 1 \in Nat /\ Decremented(r.alarm_flag) = r.alarm_flag - 1
    BY <1>2, <2>1 DEF Decremented
  <2> HIDE DEF t
  <2>6. /\ AfterAlarm(r) \in Raised
        /\ AfterAlarm(r).pc = r.pc /\ AfterAlarm(r).stat = r.stat
        /\ AfterAlarm(r).stop_flag = r.stop_flag
        /\ SameLease(r, AfterAlarm(r)) /\ SameFlags(r, AfterAlarm(r))
        /\ AfterAlarm(r).ttl = t.ttl
        /\ AfterAlarm(r).alarm_flag = r.alarm_flag - 1
    BY <2>3, <2>4, <2>5 DEF Raised, SameLease, SameFlags
  <2>7. r.stat \in UsingStat => r.ttl - 1 = t.ttl \/ t.ttl = 0
    BY <2>1, <2>3 DEF Decremented
  <2>8. t.ttl <= r.ttl /\ t.ttl \in Nat
    <3>1. Decremented(r.ttl) \in Nat /\ r.ttl \in Nat
      BY <2>1, <2>2
    <3> QED  BY <2>2, <2>3, <3>1
  <2>9. ASSUME r.stat \in UsingStat, t.ttl # 0
        PROVE  t.ttl - (r.alarm_flag - 1) = r.ttl - r.alarm_flag
    <3>1. t.ttl = r.ttl - 1 /\ r.ttl \in Nat /\ r.alarm_flag \in Nat
      BY <2>1, <2>7, <2>9
    <3> QED  BY <3>1, <2>8
  <2> QED  BY <2>5, <2>6, <2>8, <2>9
<1> QED  BY <1>1, <1>2

\* A pass brings what a signal raised back into its bound.
LEMMA AfterAlarmBound ==
    ASSUME NEW r \in Raised, r.alarm_flag \in 0 .. MaxAlarm + 1
    PROVE  AfterAlarm(r) \in Process
<1>1. AfterAlarm(r) \in Raised /\ AfterAlarm(r).alarm_flag = Decremented(r.alarm_flag)
  BY AfterAlarmProcess
<1>2. Decremented(r.alarm_flag) \in 0 .. MaxAlarm
  BY MaxAlarmAssumption DEF Decremented
<1> QED  BY <1>1, <1>2, RaisedProcess

(***************************************************************************)
(* FSM_func.  r is the process at the call, s after the pass.              *)
(***************************************************************************)
\* What all passes leave alone, and the end of the pass.
PassOver(c, r, s) ==
    /\ s \in Process
    /\ cl' = [cl EXCEPT ![c] = s]
    /\ SameLease(r, s) /\ SameFlags(r, s) /\ s.alarm_flag = r.alarm_flag
    /\ s.pc = IF s.stop_flag THEN "exit" ELSE "recv"

Says(c, m) == csent' = {[from |-> c, msg |-> m]}

\* A row that sends m and waits in state stat.
Asks(c, r, s, m, stat) ==
    Says(c, m) /\ s.stat = stat /\ s.ttl = r.ttl /\ s.stop_flag = r.stop_flag

Outcome(c, r, event, s) ==
    \/ /\ Ignored(r, event)
       /\ csent' = {} /\ s.stat = r.stat /\ s.ttl = r.ttl /\ s.stop_flag = r.stop_flag
    \/ /\ r.stat = "wait_offer1" /\ event = "timeout"
       /\ Asks(c, r, s, Bare("DISCOVER", "OK"), "wait_offer2")
    \/ /\ r.stat \in {"wait_offer1", "wait_offer2"} /\ event = "offer_ok"
       /\ Asks(c, r, s, Request("REQ_ALLOC", r), "wait_ack1")
    \/ /\ r.stat = "wait_ack1" /\ event = "timeout"
       /\ Asks(c, r, s, Request("REQ_ALLOC", r), "wait_ack2")
    \/ /\ r.stat = "in_use" /\ event = "half_ttl"
       /\ Asks(c, r, s, Request("REQ_EXT", r), "wait_ext_ack")
    \/ /\ r.stat \in {"wait_ack1", "wait_ack2", "wait_ext_ack"} /\ event = "ack_ok"
       /\ csent' = {} /\ s.stat = "in_use" /\ s.ttl = r.ttlcounter
       /\ s.stop_flag = r.stop_flag
    \/ /\ r.stat \in UsingStat /\ event = "sighup"
       /\ Says(c, [Bare("RELEASE", "OK") EXCEPT !.ipaddr = r.addr])
       /\ s.stat = "term" /\ s.ttl = r.ttl /\ s.stop_flag
    \/ /\ r.stat \notin {"init", "term"} /\ event # "sighup"
       /\ csent' = {} /\ s.stat = "term" /\ s.ttl = r.ttl /\ s.stop_flag

LEMMA ChangedState ==
    ASSUME NEW r \in Process, NEW stat \in Stat
    PROVE  /\ change_state(r, stat) \in Process
           /\ change_state(r, stat).stat = stat
           /\ change_state(r, stat).ttl = r.ttl
           /\ change_state(r, stat).alarm_flag = r.alarm_flag
           /\ stat # "term" => change_state(r, stat).stop_flag = r.stop_flag
           /\ stat = "term" => change_state(r, stat).stop_flag
           /\ SameLease(r, change_state(r, stat)) /\ SameFlags(r, change_state(r, stat))
<1>1. MessageTimeout \in 0 .. MessageTimeout
  BY MessageTimeoutAssumption
<1>2. (r.stop_flag \/ stat = "term") \in BOOLEAN
  OBVIOUS
<1> DEFINE stop == r.stop_flag \/ stat = "term"
<1>3. change_state(r, stat) =
        [r EXCEPT !.stat = stat, !.tout = MessageTimeout, !.stop_flag = stop]
  BY DEF change_state, Process
<1>4. stop \in BOOLEAN /\ (stat # "term" => stop = r.stop_flag) /\ (stat = "term" => stop)
  BY DEF Process
<1> HIDE DEF stop
<1> QED  BY <1>1, <1>3, <1>4 DEF Process, SameLease, SameFlags

LEMMA BecomeIs ==
    ASSUME NEW c, NEW r \in Process, NEW q \in Process, Become(c, q),
           SameLease(r, q), SameFlags(r, q), q.alarm_flag = r.alarm_flag
    PROVE  \E s \in Process : /\ PassOver(c, r, s)
                              /\ s.stat = q.stat /\ s.ttl = q.ttl
                              /\ s.stop_flag = q.stop_flag
<1> DEFINE s == [q EXCEPT !.pc = IF q.stop_flag THEN "exit" ELSE "recv"]
<1>1. cl' = [cl EXCEPT ![c] = s]
  BY DEF Become
<1>2. s \in Process /\ s.stat = q.stat /\ s.ttl = q.ttl /\ s.stop_flag = q.stop_flag
      /\ s.pc = IF s.stop_flag THEN "exit" ELSE "recv"
  BY DEF Process
<1>3. SameLease(q, s) /\ SameFlags(q, s) /\ s.alarm_flag = q.alarm_flag
  BY DEF Process, SameLease, SameFlags
<1> HIDE DEF s
<1>4. SameLease(r, s) /\ SameFlags(r, s)
  BY <1>3 DEF SameLease, SameFlags
<1> QED  BY <1>1, <1>2, <1>3, <1>4 DEF PassOver

LEMMA ChangeOver ==
    ASSUME NEW c, NEW r \in Process, NEW stat \in Stat, Become(c, change_state(r, stat))
    PROVE  \E s \in Process : /\ PassOver(c, r, s) /\ s.stat = stat /\ s.ttl = r.ttl
                              /\ stat # "term" => s.stop_flag = r.stop_flag
                              /\ stat = "term" => s.stop_flag
BY ChangedState, BecomeIs

\* FSM_func does what one of the rows says, or leaves the process alone.
LEMMA FSMOutcome ==
    ASSUME NEW c, NEW r \in Process, NEW event, FSM_func(c, r, event)
    PROVE  \E s \in Process : PassOver(c, r, s) /\ Outcome(c, r, event, s)
<1>1. CASE Calls(r, event, "resend_discover") /\ resend_discover(c, r)
  <2>1. r.stat = "wait_offer1" /\ event = "timeout"
    BY <1>1 DEF Calls, pstab
  <2> QED  BY <1>1, <2>1, ChangeOver DEF resend_discover, Send, Outcome, Asks, Says, Stat
<1>2. CASE Calls(r, event, "send_request_alloc") /\ send_request_alloc(c, r)
  <2>1. r.stat \in {"wait_offer1", "wait_offer2"} /\ event = "offer_ok"
    BY <1>2 DEF Calls, pstab
  <2> QED  BY <1>2, <2>1, ChangeOver DEF send_request_alloc, Send, Outcome, Asks, Says, Stat
<1>3. CASE Calls(r, event, "resend_request_alloc") /\ resend_request_alloc(c, r)
  <2>1. r.stat = "wait_ack1" /\ event = "timeout"
    BY <1>3 DEF Calls, pstab
  <2> QED  BY <1>3, <2>1, ChangeOver DEF resend_request_alloc, Send, Outcome, Asks, Says, Stat
<1>4. CASE Calls(r, event, "send_request_ext") /\ send_request_ext(c, r)
  <2>1. r.stat = "in_use" /\ event = "half_ttl"
    BY <1>4 DEF Calls, pstab
  <2> QED  BY <1>4, <2>1, ChangeOver DEF send_request_ext, Send, Outcome, Asks, Says, Stat
<1>5. CASE Calls(r, event, "send_release") /\ send_release(c, r)
  <2>1. r.stat \in UsingStat /\ event = "sighup"
    BY <1>5 DEF Calls, pstab, UsingStat
  <2> QED  BY <1>5, <2>1, ChangeOver DEF send_release, Send, Outcome, Says, Stat
<1>6. CASE Calls(r, event, "start_using") /\ start_using(c, r)
  <2>1. r.stat \in {"wait_ack1", "wait_ack2", "wait_ext_ack"} /\ event = "ack_ok"
    BY <1>6 DEF Calls, pstab
  <2> DEFINE q == [r EXCEPT !.ttl = r.ttlcounter]
  <2>2. q \in Process /\ q.ttl = r.ttlcounter /\ q.stop_flag = r.stop_flag
        /\ SameLease(r, q) /\ SameFlags(r, q) /\ q.alarm_flag = r.alarm_flag
    BY DEF Process, SameLease, SameFlags
  <2>3. Become(c, change_state(q, "in_use")) /\ csent' = {}
    BY <1>6 DEF start_using, SendNothing
  <2> HIDE DEF q
  <2>4. PICK s \in Process : /\ PassOver(c, q, s) /\ s.stat = "in_use" /\ s.ttl = q.ttl
                             /\ s.stop_flag = q.stop_flag
    BY <2>2, <2>3, ChangeOver DEF Stat
  <2>5. PassOver(c, r, s)
    BY <2>2, <2>4 DEF PassOver, SameLease, SameFlags
  <2> QED  BY <2>1, <2>2, <2>3, <2>4, <2>5 DEF Outcome
<1>7. CASE Calls(r, event, "terminate") /\ terminate(c, r)
  <2>1. r.stat \notin {"init", "term"} /\ event # "sighup"
    BY <1>7 DEF Calls, pstab
  <2> QED  BY <1>7, <2>1, ChangeOver DEF terminate, SendNothing, Outcome, Stat
<1>8. CASE Ignored(r, event) /\ SendNothing /\ Become(c, r)
  <2>1. SameLease(r, r) /\ SameFlags(r, r)
    BY DEF SameLease, SameFlags
  <2> QED  BY <1>8, <2>1, BecomeIs DEF SendNothing, Outcome
<1> QED  BY <1>1, <1>2, <1>3, <1>4, <1>5, <1>6, <1>7, <1>8 DEF FSM_func

(***************************************************************************)
(* Passes of the loop.  q is the process when recvfrom returns, r the same *)
(* when FSM_func is called, s after the pass.                              *)
(***************************************************************************)
Stopped(r, s) == csent' = {} /\ s.stat = r.stat /\ s.ttl = r.ttl /\ s.stop_flag

Handled(c, q, r, event, s) ==
    /\ r \in Process /\ s \in Process
    /\ r.stat = q.stat
    /\ r.ttl = AfterAlarm(q).ttl
    /\ r.alarm_flag = Decremented(q.alarm_flag)
    /\ IF event = "sighup" THEN q.sighup_flag /\ ~ r.sighup_flag ELSE r.sighup_flag = q.sighup_flag
    /\ PassOver(c, r, s)
    /\ Outcome(c, r, event, s) \/ (event = "none" /\ Stopped(r, s))

\* A pass without a message, or with one of another length.
Idles(c, q, s) ==
    \E r \in Process, event \in {"sighup", "half_ttl", "timeout", "ttl_timeout", "none", "unknown_msg"} :
        Handled(c, q, r, event, s) /\ SameLease(q, r)

\* A pass with the message m.
Hears(c, m, q, s) ==
    \/ \E r \in Process, event \in {"offer_ng", "ack_ng", "none"} :
          /\ Handled(c, q, r, event, s) /\ SameLease(q, r)
          /\ event = "offer_ng" => r.stop_flag
    \/ \E r \in Process, event \in {"offer_ok", "ack_ok"} :
          /\ Handled(c, q, r, event, s)
          /\ r.ttlcounter = m.ttl /\ r.addr = m.ipaddr /\ r.netmask = m.netmask
          /\ event = "offer_ok" => m.type = "OFFER" /\ m.code # "ERR_NOIP"
          /\ event = "ack_ok" => m.type = "ACK" /\ m.code # "ERR_REQ"

LEMMA Interruption ==
    ASSUME NEW c \in Client, cl \in [Client -> Process],
           NEW q \in {cl[c], Alarmed(c), [cl[c] EXCEPT !.sighup_flag = TRUE],
                      [cl[c] EXCEPT !.sigint_flag = TRUE]}
    PROVE  /\ q \in Raised /\ q.alarm_flag \in 0 .. MaxAlarm + 1
           /\ q.stat = cl[c].stat /\ q.ttl = cl[c].ttl /\ SameLease(cl[c], q)
           /\ q.stop_flag = cl[c].stop_flag /\ q.sa_restart = cl[c].sa_restart
           /\ q.alarm_flag = IF q = Alarmed(c) THEN cl[c].alarm_flag + 1 ELSE cl[c].alarm_flag
<1>1. cl[c] \in Process
  OBVIOUS
<1>2. cl[c].alarm_flag \in 0 .. MaxAlarm
  BY <1>1 DEF Process
<1>3. cl[c].alarm_flag + 1 \in Nat /\ cl[c].alarm_flag + 1 \in 0 .. MaxAlarm + 1
      /\ cl[c].alarm_flag \in 0 .. MaxAlarm + 1 /\ cl[c].alarm_flag # cl[c].alarm_flag + 1
  BY <1>2, MaxAlarmAssumption
<1>4. cl[c] \in Raised
  BY <1>1, RaisedProcess
<1>5. CASE q = Alarmed(c)
  <2>1. Alarmed(c) = [cl[c] EXCEPT !.alarm_flag = cl[c].alarm_flag + 1]
    BY DEF Alarmed
  <2> QED  BY <1>3, <1>4, <1>5, <2>1 DEF Raised, SameLease
<1>6. CASE q # Alarmed(c)
  <2>1. q.alarm_flag = cl[c].alarm_flag
    BY <1>4, <1>6 DEF Raised
  <2> QED  BY <1>3, <1>4, <1>6, <2>1 DEF Raised, SameLease
<1> QED  BY <1>5, <1>6

LEMMA IdlePassIs ==
    ASSUME NEW c \in Client, NEW q \in Raised, q.alarm_flag \in 0 .. MaxAlarm + 1,
           IdlePass(c, q)
    PROVE  cl[c].pc = "recv" /\ \E s \in Process : Idles(c, q, s)
<1> DEFINE now == AfterAlarm(q)
<1>1. now \in Process /\ now.stat = q.stat /\ now.alarm_flag = Decremented(q.alarm_flag)
      /\ SameLease(q, now) /\ now.sighup_flag = q.sighup_flag
  BY AfterAlarmProcess, AfterAlarmBound DEF SameFlags
<1>2. cl[c].pc = "recv"
  BY DEF IdlePass
<1>3. CASE now.sighup_flag /\ FSM_func(c, [now EXCEPT !.sighup_flag = FALSE], "sighup")
  <2> DEFINE r == [now EXCEPT !.sighup_flag = FALSE]
  <2>1. /\ r \in Process /\ r.stat = now.stat /\ r.ttl = now.ttl /\ ~ r.sighup_flag
        /\ r.alarm_flag = now.alarm_flag /\ SameLease(now, r)
    BY <1>1 DEF Process, SameLease
  <2>2. FSM_func(c, r, "sighup")
    BY <1>3
  <2> HIDE DEF r
  <2>3. PICK s \in Process : PassOver(c, r, s) /\ Outcome(c, r, "sighup", s)
    BY <2>1, <2>2, FSMOutcome
  <2>4. SameLease(q, r)
    BY <1>1, <2>1 DEF SameLease
  <2> QED  BY <1>1, <1>2, <1>3, <2>1, <2>3, <2>4 DEF Handled, Idles
<1>4. CASE SendNothing /\ Become(c, [now EXCEPT !.stop_flag = TRUE])
  <2> DEFINE r == [now EXCEPT !.stop_flag = TRUE]
  <2>1. /\ r \in Process /\ r.stat = now.stat /\ r.ttl = now.ttl /\ r.stop_flag
        /\ r.sighup_flag = now.sighup_flag /\ r.alarm_flag = now.alarm_flag /\ SameLease(now, r)
        /\ SameLease(r, r) /\ SameFlags(r, r)
    BY <1>1 DEF Process, SameLease, SameFlags
  <2>2. Become(c, r) /\ csent' = {}
    BY <1>4 DEF SendNothing
  <2> HIDE DEF r
  <2>3. PICK s \in Process : PassOver(c, r, s) /\ s.stat = r.stat /\ s.ttl = r.ttl /\ s.stop_flag
    BY <2>1, <2>2, BecomeIs
  <2>4. SameLease(q, r)
    BY <1>1, <2>1 DEF SameLease
  <2> QED  BY <1>1, <1>2, <2>1, <2>2, <2>3, <2>4 DEF Handled, Idles, Stopped
<1>5. CASE FSM_func(c, now, IdleEvent(now))
  <2>1. IdleEvent(now) \in {"half_ttl", "timeout", "ttl_timeout", "none"}
    BY DEF IdleEvent
  <2> HIDE DEF now
  <2>2. PICK s \in Process : PassOver(c, now, s) /\ Outcome(c, now, IdleEvent(now), s)
    BY <1>1, <1>5, FSMOutcome
  <2> USE DEF now
  <2> QED  BY <1>1, <1>2, <2>1, <2>2 DEF Handled, Idles
<1> QED  BY <1>3, <1>4, <1>5 DEF IdlePass

LEMMA RecvUnknownIs ==
    ASSUME NEW c \in Client, cl \in [Client -> Process], RecvUnknown(c)
    PROVE  cl[c].pc = "recv" /\ \E s \in Process : Idles(c, cl[c], s)
<1> DEFINE now == AfterAlarm(cl[c])
<1>1. cl[c] \in Raised /\ cl[c].alarm_flag \in 0 .. MaxAlarm + 1
  BY Interruption
<1>2. now \in Process /\ now.stat = cl[c].stat /\ now.alarm_flag = Decremented(cl[c].alarm_flag)
      /\ SameLease(cl[c], now) /\ now.sighup_flag = cl[c].sighup_flag
  BY <1>1, AfterAlarmProcess, AfterAlarmBound DEF SameFlags
<1>3. cl[c].pc = "recv" /\ FSM_func(c, now, "unknown_msg")
  BY DEF RecvUnknown
<1>4. PICK s \in Process : PassOver(c, now, s) /\ Outcome(c, now, "unknown_msg", s)
  BY <1>2, <1>3, FSMOutcome
<1> QED  BY <1>2, <1>3, <1>4 DEF Handled, Idles

LEMMA RecvMessageIs ==
    ASSUME NEW c \in Client, cl \in [Client -> Process], NEW m \in Message, RecvMessage(c, m)
    PROVE  cl[c].pc = "recv" /\ \E s \in Process : Hears(c, m, cl[c], s)
<1> DEFINE now == AfterAlarm(cl[c])
           got == get_event(m, now)
<1>1. cl[c] \in Raised /\ cl[c].alarm_flag \in 0 .. MaxAlarm + 1
  BY Interruption
<1>2. now \in Process /\ now.stat = cl[c].stat /\ now.alarm_flag = Decremented(cl[c].alarm_flag)
      /\ SameLease(cl[c], now) /\ now.sighup_flag = cl[c].sighup_flag
  BY <1>1, AfterAlarmProcess, AfterAlarmBound DEF SameFlags
<1>3. cl[c].pc = "recv" /\ FSM_func(c, got.proc, got.event)
  BY DEF RecvMessage
<1>4. CASE got.event \in {"offer_ng", "ack_ng", "none"}
  <2>1. /\ got.proc \in Process /\ got.proc.stat = now.stat /\ got.proc.ttl = now.ttl
        /\ got.proc.alarm_flag = now.alarm_flag /\ SameLease(now, got.proc)
        /\ got.proc.sighup_flag = now.sighup_flag
        /\ got.event = "offer_ng" => got.proc.stop_flag
    <3> HIDE DEF now
    <3> QED  BY <1>2, <1>4 DEF get_event, recv_offer, recv_ack, Process, SameLease
  <2> HIDE DEF got
  <2>2. PICK s \in Process : PassOver(c, got.proc, s) /\ Outcome(c, got.proc, got.event, s)
    BY <1>3, <2>1, FSMOutcome
  <2>3. SameLease(cl[c], got.proc)
    BY <1>2, <2>1 DEF SameLease
  <2> QED  BY <1>2, <1>3, <1>4, <2>1, <2>2, <2>3 DEF Handled, Hears
<1>5. CASE got.event \in {"offer_ok", "ack_ok"}
  <2>1. /\ got.proc = Stored(m, now)
        /\ got.event = "offer_ok" => m.type = "OFFER" /\ m.code # "ERR_NOIP"
        /\ got.event = "ack_ok" => m.type = "ACK" /\ m.code # "ERR_REQ"
    <3> HIDE DEF now
    <3> QED  BY <1>5 DEF get_event, recv_offer, recv_ack
  <2>2. /\ got.proc \in Process /\ got.proc.stat = now.stat /\ got.proc.ttl = now.ttl
        /\ got.proc.alarm_flag = now.alarm_flag /\ got.proc.ttlcounter = m.ttl
        /\ got.proc.sighup_flag = now.sighup_flag
        /\ got.proc.addr = m.ipaddr /\ got.proc.netmask = m.netmask
    <3> HIDE DEF now, got
    <3>1. m.ttl \in Ttl /\ m.ipaddr \in Addr \cup {NoAddr} /\ m.netmask \in Netmask
      BY DEF Message
    <3> QED  BY <1>2, <2>1, <3>1 DEF Stored, Process
  <2> HIDE DEF got
  <2>3. PICK s \in Process : PassOver(c, got.proc, s) /\ Outcome(c, got.proc, got.event, s)
    BY <1>3, <2>2, FSMOutcome
  <2> QED  BY <1>2, <1>3, <1>5, <2>1, <2>2, <2>3 DEF Handled, Hears
<1>6. got.event \in {"offer_ng", "ack_ng", "none", "offer_ok", "ack_ok"}
  <2> HIDE DEF now
  <2> QED  BY DEF get_event, recv_offer, recv_ack
<1> QED  BY <1>4, <1>5, <1>6

(***************************************************************************)
(* The other steps.                                                        *)
(***************************************************************************)
LEMMA StartIs ==
    ASSUME NEW c \in Client, cl \in [Client -> Process], Start(c)
    PROVE  /\ cl[c].pc = "start"
           /\ \E s \in Process : /\ PassOver(c, cl[c], s)
                                 /\ Asks(c, cl[c], s, Bare("DISCOVER", "OK"), "wait_offer1")
BY ChangeOver DEF Start, send_discover, Send, Asks, Says, Stat

Signalled(c, s) ==
    /\ s \in Process
    /\ cl' = [cl EXCEPT ![c] = s]
    /\ csent' = {}
    /\ s.stat = cl[c].stat /\ s.ttl = cl[c].ttl /\ s.pc = cl[c].pc
    /\ SameLease(cl[c], s)
    /\ cl[c].sighup_flag => s.sighup_flag

LEMMA SignalIs ==
    ASSUME NEW c \in Client, cl \in [Client -> Process], Signals(c)
    PROVE  /\ cl[c].pc # "exit"
           /\ \E s \in Process : Signalled(c, s)
<1>1. cl[c] \in Process /\ cl[c].alarm_flag \in 0 .. MaxAlarm
  BY DEF Process
<1>2. CASE sigalrm_handler(c)
  <2> DEFINE s == Alarmed(c)
  <2>1. cl[c].alarm_flag + 1 \in 0 .. MaxAlarm
    BY <1>1, <1>2, MaxAlarmAssumption DEF sigalrm_handler
  <2>2. s = [cl[c] EXCEPT !.alarm_flag = cl[c].alarm_flag + 1]
    BY DEF Alarmed
  <2>3. cl' = [cl EXCEPT ![c] = s] /\ csent' = {} /\ cl[c].pc # "exit"
    BY <1>2 DEF sigalrm_handler, Signal, SendNothing
  <2> HIDE DEF s
  <2>4. /\ s \in Process /\ s.stat = cl[c].stat /\ s.ttl = cl[c].ttl /\ s.pc = cl[c].pc
        /\ SameLease(cl[c], s) /\ (cl[c].sighup_flag => s.sighup_flag)
    BY <1>1, <2>1, <2>2 DEF Process, SameLease
  <2> QED  BY <2>3, <2>4 DEF Signalled
<1>3. CASE sighup_handler(c)
  <2> DEFINE s == [cl[c] EXCEPT !.sighup_flag = TRUE]
  <2>1. cl' = [cl EXCEPT ![c] = s] /\ csent' = {} /\ cl[c].pc # "exit"
    BY <1>3 DEF sighup_handler, Signal, SendNothing
  <2>2. /\ s \in Process /\ s.stat = cl[c].stat /\ s.ttl = cl[c].ttl /\ s.pc = cl[c].pc
        /\ SameLease(cl[c], s) /\ (cl[c].sighup_flag => s.sighup_flag)
    BY <1>1 DEF Process, SameLease
  <2> QED  BY <2>1, <2>2 DEF Signalled
<1>4. CASE sigint_handler(c)
  <2> DEFINE s == [cl[c] EXCEPT !.sigint_flag = TRUE]
  <2>1. cl' = [cl EXCEPT ![c] = s] /\ csent' = {} /\ cl[c].pc # "exit"
    BY <1>4 DEF sigint_handler, Signal, SendNothing
  <2>2. /\ s \in Process /\ s.stat = cl[c].stat /\ s.ttl = cl[c].ttl /\ s.pc = cl[c].pc
        /\ SameLease(cl[c], s) /\ (cl[c].sighup_flag => s.sighup_flag)
    BY <1>1 DEF Process, SameLease
  <2> QED  BY <2>1, <2>2 DEF Signalled
<1> QED  BY <1>2, <1>3, <1>4 DEF Signals

\* What interrupts recvfrom, and who set sighup_flag when the pass begins.
LEMMA InterruptIs ==
    ASSUME NEW c \in Client, cl \in [Client -> Process], Interrupts(c) \/ RecvEmpty(c)
    PROVE  /\ cl[c].pc = "recv"
           /\ \E q \in Raised, s \in Process :
                 /\ Idles(c, q, s) /\ q.stat = cl[c].stat /\ q.ttl = cl[c].ttl
                 /\ SameLease(cl[c], q)
                 /\ q.sighup_flag => cl[c].sighup_flag \/ InterruptedByHup(c)
<1>1. PICK q \in {cl[c], Alarmed(c), [cl[c] EXCEPT !.sighup_flag = TRUE],
                  [cl[c] EXCEPT !.sigint_flag = TRUE]} :
        /\ IdlePass(c, q)
        /\ q = [cl[c] EXCEPT !.sighup_flag = TRUE] =>
              InterruptedByHup(c) \/ q.sighup_flag = cl[c].sighup_flag
  <2>1. cl[c] \in Process
    OBVIOUS
  <2>2. CASE InterruptedByAlarm(c)
    <3>1. Alarmed(c) \in Raised /\ Alarmed(c).sighup_flag = cl[c].sighup_flag
      BY <2>1, Interruption DEF Alarmed, Process
    <3> QED  BY <2>2, <3>1 DEF InterruptedByAlarm
  <2>3. CASE InterruptedByHup(c)
    BY <2>3 DEF InterruptedByHup
  <2>4. CASE InterruptedByInt(c)
    <3>1. [cl[c] EXCEPT !.sigint_flag = TRUE].sighup_flag = cl[c].sighup_flag
      BY <2>1 DEF Process
    <3> QED  BY <2>4, <3>1 DEF InterruptedByInt
  <2>5. CASE RecvEmpty(c)
    BY <2>5 DEF RecvEmpty
  <2> QED  BY <2>2, <2>3, <2>4, <2>5 DEF Interrupts
<1>2. /\ q \in Raised /\ q.alarm_flag \in 0 .. MaxAlarm + 1
      /\ q.stat = cl[c].stat /\ q.ttl = cl[c].ttl /\ SameLease(cl[c], q)
  BY Interruption
<1>3. q.sighup_flag => cl[c].sighup_flag \/ InterruptedByHup(c)
  BY <1>1 DEF Alarmed, Process
<1> QED  BY <1>1, <1>2, <1>3, IdlePassIs

(***************************************************************************)
(* Types.                                                                  *)
(***************************************************************************)
SentBy(c) == csent' \in SUBSET [from : {c}, msg : Message]

LEMMA Messages ==
    ASSUME NEW r \in Process
    PROVE  /\ Bare("DISCOVER", "OK") \in Message
           /\ [Bare("RELEASE", "OK") EXCEPT !.ipaddr = r.addr] \in Message
           /\ \A code \in {"REQ_ALLOC", "REQ_EXT"} : Request(code, r) \in Message
<1>1. 0 \in Ttl /\ r.ttlcounter \in Ttl /\ r.addr \in Addr \cup {NoAddr} /\ r.netmask \in Netmask
  BY TtlModulusAssumption DEF Ttl, Process
<1> QED  BY <1>1 DEF Bare, Request, Grant, Message, DhcpType, DhcpCode, Netmask

LEMMA PassTypes ==
    ASSUME NEW c \in Client, cl \in [Client -> Process], NEW q, NEW r, NEW event, NEW s,
           Handled(c, q, r, event, s)
    PROVE  cl' \in [Client -> Process] /\ SentBy(c)
<1>1. cl' \in [Client -> Process]
  BY DEF Handled, PassOver
<1>2. csent' = {} \/ \E m \in Message : Says(c, m)
  BY Messages DEF Handled, Outcome, Stopped, Asks
<1> QED  BY <1>1, <1>2 DEF SentBy, Says

LEMMA StepTypes ==
    ASSUME cl \in [Client -> Process], NEW c \in Client,
           \/ Start(c) \/ Signals(c) \/ Interrupts(c) \/ RecvUnknown(c) \/ RecvEmpty(c)
           \/ \E m \in Message : RecvMessage(c, m)
    PROVE  cl' \in [Client -> Process] /\ SentBy(c)
<1>1. CASE Start(c)
  <2>1. PICK s \in Process : /\ PassOver(c, cl[c], s)
                             /\ Asks(c, cl[c], s, Bare("DISCOVER", "OK"), "wait_offer1")
    BY <1>1, StartIs
  <2>2. Bare("DISCOVER", "OK") \in Message
    BY Messages
  <2> QED  BY <2>1, <2>2 DEF PassOver, Asks, Says, SentBy
<1>2. CASE Signals(c)
  BY <1>2, SignalIs DEF Signalled, SentBy
<1>3. CASE Interrupts(c) \/ RecvEmpty(c)
  BY <1>3, InterruptIs, PassTypes DEF Idles
<1>4. CASE RecvUnknown(c)
  BY <1>4, RecvUnknownIs, PassTypes DEF Idles
<1>5. CASE \E m \in Message : RecvMessage(c, m)
  BY <1>5, RecvMessageIs, PassTypes DEF Hears
<1> QED  BY <1>1, <1>2, <1>3, <1>4, <1>5

LEMMA InitTypes == Init => cl \in [Client -> Process] /\ csent = {}
<1>1. 0 \in Ttl /\ 0 \in 0 .. MaxAlarm /\ MessageTimeout \in 0 .. MessageTimeout
  BY TtlModulusAssumption, MaxAlarmAssumption, MessageTimeoutAssumption DEF Ttl
<1>2. \A restart \in BOOLEAN : NewProcess(restart) \in Process
  BY <1>1 DEF NewProcess, Process, Stat, Netmask
<1> QED  BY <1>2 DEF Init

LEMMA NextTypes == TypeOK /\ [Next]_cvars => TypeOK'
<1> SUFFICES ASSUME TypeOK, [Next]_cvars PROVE TypeOK'
  OBVIOUS
<1>1. CASE UNCHANGED cvars
  BY <1>1 DEF cvars, TypeOK
<1>2. ASSUME NEW c \in Client,
             \/ Start(c) \/ Signals(c) \/ Interrupts(c) \/ RecvUnknown(c) \/ RecvEmpty(c)
             \/ \E m \in Datagram : RecvMessage(c, m)
      PROVE  TypeOK'
  <2>1. cl' \in [Client -> Process] /\ SentBy(c)
    BY <1>2, StepTypes, DatagramAssumption DEF TypeOK
  <2> QED  BY <2>1 DEF TypeOK, SentBy
<1> QED  BY <1>1, <1>2 DEF Next, Ended

\* The variables of the clients keep their types, whatever messages arrive.
THEOREM TypeCorrect == Spec => []TypeOK
<1>1. Init => TypeOK
  BY InitTypes DEF TypeOK
<1> QED  BY <1>1, NextTypes, PTL DEF Spec

(***************************************************************************)
(* The steps of a process, summed up.                                      *)
(***************************************************************************)
Starts(c, s) ==
    /\ cl[c].pc = "start" /\ PassOver(c, cl[c], s)
    /\ Asks(c, cl[c], s, Bare("DISCOVER", "OK"), "wait_offer1")

IdleStep(c, s) ==
    /\ cl[c].pc = "recv"
    /\ \E q \in Raised :
         /\ Idles(c, q, s) /\ q.stat = cl[c].stat /\ q.ttl = cl[c].ttl
         /\ SameLease(cl[c], q)
         /\ q.sighup_flag => cl[c].sighup_flag \/ InterruptedByHup(c)

HearStep(c, s) ==
    /\ cl[c].pc = "recv"
    /\ \E m \in Datagram : RecvMessage(c, m) /\ Hears(c, m, cl[c], s)

Step(c, s) == Starts(c, s) \/ Signalled(c, s) \/ IdleStep(c, s) \/ HearStep(c, s)

LEMMA StepOf ==
    ASSUME TypeOK, NEW c \in Client,
           \/ Start(c) \/ Signals(c) \/ Interrupts(c) \/ RecvUnknown(c) \/ RecvEmpty(c)
           \/ \E m \in Datagram : RecvMessage(c, m)
    PROVE  \E s \in Process : Step(c, s)
<1>0. cl \in [Client -> Process] /\ cl[c] \in Raised
  BY RaisedProcess DEF TypeOK
<1>1. CASE Start(c)
  BY <1>0, <1>1, StartIs DEF Starts, Step
<1>2. CASE Signals(c)
  BY <1>0, <1>2, SignalIs DEF Step
<1>3. CASE Interrupts(c) \/ RecvEmpty(c)
  BY <1>0, <1>3, InterruptIs DEF IdleStep, Step
<1>4. CASE RecvUnknown(c)
  <2>1. SameLease(cl[c], cl[c])
    BY DEF SameLease
  <2> QED  BY <1>0, <1>4, <2>1, RecvUnknownIs DEF IdleStep, Step
<1>5. ASSUME NEW m \in Datagram, RecvMessage(c, m) PROVE \E s \in Process : Step(c, s)
  BY <1>0, <1>5, RecvMessageIs, DatagramAssumption DEF HearStep, Step
<1> QED  BY <1>1, <1>2, <1>3, <1>4, <1>5

LEMMA NextIs ==
    ASSUME TypeOK, Next, ~ UNCHANGED cvars
    PROVE  \E c \in Client, s \in Process : Step(c, s)
BY StepOf DEF Next, Ended

\* The step of one process leaves the others alone.
LEMMA OthersSame ==
    ASSUME TypeOK, NEW c \in Client, NEW s \in Process, Step(c, s)
    PROVE  /\ cl'[c] = s /\ \A d \in Client \ {c} : cl'[d] = cl[d]
           /\ \A d \in csent' : d.from = c
<1>1. cl' = [cl EXCEPT ![c] = s]
  BY DEF Step, Starts, Signalled, IdleStep, HearStep, Idles, Hears, Handled, PassOver
<1>2. \A d \in csent' : d.from = c
  BY DEF Step, Starts, Signalled, IdleStep, HearStep, Idles, Hears, Handled, Outcome, Stopped,
         Asks, Says
<1> QED  BY <1>1, <1>2 DEF TypeOK

(***************************************************************************)
(* ProlongedByAckOnly.                                                     *)
(***************************************************************************)
LEMMA AfterAlarmTtl ==
    ASSUME NEW q \in Raised
    PROVE  AfterAlarm(q).ttl <= q.ttl /\ q.ttl \in Nat /\ AfterAlarm(q).ttl \in Nat
BY AfterAlarmProcess DEF Raised, Ttl

LEMMA HandledTtl ==
    ASSUME NEW c, NEW q \in Raised, NEW r \in Process, NEW s \in Process, NEW event,
           Handled(c, q, r, event, s), s.ttl > q.ttl
    PROVE  r.stat \in {"wait_ack1", "wait_ack2", "wait_ext_ack"} /\ event = "ack_ok"
<1>1. s.ttl = r.ttl => FALSE
  BY AfterAlarmTtl DEF Handled
<1> QED  BY <1>1 DEF Handled, Outcome, Stopped, Asks

LEMMA NextProlongs ==
    ASSUME TypeOK, NEW c \in Client, NEW s \in Process, Step(c, s), s.ttl > cl[c].ttl
    PROVE  /\ cl[c].stat \in {"wait_ack1", "wait_ack2", "wait_ext_ack"}
           /\ \E m \in Datagram : m.type = "ACK" /\ m.code # "ERR_REQ" /\ RecvMessage(c, m)
<1>0. cl[c] \in Process /\ cl[c] \in Raised /\ cl[c].ttl \in Nat
  BY RaisedProcess DEF TypeOK, Process, Ttl
<1>1. CASE Starts(c, s)
  BY <1>0, <1>1 DEF Starts, Asks
<1>2. CASE Signalled(c, s)
  BY <1>0, <1>2 DEF Signalled
<1>3. CASE IdleStep(c, s)
  BY <1>3, HandledTtl DEF IdleStep, Idles
<1>4. CASE HearStep(c, s)
  <2>1. PICK m \in Datagram : RecvMessage(c, m) /\ Hears(c, m, cl[c], s)
    BY <1>4 DEF HearStep
  <2>2. PICK r \in Process, event \in {"offer_ng", "ack_ng", "none", "offer_ok", "ack_ok"} :
          /\ Handled(c, cl[c], r, event, s)
          /\ event = "ack_ok" => m.type = "ACK" /\ m.code # "ERR_REQ"
    BY <2>1 DEF Hears
  <2> QED  BY <1>0, <2>1, <2>2, HandledTtl DEF Handled
<1> QED  BY <1>1, <1>2, <1>3, <1>4 DEF Step

\* Whatever datagrams arrive, and in whatever order, the time a client may use
\* its address grows only with an ACK it waits for (pstab, start_using).
THEOREM AcksProlong == Spec => ProlongedByAckOnly
<1>1. TypeOK /\ [Next]_cvars =>
        [\A c \in Client : cl'[c].ttl > cl[c].ttl =>
            /\ cl[c].stat \in {"wait_ack1", "wait_ack2", "wait_ext_ack"}
            /\ \E m \in Datagram : m.type = "ACK" /\ m.code # "ERR_REQ" /\ RecvMessage(c, m)]_cvars
  <2> SUFFICES ASSUME TypeOK, Next, ~ UNCHANGED cvars, NEW c \in Client, cl'[c].ttl > cl[c].ttl
               PROVE  /\ cl[c].stat \in {"wait_ack1", "wait_ack2", "wait_ext_ack"}
                      /\ \E m \in Datagram : m.type = "ACK" /\ m.code # "ERR_REQ" /\ RecvMessage(c, m)
    OBVIOUS
  <2>1. PICK d \in Client, s \in Process : Step(d, s)
    BY NextIs
  <2>2. cl'[d] = s /\ (c # d => cl'[c] = cl[c])
    BY <2>1, OthersSame
  <2>3. cl[c].ttl \in Nat
    BY DEF TypeOK, Process, Ttl
  <2>4. c = d
    BY <2>2, <2>3
  <2> QED  BY <2>1, <2>2, <2>4, NextProlongs
<1>2. Spec => []TypeOK
  BY TypeCorrect
<1> QED  BY <1>1, <1>2, PTL DEF Spec, ProlongedByAckOnly

(***************************************************************************)
(* ReleaseEndsUse.                                                         *)
(***************************************************************************)
Release(addr) == [Bare("RELEASE", "OK") EXCEPT !.ipaddr = addr]

LEMMA Types ==
    ASSUME NEW r \in Process
    PROVE  /\ Bare("DISCOVER", "OK").type = "DISCOVER"
           /\ \A code : Request(code, r).type = "REQUEST" /\ Request(code, r).ipaddr = r.addr
           /\ \A addr : Release(addr).type = "RELEASE" /\ Release(addr).ipaddr = addr
BY DEF Bare, Request, Grant, Release

\* What a pass may say, and that a client that uses its address speaks of no other.
LEMMA HandledSays ==
    ASSUME NEW c, NEW q \in Raised, NEW r \in Process, NEW s \in Process, NEW event,
           Handled(c, q, r, event, s)
    PROVE  /\ \A d \in Given(c, {"RELEASE", "REQUEST"}) : d.msg.ipaddr = s.addr
           /\ q.stat \in UsingStat /\ csent' # {} => event \in {"half_ttl", "sighup"}
           /\ Given(c, {"RELEASE"}) # {} =>
                 /\ event = "sighup" /\ q.sighup_flag /\ q.stat \in UsingStat
                 /\ s.pc = "exit" /\ ~ s.sighup_flag
<1>1. s.addr = r.addr /\ s.sighup_flag = r.sighup_flag /\ q.stat = r.stat
      /\ s.pc = IF s.stop_flag THEN "exit" ELSE "recv"
  BY DEF Handled, PassOver, SameLease, SameFlags
<1>2. CASE csent' = {}
  BY <1>2 DEF Given
<1>3. CASE r.stat \in UsingStat /\ event = "sighup" /\ Says(c, Release(r.addr)) /\ s.stop_flag
  <2>1. csent' = {[from |-> c, msg |-> Release(r.addr)]}
    BY <1>3 DEF Says
  <2> QED  BY <1>1, <1>3, <2>1, Types DEF Given, Handled
<1>4. CASE \E code : Says(c, Request(code, r))
  <2>1. PICK code : csent' = {[from |-> c, msg |-> Request(code, r)]}
    BY <1>4 DEF Says
  <2>2. Given(c, {"RELEASE"}) = {}
    BY <2>1, Types DEF Given
  <2>3. \A d \in Given(c, {"RELEASE", "REQUEST"}) : d.msg.ipaddr = s.addr
    <3>1. \A d \in csent' : d.msg = Request(code, r)
      BY <2>1
    <3>2. Request(code, r).ipaddr = s.addr
      BY <1>1, Types
    <3> QED  BY <3>1, <3>2 DEF Given
  <2>4. ~ Says(c, Bare("DISCOVER", "OK"))
    <3>1. \A d \in csent' : d.msg = Request(code, r)
      BY <2>1
    <3>2. Request(code, r) # Bare("DISCOVER", "OK")
      BY Types
    <3>3. ASSUME csent' = {[from |-> c, msg |-> Bare("DISCOVER", "OK")]} PROVE FALSE
      <4>1. \E d \in csent' : d.msg = Bare("DISCOVER", "OK")
        BY <3>3
      <4> QED  BY <3>1, <3>2, <4>1
    <3> QED  BY <3>3 DEF Says
  <2>5. r.stat \in UsingStat => event \in {"half_ttl", "sighup"}
    BY <2>1, <2>4 DEF Handled, Outcome, Stopped, Asks, UsingStat
  <2> QED  BY <1>1, <2>2, <2>3, <2>5
<1>5. CASE Says(c, Bare("DISCOVER", "OK")) /\ r.stat = "wait_offer1"
  <2>1. Given(c, {"RELEASE", "REQUEST"}) = {} /\ Given(c, {"RELEASE"}) = {}
    BY <1>5, Types DEF Says, Given
  <2> QED  BY <1>1, <1>5, <2>1 DEF UsingStat
<1> QED  BY <1>2, <1>3, <1>4, <1>5 DEF Handled, Outcome, Stopped, Asks, Release

\* What a client gives away: a RELEASE because of SIGHUP, and only its address.
LEMMA NextReleases ==
    ASSUME TypeOK, NEW c \in Client, NEW s \in Process, Step(c, s)
    PROVE  /\ Given(c, {"RELEASE"}) # {} =>
                Using(c) /\ Hup(c) /\ s.pc = "exit" /\ ~ s.sighup_flag
           /\ \A d \in Given(c, {"RELEASE", "REQUEST"}) :
                d.msg.ipaddr = s.addr /\ (Using(c) => s.addr = cl[c].addr)
<1>0. cl[c] \in Process /\ cl[c] \in Raised
  BY RaisedProcess DEF TypeOK
<1>1. CASE Starts(c, s)
  <2>1. csent' = {[from |-> c, msg |-> Bare("DISCOVER", "OK")]}
    BY <1>1 DEF Starts, Asks, Says
  <2>2. Given(c, {"RELEASE", "REQUEST"}) = {} /\ Given(c, {"RELEASE"}) = {}
    BY <1>0, <2>1, Types DEF Given
  <2> QED  BY <2>2
<1>2. CASE Signalled(c, s)
  BY <1>2 DEF Signalled, Given
<1>3. CASE HearStep(c, s)
  <2>1. PICK r \in Process, event \in {"offer_ng", "ack_ng", "none", "offer_ok", "ack_ok"} :
          Handled(c, cl[c], r, event, s)
    BY <1>3 DEF HearStep, Hears
  <2>2. Using(c) => csent' = {}
    BY <1>0, <2>1, HandledSays DEF Using
  <2>3. Given(c, {"RELEASE"}) = {}
    BY <1>0, <2>1, HandledSays
  <2>4. \A d \in Given(c, {"RELEASE", "REQUEST"}) : d.msg.ipaddr = s.addr /\ ~ Using(c)
    BY <1>0, <2>1, <2>2, HandledSays DEF Given
  <2> QED  BY <2>3, <2>4
<1>4. CASE IdleStep(c, s)
  <2>1. PICK q \in Raised :
          /\ cl[c].pc = "recv" /\ Idles(c, q, s) /\ q.stat = cl[c].stat /\ SameLease(cl[c], q)
          /\ q.sighup_flag => Hup(c)
    BY <1>4 DEF IdleStep, Hup
  <2>2. PICK r \in Process : \E event : Handled(c, q, r, event, s) /\ SameLease(q, r)
    BY <2>1 DEF Idles
  <2>3. s.addr = cl[c].addr
    BY <2>1, <2>2 DEF Handled, PassOver, SameLease
  <2> QED  BY <2>1, <2>2, <2>3, HandledSays DEF Using
<1> QED  BY <1>1, <1>2, <1>3, <1>4 DEF Step

\* The other way round: a pass without a message that finds sighup_flag set.
LEMMA HupPass ==
    ASSUME NEW c \in Client, NEW q \in Raised, q.alarm_flag \in 0 .. MaxAlarm + 1,
           IdlePass(c, q), q.sighup_flag, q.stat \in UsingStat
    PROVE  Given(c, {"RELEASE"}) # {}
<1> DEFINE now == AfterAlarm(q)
           r == [now EXCEPT !.sighup_flag = FALSE]
<1>1. now \in Process /\ now.stat = q.stat /\ now.sighup_flag
  BY AfterAlarmProcess, AfterAlarmBound DEF SameFlags
<1>2. r \in Process /\ r.stat \in UsingStat
  BY <1>1 DEF Process
<1>3. FSM_func(c, r, "sighup")
  BY <1>1 DEF IdlePass
<1> HIDE DEF now, r
<1>4. ~ Ignored(r, "sighup")
  <2>1. <<r.stat, "sighup", "send_release">> \in pstab
    BY <1>2 DEF pstab, UsingStat
  <2> QED  BY <2>1 DEF Ignored
<1>5. csent' = {[from |-> c, msg |-> Release(r.addr)]}
  <2>1. PICK s \in Process : Outcome(c, r, "sighup", s)
    BY <1>2, <1>3, FSMOutcome
  <2> QED  BY <1>2, <1>4, <2>1 DEF Outcome, Says, Release, UsingStat
<1>6. \E d \in csent' : d.from = c /\ d.msg = Release(r.addr)
  BY <1>5
<1>7. Release(r.addr).type = "RELEASE"
  BY <1>2, Types
<1> QED  BY <1>6, <1>7 DEF Given

LEMMA HupReleases ==
    ASSUME TypeOK, NEW c \in Client, [Next]_cvars, Using(c), Hup(c)
    PROVE  \/ Given(c, {"RELEASE"}) # {}
           \/ cl'[c].sighup_flag /\ (cl'[c].pc = "exit" =>
                 RecvUnknown(c) \/ \E m \in Datagram : RecvMessage(c, m))
<1>0. cl \in [Client -> Process] /\ cl[c] \in Process /\ cl[c] \in Raised
      /\ cl[c].pc = "recv" /\ cl[c].stat \in UsingStat
  BY RaisedProcess DEF TypeOK, Using
<1>1. ASSUME NEW q \in {cl[c], Alarmed(c), [cl[c] EXCEPT !.sighup_flag = TRUE],
                        [cl[c] EXCEPT !.sigint_flag = TRUE]},
             IdlePass(c, q), q.sighup_flag
      PROVE  Given(c, {"RELEASE"}) # {}
  BY <1>0, <1>1, Interruption, HupPass
<1>2. CASE InterruptedByHup(c)
  <2>1. [cl[c] EXCEPT !.sighup_flag = TRUE].sighup_flag
    BY <1>0 DEF Process
  <2> QED  BY <1>1, <1>2, <2>1 DEF InterruptedByHup
<1> SUFFICES ASSUME cl[c].sighup_flag
             PROVE  \/ Given(c, {"RELEASE"}) # {}
                    \/ cl'[c].sighup_flag /\ (cl'[c].pc = "exit" =>
                          RecvUnknown(c) \/ \E m \in Datagram : RecvMessage(c, m))
  BY <1>2 DEF Hup
<1>3. CASE cl'[c] = cl[c]
  BY <1>0, <1>3
<1>4. CASE Interrupts(c) \/ RecvEmpty(c)
  <2>1. /\ Alarmed(c).sighup_flag /\ [cl[c] EXCEPT !.sighup_flag = TRUE].sighup_flag
        /\ [cl[c] EXCEPT !.sigint_flag = TRUE].sighup_flag
    BY <1>0 DEF Process, Alarmed
  <2> QED
    BY <1>1, <1>4, <2>1 DEF Interrupts, RecvEmpty, InterruptedByAlarm, InterruptedByHup,
       InterruptedByInt
<1>5. CASE Signals(c)
  BY <1>0, <1>5, SignalIs DEF Signalled
<1>6. CASE RecvUnknown(c)
  <2>1. FSM_func(c, AfterAlarm(cl[c]), "unknown_msg") /\ AfterAlarm(cl[c]) \in Process
        /\ AfterAlarm(cl[c]).sighup_flag
    BY <1>0, <1>6, Interruption, AfterAlarmProcess, AfterAlarmBound DEF RecvUnknown, SameFlags
  <2>2. PICK s \in Process : PassOver(c, AfterAlarm(cl[c]), s)
    BY <2>1, FSMOutcome
  <2> QED  BY <1>0, <1>6, <2>1, <2>2 DEF PassOver, SameFlags
<1>7. CASE \E m \in Datagram : RecvMessage(c, m)
  <2>1. PICK s \in Process : \E m \in Message : Hears(c, m, cl[c], s)
    BY <1>0, <1>7, RecvMessageIs, DatagramAssumption
  <2>2. PICK r \in Process : \E event \in {"offer_ng", "ack_ng", "none", "offer_ok", "ack_ok"} :
          Handled(c, cl[c], r, event, s)
    BY <2>1 DEF Hears
  <2>3. r.sighup_flag /\ cl'[c] = s /\ s.sighup_flag
    BY <1>0, <2>2 DEF Handled, PassOver, SameFlags
  <2> QED  BY <1>7, <2>3
<1>8. CASE Next
  <2>1. PICK d \in Client : \/ Start(d) \/ Signals(d) \/ Interrupts(d) \/ RecvUnknown(d)
                            \/ RecvEmpty(d) \/ (\E m \in Datagram : RecvMessage(d, m))
                            \/ cl' = cl
    BY <1>8 DEF Next, Ended, cvars
  <2>2. ~ Start(c)
    BY <1>0 DEF Start
  <2>3. CASE d # c
    <3>1. CASE cl' = cl
      BY <1>3, <3>1
    <3>2. CASE \E s : Step(d, s) /\ s \in Process
      BY <1>3, <2>3, <3>2, OthersSame
    <3>3. CASE UNCHANGED cvars
      BY <1>3, <3>3 DEF cvars
    <3> QED
      BY <2>1, <3>1, <3>2, StepOf
  <2> QED  BY <1>3, <1>4, <1>5, <1>6, <1>7, <2>1, <2>2, <2>3
<1> QED  BY <1>3, <1>8 DEF cvars

\* Whatever arrives, a client that uses an address and acts on a SIGHUP gives it
\* back, that address and no other, ends with that step, and gives it back for no
\* other reason; what it asks for is the address it has.
THEOREM ReleasesEndUse == Spec => ReleaseEndsUse
<1>1. TypeOK /\ [Next]_cvars =>
        [\A c \in Client :
          /\ Given(c, {"RELEASE"}) # {} <=> Using(c) /\ Hup(c) /\ ~ cl'[c].sighup_flag
          /\ Given(c, {"RELEASE"}) # {} => cl'[c].pc = "exit"
          /\ Using(c) /\ Hup(c) /\ cl'[c].pc = "exit" =>
                \/ Given(c, {"RELEASE"}) # {}
                \/ RecvUnknown(c)
                \/ \E m \in Datagram : RecvMessage(c, m)
          /\ \A d \in Given(c, {"RELEASE", "REQUEST"}) :
                /\ d.msg.ipaddr = cl'[c].addr
                /\ Using(c) => cl'[c].addr = cl[c].addr]_cvars
  <2> SUFFICES ASSUME TypeOK, Next, ~ UNCHANGED cvars, NEW c \in Client
               PROVE  /\ Given(c, {"RELEASE"}) # {} <=> Using(c) /\ Hup(c) /\ ~ cl'[c].sighup_flag
                      /\ Given(c, {"RELEASE"}) # {} => cl'[c].pc = "exit"
                      /\ Using(c) /\ Hup(c) /\ cl'[c].pc = "exit" =>
                            \/ Given(c, {"RELEASE"}) # {}
                            \/ RecvUnknown(c)
                            \/ \E m \in Datagram : RecvMessage(c, m)
                      /\ \A d \in Given(c, {"RELEASE", "REQUEST"}) :
                            /\ d.msg.ipaddr = cl'[c].addr
                            /\ Using(c) => cl'[c].addr = cl[c].addr
    OBVIOUS
  <2>1. PICK d \in Client, s \in Process : Step(d, s)
    BY NextIs
  <2>2. /\ cl'[d] = s
        /\ c # d => Given(c, {"RELEASE"}) = {} /\ Given(c, {"RELEASE", "REQUEST"}) = {}
    BY <2>1, OthersSame DEF Given
  <2>3. /\ Given(c, {"RELEASE"}) # {} =>
             Using(c) /\ Hup(c) /\ cl'[c].pc = "exit" /\ ~ cl'[c].sighup_flag
        /\ \A e \in Given(c, {"RELEASE", "REQUEST"}) :
             e.msg.ipaddr = cl'[c].addr /\ (Using(c) => cl'[c].addr = cl[c].addr)
    <3>1. CASE c = d
      BY <2>1, <2>2, <3>1, NextReleases
    <3>2. CASE c # d
      BY <2>2, <3>2
    <3> QED  BY <3>1, <3>2
  <2>4. Using(c) /\ Hup(c) =>
          \/ Given(c, {"RELEASE"}) # {}
          \/ cl'[c].sighup_flag /\ (cl'[c].pc = "exit" =>
                RecvUnknown(c) \/ \E m \in Datagram : RecvMessage(c, m))
    BY HupReleases
  <2> QED  BY <2>3, <2>4
<1>2. Spec => []TypeOK
  BY TypeCorrect
<1> QED  BY <1>1, <1>2, PTL DEF Spec, ReleaseEndsUse

(***************************************************************************)
(* ForwardOnly.                                                            *)
(***************************************************************************)
Forward(c, old, new) ==
    /\ Rank(new.stat) >= Rank(old.stat)
    /\ (csent' # {} /\ new # old /\ old.stat # "in_use") => Rank(new.stat) > Rank(old.stat)

LEMMA Ranks ==
    /\ Rank("init") = 0 /\ Rank("wait_offer1") = 1 /\ Rank("wait_offer2") = 2
    /\ Rank("wait_ack1") = 3 /\ Rank("wait_ack2") = 4
    /\ Rank("in_use") = 5 /\ Rank("wait_ext_ack") = 5 /\ Rank("term") = 6
    /\ \A stat \in Stat : Rank(stat) \in 0 .. 6 /\ (stat # "term" => Rank(stat) < 6)
BY DEF Rank, UsingStat, Stat

LEMMA HandledForward ==
    ASSUME NEW c, NEW q \in Raised, NEW r \in Process, NEW s \in Process, NEW event,
           Handled(c, q, r, event, s)
    PROVE  /\ Rank(s.stat) >= Rank(q.stat)
           /\ csent' # {} /\ q.stat # "in_use" => Rank(s.stat) > Rank(q.stat)
<1>1. r.stat = q.stat /\ q.stat \in Stat /\ s.stat \in Stat
  BY DEF Handled, Process
<1>2. Rank(s.stat) \in Int /\ Rank(q.stat) \in Int
  BY <1>1, Ranks
<1>3. CASE s.stat = r.stat /\ csent' = {}
  BY <1>1, <1>2, <1>3
<1>4. CASE s.stat = "term" /\ r.stat # "term"
  BY <1>1, <1>2, <1>4, Ranks
<1>5. CASE s.stat \notin {"term", r.stat}
  <2>1. \/ r.stat = "wait_offer1" /\ s.stat = "wait_offer2"
        \/ r.stat \in {"wait_offer1", "wait_offer2"} /\ s.stat = "wait_ack1"
        \/ r.stat = "wait_ack1" /\ s.stat = "wait_ack2"
        \/ r.stat = "in_use" /\ s.stat = "wait_ext_ack"
        \/ r.stat \in {"wait_ack1", "wait_ack2", "wait_ext_ack"} /\ s.stat = "in_use" /\ csent' = {}
    BY <1>5 DEF Handled, Outcome, Stopped, Asks
  <2> QED  BY <1>1, <2>1, Ranks
<1>6. \/ s.stat = r.stat /\ csent' = {}
      \/ s.stat = "term" /\ r.stat # "term"
      \/ s.stat \notin {"term", r.stat}
  BY DEF Handled, Outcome, Stopped, Asks, UsingStat
<1> QED  BY <1>3, <1>4, <1>5, <1>6

LEMMA NextForward ==
    ASSUME TypeOK, NEW c \in Client, NEW s \in Process, Step(c, s),
           cl[c].pc = "start" => cl[c].stat = "init"
    PROVE  Forward(c, cl[c], s)
<1>0. cl[c] \in Process /\ cl[c] \in Raised /\ cl[c].stat \in Stat
  BY RaisedProcess DEF TypeOK, Process
<1>1. CASE Starts(c, s)
  BY <1>1, Ranks DEF Starts, Asks, Forward
<1>2. CASE Signalled(c, s)
  <2>1. Rank(cl[c].stat) \in Int
    BY <1>0, Ranks
  <2> QED  BY <1>2, <2>1 DEF Signalled, Forward
<1>3. CASE IdleStep(c, s)
  BY <1>3, HandledForward DEF IdleStep, Idles, Forward
<1>4. CASE HearStep(c, s)
  BY <1>0, <1>4, HandledForward DEF HearStep, Hears, Forward
<1> QED  BY <1>1, <1>2, <1>3, <1>4 DEF Step

\* Before main sends the first DISCOVER the process is in its first state.
StartsFirst == \A c \in Client : cl[c].pc = "start" => cl[c].stat = "init"

LEMMA NextStartsFirst ==
    ASSUME TypeOK, StartsFirst, [Next]_cvars
    PROVE  StartsFirst'
<1>1. CASE UNCHANGED cvars
  BY <1>1 DEF cvars, StartsFirst
<1>2. CASE Next /\ ~ UNCHANGED cvars
  <2>1. PICK c \in Client, s \in Process : Step(c, s)
    BY <1>2, NextIs
  <2>2. s.pc = "start" => s.stat = cl[c].stat /\ cl[c].pc = "start"
    BY <2>1 DEF Step, Starts, Signalled, IdleStep, HearStep, Idles, Hears, Handled, PassOver
  <2> QED  BY <2>1, <2>2, OthersSame DEF StartsFirst
<1> QED  BY <1>1, <1>2

\* Each message is repeated at most once and no datagram sets a client back,
\* whatever arrives (pstab).
THEOREM ClientsMoveForward == Spec => ForwardOnly
<1>1. TypeOK /\ StartsFirst /\ [Next]_cvars =>
        [\A c \in Client :
          /\ Rank(cl'[c].stat) >= Rank(cl[c].stat)
          /\ (csent' # {} /\ cl'[c] # cl[c] /\ cl[c].stat # "in_use") =>
                Rank(cl'[c].stat) > Rank(cl[c].stat)]_cvars
  <2> SUFFICES ASSUME TypeOK, StartsFirst, Next, ~ UNCHANGED cvars, NEW c \in Client
               PROVE  Forward(c, cl[c], cl'[c])
    BY DEF Forward
  <2>1. PICK d \in Client, s \in Process : Step(d, s)
    BY NextIs
  <2>2. cl'[d] = s /\ (c # d => cl'[c] = cl[c])
    BY <2>1, OthersSame
  <2>3. CASE c = d
    BY <2>1, <2>2, <2>3, NextForward DEF StartsFirst
  <2>4. CASE c # d
    <3>1. Rank(cl[c].stat) \in Int
      BY Ranks DEF TypeOK, Process
    <3> QED  BY <2>2, <2>4, <3>1 DEF Forward
  <2> QED  BY <2>3, <2>4
<1>2. Init => StartsFirst
  BY DEF Init, NewProcess, StartsFirst
<1>3. TypeOK /\ StartsFirst /\ [Next]_cvars => StartsFirst'
  BY NextStartsFirst
<1>4. Spec => []TypeOK
  BY TypeCorrect
<1> QED  BY <1>1, <1>2, <1>3, <1>4, PTL DEF Spec, ForwardOnly
=============================================================================
