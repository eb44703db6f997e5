---------------------------- MODULE MyFtpd_proofs ----------------------------
(***************************************************************************)
(* The parent of myftpd is not held up by its SIGCHLD handler, and a child *)
(* serves one message at most after SIGTERM, for any number of processes   *)
(* and any backlog.                                                        *)
(***************************************************************************)
EXTENDS MyFtpd, TLAPS

(* What a child may have served late: the flag is set before, and the loop *)
(* of client_handler does not come to recv again.                          *)
Told(q) ==
    /\ q.stat = "none" => q = NoProcess
    /\ q.late <= 1
    /\ q.late > 0 => q.sigterm_flag /\ q.stat \in {"test", "zombie"}

Inv ==
    /\ TypeOK
    /\ NeverHeldUp
    /\ \A c \in Child : Told(child[c])

LEMMA NoProcessTold == NoProcess \in Process /\ Told(NoProcess)
  BY DEF NoProcess, Process, Told

LEMMA ZombieTold ==
    ASSUME NEW q \in Process, Told(q), q.stat # "none"
    PROVE  Zombie(q) \in Process /\ Told(Zombie(q))
  BY DEF Zombie, Process, Told

(* What kill(0, SIGTERM) makes of a child.                                 *)
LEMMA KilledTold ==
    ASSUME NEW q \in Process, Told(q), NEW r \in Killed(q)
    PROVE  r \in Process /\ Told(r)
  <1> DEFINE told == [q EXCEPT !.sigterm_flag = TRUE]
  <1>1. /\ told \in Process /\ told.stat = q.stat /\ told.late = q.late
        /\ told.sigterm_flag
    BY DEF Process
  <1>2. CASE q.stat = "test"
    <2>1. r = told
      BY <1>2 DEF Killed
    <2> QED BY <1>1, <1>2, <2>1 DEF Told
  <1>3. CASE q.stat = "recv"
    <2>1. r = told \/ r = Zombie(told)
      BY <1>3 DEF Killed
    <2>2. Told(told)
      BY <1>1, <1>3 DEF Told
    <2> QED BY <1>1, <1>3, <2>1, <2>2, ZombieTold
  <1>4. CASE q.stat \notin {"test", "recv"}
    <2>1. r = q
      BY <1>4 DEF Killed
    <2> QED BY <2>1
  <1> QED BY <1>2, <1>3, <1>4

LEMMA InvInit == Init => Inv
  <1> SUFFICES ASSUME Init PROVE Inv
    OBVIOUS
  <1>1. TypeOK
    <2>1. child \in [Child -> Process] /\ backlog \in 0..Backlog
      BY NoProcessTold, BacklogAssumption DEF Init
    <2>2. extra \in 0..2
      BY DEF Init
    <2> QED BY <2>1, <2>2, Zenon DEF Init, TypeOK
  <1>2. NeverHeldUp
    BY DEF Init, NeverHeldUp
  <1>3. \A c \in Child : Told(child[c])
    BY NoProcessTold DEF Init
  <1> QED BY <1>1, <1>2, <1>3 DEF Inv

(* The steps that leave the children alone.                                *)
LEMMA FramedInv ==
    ASSUME Inv, TypeOK', UNCHANGED child,
           \/ UNCHANGED <<sigchld, waiting, resumed, extra>>
           \/ resumed'
    PROVE  Inv'
  BY DEF Inv, NeverHeldUp, In

(* The steps of one child that is not dead: it lives on, or dies with a    *)
(* SIGCHLD for the parent, which may have gone.                            *)
LEMMA ChildInv ==
    ASSUME Inv, NEW c \in Child, NEW q \in Process, Told(q), child[c].stat # "zombie",
           child' = [child EXCEPT ![c] = q],
           sigchld' => sigchld \/ q.stat = "zombie",
           UNCHANGED <<pc, sigint_flag, backlog, waiting, resumed, extra>>,
           sigchld' \in BOOLEAN
    PROVE  Inv'
  <1>1. TypeOK'
    BY DEF Inv, TypeOK
  <1>2. \A d \in Child : Told(child'[d])
    BY DEF Inv, TypeOK
  <1>3. NeverHeldUp'
    <2> SUFFICES ASSUME ~resumed, sigchld' PROVE In("zombie")' # {}
      BY DEF Inv, NeverHeldUp
    <2>1. CASE q.stat = "zombie"
      <3>1. child'[c].stat = "zombie"
        BY <2>1 DEF Inv, TypeOK
      <3> QED BY <3>1 DEF In
    <2>2. CASE sigchld
      <3>1. PICK d \in Child : child[d].stat = "zombie"
        BY <2>2 DEF Inv, NeverHeldUp, In
      <3>2. child'[d] = child[d]
        BY <3>1 DEF Inv, TypeOK
      <3> QED BY <3>1, <3>2 DEF In
    <2> QED BY <2>1, <2>2
  <1> QED BY <1>1, <1>2, <1>3 DEF Inv

(* The parent exits.                                                       *)
LEMMA ExitInv ==
    ASSUME Inv, NEW procs \in [Child -> Process], Exit(procs),
           \A c \in Child : Told(procs[c])
    PROVE  Inv'
  <1>1. child' \in [Child -> Process]
    BY NoProcessTold DEF Exit
  <1>2. TypeOK'
    BY <1>1 DEF Inv, TypeOK, Exit
  <1>3. \A c \in Child : Told(child'[c])
    BY NoProcessTold DEF Exit
  <1> QED BY <1>2, <1>3 DEF Inv, NeverHeldUp, Exit

LEMMA ReapInv ==
    ASSUME Inv, Reap, sigchld' = FALSE, waiting' = FALSE,
           UNCHANGED <<pc, sigint_flag, backlog, resumed, extra>>
    PROVE  Inv'
  <1>1. PICK c \in Child : child' = [child EXCEPT ![c] = NoProcess]
    BY DEF Reap, In
  <1>2. child' \in [Child -> Process] /\ \A d \in Child : Told(child'[d])
    BY <1>1, NoProcessTold DEF Inv, TypeOK
  <1>3. TypeOK'
    BY <1>2 DEF Inv, TypeOK
  <1> QED BY <1>2, <1>3 DEF Inv, NeverHeldUp

LEMMA SigintInv == ASSUME Inv, sigint_handler PROVE Inv'
  <1>1. PICK cs \in SUBSET In("recv") :
          child' = Dead(cs) /\ sigchld' = (sigchld \/ cs # {})
    BY DEF sigint_handler
  <1>2. \A c \in Child : child'[c] = IF c \in cs THEN Zombie(child[c]) ELSE child[c]
    BY <1>1 DEF Dead
  <1>3. \A c \in cs : c \in Child /\ child[c].stat = "recv"
    BY DEF In
  <1>4. child' \in [Child -> Process] /\ \A c \in Child : Told(child'[c])
    <2>1. \A c \in Child : child'[c] \in Process /\ Told(child'[c])
      BY <1>2, <1>3, ZombieTold DEF Inv, TypeOK
    <2> QED BY <1>1, <2>1 DEF Dead
  <1>5. \A c \in cs : child'[c].stat = "zombie"
    <2> TAKE c \in cs
    <2>1. c \in Child /\ child[c] \in Process
      BY <1>3 DEF Inv, TypeOK
    <2> QED BY <1>2, <2>1 DEF Zombie, Process
  <1>6. TypeOK'
    BY <1>1, <1>4 DEF Inv, TypeOK, sigint_handler, At
  <1>7. NeverHeldUp'
    <2> SUFFICES ASSUME ~resumed, sigchld' PROVE In("zombie")' # {}
      BY DEF sigint_handler, NeverHeldUp
    <2>1. CASE cs # {}
      BY <1>3, <1>5, <2>1 DEF In
    <2>2. CASE cs = {}
      <3>1. sigchld /\ child' = child
        BY <1>1, <2>2 DEF Dead, Inv, TypeOK
      <3> QED BY <3>1 DEF Inv, NeverHeldUp, In
    <2> QED BY <2>1, <2>2
  <1> QED BY <1>4, <1>6, <1>7 DEF Inv

LEMMA LoopInv == ASSUME Inv, Loop PROVE Inv'
  <1>1. CASE Test
    BY <1>1, FramedInv DEF Test, Inv, TypeOK
  <1>2. CASE wait_client
    BY <1>2, FramedInv, BacklogAssumption DEF wait_client, Inv, TypeOK
  <1>3. CASE Fork
    <2>1. PICK c \in In("none") : child' = [child EXCEPT ![c].stat = "new"]
      BY <1>3 DEF Fork
    <2> DEFINE q == [child[c] EXCEPT !.stat = "new"]
    <2>2. c \in Child /\ child[c] = NoProcess
      BY DEF In, Inv, Told
    <2>3. q \in Process /\ Told(q) /\ q.stat = "new"
      <3>1. q.stat = "new" /\ q.late = 0
        BY <2>2 DEF NoProcess
      <3>2. q \in Process
        BY <2>2, NoProcessTold DEF Process
      <3> QED BY <3>1, <3>2 DEF Told
    <2>4. \A d \in Child : child'[d] = IF d = c THEN q ELSE child[d]
      BY <2>1, <2>2 DEF Inv, TypeOK
    <2>5. child' \in [Child -> Process] /\ \A d \in Child : Told(child'[d])
      BY <2>1, <2>3, <2>4 DEF Inv, TypeOK
    <2>6. TypeOK'
      BY <1>3, <2>5 DEF Fork, Inv, TypeOK
    <2>7. NeverHeldUp'
      <3> SUFFICES ASSUME ~resumed, sigchld PROVE In("zombie")' # {}
        BY <1>3 DEF Fork, Inv, NeverHeldUp
      <3>1. PICK d \in Child : child[d].stat = "zombie"
        BY DEF Inv, NeverHeldUp, In
      <3>2. child'[d].stat = "zombie"
        BY <2>2, <2>4, <3>1 DEF NoProcess
      <3> QED BY <3>1, <3>2 DEF In
    <2> QED BY <2>5, <2>6, <2>7 DEF Inv
  <1>4. CASE ForkFails
    BY <1>4, ExitInv DEF ForkFails, Inv, TypeOK
  <1>5. CASE kill_children
    <2>1. PICK procs \in [Child -> UNION {Killed(child[c]) : c \in Child}] :
            (\A c \in Child : procs[c] \in Killed(child[c])) /\ Exit(procs)
      BY <1>5 DEF kill_children
    <2>2. \A c \in Child : procs[c] \in Process /\ Told(procs[c])
      BY <2>1, KilledTold DEF Inv, TypeOK
    <2>3. procs \in [Child -> Process]
      BY <2>2
    <2> QED BY <2>1, <2>2, <2>3, ExitInv
  <1> QED BY <1>1, <1>2, <1>3, <1>4, <1>5 DEF Loop

LEMMA HandlerInv == ASSUME Inv, Handler PROVE Inv'
  <1>1. CASE sigchld_handler
    <2>1. CASE Reap /\ waiting' = FALSE
      BY <1>1, <2>1, ReapInv DEF sigchld_handler
    <2>2. CASE In("zombie") = {} /\ waiting' = (Alive # {}) /\ UNCHANGED child
      <3>1. resumed
        BY <1>1, <2>2 DEF sigchld_handler, Inv, NeverHeldUp
      <3>2. TypeOK'
        BY <1>1, <2>2 DEF sigchld_handler, Inv, TypeOK
      <3>3. resumed'
        BY <1>1, <3>1 DEF sigchld_handler
      <3> QED BY <2>2, <3>2, <3>3, FramedInv
    <2> QED BY <1>1, <2>1, <2>2 DEF sigchld_handler, Handle
  <1>2. CASE WaitReturns
    <2>1. resumed /\ resumed'
      BY <1>2 DEF WaitReturns, Inv, NeverHeldUp
    <2>2. PICK c \in Child : child' = [child EXCEPT ![c] = NoProcess]
      BY <1>2 DEF WaitReturns, Reap, In
    <2>3. child' \in [Child -> Process] /\ \A d \in Child : Told(child'[d])
      BY <2>2, NoProcessTold DEF Inv, TypeOK
    <2> QED BY <1>2, <2>1, <2>3 DEF WaitReturns, Inv, TypeOK, NeverHeldUp
  <1> QED BY <1>1, <1>2 DEF Handler

LEMMA DieInv ==
    ASSUME Inv, NEW c \in Child, child[c].stat \in {"test", "recv"}, Die(c)
    PROVE  Inv'
  <1> DEFINE q == IF pc = "exit" THEN NoProcess ELSE Zombie(child[c])
  <1>1. q \in Process /\ Told(q)
    BY NoProcessTold, ZombieTold DEF Inv, TypeOK
  <1>2. child' = [child EXCEPT ![c] = q]
    BY DEF Die
  <1>3. sigchld' => q.stat = "zombie"
    BY DEF Die, Zombie, Inv, TypeOK, Process
  <1>4. /\ sigchld' \in BOOLEAN /\ child[c].stat # "zombie"
        /\ UNCHANGED <<pc, sigint_flag, backlog, waiting, resumed, extra>>
    BY DEF Die
  <1> QED BY <1>1, <1>2, <1>3, <1>4, ChildInv

LEMMA BecomeInv ==
    ASSUME Inv, NEW c \in Child, child[c].stat # "zombie",
           NEW q \in Process, Told(q), Become(c, q)
    PROVE  Inv'
  <1>1. sigchld' = sigchld /\ sigchld' \in BOOLEAN
    BY DEF Become, Inv, TypeOK
  <1>2. /\ child' = [child EXCEPT ![c] = q]
        /\ UNCHANGED <<pc, sigint_flag, backlog, waiting, resumed, extra>>
    BY DEF Become
  <1>3. sigchld' => sigchld \/ q.stat = "zombie"
    BY <1>1
  <1> QED BY <1>1, <1>2, <1>3, ChildInv

LEMMA StepInv ==
    ASSUME Inv, NEW c \in Child, Begin(c) \/ Serve(c) \/ ClientLeaves(c)
    PROVE  Inv'
  <1>0. child[c] \in Process /\ Told(child[c])
    BY DEF Inv, TypeOK
  <1>1. CASE signal_conf_child(c)
    <2>1. PICK restart \in BOOLEAN :
            Become(c, [child[c] EXCEPT !.stat = "test", !.restart = restart])
      BY <1>1 DEF signal_conf_child
    <2>2. /\ [child[c] EXCEPT !.stat = "test", !.restart = restart] \in Process
          /\ Told([child[c] EXCEPT !.stat = "test", !.restart = restart])
          /\ child[c].stat # "zombie"
      BY <1>0, <1>1 DEF signal_conf_child, Process, Told
    <2> QED BY <2>1, <2>2, BecomeInv
  <1>2. CASE TestTerm(c)
    <2>1. CASE child[c].sigterm_flag
      BY <1>2, <2>1, DieInv DEF TestTerm
    <2>2. CASE ~child[c].sigterm_flag
      <3>1. /\ [child[c] EXCEPT !.stat = "recv"] \in Process
            /\ Told([child[c] EXCEPT !.stat = "recv"])
            /\ child[c].stat # "zombie"
        BY <1>0, <1>2, <2>2 DEF TestTerm, Process, Told
      <3> QED BY <1>2, <2>2, <3>1, BecomeInv DEF TestTerm
    <2> QED BY <2>1, <2>2
  <1>3. CASE Serve(c)
    <2> DEFINE q == child[c]
    <2>1. q.stat = "recv" /\ q.late = 0 /\ q \in Process
      BY <1>0, <1>3 DEF Serve, Process, Told
    <2>2. Served(q) \in Process /\ Told(Served(q))
      <3>1. CASE q.sigterm_flag
        <4>1. Served(q) = [q EXCEPT !.stat = "test", !.late = 1]
          BY <2>1, <3>1 DEF Served
        <4>2. Served(q) \in Process
          <5>1. "test" \in {"none", "new", "test", "recv", "zombie"} /\ 1 \in 0..2
            OBVIOUS
          <5> QED BY <2>1, <4>1, <5>1, Zenon DEF Process
        <4>3. /\ Served(q).stat = "test" /\ Served(q).late = 1
              /\ Served(q).sigterm_flag = q.sigterm_flag
          BY <2>1, <4>1 DEF Process
        <4> QED BY <3>1, <4>2, <4>3 DEF Told
      <3>2. CASE ~q.sigterm_flag
        <4>1. Served(q) = [q EXCEPT !.stat = "test"]
          BY <2>1, <3>2 DEF Served, Process
        <4>2. Served(q) \in Process /\ Served(q).stat = "test" /\ Served(q).late = 0
          BY <2>1, <4>1 DEF Process
        <4> QED BY <4>2 DEF Told
      <3> QED BY <3>1, <3>2
    <2>3. Become(c, Served(q)) /\ child[c].stat # "zombie"
      BY <1>3, <2>1 DEF Serve
    <2> QED BY <2>2, <2>3, BecomeInv
  <1>4. CASE ClientLeaves(c)
    BY <1>4, DieInv DEF ClientLeaves
  <1> QED BY <1>1, <1>2, <1>3, <1>4 DEF Begin

LEMMA InvNext == Inv /\ [Next]_vars => Inv'
  <1> SUFFICES ASSUME Inv, [Next]_vars PROVE Inv'
    OBVIOUS
  <1>1. CASE Loop
    BY <1>1, LoopInv
  <1>2. CASE Handler
    BY <1>2, HandlerInv
  <1>3. CASE sigint_handler
    BY <1>3, SigintInv
  <1>4. CASE Connect
    BY <1>4, FramedInv, BacklogAssumption DEF Connect, Inv, TypeOK
  <1>5. CASE Continue
    BY <1>5, FramedInv DEF Continue, Inv, TypeOK
  <1>6. CASE \E c \in Child : Begin(c) \/ Serve(c) \/ ClientLeaves(c)
    BY <1>6, StepInv
  <1>7. CASE UNCHANGED vars
    BY <1>7, FramedInv DEF vars, Inv, TypeOK
  <1> QED BY <1>1, <1>2, <1>3, <1>4, <1>5, <1>6, <1>7 DEF Next, Ended

LEMMA Invariant == Spec => []Inv
  BY InvInit, InvNext, PTL DEF Spec

(* As long as no child was stopped and continued, wait in sigchld_handler  *)
(* finds a dead child whenever it is called, and the parent goes on        *)
(* accepting.                                                              *)
THEOREM HandlerReturns == Spec => []NeverHeldUp
  <1>1. Inv => NeverHeldUp
    BY DEF Inv
  <1> QED BY Invariant, <1>1, PTL

(* What the parent may have done late: after that fork it looks at the     *)
(* flag before it accepts again.                                           *)
Looks ==
    /\ extra <= 1
    /\ extra > 0 => sigint_flag /\ pc \in {"test", "kill", "exit"}

LEMMA LooksNext == TypeOK /\ Looks /\ [Next]_vars => Looks'
  <1> SUFFICES ASSUME TypeOK, Looks, [Next]_vars PROVE Looks'
    OBVIOUS
  <1>0. extra \in 0..2
    BY DEF TypeOK
  <1>1. CASE Fork
    <2>1. pc = "fork" /\ pc' = "test" /\ sigint_flag' = sigint_flag /\ extra = 0
      BY <1>0, <1>1 DEF Fork, At, Looks
    <2>2. extra' = IF sigint_flag THEN 1 ELSE 0
      BY <1>1, <2>1 DEF Fork
    <2> QED BY <2>1, <2>2 DEF Looks
  <1>2. CASE Test \/ wait_client
    BY <1>2 DEF Test, wait_client, At, Looks
  <1>3. CASE ForkFails \/ kill_children
    BY <1>3 DEF ForkFails, kill_children, Exit, Looks
  <1>4. CASE sigint_handler
    BY <1>4 DEF sigint_handler, At, Looks
  <1>5. CASE UNCHANGED <<pc, sigint_flag, extra>>
    BY <1>5 DEF Looks
  <1>6. CASE Handler \/ Connect \/ Continue
    BY <1>5, <1>6 DEF Handler, sigchld_handler, WaitReturns, Connect, Continue
  <1>7. CASE \E c \in Child : Begin(c) \/ Serve(c) \/ ClientLeaves(c)
    BY <1>5, <1>7 DEF Begin, signal_conf_child, TestTerm, Serve, ClientLeaves, Become, Die
  <1> QED
    BY <1>1, <1>2, <1>3, <1>4, <1>5, <1>6, <1>7 DEF Next, Loop, Ended, vars

(* After SIGINT the parent forks once more at most, and a child that       *)
(* SIGTERM has reached serves one more message at most.                    *)
THEOREM OneMore == Spec => []AtMostOneMore
  <1>1. Inv /\ Looks => AtMostOneMore
    BY DEF Inv, Told, Looks, AtMostOneMore
  <1>2. Init => Looks
    BY DEF Init, Looks
  <1>3. Inv => TypeOK
    BY DEF Inv
  <1> QED BY Invariant, <1>1, <1>2, <1>3, LooksNext, PTL DEF Spec
=============================================================================
