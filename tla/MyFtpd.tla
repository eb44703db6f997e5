------------------------------- MODULE MyFtpd -------------------------------
(***************************************************************************)
(* The parent of myftpd, src/myftp/myftpd.c, with its children and the     *)
(* signals between them: SIGINT from the user, SIGTERM to the children,    *)
(* SIGCHLD back.  What a child does for its client is module MyFtpSession; *)
(* here it waits for a message and serves it.                              *)
(***************************************************************************)
EXTENDS Naturals, FiniteSets
CONSTANTS
    Child,      \* the processes the system has room for, besides the parent
    Backlog     \* connections that wait to be accepted, see listen
VARIABLES
    pc,             \* where the parent is in its loop
    sigint_flag,
    backlog,        \* connections not accepted yet
    child,          \* the children
    sigchld,        \* SIGCHLD is pending; signals that are pending merge
    waiting,        \* the SIGCHLD handler is blocked in wait
    resumed,        \* history: a child was stopped and continued
    extra           \* history: forks after sigint_flag was set, cut at 2
vars == <<pc, sigint_flag, backlog, child, sigchld, waiting, resumed, extra>>

ASSUME ChildAssumption == IsFiniteSet(Child)
ASSUME BacklogAssumption == Backlog \in Nat

(* A child has its own handler of SIGTERM from signal_conf_child on, whose *)
(* sa_flags are not initialized: restart says whether they have            *)
(* SA_RESTART.  late counts the messages served although sigterm_flag was  *)
(* set (a history, cut at 2).                                              *)
Process == [ stat : {"none", "new", "test", "recv", "zombie"},
             restart : BOOLEAN, sigterm_flag : BOOLEAN, late : 0..2 ]
NoProcess == [stat |-> "none", restart |-> FALSE, sigterm_flag |-> FALSE, late |-> 0]

In(stat) == {c \in Child : child[c].stat = stat}
Alive == In("new") \cup In("test") \cup In("recv")

TypeOK ==
    /\ pc \in {"test", "accept", "fork", "kill", "exit"}
    /\ sigint_flag \in BOOLEAN
    /\ backlog \in 0..Backlog
    /\ child \in [Child -> Process]
    /\ sigchld \in BOOLEAN
    /\ waiting \in BOOLEAN
    /\ resumed \in BOOLEAN
    /\ extra \in 0..2

Init ==
    /\ pc = "test"
    /\ sigint_flag = FALSE
    /\ backlog = 0
    /\ child = [c \in Child |-> NoProcess]
    /\ sigchld = FALSE
    /\ waiting = FALSE
    /\ resumed = FALSE
    /\ extra = 0

(***************************************************************************)
(* The parent.  While its SIGCHLD handler waits the loop stands still.     *)
(***************************************************************************)
At(place) == pc = place /\ ~waiting
Test ==
    /\ At("test")
    /\ pc' = IF sigint_flag THEN "kill" ELSE "accept"
    /\ UNCHANGED <<sigint_flag, backlog, child, sigchld, waiting, resumed, extra>>
wait_client ==
    /\ At("accept")
    /\ backlog > 0
    /\ backlog' = backlog - 1
    /\ pc' = "fork"
    /\ UNCHANGED <<sigint_flag, child, sigchld, waiting, resumed, extra>>
Fork ==
    /\ At("fork")
    /\ \E c \in In("none") : child' = [child EXCEPT ![c].stat = "new"]
    /\ pc' = "test"
    /\ extra' = IF sigint_flag /\ extra < 2 THEN extra + 1 ELSE extra
    /\ UNCHANGED <<sigint_flag, backlog, sigchld, waiting, resumed>>
(* The children that are dead are nobody's when the parent exits.          *)
Exit(procs) ==
    /\ pc' = "exit"
    /\ child' = [c \in Child |-> IF procs[c].stat = "zombie" THEN NoProcess
                                 ELSE procs[c]]
    /\ sigchld' = FALSE
    /\ UNCHANGED <<sigint_flag, backlog, waiting, resumed, extra>>
ForkFails == At("fork") /\ Exit(child)

(* kill(0, SIGTERM): the parent ignores it, and so do the children that    *)
(* have not come to signal_conf_child.  recv is interrupted, unless it is  *)
(* restarted or was not called yet when the signal came.                   *)
Zombie(p) == [p EXCEPT !.stat = "zombie"]
Killed(p) ==
    LET told == [p EXCEPT !.sigterm_flag = TRUE]
    IN  CASE p.stat = "test" -> {told}
          [] p.stat = "recv" -> {told} \cup IF p.restart THEN {} ELSE {Zombie(told)}
          [] OTHER -> {p}
kill_children ==
    /\ At("kill")
    /\ \E procs \in [Child -> UNION {Killed(child[c]) : c \in Child}] :
          /\ \A c \in Child : procs[c] \in Killed(child[c])
          /\ Exit(procs)

(* sigint_handler, for the parent alone or, from a terminal, for the whole *)
(* group: the children have inherited it, without SA_RESTART, and recv     *)
(* fails.  accept fails if it was called before the signal came.           *)
Dead(cs) == [c \in Child |-> IF c \in cs THEN Zombie(child[c]) ELSE child[c]]
sigint_handler ==
    /\ pc # "exit"
    /\ sigint_flag' = TRUE
    /\ pc' \in IF At("accept") THEN {"accept", "test"} ELSE {pc}
    /\ waiting' = FALSE
    /\ \E cs \in SUBSET In("recv") :
          /\ child' = Dead(cs)
          /\ sigchld' = (sigchld \/ cs # {})
    /\ UNCHANGED <<backlog, resumed, extra>>

(* sigchld_handler: one wait for each SIGCHLD that is delivered.           *)
Reap == \E c \in In("zombie") : child' = [child EXCEPT ![c] = NoProcess]
(* Mutant of Handle: wait for all of them, until there is none.            *)
Handle_all ==
    /\ child' = [c \in Child |-> IF child[c].stat = "zombie" THEN NoProcess
                                 ELSE child[c]]
    /\ waiting' = (Alive # {})
Handle ==
    \/ Reap /\ waiting' = FALSE
    \/ In("zombie") = {} /\ waiting' = (Alive # {}) /\ UNCHANGED child
sigchld_handler ==
    /\ pc # "exit"
    /\ sigchld
    /\ ~waiting
    /\ sigchld' = FALSE
    /\ Handle
    /\ UNCHANGED <<pc, sigint_flag, backlog, resumed, extra>>
WaitReturns ==
    /\ waiting
    /\ Reap
    /\ waiting' = FALSE
    /\ UNCHANGED <<pc, sigint_flag, backlog, sigchld, resumed, extra>>

(***************************************************************************)
(* A child.                                                                *)
(***************************************************************************)
Become(c, p) ==
    /\ child' = [child EXCEPT ![c] = p]
    /\ UNCHANGED <<pc, sigint_flag, backlog, sigchld, waiting, resumed, extra>>
Die(c) ==
    /\ child' = [child EXCEPT ![c] = IF pc = "exit" THEN NoProcess ELSE Zombie(@)]
    /\ sigchld' = (pc # "exit")
    /\ UNCHANGED <<pc, sigint_flag, backlog, waiting, resumed, extra>>
signal_conf_child(c) ==
    /\ child[c].stat = "new"
    /\ \E restart \in BOOLEAN :
          Become(c, [child[c] EXCEPT !.stat = "test", !.restart = restart])
(* Mutant of TestTerm: sigterm_flag is not looked at.                      *)
TestTerm_not(c) ==
    /\ child[c].stat = "test"
    /\ Become(c, [child[c] EXCEPT !.stat = "recv"])
(* The loop of client_handler.                                             *)
TestTerm(c) ==
    /\ child[c].stat = "test"
    /\ IF child[c].sigterm_flag THEN Die(c)
       ELSE Become(c, [child[c] EXCEPT !.stat = "recv"])
Served(p) == [p EXCEPT !.stat = "test",
                       !.late = IF p.sigterm_flag /\ @ < 2 THEN @ + 1 ELSE @]
Serve(c) == child[c].stat = "recv" /\ Become(c, Served(child[c]))
(* The client has sent QUIT or is gone.                                    *)
ClientLeaves(c) == child[c].stat = "recv" /\ Die(c)

(***************************************************************************)
(* The others.                                                             *)
(***************************************************************************)
Connect ==
    /\ pc # "exit"
    /\ backlog < Backlog
    /\ backlog' = backlog + 1
    /\ UNCHANGED <<pc, sigint_flag, child, sigchld, waiting, resumed, extra>>
(* A child is stopped and continued, by job control or by hand: SIGCHLD    *)
(* comes, without SA_NOCLDSTOP, and nobody is dead.                        *)
Continue ==
    /\ pc # "exit"
    /\ Alive # {}
    /\ sigchld' = TRUE
    /\ resumed' = TRUE
    /\ UNCHANGED <<pc, sigint_flag, backlog, child, waiting, extra>>
Ended == pc = "exit" /\ Alive = {} /\ UNCHANGED vars

Loop == Test \/ wait_client \/ Fork \/ ForkFails \/ kill_children
Handler == sigchld_handler \/ WaitReturns
Begin(c) == signal_conf_child(c) \/ TestTerm(c)
Next == \/ Loop \/ Handler \/ sigint_handler \/ Connect \/ Continue \/ Ended
        \/ \E c \in Child : Begin(c) \/ Serve(c) \/ ClientLeaves(c)
Spec == Init /\ [][Next]_vars

(* The processes run; clients need not do anything.                        *)
FairSpec ==
    /\ Spec
    /\ WF_vars(Loop)
    /\ WF_vars(Handler)
    /\ \A c \in Child : WF_vars(Begin(c))

(* The wait of sigchld_handler finds a dead child and does not hold up the *)
(* parent, as long as SIGCHLD says that a child is dead.                   *)
NeverHeldUp == ~resumed => ~waiting /\ (sigchld => In("zombie") # {})

(* A connection that waits is followed by a process of its own, or the     *)
(* server ends (main, wait_client), as long as the parent is not held up.  *)
ConnectionServed ==
    backlog > 0 ~> (pc \in {"fork", "exit"} \/ resumed)

(* After SIGINT the parent forks for one connection more at most: main may *)
(* have come to accept without having seen sigint_flag.  A child that      *)
(* SIGTERM has reached in client_handler serves one message more at most.  *)
(* A child that SIGTERM does not reach is not spoken of.                   *)
AtMostOneMore == extra <= 1 /\ \A c \in Child : child[c].late <= 1
=============================================================================
