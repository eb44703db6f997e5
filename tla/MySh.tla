-------------------------------- MODULE MySh --------------------------------
(***************************************************************************)
(* mysh: the shell (main.c, exec_extra and sigchld_handler of execline.c)  *)
(* and the jobs it starts, each a process group with a leader that goes    *)
(* through exec_recursive, and the commands of its pipeline.  What the     *)
(* commands do is external: one that reads a pipe ends when the pipe does. *)
(***************************************************************************)
EXTENDS MyShLine, Integers, FiniteSets
CONSTANTS
    Pid,        \* process ids for leaders; they are used again
    NoPid,
    MaxStopped, \* bound: jobs that are stopped at a time
    Input       \* Input[q]: the command lines that are typed, as tokens, when q
                \* is the next process id
(* read_command returns when a line is complete.                           *)
ASSUME InputAssumption == \A q \in Pid : \A input \in Input[q] :
    input \in Seq(Token) /\ Complete(read_command(input))

VARIABLES
    pc,         \* where the shell is
    job,        \* the jobs, by the process id of their leader
    current,    \* the job exec_extra has started
    fpid,       \* the background job the SIGCHLD handler waits for
    handler,    \* SIGCHLD has the handler (and not the default action)
    sigchld,    \* SIGCHLD is pending
    term,       \* the foreground process group of the terminal
    left        \* history: jobs whose foreground wait was interrupted
shell == <<pc, current, fpid, handler, sigchld, term, left>>
vars == <<pc, job, current, fpid, handler, sigchld, term, left>>

Shell == "shell"

(* Where a descriptor leads: the terminal, a file, or the pipe that was    *)
(* made for the command at block k.                                        *)
TTY == 0
FILE == -1

Place == {"setup", "level", "fork", "shift", "wait"}
NoJob == [ stat |-> "none", bg |-> FALSE, blocks |-> <<>>, at |-> "setup",
           pos |-> 0, pipe |-> 0, in |-> TTY, out |-> TTY, waits |-> <<>>,
           stage |-> <<>>, failed |-> FALSE, reported |-> FALSE ]

Alive(j) == j.stat \in {"run", "stopped"}

(***************************************************************************)
(* A job: the leader.  Its descriptors 0 and 1 are in and out; pipe is the *)
(* pipe of the level it is at, while it holds the ends of it.              *)
(***************************************************************************)
Lead(q, place) == job[q].stat = "run" /\ job[q].at = place
Step(q, j) == job' = [job EXCEPT ![q] = j]

(* After fork: a group of its own, and the terminal unless in background.  *)
Setup(q) ==
    /\ Lead(q, "setup")
    /\ Step(q, [job[q] EXCEPT !.at = "level", !.pos = Len(job[q].blocks)])
    /\ term' = IF job[q].bg THEN term ELSE q
    /\ UNCHANGED <<pc, current, fpid, handler, sigchld, left>>

(* exec_recursive: a pipe, then the blocks to the left up to a command,    *)
(* opening the files of redirections.                                      *)
CommandAt(j) == CHOOSE k \in 1..j.pos :
    j.blocks[k] = "NORMAL" /\ \A i \in k+1..j.pos : j.blocks[i] # "NORMAL"
Passed(j) == {i \in CommandAt(j)+1..j.pos : j.blocks[i] \in Redirections}
Opened(j, is) ==
    [j EXCEPT !.in = IF \E i \in is : j.blocks[i] = "REDIR_IN" THEN FILE ELSE @,
              !.out = IF \E i \in is : j.blocks[i] # "REDIR_IN" THEN FILE ELSE @]
Level(q) ==
    /\ Lead(q, "level")
    /\ LET j == job[q]
       IN  Step(q, [Opened(j, Passed(j)) EXCEPT !.at = "fork", !.pos = CommandAt(j),
                                                !.pipe = CommandAt(j)])
    /\ UNCHANGED shell
(* open fails: MYSH_FILE_ERR, with what was opened before.                 *)
OpenFails(q) ==
    /\ Lead(q, "level")
    /\ \E i \in Passed(job[q]) :
          Step(q, [Opened(job[q], {h \in Passed(job[q]) : h > i})
                       EXCEPT !.at = "wait", !.failed = TRUE])
    /\ UNCHANGED shell
(* The child reads the pipe, unless it is the first command, and closes    *)
(* its ends; the first one keeps both, of a pipe nobody else reads.        *)
First(k) == k = 1
(* Mutant of Started: every command keeps the standard input of the leader. *)
Started_keep(j, k) == [stat |-> "run", in |-> j.in, out |-> j.out]
Started(j, k) ==
    [stat |-> "run", in |-> IF First(k) THEN j.in ELSE j.pipe, out |-> j.out]
Fork(q) ==
    /\ Lead(q, "fork")
    /\ LET j == job[q]
       IN  Step(q, [j EXCEPT !.at = "shift",
                             !.stage = [k \in DOMAIN @ \cup {j.pos} |->
                                          IF k = j.pos THEN Started(j, k) ELSE @[k]]])
    /\ UNCHANGED shell
ForkFails(q) ==
    /\ Lead(q, "fork")
    /\ Step(q, [job[q] EXCEPT !.pipe = 0, !.at = "wait", !.failed = TRUE])
    /\ UNCHANGED shell
(* Mutant of Shifted: the first command needs no pipe, and the leader      *)
(* stays as it is.                                                         *)
Shifted_first(j) == [j EXCEPT !.out = IF j.pos = 1 THEN @ ELSE j.pipe, !.pipe = 0]
(* The leader's standard output becomes the pipe, for the command to the   *)
(* left.                                                                   *)
Shifted(j) == [j EXCEPT !.out = j.pipe, !.pipe = 0]
Shift(q) ==
    /\ Lead(q, "shift")
    /\ LET j == job[q]
       IN  Step(q, [Shifted(j) EXCEPT !.waits = Append(@, j.pos), !.pos = @ - 1,
                                      !.at = IF j.pos = 1 THEN "wait" ELSE "level"])
    /\ UNCHANGED shell
(* waitpid on the way back, the command to the left first.                 *)
WaitStage(q) ==
    /\ Lead(q, "wait")
    /\ job[q].waits # <<>>
    /\ LET k == Last(job[q].waits)
       IN  /\ job[q].stage[k].stat = "dead"
           /\ Step(q, [job[q] EXCEPT !.waits = Front(@),
                                      !.stage = Restrict(@, DOMAIN @ \ {k})])
    /\ UNCHANGED shell
(* The leader exits with what exec_recursive returned.  Commands that were *)
(* never waited for do not exist: waits holds all of them.                 *)
Zombie(j) == [NoJob EXCEPT !.stat = "zombie", !.bg = j.bg,
                           !.at = IF j.at = "setup" THEN "setup" ELSE "wait"]
LeaderExits(q) ==
    /\ Lead(q, "wait")
    /\ job[q].waits = <<>>
    /\ Step(q, Zombie(job[q]))
    /\ sigchld' = TRUE
    /\ UNCHANGED <<pc, current, fpid, handler, term, left>>

(***************************************************************************)
(* The commands.                                                           *)
(***************************************************************************)
Running(j) == {k \in DOMAIN j.stage : j.stage[k].stat = "run"}
(* Who can still write into pipe k.                                        *)
Written(j, k) == \/ j.pipe = k
                 \/ j.out = k
                 \/ \E i \in Running(j) : j.stage[i].out = k
Die(q, k) == /\ job[q].stat = "run"
             /\ k \in Running(job[q])
             /\ Step(q, [job[q] EXCEPT !.stage[k].stat = "dead"])
             /\ UNCHANGED shell
EndOfInput(q, k) ==
    /\ LET in == job[q].stage[k].in IN in > 0 => ~Written(job[q], in)
    /\ Die(q, k)
(* A command that does not read all its input, or cannot be executed.      *)
EndsEarly(q, k) == Die(q, k)

(***************************************************************************)
(* The user, at the terminal or from elsewhere: kill and stop.             *)
(***************************************************************************)
Kill(q) ==
    /\ Alive(job[q])
    /\ Step(q, Zombie(job[q]))
    /\ sigchld' = TRUE
    /\ UNCHANGED <<pc, current, fpid, handler, term, left>>
Stop(q) ==
    /\ job[q].stat = "run"
    /\ Cardinality({p \in Pid : job[p].stat = "stopped"}) < MaxStopped
    /\ Step(q, [job[q] EXCEPT !.stat = "stopped", !.reported = FALSE])
    /\ sigchld' = TRUE
    /\ UNCHANGED <<pc, current, fpid, handler, term, left>>

(***************************************************************************)
(* The shell.                                                              *)
(***************************************************************************)
At(place) == pc' = place
(* A line that is read and parsed; a line that is not, and the builtins    *)
(* cd, pwd and pid, leave everything as it is.  exec_extra sets the        *)
(* handler of SIGCHLD and forks.                                           *)
exec_extra ==
    /\ pc = "prompt"
    /\ term = Shell
    /\ \E q \in Pid : \E input \in Input[q] :
          LET line == parseline(read_command(input))
          IN  /\ line.ok
              /\ job[q].stat = "none"
              /\ job' = [job EXCEPT ![q] = [NoJob EXCEPT !.stat = "run", !.bg = line.bg,
                                                         !.blocks = line.blocks]]
              /\ current' = q
              /\ left' = left \ {q}
              /\ At(IF line.bg THEN "background" ELSE "wait")
    /\ handler' = TRUE
    /\ UNCHANGED <<fpid, sigchld, term>>
(* fork fails: an error, with the handler set.                             *)
ExecFails ==
    /\ pc = "prompt"
    /\ term = Shell
    /\ handler' = TRUE
    /\ UNCHANGED <<pc, job, current, fpid, sigchld, term, left>>
exit_mysh ==
    /\ pc = "prompt"
    /\ term = Shell
    /\ At("exit")
    /\ UNCHANGED <<job, current, fpid, handler, sigchld, term, left>>
(* Reading from a terminal that belongs to another group stops the shell.  *)
SigTtin ==
    /\ pc = "prompt"
    /\ term # Shell
    /\ At("stopped")
    /\ UNCHANGED <<job, current, fpid, handler, sigchld, term, left>>

SetFpid ==
    /\ pc = "background"
    /\ At("prompt")
    /\ fpid' = current
    /\ current' = NoPid
    /\ UNCHANGED <<job, handler, sigchld, term, left>>

(* waitpid with WUNTRACED: a child that is dead, or has stopped since.     *)
Event(q) == \/ job[q].stat = "zombie"
            \/ job[q].stat = "stopped" /\ ~job[q].reported
Collected(j) == IF j.stat = "zombie" THEN NoJob ELSE [j EXCEPT !.reported = TRUE]
(* Mutant of WaitFor: the shell does not wait.                             *)
WaitFor_not(q) == UNCHANGED job
WaitFor(q) == /\ Event(q)
              /\ Step(q, Collected(job[q]))
ForegroundEnds ==
    /\ pc = "wait"
    /\ WaitFor(current)
    /\ At("retake")
    /\ UNCHANGED <<current, fpid, handler, sigchld, term, left>>
(* The handler has been faster: waitpid fails, there is no such child.     *)
NoChild ==
    /\ pc = "wait"
    /\ job[current].stat = "none"
    /\ At("retake")
    /\ UNCHANGED <<job, current, fpid, handler, sigchld, term, left>>
(* tcsetpgrp, and the return to main_loop.                                 *)
Retake ==
    /\ pc = "retake"
    /\ At("prompt")
    /\ term' = Shell
    /\ current' = NoPid
    /\ UNCHANGED <<job, fpid, handler, sigchld, left>>

(* SIGCHLD.  The handler waits for the background job started last and, if *)
(* that has ended or stopped, restores the default action.  As long as     *)
(* there was none, fpid is 0: any child still in the group of the shell.   *)
(* Without SA_RESTART the waitpid of the foreground fails, if it was       *)
(* called and had nothing to report.                                       *)
Waited(q) == Event(q) /\ IF fpid = NoPid THEN job[q].at = "setup" ELSE q = fpid
Ready == pc \notin {"exit", "stopped"}
sigchld_handler ==
    /\ Ready
    /\ sigchld
    /\ handler
    /\ sigchld' = FALSE
    /\ \/ \E q \in Pid : Waited(q) /\ Step(q, Collected(job[q])) /\ handler' = FALSE
       \/ (\A q \in Pid : ~Waited(q)) /\ UNCHANGED <<job, handler>>
    /\ \/ UNCHANGED <<pc, left>>
       \/ /\ pc = "wait"
          /\ ~Event(current)
          /\ At("retake")
          /\ left' = left \cup {current}
    /\ UNCHANGED <<current, fpid, term>>
Discard ==
    /\ Ready
    /\ sigchld
    /\ ~handler
    /\ sigchld' = FALSE
    /\ UNCHANGED <<pc, job, current, fpid, handler, term, left>>

Init ==
    /\ pc = "prompt"
    /\ job = [q \in Pid |-> NoJob]
    /\ current = NoPid
    /\ fpid = NoPid
    /\ handler = FALSE
    /\ sigchld = FALSE
    /\ term = Shell
    /\ left = {}

Leader(q) == Setup(q) \/ Level(q) \/ Fork(q) \/ Shift(q) \/ WaitStage(q) \/ LeaderExits(q)
Trouble(q) == OpenFails(q) \/ ForkFails(q) \/ Kill(q) \/ Stop(q)
Return == ForegroundEnds \/ NoChild \/ Retake \/ SetFpid
Next ==
    \/ \E q \in Pid : Leader(q) \/ Trouble(q)
    \/ \E q \in Pid : \E k \in Running(job[q]) : EndOfInput(q, k) \/ EndsEarly(q, k)
    \/ exec_extra \/ ExecFails \/ exit_mysh \/ SigTtin \/ Return \/ sigchld_handler \/ Discard
Spec == Init /\ [][Next]_vars

(* The processes run, and a command that has read its input ends.          *)
FairSpec ==
    /\ Spec
    /\ WF_vars(Return)
    /\ \A q \in Pid : WF_vars(Leader(q))
    /\ \A q \in Pid : WF_vars(\E k \in Running(job[q]) : EndOfInput(q, k))

(***************************************************************************)
(* Properties.                                                             *)
(***************************************************************************)
(* gettoken finds the tokens, and read_command and parseline accept the    *)
(* lines of the grammar of MyShLine, with the targets of redirections      *)
(* marked, and no others.  Parsing changes no variable: it is looked at at *)
(* the first prompt.                                                       *)
CONSTANTS MaxChars, MaxTokens
ASSUME MaxAssumption == MaxChars \in Nat /\ MaxTokens \in Nat
ParsesGrammar ==
    Init => /\ \A chars \in Typing(MaxChars) : gettoken(chars) = Tokens(chars)
            /\ \A input \in Typed(MaxTokens) : Reads(input)

(* exec_recursive: a command that has another to its left reads the pipe   *)
(* that was made for it; and the command to its left writes into it,       *)
(* unless the output of that one is redirected.                            *)
Commands(b) == {k \in DOMAIN b : b[k] = "NORMAL"}
Redirected(b, i, k) == \E h \in i+1..k-1 : b[h] \in {"REDIR_OUT", "REDIR_APPEND"}
Wired ==
    \A q \in Pid : LET j == job[q] IN
        \A k \in Running(j) :
            /\ k # 1 => j.stage[k].in = k
            /\ \A i \in Running(j) :
                  i < k /\ Commands(j.blocks) \cap i+1..k-1 = {} =>
                      j.stage[i].out = IF Redirected(j.blocks, i, k) THEN FILE ELSE k

(* When the shell prompts, no foreground job is still running and the      *)
(* terminal is its own (the wait and the tcsetpgrp of exec_extra), but for *)
(* the jobs whose wait the SIGCHLD of another job has interrupted.         *)
ForegroundFirst ==
    pc = "prompt" =>
        /\ term \in left \cup {Shell}
        /\ \A q \in Pid : job[q].stat = "run" /\ ~job[q].bg => q \in left

(* A job comes to its end: no process of it waits for a pipe whose other   *)
(* end is held by one that waits for it, unless open or fork failed.       *)
JobEnds == \A q \in Pid : job[q].stat = "run" ~> (job[q].stat # "run" \/ job[q].failed)
=============================================================================
