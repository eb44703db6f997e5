------------------------------- MODULE MyFtp -------------------------------
(***************************************************************************)
(* A client of myftp and the child of myftpd that serves it, connected by  *)
(* the two directions of one TCP connection.  TCP loses nothing, but the   *)
(* client waits for a second only, and what comes later stays in the       *)
(* stream for the next command.                                            *)
(***************************************************************************)
EXTENDS FtpStream
CONSTANTS MaxCommands, MaxEntries,
    MaxFaults   \* timeouts, failures, signals and files cut off, a bound of the model
ASSUME BoundsAssumption == MaxCommands \in Nat /\ MaxEntries \in Nat /\ MaxFaults \in Nat
VARIABLES cl, got, here, srv, len, stored, up, down,
    orderly,    \* history: no timeout, no failure that is not answered once
    faults      \* what has happened of MaxFaults

vars == <<cl, got, here, srv, len, stored, up, down, orderly, faults>>

C == INSTANCE MyFtpc
S == INSTANCE MyFtpSession

TypeOK ==
    /\ cl \in C!Client
    /\ srv \in S!Session
    /\ \A i \in DOMAIN got : got[i] \in Body
    /\ \A f \in File : len[f] \in 0..Size[f] /\ here[f] \in 0..Size[f]
    /\ \A s \in {up, down} :
          /\ Len(s) <= Window + 1
          /\ \A i \in DOMAIN s : s[i] \in Part /\ (s[i] = FIN => i = Len(s))
    /\ orderly \in BOOLEAN
    /\ faults \in 0..MaxFaults

Init ==
    /\ C!Init
    /\ S!Init
    /\ up = <<>>
    /\ down = <<>>
    /\ orderly = TRUE
    /\ faults = 0

Fault == faults < MaxFaults /\ faults' = faults + 1
Client == /\ C!Command \/ C!quit \/ C!Receive \/ C!Transmit \/ C!Hangup \/ C!Sigpipe
          /\ UNCHANGED <<srv, len, stored, orderly, faults>>
ClientTrouble == /\ C!Trouble
                 /\ orderly' = FALSE
                 /\ Fault
                 /\ UNCHANGED <<srv, len, stored>>
Server == S!Step /\ UNCHANGED <<cl, got, here, orderly, faults>>
ServerTrouble == /\ S!Trouble
                 /\ orderly' = FALSE
                 /\ Fault
                 /\ UNCHANGED <<cl, got, here>>
Shrink == /\ \/ (\E f \in File : S!Shrink(f)) /\ UNCHANGED <<cl, got, here>>
             \/ (\E f \in File : C!Shrink(f)) /\ UNCHANGED <<srv, len, stored>>
          /\ Fault
          /\ UNCHANGED orderly
Ended == /\ cl.pc = "exit"
         /\ srv.pc = "exit"
         /\ UNCHANGED vars

Next == Client \/ ClientTrouble \/ Server \/ ServerTrouble \/ Shrink \/ Ended
Spec == Init /\ [][Next]_vars

(* Both processes go on while they can; the user need not type anything,   *)
(* and whoever is interrupted or killed by SIGPIPE is so in the end.       *)
FairSpec ==
    /\ Spec
    /\ WF_vars((C!Receive \/ C!Transmit) /\ UNCHANGED <<srv, len, stored, orderly, faults>>)
    /\ WF_vars(S!Regular /\ UNCHANGED <<cl, got, here, orderly, faults>>)
    /\ WF_vars(S!Sigpipe /\ UNCHANGED <<cl, got, here, orderly, faults>>)

Shrunk == len # Size \/ here # Size

(* As long as every command was answered in time, once, each answer is     *)
(* read by the command it is for: no body is taken for a header, and when  *)
(* the client prompts and the server waits for a command, nothing is left  *)
(* in the connection (recv_msg and the commands of myftpc.c, the replies   *)
(* of myftpd.c).                                                           *)
InStep ==
    orderly => /\ ~cl.astray /\ ~srv.astray
               /\ cl.pc = "prompt" /\ srv.pc = "handler" => up = <<>> /\ down = <<>>

(* Whatever was late or failed, as long as the server process has not lost *)
(* the beginnings of the messages a file on the server holds nothing but   *)
(* the beginning of the file it was put from, in order (ftpput and         *)
(* recv_file): data of one put never reaches the file of another.          *)
PutUnmixed == ~srv.astray => \A f \in File : stored[f] = Blocks(f, Len(stored[f]))

(* Who takes the last packet of a transfer has exactly the file: the       *)
(* server for a put (recv_file in ftpput) while it is not astray, the      *)
(* client for a get before which nothing was late (recv_file in ftpget).   *)
(* send_file of a file that was cut off before sends what is left of it.   *)
TransferComplete ==
    [][ /\ (/\ ~srv'.astray /\ srv.pc = "recv" /\ srv'.pc = "handler"
           /\ Readable(up) /\ up[1] = S!Last[1]
           => stored[srv.file] \in {Blocks(srv.file, n) : n \in {Size[srv.file], here[srv.file]}})
        /\ (/\ orderly' /\ cl.cmd = "get" /\ cl.pc = "data" /\ cl'.pc = "prompt"
           /\ Readable(down) /\ down[1] = S!Last[1]
           => got \in {Blocks(cl.file, n) : n \in {Size[cl.file], len[cl.file]}}) ]_vars

(* Every command ends with the prompt again, also when the streams hold no *)
(* more than Window parts, unless something was late or failed, or the     *)
(* file became shorter while it was sent.                                  *)
CommandReturns ==
    cl.pc \notin {"prompt", "exit"}
        ~> (cl.pc \in {"prompt", "exit"} \/ ~orderly \/ Shrunk)

(* When the client has gone, by quit or killed, its server process ends,   *)
(* whatever it was doing: client_handler, list_dir, send_file, recv_file.  *)
ChildEnds == cl.pc = "exit" ~> srv.pc = "exit"
=============================================================================
