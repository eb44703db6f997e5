------------------------------- MODULE MyFtpc -------------------------------
(***************************************************************************)
(* The client of myftp, src/myftp/myftpc.c: a prompt, and commands that    *)
(* send a message and wait for the answer, each recv_msg for a second at   *)
(* most.  Each call of recv_msg and send_msg is a step.  lpwd, lcd, ldir,  *)
(* help, empty lines, and commands whose arguments or local files are      *)
(* refused before anything is sent, change nothing and are left out.       *)
(***************************************************************************)
EXTENDS FtpStream
CONSTANT MaxCommands    \* commands that are sent, a bound of the model
VARIABLES
    cl,         \* where the client is, and the locals of the command
    got,        \* what the present get has written to its file
    here,       \* the present lengths of the files that are put
    up, down    \* the streams to the server and from it
cvars == <<cl, got, here, up, down>>

CPlace == {"prompt", "reply", "text", "data", "block", "send", "exit"}
CCmd == {"none", "pwd", "cd", "dir", "get", "put"}
Client == [ pc : CPlace, cmd : CCmd, file : File, pos : Nat, size : Nat,
            watched : BOOLEAN, astray : BOOLEAN, count : 0..MaxCommands ]

Gone == Closed(down)
AnyFile == CHOOSE f \in File : TRUE
(* Where the client goes on; the locals of a command end with it.          *)
Becomes(c, place) ==
    cl' = IF place = "prompt"
          THEN [c EXCEPT !.pc = "prompt", !.cmd = "none", !.file = AnyFile,
                         !.pos = 0, !.size = 0]
          ELSE [c EXCEPT !.pc = place]
At(place) == Becomes(cl, place)
Return == At("prompt")

(* exec_command finds the command and calls it; the command sends msg and  *)
(* then waits.  rdfds is never set again after the first select of main,   *)
(* which leaves only the descriptors that were ready then: from the first  *)
(* command on the socket is not watched any more.                          *)
exec_command(cmd, f, msg) ==
    /\ cl.pc = "prompt"
    /\ cl.count < MaxCommands
    /\ Room(up, msg, Gone)
    /\ up' = Sent(up, msg, Gone)
    /\ cl' = [cl EXCEPT !.pc = "reply", !.cmd = cmd, !.file = f, !.pos = 0,
                        !.watched = FALSE, !.count = @ + 1]
    /\ got' = <<>>             \* for a get, open with O_TRUNC
    /\ UNCHANGED <<here, down>>

pwd == exec_command("pwd", AnyFile, Bare("PWD", "OK"))
cd == exec_command("cd", AnyFile, With("CWD", "OK", Text))
dir == exec_command("dir", AnyFile, With("LIST", "OK", Text))
ftpget(f) == exec_command("get", f, With("RETR", "OK", Name(f)))
ftpput(f) == exec_command("put", f, With("STOR", "OK", Name(f)))

quit ==
    /\ cl.pc = "prompt"
    /\ Room(up, Bare("QUIT", "OK"), Gone)
    /\ up' = Append(Sent(up, Bare("QUIT", "OK"), Gone), FIN)
    /\ At("exit")
    /\ UNCHANGED <<got, here, down>>

(* recv_msg for a header, and for a body of the length that it announced.  *)
Astray == cl.astray \/ ~IsHeader(down[1])
TakesHeader(place) ==
    /\ cl.pc = place
    /\ Readable(down)
    /\ down' \in Rests(down, Astray)
    /\ UNCHANGED <<here, up>>
Reads(place) == Becomes([cl EXCEPT !.astray = Astray], place)
TakesBody(place) ==
    /\ cl.pc = place
    /\ Readable(down)
    /\ down' \in Rests(down, cl.astray)
    /\ UNCHANGED <<here, up>>
(* A client that is astray may need more bytes than the part has.          *)
More ==
    /\ \/ (TakesHeader("reply") \/ TakesHeader("data")) /\ Astray
       \/ (TakesBody("text") \/ TakesBody("block")) /\ cl.astray
    /\ cl' = [cl EXCEPT !.astray = TRUE]
    /\ UNCHANGED got

(* The first reply to a command.  cd looks at type and code only and       *)
(* leaves a body, if there is one, in the stream.                          *)
Is(part, t, c) == part.type = t /\ part.code = c
(* Mutant of AfterReply: pwd leaves the path in the stream, as cd does.    *)
AfterReply_unread(part) ==
    CASE cl.cmd = "dir" /\ Is(part, "OK", "OK_RETR") /\ part.length > 0 -> "block"
      [] cl.cmd \in {"dir", "get"} /\ Is(part, "OK", "OK_RETR") -> "data"
      [] cl.cmd = "put" /\ Is(part, "OK", "OK_STOR") -> "send"
      [] OTHER -> "prompt"
AfterReply(part) ==
    CASE cl.cmd = "pwd" /\ Is(part, "OK", "OK") /\ part.length > 0 -> "text"
      [] cl.cmd = "dir" /\ Is(part, "OK", "OK_RETR") /\ part.length > 0 -> "block"
      [] cl.cmd \in {"dir", "get"} /\ Is(part, "OK", "OK_RETR") -> "data"
      [] cl.cmd = "put" /\ Is(part, "OK", "OK_STOR") -> "send"
      [] OTHER -> "prompt"
Replies == {"prompt"} \cup (CASE cl.cmd = "pwd" -> {"text"}
                              [] cl.cmd = "dir" -> {"block", "data"}
                              [] cl.cmd = "get" -> {"data"}
                              [] cl.cmd = "put" -> {"send"}
                              [] OTHER -> {})
(* A put goes on with fstat, in send_file.                                 *)
Reply ==
    /\ TakesHeader("reply")
    /\ \E place \in IF Astray THEN Replies ELSE {AfterReply(down[1])} :
          Becomes([cl EXCEPT !.astray = Astray,
                             !.size = IF place = "send" THEN here[cl.file] ELSE 0], place)
    /\ UNCHANGED got

(* The path that pwd prints.                                               *)
RecvText ==
    /\ TakesBody("text")
    /\ Return
    /\ UNCHANGED got

(* The loops of dir and recv_file: the header of a data packet.            *)
AfterData(part) ==
    CASE part.type = "DATA" /\ part.length > 0 -> "block"
      [] part.type = "DATA" /\ part.length = 0 /\ part.code # "LAST" -> "data"
      [] OTHER -> "prompt"
RecvData ==
    /\ TakesHeader("data")
    /\ \E place \in IF Astray THEN {"block", "data", "prompt"} ELSE {AfterData(down[1])} :
          Reads(place)
    /\ UNCHANGED got

(* The body of a data packet: dir prints it, recv_file writes it.  A last  *)
(* packet with a body is read by a client that is astray only; what that   *)
(* one writes is not followed.                                             *)
(* Mutant of Written: a block overwrites the one before it.                *)
Written_over(file, part) == <<part>>
Written(file, part) == Append(file, part)
AfterBlock == {"data"} \cup (IF cl.astray THEN {"prompt"} ELSE {})
RecvBlock ==
    /\ TakesBody("block")
    /\ \E place \in AfterBlock : At(place)
    /\ got' = IF cl.cmd = "get" /\ ~cl.astray THEN Written(got, down[1]) ELSE got
WriteFails ==           \* recv_file returns -1, which ftpget ignores
    /\ TakesBody("block")
    /\ cl.cmd = "get"
    /\ Return
    /\ UNCHANGED got

(* send_file and the last packet of ftpput; at the end of a file that has  *)
(* become shorter since the fstat, read returns 0 for ever.                *)
packet == IF cl.pos < here[cl.file]
          THEN With("DATA", "DATA", Block(cl.file, cl.pos + 1))
          ELSE Bare("DATA", "DATA")
send_file ==
    /\ cl.pc = "send"
    /\ cl.pos < cl.size
    /\ Room(up, packet, Gone)
    /\ up' = Sent(up, packet, Gone)
    /\ cl' = IF cl.pos < here[cl.file] THEN [cl EXCEPT !.pos = @ + 1] ELSE cl
    /\ UNCHANGED <<got, here, down>>
SendLast ==
    /\ cl.pc = "send"
    /\ cl.pos = cl.size
    /\ Room(up, Bare("DATA", "LAST"), Gone)
    /\ up' = Sent(up, Bare("DATA", "LAST"), Gone)
    /\ Return
    /\ UNCHANGED <<got, here, down>>
(* read fails: ftpput returns and the server is not told.                  *)
ReadFails ==
    /\ cl.pc = "send"
    /\ cl.pos < cl.size
    /\ Return
    /\ UNCHANGED <<got, here, up, down>>
(* Somebody cuts a file off while it is put.                               *)
Shrink(f) ==
    /\ cl.pc = "send"
    /\ cl.file = f
    /\ here[f] = Size[f]
    /\ here[f] > 0
    /\ here' = [here EXCEPT ![f] = @ - 1]
    /\ UNCHANGED <<cl, got, up, down>>

(* recv_msg returns -1.  dir looks at the result for headers only.         *)
Failed(astray) ==
    /\ cl.pc \in {"reply", "text", "data", "block"}
    /\ \E place \in IF cl.cmd = "dir" /\ cl.pc = "block" THEN AfterBlock ELSE {"prompt"} :
          Becomes([cl EXCEPT !.astray = astray], place)
    /\ UNCHANGED <<got, here, up, down>>
AtEnd == down # <<>> /\ down[1] = FIN
(* The second may be over when a part has come only partly.                *)
Timeout == ~AtEnd /\ \E astray \in {cl.astray, cl.astray \/ down # <<>>} : Failed(astray)
RecvEnd == AtEnd /\ Failed(cl.astray)

(* The server closes: before the first command main sees it; later a send  *)
(* ends the client, which does not handle SIGPIPE.                         *)
Leave == /\ up' = Append(up, FIN)
         /\ At("exit")
         /\ UNCHANGED <<got, here, down>>
Hangup == cl.pc = "prompt" /\ cl.watched /\ Gone /\ Leave
Sigpipe == cl.pc \in {"prompt", "send"} /\ ~cl.watched /\ Gone /\ Leave

Init ==
    /\ cl = [ pc |-> "prompt", cmd |-> "none", file |-> AnyFile, pos |-> 0,
              size |-> 0, watched |-> TRUE, astray |-> FALSE, count |-> 0 ]
    /\ got = <<>>
    /\ here = Size

(* What a client that is waiting or sending does next.                     *)
Receive == Reply \/ RecvText \/ RecvData \/ RecvBlock \/ More \/ RecvEnd
Transmit == send_file \/ SendLast
(* What makes a command fail without an answer.                            *)
Trouble == Timeout \/ ReadFails \/ WriteFails
Command == \/ pwd
           \/ cd
           \/ dir
           \/ \E f \in File : ftpget(f)
           \/ \E f \in File : ftpput(f)

=============================================================================
