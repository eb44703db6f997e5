---------------------------- MODULE MyFtpSession ----------------------------
(***************************************************************************)
(* One child of myftpd: client_handler and the commands of                 *)
(* src/myftp/myftpd.c, with list_dir, send_file and recv_file of common.c, *)
(* for one connection.  Each call of recv_msg and send_msg is a step.      *)
(* The difference between the error replies is left out.                   *)
(***************************************************************************)
EXTENDS FtpStream
CONSTANT MaxEntries     \* entries of a directory
VARIABLES
    srv,        \* where the child is, and the locals of the command
    len,        \* the present lengths of the files that are fetched
    stored,     \* the files that the client puts, as written so far
    up, down    \* the streams from the client and to it
svars == <<srv, len, stored, up, down>>

SPlace == {"handler", "argument", "list", "file", "recv", "block", "exit"}
SCmd == {"none", "CWD", "LIST", "RETR", "STOR"}
Session == [ pc : SPlace, cmd : SCmd, file : File, pos : Nat, size : Nat,
             first_data : BOOLEAN, sigterm_flag : BOOLEAN, astray : BOOLEAN ]

Gone == Closed(up)
(* recv returns 0 once everything has been read.                           *)
(* Mutant of AtEnd: only -1 is taken for a failure of recv.                *)
AtEnd_not == FALSE
AtEnd == up # <<>> /\ up[1] = FIN
Becomes(s) == srv' = s
At(place) == Becomes([srv EXCEPT !.pc = place])
AnyFile == CHOOSE f \in File : TRUE
(* Back in the loop of client_handler; the locals of the command are gone. *)
Handler(s) == [s EXCEPT !.pc = "handler", !.cmd = "none", !.file = AnyFile,
                        !.pos = 0, !.size = 0]

(* What a child sends when it is astray answers nothing that was asked.    *)
(* send_msg: every message but a data packet that is not the last resets   *)
(* first_data.                                                             *)
Reset(s) == [s EXCEPT !.first_data = TRUE]
Send(msg, s) ==
    /\ Room(down, msg, Gone)
    /\ down' = Sent(down, IF s.astray THEN <<Bytes>> ELSE msg, Gone)
    /\ Becomes(s)
(* send_data: the first packet of a transfer goes after OK_RETR.           *)
Packet(msg) == (IF srv.first_data THEN Bare("OK", "OK_RETR") ELSE <<>>) \o msg
send_data(msg, s) == Send(Packet(msg), [s EXCEPT !.first_data = FALSE])
Last == Bare("DATA", "LAST")
(* Mutant of file_err: only perror, no reply, as in the client.            *)
file_err_silent == <<>>
file_err == Bare("ERR", "OK")

(* The loop of client_handler: the header of a command.  sigterm_flag is   *)
(* tested before recv_msg; a SIGTERM that comes between the two is one     *)
(* that comes after recv_msg.                                              *)
Commands == [type : {"QUIT", "PWD", "CWD", "LIST", "RETR", "STOR"}, code : {"OK"},
             length : {0, 1}]
Astray == srv.astray \/ ~IsHeader(up[1])
Reader == [srv EXCEPT !.astray = Astray]
TakesHeader(place) ==
    /\ srv.pc = place
    /\ place = "handler" => ~srv.sigterm_flag
    /\ Readable(up)
    /\ up' \in Rests(up, Astray)
Handle(type, n) ==
    /\ TakesHeader("handler")
    /\ Astray \/ up[1] = [type |-> type, code |-> "OK", length |-> n]
quit ==
    /\ \E n \in {0, 1} : Handle("QUIT", n)
    /\ Becomes([Reader EXCEPT !.pc = "exit"])
    /\ down' = Append(down, FIN)
    /\ UNCHANGED <<len, stored>>
pwd ==
    /\ Handle("PWD", 0)
    /\ Send(With("OK", "OK", Text), Reset(Reader))
    /\ UNCHANGED <<len, stored>>
PwdFails ==             \* getcwd fails, or recv_msg(NULL): there is no reply
    /\ \E n \in {0, 1} : Handle("PWD", n)
    /\ Becomes(Reader)
    /\ UNCHANGED <<down, len, stored>>
HasArgument ==
    /\ \E type \in SCmd \ {"none"} :
          /\ Handle(type, 1)
          /\ Becomes([Reader EXCEPT !.pc = "argument", !.cmd = type])
    /\ UNCHANGED <<down, len, stored>>
HasNoArgument ==        \* an error, but dir lists "."
    /\ \/ /\ \E type \in {"CWD", "RETR", "STOR"} : Handle(type, 0)
          /\ Send(file_err, Reset(Reader))
       \/ /\ Handle("LIST", 0)
          /\ UNCHANGED down
          /\ \E n \in 0..MaxEntries :
                Becomes([Reader EXCEPT !.pc = "list", !.pos = 0, !.size = n])
    /\ UNCHANGED <<len, stored>>
Undefined ==            \* "undefined command, ignoring"
    /\ TakesHeader("handler")
    /\ Astray \/ up[1] \notin Commands
    /\ Becomes(Reader)
    /\ UNCHANGED <<down, len, stored>>

(* The argument or a block has arrived; a child that is astray may need    *)
(* more bytes than the part has.                                           *)
TakesBody(place) ==
    /\ srv.pc = place
    /\ Readable(up)
    /\ up' \in Rests(up, srv.astray)
More ==
    /\ TakesBody("argument") \/ TakesBody("block")
    /\ srv.astray
    /\ UNCHANGED <<srv, len, stored, down>>
Argument(cmd) == TakesBody("argument") /\ srv.cmd = cmd
Named == IF srv.astray THEN File ELSE {f \in File : up[1] = Name(f)}
(* What a child that is astray writes, and to which file, is not followed. *)
(* Mutant of Writes: the file is opened with O_APPEND, not with O_TRUNC.   *)
Writes_append(f, content) ==
    stored' = IF srv.astray \/ content = <<>> THEN stored
              ELSE [stored EXCEPT ![f] = content]
Writes(f, content) ==
    stored' = IF srv.astray THEN stored ELSE [stored EXCEPT ![f] = content]
cd ==
    /\ Argument("CWD")
    /\ \E reply \in {Bare("OK", "OK"), file_err} : Send(reply, Reset(Handler(srv)))
    /\ UNCHANGED <<len, stored>>
(* dir, when list_dir finds a file (one entry) or a directory, up to an    *)
(* entry that is too long to print.                                        *)
dir ==
    /\ Argument("LIST")
    /\ \E n \in 0..MaxEntries :
          Becomes([srv EXCEPT !.pc = "list", !.pos = 0, !.size = n])
    /\ UNCHANGED <<down, len, stored>>
(* list_dir fails, at once or at an entry: dir sends the last packet of a  *)
(* listing after the error reply.                                          *)
AfterFailure == file_err \o Last
DirFails ==
    /\ \/ /\ Argument("LIST")
          /\ Send(AfterFailure, Reset(Handler(srv)))
       \/ /\ Handle("LIST", 0)
          /\ Send(AfterFailure, Reset(Handler(Reader)))
       \/ /\ srv.pc = "list"
          /\ srv.pos < srv.size
          /\ UNCHANGED up
          /\ Send(AfterFailure, Reset(Handler(srv)))
    /\ UNCHANGED <<len, stored>>
list_dir ==
    /\ srv.pc = "list"
    /\ srv.pos < srv.size
    /\ send_data(With("DATA", "DATA", Entry), [srv EXCEPT !.pos = @ + 1])
    /\ UNCHANGED <<len, stored, up>>
ftpget ==
    /\ Argument("RETR")
    /\ \E f \in Named :
          Becomes([srv EXCEPT !.pc = "file", !.file = f, !.pos = 0, !.size = len[f]])
    /\ UNCHANGED <<down, len, stored>>
GetRefused ==           \* open fails
    /\ Argument("RETR")
    /\ Send(file_err, Reset(Handler(srv)))
    /\ UNCHANGED <<len, stored>>
(* send_file goes on until as much has been read as the file was long at   *)
(* the start; at the end of a file that has become shorter read returns 0. *)
send_file ==
    /\ srv.pc = "file"
    /\ srv.pos < srv.size
    /\ IF srv.pos < len[srv.file]
       THEN send_data(With("DATA", "DATA", Block(srv.file, srv.pos + 1)),
                      [srv EXCEPT !.pos = @ + 1])
       ELSE send_data(Bare("DATA", "DATA"), srv)
    /\ UNCHANGED <<len, stored, up>>
GetFails ==             \* read fails, or the file is a directory
    /\ srv.pc = "file"
    /\ srv.pos < srv.size
    /\ Send(file_err, Reset(Handler(srv)))
    /\ UNCHANGED <<len, stored, up>>
(* The end of dir and ftpget.                                              *)
SendLast ==
    /\ srv.pc \in {"list", "file"}
    /\ srv.pos = srv.size
    /\ Send(Last, Reset(Handler(srv)))
    /\ UNCHANGED <<len, stored, up>>
ftpput ==
    /\ Argument("STOR")
    /\ \E f \in Named :
          /\ Writes(f, <<>>)
          /\ Send(Bare("OK", "OK_STOR"), Reset([srv EXCEPT !.pc = "recv", !.file = f]))
    /\ UNCHANGED len
PutRefused ==           \* open fails
    /\ Argument("STOR")
    /\ Send(file_err, Reset(Handler(srv)))
    /\ UNCHANGED <<len, stored>>
(* recv_file: a header that is not a data packet ends it, and is lost.     *)
AfterHeader(part) ==
    IF part.type # "DATA" THEN "handler"
    ELSE IF part.length > 0 THEN "block"
    ELSE IF part.code = "LAST" THEN "handler" ELSE "recv"
Places == {"recv", "block", "handler"}
Goes(s, place) == Becomes(IF place = "handler" THEN Handler(s) ELSE [s EXCEPT !.pc = place])
recv_file ==
    /\ TakesHeader("recv")
    /\ \E place \in IF Astray THEN Places ELSE {AfterHeader(up[1])} : Goes(Reader, place)
    /\ UNCHANGED <<down, len, stored>>
RecvBlock ==
    /\ TakesBody("block")
    /\ \E place \in IF srv.astray THEN Places ELSE {"recv"} :
          Goes(srv, place)
    /\ Writes(srv.file, Append(stored[srv.file], up[1]))
    /\ UNCHANGED <<down, len>>
WriteFails ==           \* recv_file returns -1, which ftpput ignores
    /\ TakesBody("block")
    /\ Becomes(Handler(srv))
    /\ UNCHANGED <<down, len, stored>>

(* recv returns 0, or is interrupted by SIGTERM.                           *)
RecvFails ==
    /\ srv.pc \in {"argument", "recv", "block"}
    /\ srv.sigterm_flag \/ AtEnd
    /\ Becomes(Handler(srv))
    /\ UNCHANGED <<len, stored, up, down>>
Leave ==
    /\ At("exit")
    /\ down' = Append(down, FIN)
    /\ UNCHANGED <<len, stored, up>>
Stop ==                 \* stop = 1, or the test of sigterm_flag
    /\ srv.pc = "handler"
    /\ srv.sigterm_flag \/ AtEnd
    /\ Leave
Sigpipe ==              \* a send to a client that has left
    /\ srv.pc \in {"list", "file"}
    /\ Gone
    /\ Leave
sigterm_handler ==
    /\ srv.pc # "exit"
    /\ ~srv.sigterm_flag
    /\ Becomes([srv EXCEPT !.sigterm_flag = TRUE])
    /\ UNCHANGED <<len, stored, up, down>>
(* Somebody cuts a file off while it is sent.                              *)
Shrink(f) ==
    /\ srv.pc = "file"
    /\ srv.file = f
    /\ len[f] = Size[f]
    /\ len[f] > 0
    /\ len' = [len EXCEPT ![f] = @ - 1]
    /\ UNCHANGED <<srv, stored, up, down>>

Init ==
    /\ srv = [ pc |-> "handler", cmd |-> "none", file |-> AnyFile,
               pos |-> 0, size |-> 0, first_data |-> TRUE, sigterm_flag |-> FALSE,
               astray |-> FALSE ]
    /\ len = Size
    /\ stored = [f \in File |-> <<>>]

(* The steps that do not depend on luck: what the child does in the end.   *)
Regular == \/ quit \/ pwd \/ HasArgument \/ HasNoArgument \/ Undefined \/ More
           \/ cd \/ dir \/ list_dir \/ ftpget \/ send_file \/ SendLast
           \/ ftpput \/ recv_file \/ RecvBlock \/ RecvFails \/ Stop
Step == Regular \/ GetRefused \/ GetFails \/ PutRefused \/ Sigpipe
(* What makes a command fail without an answer, or with two.               *)
Trouble == PwdFails \/ DirFails \/ WriteFails \/ sigterm_handler

=============================================================================
