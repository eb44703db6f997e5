----------------------------- MODULE FtpStream -----------------------------
(***************************************************************************)
(* The messages of myftp (src/myftp/common.h) and the two directions of    *)
(* its TCP connection.  A stream is a sequence of parts: the header of a   *)
(* message, its body when its length is not zero, and FIN, which a process *)
(* that closes its socket leaves at the end.  Nothing marks the beginning  *)
(* of a message: recv_msg takes the bytes that come next.  A process that  *)
(* takes a body for a header has lost the beginnings of the messages: it   *)
(* is astray, and what it reads from then on may be any message.           *)
(***************************************************************************)
EXTENDS Naturals, Sequences
CONSTANTS
    File,       \* names of the files that are copied
    Size,       \* their lengths, in blocks of READBLK bytes
    Window      \* parts that the socket buffers of one direction hold

ASSUME FileAssumption == File # {} /\ Size \in [File -> Nat]
ASSUME WindowAssumption == Window \in Nat /\ Window >= 3

Header == [ type : {"QUIT", "PWD", "CWD", "LIST", "RETR", "STOR", "OK", "ERR",
                    "DATA"},
            code : {"OK", "OK_RETR", "OK_STOR", "LAST", "DATA"},
            length : {0, 1} ]
Text == [type |-> "text"]                   \* a path
Entry == [type |-> "entry"]                 \* a line of a directory listing
Name(f) == [type |-> "name", of |-> f]      \* the name of a file
Block(f, i) == [type |-> "block", of |-> f, no |-> i]
Bytes == [type |-> "bytes"]                 \* what is read astray, or sent then
FIN == [type |-> "fin"]

Body == {Text, Entry, Bytes} \cup {Name(f) : f \in File}
        \cup UNION {{Block(f, i) : i \in 1..Size[f]} : f \in File}
Part == Header \cup Body \cup {FIN}

Bare(t, c) == <<[type |-> t, code |-> c, length |-> 0]>>
With(t, c, body) == <<[type |-> t, code |-> c, length |-> 1], body>>

IsHeader(part) == part \in Header
Closed(stream) == stream # <<>> /\ stream[Len(stream)] = FIN
Readable(stream) == stream # <<>> /\ stream[1] # FIN

(* What is left of a stream from which a part was read.  Astray, the rest  *)
(* of the parts are bytes like any others, and so may be the rest of a     *)
(* body.  That such bytes are read only once is a bound of the model.      *)
Blur(stream) == [i \in DOMAIN stream |-> IF stream[i] = FIN THEN FIN ELSE Bytes]
Rests(stream, astray) ==
    IF ~astray THEN {Tail(stream)}
    ELSE {Blur(Tail(stream))}
         \cup {Blur(s) : s \in {t \in {stream} : ~IsHeader(t[1]) /\ t[1] # Bytes}}

(* send blocks until the socket buffer has room.  What is sent to a        *)
(* process that is gone is dropped.                                        *)
Room(stream, msg, gone) == gone \/ Len(stream) + Len(msg) <= Window
Sent(stream, msg, gone) == IF gone THEN stream ELSE stream \o msg

Blocks(f, n) == [i \in 1..n |-> Block(f, i)]
=============================================================================
