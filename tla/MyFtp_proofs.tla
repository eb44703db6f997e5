---------------------------- MODULE MyFtp_proofs ----------------------------
(***************************************************************************)
(* myftp, for any files, any room in the socket buffers and any number of  *)
(* commands: as long as the server has not taken a body for a header, what *)
(* is left in the connection never mixes the files that are put, and who   *)
(* takes the last packet of one has the file; while nothing was late,      *)
(* nothing is left in it between two commands, a get is complete, and the  *)
(* two never wait for each other.                                          *)
(***************************************************************************)
EXTENDS MyFtp, SequenceTheorems, TLAPS

-----------------------------------------------------------------------------
(***************************************************************************)
(* Parts and messages.                                                     *)
(***************************************************************************)
DataHeader == [type |-> "DATA", code |-> "DATA", length |-> 1]
StorHeader == [type |-> "STOR", code |-> "OK", length |-> 1]
LastHeader == [type |-> "DATA", code |-> "LAST", length |-> 0]
EmptyHeader == [type |-> "DATA", code |-> "DATA", length |-> 0]
IsName(r) == \E f \in File : r = Name(f)
IsBlock(r) == \E f \in File : \E n \in 1..Size[f] : r = Block(f, n)

LEMMA HeaderTypes ==
    \A r \in Header : r.type \in {"QUIT", "PWD", "CWD", "LIST", "RETR", "STOR", "OK", "ERR",
                                  "DATA"}
BY DEF Header

LEMMA SizeType == \A f \in File : Size[f] \in Nat
BY FileAssumption

LEMMA BodyTypes ==
    /\ \A r : IsName(r) => r.type = "name" /\ r \notin Header /\ ~IsBlock(r) /\ r # FIN
    /\ \A r : IsBlock(r) => r.type = "block" /\ r \notin Header /\ r # FIN
    /\ \A f \in File : \A n \in 1..Size[f] : Block(f, n) \in Part /\ IsBlock(Block(f, n))
    /\ \A f \in File : Name(f) \in Part /\ IsName(Name(f))
    /\ Text.type = "text" /\ Entry.type = "entry" /\ FIN.type = "fin" /\ Bytes.type = "bytes"
    /\ Text \notin Header /\ Entry \notin Header /\ FIN \notin Header /\ Bytes \notin Header
    /\ {Text, Entry, FIN, Bytes} \subseteq Part /\ Header \subseteq Part
<1>1. \A r : IsName(r) => r.type = "name"
  BY DEF IsName, Name
<1>2. \A r : IsBlock(r) => r.type = "block"
  BY DEF IsBlock, Block
<1>3. Text.type = "text" /\ Entry.type = "entry" /\ FIN.type = "fin" /\ Bytes.type = "bytes"
  BY DEF Text, Entry, FIN, Bytes
<1>4. \A f \in File : \A n \in 1..Size[f] : Block(f, n) \in Part /\ IsBlock(Block(f, n))
  BY DEF Part, Body, IsBlock
<1>5. \A f \in File : Name(f) \in Part /\ IsName(Name(f))
  BY DEF Part, Body, IsName
<1>6. {Text, Entry, FIN, Bytes} \subseteq Part /\ Header \subseteq Part
  BY DEF Part, Body
<1> QED
  BY <1>1, <1>2, <1>3, <1>4, <1>5, <1>6, HeaderTypes

LEMMA PartTypes == ASSUME NEW r \in Part, r \notin Header PROVE r.type \notin {"DATA", "STOR"}
BY BodyTypes DEF Part, Body, Name, Block

LEMMA HeaderParts ==
    /\ {DataHeader, StorHeader, LastHeader, EmptyHeader} \subseteq Header
    /\ DataHeader # StorHeader /\ DataHeader # LastHeader /\ StorHeader # LastHeader
    /\ EmptyHeader \notin {DataHeader, StorHeader, LastHeader}
BY DEF Header, DataHeader, StorHeader, LastHeader, EmptyHeader

\* Both processes speak of the same parts.
LEMMA ClientParts ==
    /\ C!Header = Header /\ C!Text = Text /\ C!Entry = Entry /\ C!FIN = FIN
    /\ C!Bytes = Bytes /\ \A s, a : C!Rests(s, a) = Rests(s, a)
    /\ \A f : C!Name(f) = Name(f) /\ \A i : C!Block(f, i) = Block(f, i)
    /\ \A t, c : C!Bare(t, c) = Bare(t, c) /\ \A b : C!With(t, c, b) = With(t, c, b)
    /\ \A r : C!IsHeader(r) <=> r \in Header
    /\ \A s : (C!Closed(s) <=> Closed(s)) /\ (C!Readable(s) <=> Readable(s))
    /\ \A s, msg, gone : /\ C!Room(s, msg, gone) <=> Room(s, msg, gone)
                         /\ C!Sent(s, msg, gone) = Sent(s, msg, gone)
BY DEF C!Header, C!Text, C!Entry, C!FIN, C!Name, C!Block, C!Bare, C!With, C!IsHeader,
   C!Closed, C!Readable, C!Room, C!Sent, C!Bytes, C!Rests, C!Blur, Header, Text, Entry,
   FIN, Name, Block, Bare, With, Closed, Readable, Room, Sent, Bytes, Rests, Blur, IsHeader

LEMMA ServerParts ==
    /\ S!Header = Header /\ S!Text = Text /\ S!Entry = Entry /\ S!FIN = FIN
    /\ S!Bytes = Bytes /\ \A s, a : S!Rests(s, a) = Rests(s, a)
    /\ \A f : S!Name(f) = Name(f) /\ \A i : S!Block(f, i) = Block(f, i)
    /\ \A t, c : S!Bare(t, c) = Bare(t, c) /\ \A b : S!With(t, c, b) = With(t, c, b)
    /\ \A r : S!IsHeader(r) <=> r \in Header
    /\ \A s : (S!Closed(s) <=> Closed(s)) /\ (S!Readable(s) <=> Readable(s))
    /\ \A s, msg, gone : /\ S!Room(s, msg, gone) <=> Room(s, msg, gone)
                         /\ S!Sent(s, msg, gone) = Sent(s, msg, gone)
BY DEF S!Header, S!Text, S!Entry, S!FIN, S!Name, S!Block, S!Bare, S!With, S!IsHeader,
   S!Closed, S!Readable, S!Room, S!Sent, S!Bytes, S!Rests, S!Blur, Header, Text, Entry,
   FIN, Name, Block, Bare, With, Closed, Readable, Room, Sent, Bytes, Rests, Blur, IsHeader

\* What a message adds to a stream.
LEMMA AddOne ==
    ASSUME NEW s \in Seq(Part), NEW h \in Part
    PROVE  /\ s \o <<h>> \in Seq(Part) /\ s \o <<h>> = Append(s, h)
           /\ Len(s \o <<h>>) = Len(s) + 1
           /\ (s \o <<h>>)[Len(s) + 1] = h
           /\ \A i \in 1..Len(s) : (s \o <<h>>)[i] = s[i]
OBVIOUS

LEMMA AddTwo ==
    ASSUME NEW s \in Seq(Part), NEW h \in Part, NEW b \in Part
    PROVE  /\ s \o <<h, b>> \in Seq(Part)
           /\ Len(s \o <<h, b>>) = Len(s) + 2
           /\ (s \o <<h, b>>)[Len(s) + 1] = h
           /\ (s \o <<h, b>>)[Len(s) + 2] = b
           /\ \A i \in 1..Len(s) : (s \o <<h, b>>)[i] = s[i]
OBVIOUS

LEMMA TailParts ==
    ASSUME NEW s \in Seq(Part), s # <<>>
    PROVE  /\ Tail(s) \in Seq(Part) /\ Len(Tail(s)) = Len(s) - 1 /\ Len(s) \in Nat /\ Len(s) > 0
           /\ \A i \in 1..Len(s) - 1 : Tail(s)[i] = s[i + 1]
           /\ s[1] \in Part
           /\ Tail(s) = <<>> <=> Len(s) = 1
<1>1. Len(s) \in Nat /\ Len(s) > 0 /\ Tail(s) \in Seq(Part) /\ Len(Tail(s)) = Len(s) - 1
  OBVIOUS
<1>2. \A i \in 1..Len(s) - 1 : Tail(s)[i] = s[i + 1]
  OBVIOUS
<1>3. \A t \in Seq(Part) : t = <<>> <=> Len(t) = 0
  BY EmptySeq
<1>4. s[1] \in Part
  BY <1>1
<1>5. Tail(s) = <<>> <=> Len(s) = 1
  <2>1. Tail(s) = <<>> <=> Len(Tail(s)) = 0
    BY <1>1, <1>3, Zenon
  <2>2. Len(s) - 1 = 0 <=> Len(s) = 1
    BY <1>1
  <2> QED
    BY <1>1, <2>1, <2>2, Zenon
<1> QED
  BY <1>1, <1>2, <1>4, <1>5

\* What is left of a stream when a part has been read.
LEMMA RestsAre ==
    ASSUME NEW s \in Seq(Part), s # <<>>, NEW a \in BOOLEAN, NEW t \in Rests(s, a)
    PROVE  /\ t \in Seq(Part) /\ Len(t) <= Len(s)
           /\ ~a => t = Tail(s)
           /\ ~Closed(s) => ~Closed(t)
<1>1. /\ Tail(s) \in Seq(Part) /\ Len(Tail(s)) = Len(s) - 1 /\ Len(s) \in Nat /\ Len(s) > 0
      /\ \A i \in 1..Len(s) - 1 : Tail(s)[i] = s[i + 1]
  BY TailParts
<1>2. ASSUME NEW u \in Seq(Part)
      PROVE  /\ Blur(u) \in Seq(Part) /\ Len(Blur(u)) = Len(u)
             /\ \A i \in 1..Len(u) : Blur(u)[i] = FIN => u[i] = FIN
  <2>1. Bytes # FIN /\ Bytes \in Part /\ FIN \in Part
    BY BodyTypes
  <2>2. Len(u) \in Nat /\ DOMAIN u = 1..Len(u)
    OBVIOUS
  <2>3. Blur(u) = [i \in 1..Len(u) |-> IF u[i] = FIN THEN FIN ELSE Bytes]
    BY <2>2 DEF Blur
  <2>4. \A i \in 1..Len(u) : (IF u[i] = FIN THEN FIN ELSE Bytes) \in Part
    BY <2>1
  <2>5. Blur(u) \in [1..Len(u) -> Part]
    BY <2>3, <2>4
  <2>6. Blur(u) \in Seq(Part) /\ Len(Blur(u)) = Len(u)
    BY <2>2, <2>5, SeqDef, LenProperties
  <2> QED
    BY <2>1, <2>3, <2>6
<1>3. t \in {Tail(s), Blur(Tail(s)), Blur(s)} /\ (~a => t = Tail(s))
  BY DEF Rests
<1>4. t \in Seq(Part) /\ Len(t) <= Len(s)
  <2>1. \A u \in {s, Tail(s)} : u \in Seq(Part) /\ Len(u) \in Nat /\ Len(u) <= Len(s)
    BY <1>1
  <2>2. \A u \in {s, Tail(s)} : Blur(u) \in Seq(Part) /\ Len(Blur(u)) <= Len(s)
    BY <1>2, <2>1
  <2> QED
    BY <1>3, <2>1, <2>2, Zenon
<1>5. ASSUME Closed(Tail(s)) PROVE Closed(s)
  <2>1. Tail(s) # <<>> /\ Len(Tail(s)) \in Nat /\ Len(Tail(s)) > 0
    BY <1>1, <1>5, EmptySeq DEF Closed
  <2>2. Len(Tail(s)) \in 1..Len(s) - 1 /\ Len(Tail(s)) + 1 = Len(s)
    BY <1>1, <2>1
  <2> QED
    BY <1>1, <1>5, <2>1, <2>2 DEF Closed
<1>6. ASSUME NEW u \in {s, Tail(s)}, Closed(Blur(u)) PROVE Closed(u)
  <2>1. u \in Seq(Part) /\ Blur(u) \in Seq(Part) /\ Len(Blur(u)) = Len(u) /\ Len(u) \in Nat
    BY <1>1, <1>2
  <2>2. Len(u) > 0
    BY <1>6, <2>1, EmptySeq DEF Closed
  <2>3. Len(u) \in 1..Len(u) /\ u # <<>>
    BY <2>1, <2>2
  <2>4. Blur(u)[Len(u)] = FIN
    BY <1>6, <2>1 DEF Closed
  <2> QED
    BY <1>2, <2>1, <2>3, <2>4 DEF Closed
<1> QED
  BY <1>3, <1>4, <1>5, <1>6

-----------------------------------------------------------------------------
(***************************************************************************)
(* A stream from the client: after the name of a file come its blocks in   *)
(* order, and after the last one the last packet; after an empty packet,   *)
(* of a file that was cut off, comes nothing of that put but empty ones.   *)
(* l: the lengths that the files have now.                                 *)
(***************************************************************************)
Regular(r) == /\ r.type = "DATA" => r \in {DataHeader, LastHeader, EmptyHeader}
              /\ r.type = "STOR" => r = StorHeader
Placed(f, n, r) == r = IF n = 0 THEN Name(f) ELSE Block(f, n)
Lengths(f, l) == {Size[f], l[f]}
Whole(r, l) == \E f \in File : \E z \in Lengths(f, l) : Placed(f, z, r)
Chained(s, l) ==
    \A i \in 1..Len(s) :
        /\ Regular(s[i])
        /\ s[i] = DataHeader => i < Len(s) /\ IsBlock(s[i + 1])
        /\ s[i] = StorHeader => i < Len(s) /\ IsName(s[i + 1])
        /\ i < Len(s) /\ IsBlock(s[i + 1]) => s[i] = DataHeader
        /\ i + 1 < Len(s) /\ s[i + 1] = DataHeader =>
              \A f \in File : \A n \in 1..Size[f] :
                 s[i + 2] = Block(f, n) => Placed(f, n - 1, s[i])
        /\ i < Len(s) /\ s[i + 1] = LastHeader => Whole(s[i], l)

LEMMA TailChained ==
    ASSUME NEW s \in Seq(Part), NEW l, s # <<>>, Chained(s, l) PROVE Chained(Tail(s), l)
<1> DEFINE t == Tail(s)
<1>1. /\ Len(t) = Len(s) - 1 /\ Len(s) \in Nat
      /\ \A i \in 1..Len(s) - 1 : t[i] = s[i + 1]
  BY TailParts
<1> HIDE DEF t
<1> SUFFICES ASSUME NEW i \in 1..Len(t)
             PROVE  /\ Regular(t[i])
                    /\ t[i] = DataHeader => i < Len(t) /\ IsBlock(t[i + 1])
                    /\ t[i] = StorHeader => i < Len(t) /\ IsName(t[i + 1])
                    /\ i < Len(t) /\ IsBlock(t[i + 1]) => t[i] = DataHeader
                    /\ i + 1 < Len(t) /\ t[i + 1] = DataHeader =>
                          \A f \in File : \A n \in 1..Size[f] :
                             t[i + 2] = Block(f, n) => Placed(f, n - 1, t[i])
                    /\ i < Len(t) /\ t[i + 1] = LastHeader => Whole(t[i], l)
  BY DEF Chained, t
<1>2. i + 1 \in 1..Len(s) /\ t[i] = s[i + 1]
  BY <1>1
<1>3. i < Len(t) => t[i + 1] = s[(i + 1) + 1]
  BY <1>1
<1>4. i + 1 < Len(t) => t[i + 2] = s[(i + 1) + 2]
  BY <1>1
<1>5. (i < Len(t) <=> i + 1 < Len(s)) /\ (i + 1 < Len(t) <=> (i + 1) + 1 < Len(s))
  BY <1>1
<1> QED
  BY <1>2, <1>3, <1>4, <1>5 DEF Chained

\* A message of a header, which may be the last packet of a put.
LEMMA OneChained ==
    ASSUME NEW s \in Seq(Part), NEW l, Chained(s, l), NEW h \in Part,
           h \notin {DataHeader, StorHeader}, ~IsBlock(h), Regular(h),
           h = LastHeader /\ s # <<>> => Whole(s[Len(s)], l)
    PROVE  Chained(s \o <<h>>, l)
<1> DEFINE t == s \o <<h>>
<1>1. /\ Len(t) = Len(s) + 1 /\ t[Len(s) + 1] = h /\ Len(s) \in Nat
      /\ \A i \in 1..Len(s) : t[i] = s[i]
  BY AddOne
<1> HIDE DEF t
<1> SUFFICES ASSUME NEW i \in 1..Len(t)
             PROVE  /\ Regular(t[i])
                    /\ t[i] = DataHeader => i < Len(t) /\ IsBlock(t[i + 1])
                    /\ t[i] = StorHeader => i < Len(t) /\ IsName(t[i + 1])
                    /\ i < Len(t) /\ IsBlock(t[i + 1]) => t[i] = DataHeader
                    /\ i + 1 < Len(t) /\ t[i + 1] = DataHeader =>
                          \A f \in File : \A n \in 1..Size[f] :
                             t[i + 2] = Block(f, n) => Placed(f, n - 1, t[i])
                    /\ i < Len(t) /\ t[i + 1] = LastHeader => Whole(t[i], l)
  BY DEF Chained, t
<1>2. CASE i = Len(t)
  BY <1>1, <1>2
<1>3. CASE i = Len(s)
  <2>1. t[i] = s[i] /\ t[i + 1] = h /\ i \in 1..Len(s) /\ s # <<>> /\ i + 1 = Len(t)
    BY <1>1, <1>3
  <2>2. /\ s[i] # DataHeader /\ s[i] # StorHeader
        /\ Regular(s[i])
    BY <1>3, <2>1 DEF Chained
  <2> QED
    BY <1>1, <1>3, <2>1, <2>2
<1>4. CASE i < Len(s)
  <2>1. t[i] = s[i] /\ t[i + 1] = s[i + 1] /\ i \in 1..Len(s) /\ i < Len(t)
    BY <1>1, <1>4
  <2>2. ASSUME i + 1 < Len(t), t[i + 1] = DataHeader
        PROVE  i + 1 < Len(s) /\ t[i + 2] = s[i + 2]
    <3>1. i + 1 \in 1..Len(s) /\ s[i + 1] = DataHeader
      BY <1>1, <1>4, <2>1, <2>2
    <3>2. i + 1 < Len(s)
      BY <3>1 DEF Chained
    <3> QED
      BY <1>1, <3>2
  <2>3. /\ Regular(t[i])
        /\ t[i] = DataHeader => IsBlock(t[i + 1])
        /\ t[i] = StorHeader => IsName(t[i + 1])
        /\ IsBlock(t[i + 1]) => t[i] = DataHeader
    BY <1>4, <2>1 DEF Chained
  <2>4. t[i + 1] = LastHeader => Whole(t[i], l)
    BY <1>4, <2>1 DEF Chained
  <2>5. ASSUME i + 1 < Len(t), t[i + 1] = DataHeader
        PROVE  \A f \in File : \A n \in 1..Size[f] :
                  t[i + 2] = Block(f, n) => Placed(f, n - 1, t[i])
    BY <1>4, <2>1, <2>2, <2>5 DEF Chained
  <2> QED
    BY <1>4, <2>1, <2>2, <2>3, <2>4, <2>5
<1> QED
  BY <1>1, <1>2, <1>3, <1>4

\* A message of a header and a body: a command, or a block of a put.
LEMMA TwoChained ==
    ASSUME NEW s \in Seq(Part), NEW l, Chained(s, l),
           NEW h \in Header, NEW b \in Part, b \notin Header,
           Regular(h),
           h # LastHeader, h = StorHeader => IsName(b), IsBlock(b) <=> h = DataHeader,
           \A f \in File : \A n \in 1..Size[f] :
              b = Block(f, n) /\ s # <<>> => Placed(f, n - 1, s[Len(s)])
    PROVE  Chained(s \o <<h, b>>, l)
<1> DEFINE t == s \o <<h, b>>
<1>1. /\ Len(t) = Len(s) + 2 /\ t[Len(s) + 1] = h /\ t[Len(s) + 2] = b /\ Len(s) \in Nat
      /\ \A i \in 1..Len(s) : t[i] = s[i]
  BY AddTwo, BodyTypes
<1>0. /\ ~IsBlock(h) /\ b \notin {DataHeader, StorHeader, LastHeader}
      /\ Regular(b)
  BY BodyTypes, HeaderParts, PartTypes DEF Regular
<1> HIDE DEF t
<1> SUFFICES ASSUME NEW i \in 1..Len(t)
             PROVE  /\ Regular(t[i])
                    /\ t[i] = DataHeader => i < Len(t) /\ IsBlock(t[i + 1])
                    /\ t[i] = StorHeader => i < Len(t) /\ IsName(t[i + 1])
                    /\ i < Len(t) /\ IsBlock(t[i + 1]) => t[i] = DataHeader
                    /\ i + 1 < Len(t) /\ t[i + 1] = DataHeader =>
                          \A f \in File : \A n \in 1..Size[f] :
                             t[i + 2] = Block(f, n) => Placed(f, n - 1, t[i])
                    /\ i < Len(t) /\ t[i + 1] = LastHeader => Whole(t[i], l)
  BY DEF Chained, t
<1>2. CASE i = Len(t)
  BY <1>0, <1>1, <1>2
<1>3. CASE i = Len(s) + 1
  <2>1. t[i] = h /\ t[i + 1] = b /\ i + 1 = Len(t)
    BY <1>1, <1>3
  <2> QED
    BY <1>0, <1>1, <1>3, <2>1
<1>4. CASE i = Len(s)
  <2>1. t[i] = s[i] /\ t[i + 1] = h /\ t[i + 2] = b /\ i \in 1..Len(s) /\ s # <<>>
    BY <1>1, <1>4
  <2>2. /\ s[i] # DataHeader /\ s[i] # StorHeader
        /\ Regular(s[i])
    BY <1>4, <2>1 DEF Chained
  <2> QED
    BY <1>0, <1>1, <1>4, <2>1, <2>2
<1>5. CASE i < Len(s)
  <2>1. t[i] = s[i] /\ t[i + 1] = s[i + 1] /\ i \in 1..Len(s) /\ i < Len(t)
    BY <1>1, <1>5
  <2>2. ASSUME i + 1 < Len(t), t[i + 1] = DataHeader
        PROVE  i + 1 < Len(s) /\ t[i + 2] = s[i + 2]
    <3>1. i + 1 \in 1..Len(s) /\ s[i + 1] = DataHeader
      BY <1>1, <1>5, <2>1, <2>2
    <3>2. i + 1 < Len(s)
      BY <3>1 DEF Chained
    <3> QED
      BY <1>1, <3>2
  <2>3. /\ Regular(t[i])
        /\ t[i] = DataHeader => IsBlock(t[i + 1])
        /\ t[i] = StorHeader => IsName(t[i + 1])
        /\ IsBlock(t[i + 1]) => t[i] = DataHeader
    BY <1>5, <2>1 DEF Chained
  <2>4. t[i + 1] = LastHeader => Whole(t[i], l)
    BY <1>5, <2>1 DEF Chained
  <2>5. ASSUME i + 1 < Len(t), t[i + 1] = DataHeader
        PROVE  \A f \in File : \A n \in 1..Size[f] :
                  t[i + 2] = Block(f, n) => Placed(f, n - 1, t[i])
    BY <1>5, <2>1, <2>2, <2>5 DEF Chained
  <2> QED
    BY <1>5, <2>1, <2>2, <2>3, <2>4, <2>5
<1> QED
  BY <1>1, <1>2, <1>3, <1>4, <1>5
-----------------------------------------------------------------------------
(***************************************************************************)
(* Types, for streams of any length.                                       *)
(***************************************************************************)
Types ==
    /\ cl \in C!Client
    /\ srv \in S!Session
    /\ got \in Seq(Part)
    /\ len \in [File -> Nat] /\ \A f \in File : len[f] <= Size[f]
    /\ here \in [File -> Nat] /\ \A f \in File : here[f] <= Size[f]
    /\ stored \in [File -> Seq(Part)]
    /\ up \in Seq(Part)
    /\ down \in Seq(Part)
    /\ orderly \in BOOLEAN

LEMMA NamedFile == ASSUME NEW r \in Part, r.type = "name" PROVE r.of \in File
<1>1. PICK f \in File : r = Name(f)
  <2>1. r \notin Header /\ r # Text /\ r # Entry /\ r # FIN /\ r # Bytes
    BY HeaderTypes, BodyTypes
  <2>2. \A f \in File : \A n \in 1..Size[f] : r # Block(f, n)
    BY DEF Block
  <2> QED
    BY <2>1, <2>2 DEF Part, Body
<1> QED
  BY <1>1 DEF Name

LEMMA AnyFileIs == C!AnyFile \in File /\ S!AnyFile \in File
BY FileAssumption DEF C!AnyFile, S!AnyFile

LEMMA BareType ==
    \A t \in {"QUIT", "PWD", "CWD", "LIST", "RETR", "STOR", "OK", "ERR", "DATA"},
       c \in {"OK", "OK_RETR", "OK_STOR", "LAST", "DATA"} :
          /\ Bare(t, c) \in Seq(Part)
          /\ \A b \in Part : With(t, c, b) \in Seq(Part)
<1> TAKE t \in {"QUIT", "PWD", "CWD", "LIST", "RETR", "STOR", "OK", "ERR", "DATA"},
         c \in {"OK", "OK_RETR", "OK_STOR", "LAST", "DATA"}
<1>1. /\ [type |-> t, code |-> c, length |-> 0] \in Part
      /\ [type |-> t, code |-> c, length |-> 1] \in Part
  BY BodyTypes DEF Header
<1> QED
  BY <1>1 DEF Bare, With

LEMMA SentType ==
    ASSUME NEW s \in Seq(Part), NEW msg \in Seq(Part), NEW gone
    PROVE  Sent(s, msg, gone) \in Seq(Part)
BY DEF Sent

LEMMA TypesInit == Init => Types
<1> SUFFICES ASSUME Init PROVE Types
  OBVIOUS
<1>1. cl \in C!Client
  BY AnyFileIs, BoundsAssumption DEF Init, C!Init, C!Client, C!CPlace, C!CCmd
<1>2. srv \in S!Session
  BY AnyFileIs DEF Init, S!Init, S!Session, S!SPlace, S!SCmd
<1>3. /\ len \in [File -> Nat] /\ \A f \in File : len[f] <= Size[f]
      /\ here \in [File -> Nat] /\ \A f \in File : here[f] <= Size[f]
  BY FileAssumption DEF Init, C!Init, S!Init
<1> QED
  BY <1>1, <1>2, <1>3 DEF Init, C!Init, S!Init, Types

\* The client's records.
LEMMA ClientBecomes ==
    ASSUME NEW c \in C!Client, NEW place \in C!CPlace, C!Becomes(c, place)
    PROVE  /\ cl' \in C!Client /\ cl'.pc = place /\ cl'.astray = c.astray
           /\ place = "prompt" => cl'.cmd = "none"
           /\ place # "prompt" => /\ cl'.cmd = c.cmd /\ cl'.file = c.file
                                  /\ cl'.pos = c.pos /\ cl'.size = c.size
<1>1. CASE place = "prompt"
  <2>1. cl' = [c EXCEPT !.pc = "prompt", !.cmd = "none", !.file = C!AnyFile, !.pos = 0,
                        !.size = 0]
    BY <1>1 DEF C!Becomes
  <2> QED
    BY <1>1, <2>1, AnyFileIs DEF C!Client, C!CPlace, C!CCmd
<1>2. CASE place # "prompt"
  <2>1. cl' = [c EXCEPT !.pc = place]
    BY <1>2 DEF C!Becomes
  <2> QED
    BY <1>2, <2>1 DEF C!Client
<1> QED
  BY <1>1, <1>2

LEMMA ClientAt ==
    ASSUME cl \in C!Client, NEW place \in C!CPlace, C!At(place)
    PROVE  /\ cl' \in C!Client /\ cl'.pc = place /\ cl'.astray = cl.astray
           /\ place = "prompt" => cl'.cmd = "none"
           /\ place # "prompt" => /\ cl'.cmd = cl.cmd /\ cl'.file = cl.file
                                  /\ cl'.pos = cl.pos /\ cl'.size = cl.size
BY ClientBecomes DEF C!At

\* The client reads a part; what it then knows of the beginnings of messages.
LEMMA ClientReads ==
    ASSUME Types, NEW place, C!TakesHeader(place) \/ C!TakesBody(place)
    PROVE  /\ cl.pc = place /\ down # <<>> /\ down[1] # FIN /\ down[1] \in Part
           /\ down' \in Seq(Part) /\ Len(down') <= Len(down) /\ UNCHANGED <<here, up>>
           /\ ~Closed(down) => ~Closed(down')
           /\ C!TakesHeader(place) /\ ~C!Astray => down' = Tail(down)
           /\ C!TakesBody(place) /\ ~cl.astray => down' = Tail(down)
<1>1. C!Astray \in BOOLEAN /\ cl.astray \in BOOLEAN
  BY DEF C!Astray, Types, C!Client
<1>2. /\ cl.pc = place /\ UNCHANGED <<here, up>> /\ Readable(down)
      /\ C!TakesHeader(place) => down' \in Rests(down, C!Astray)
      /\ C!TakesBody(place) => down' \in Rests(down, cl.astray)
  BY ClientParts DEF C!TakesHeader, C!TakesBody
<1>3. down # <<>> /\ down[1] # FIN /\ down \in Seq(Part)
  BY <1>2 DEF Readable, Types
<1>4. down[1] \in Part
  BY <1>3, TailParts
<1> QED
  BY <1>1, <1>2, <1>3, <1>4, RestsAre

\* A client that reads a header: the places it goes to, with what it has learnt.
LEMMA ClientReaders ==
    ASSUME Types, NEW n \in Nat
    PROVE  /\ [cl EXCEPT !.astray = C!Astray] \in C!Client
           /\ [cl EXCEPT !.astray = TRUE] \in C!Client
           /\ [cl EXCEPT !.astray = C!Astray, !.size = n] \in C!Client
           /\ \A a \in BOOLEAN : [cl EXCEPT !.astray = a] \in C!Client
<1>1. C!Astray \in BOOLEAN
  BY DEF C!Astray, Types, C!Client
<1> QED
  BY <1>1 DEF Types, C!Client

ClientTypes == /\ cl' \in C!Client
               /\ got' \in Seq(Part)
               /\ here' = here
               /\ up' \in Seq(Part)
               /\ down' \in Seq(Part)

LEMMA CommandTypes ==
    ASSUME Types, C!Command \/ C!quit
    PROVE  ClientTypes
<1>1. CASE C!Command
  <2>1. PICK cmd \in C!CCmd, f \in File, msg \in Seq(Part) : C!exec_command(cmd, f, msg)
    <3>1. /\ Bare("PWD", "OK") \in Seq(Part)
          /\ With("CWD", "OK", Text) \in Seq(Part)
          /\ With("LIST", "OK", Text) \in Seq(Part)
          /\ \A f \in File : /\ With("RETR", "OK", Name(f)) \in Seq(Part)
                             /\ With("STOR", "OK", Name(f)) \in Seq(Part)
      BY BareType, BodyTypes
    <3>2. CASE C!pwd
      BY <3>1, <3>2, AnyFileIs, ClientParts DEF C!pwd, C!CCmd
    <3>3. CASE C!cd
      BY <3>1, <3>3, AnyFileIs, ClientParts DEF C!cd, C!CCmd
    <3>4. CASE C!dir
      BY <3>1, <3>4, AnyFileIs, ClientParts DEF C!dir, C!CCmd
    <3>5. CASE \E f \in File : C!ftpget(f)
      BY <3>1, <3>5, ClientParts DEF C!ftpget, C!CCmd
    <3>6. CASE \E f \in File : C!ftpput(f)
      BY <3>1, <3>6, ClientParts DEF C!ftpput, C!CCmd
    <3> QED
      BY <1>1, <3>2, <3>3, <3>4, <3>5, <3>6, ClientParts DEF C!Command
  <2>2. cl' \in C!Client
    <3>1. cl' = [cl EXCEPT !.pc = "reply", !.cmd = cmd, !.file = f, !.pos = 0,
                           !.watched = FALSE, !.count = @ + 1]
      BY <2>1 DEF C!exec_command
    <3>2. cl.count + 1 \in 0..MaxCommands /\ cl \in C!Client
      BY SMTT(20), <2>1, BoundsAssumption DEF Types, C!exec_command, C!Client
    <3>3. "reply" \in C!CPlace
      BY DEF C!CPlace
    <3> QED
      BY <3>1, <3>2, <3>3 DEF C!Client
  <2> QED
    BY <2>1, <2>2, EmptySeq, SentType, ClientParts DEF ClientTypes, Types, C!exec_command
<1>2. CASE C!quit
  <2>1. cl' \in C!Client
    BY <1>2, ClientAt, ClientParts DEF Types, C!quit, C!CPlace
  <2>2. up' \in Seq(Part)
    <3>1. Sent(up, Bare("QUIT", "OK"), C!Gone) \in Seq(Part) /\ FIN \in Part
      BY SentType, BareType, BodyTypes DEF Types
    <3> QED
      BY <1>2, <3>1, ClientParts DEF C!quit
  <2> QED
    BY <1>2, <2>1, <2>2, ClientParts DEF ClientTypes, Types, C!quit
<1> QED
  BY <1>1, <1>2

LEMMA AnswerTypes ==
    ASSUME Types, C!Receive \/ C!Trouble \/ C!Hangup \/ C!Sigpipe
    PROVE  ClientTypes
<1>0. cl \in C!Client /\ got \in Seq(Part) /\ up \in Seq(Part) /\ down \in Seq(Part)
  BY DEF Types
<1>1. CASE C!Reply
  <2>1. PICK place \in C!CPlace :
           C!Becomes([cl EXCEPT !.astray = C!Astray,
                                !.size = IF place = "send" THEN here[cl.file] ELSE 0], place)
    <3>1. C!AfterReply(down[1]) \in C!CPlace /\ C!Replies \subseteq C!CPlace
      BY DEF C!AfterReply, C!Replies, C!CPlace
    <3> QED
      BY <1>1, <3>1 DEF C!Reply
  <2>2. here[cl.file] \in Nat /\ 0 \in Nat
    BY DEF Types, C!Client
  <2>3. cl' \in C!Client
    BY <2>1, <2>2, ClientReaders, ClientBecomes
  <2> QED
    BY <1>0, <1>1, <2>3, ClientReads DEF C!Reply, ClientTypes
<1>2. CASE C!RecvText
  BY <1>0, <1>2, ClientAt, ClientReads DEF C!RecvText, C!Return, C!CPlace, ClientTypes
<1>3. CASE C!RecvData
  <2>1. PICK place \in C!CPlace : C!Reads(place)
    <3>1. C!AfterData(down[1]) \in C!CPlace /\ {"block", "data", "prompt"} \subseteq C!CPlace
      BY DEF C!AfterData, C!CPlace
    <3> QED
      BY <1>3, <3>1 DEF C!RecvData
  <2>2. cl' \in C!Client
    BY <2>1, ClientReaders, ClientBecomes DEF C!Reads
  <2> QED
    BY <1>0, <1>3, <2>2, ClientReads DEF C!RecvData, ClientTypes
<1>4. CASE C!RecvBlock
  <2>1. got' \in Seq(Part)
    BY <1>0, <1>4, ClientReads DEF C!RecvBlock, C!Written
  <2>2. cl' \in C!Client
    BY <1>0, <1>4, ClientAt DEF C!RecvBlock, C!AfterBlock, C!CPlace
  <2> QED
    BY <1>0, <1>4, <2>1, <2>2, ClientReads DEF C!RecvBlock, ClientTypes
<1>5. CASE C!More
  BY <1>0, <1>5, ClientReaders, ClientReads DEF C!More, ClientTypes
<1>6. ASSUME NEW a \in BOOLEAN, C!Failed(a) PROVE ClientTypes
  <2>1. PICK place \in C!CPlace : C!Becomes([cl EXCEPT !.astray = a], place)
    BY <1>6 DEF C!Failed, C!AfterBlock, C!CPlace
  <2>2. cl' \in C!Client
    BY <2>1, ClientReaders, ClientBecomes
  <2> QED
    BY <1>0, <1>6, <2>2 DEF C!Failed, ClientTypes
<1>7. CASE C!ReadFails
  BY <1>0, <1>7, ClientAt DEF C!ReadFails, C!Return, C!CPlace, ClientTypes
<1>8. CASE C!WriteFails
  BY <1>0, <1>8, ClientAt, ClientReads DEF C!WriteFails, C!Return, C!CPlace, ClientTypes
<1>9. CASE C!Leave
  BY <1>0, <1>9, ClientAt, BodyTypes, ClientParts DEF C!Leave, C!CPlace, ClientTypes
<1>10. cl.astray \in BOOLEAN /\ (cl.astray \/ down # <<>>) \in BOOLEAN
  BY <1>0 DEF C!Client
<1>11. CASE C!Timeout
  BY <1>6, <1>10, <1>11 DEF C!Timeout
<1>12. CASE C!RecvEnd
  BY <1>6, <1>10, <1>12 DEF C!RecvEnd
<1> QED
  BY <1>1, <1>2, <1>3, <1>4, <1>5, <1>7, <1>8, <1>9, <1>11, <1>12
  DEF C!Receive, C!Trouble, C!Hangup, C!Sigpipe

LEMMA TransmitTypes ==
    ASSUME Types, C!Transmit
    PROVE  ClientTypes
<1>0. /\ cl \in C!Client /\ got \in Seq(Part) /\ up \in Seq(Part) /\ down \in Seq(Part)
      /\ cl.file \in File /\ cl.pos \in Nat /\ cl.pos + 1 \in Nat
  BY DEF Types, C!Client
<1>1. CASE C!send_file
  <2>1. C!packet \in Seq(Part)
    <3>1. CASE cl.pos < here[cl.file]
      <4>1. /\ here[cl.file] \in Nat /\ Size[cl.file] \in Nat
            /\ here[cl.file] <= Size[cl.file]
        BY <1>0, SizeType DEF Types
      <4>2. cl.pos + 1 \in 1..Size[cl.file]
        BY <1>0, <3>1, <4>1
      <4>3. With("DATA", "DATA", Block(cl.file, cl.pos + 1)) \in Seq(Part)
        BY <1>0, <4>2, BareType, BodyTypes
      <4> QED
        BY <3>1, <4>3, ClientParts DEF C!packet
    <3>2. CASE ~(cl.pos < here[cl.file])
      BY <3>2, BareType, ClientParts DEF C!packet
    <3> QED
      BY <3>1, <3>2
  <2>2. up' \in Seq(Part)
    BY <1>0, <1>1, <2>1, SentType, ClientParts DEF C!send_file
  <2>3. [cl EXCEPT !.pos = @ + 1] \in C!Client
    BY <1>0 DEF C!Client
  <2> QED
    BY <1>0, <1>1, <2>2, <2>3 DEF C!send_file, ClientTypes
<1>2. CASE C!SendLast
  <2>1. up' \in Seq(Part)
    BY <1>0, <1>2, BareType, SentType, ClientParts DEF C!SendLast
  <2> QED
    BY <1>0, <1>2, <2>1, ClientAt DEF C!SendLast, C!Return, C!CPlace, ClientTypes
<1> QED
  BY <1>1, <1>2 DEF C!Transmit

\* The server's records.
LEMMA SessionTypes ==
    ASSUME NEW s \in S!Session
    PROVE  /\ S!Handler(s) \in S!Session /\ S!Handler(s).astray = s.astray
           /\ S!Handler(s).pc = "handler"
           /\ S!Reset(s) \in S!Session /\ S!Reset(s).astray = s.astray /\ S!Reset(s).pc = s.pc
           /\ \A place \in S!SPlace : /\ [s EXCEPT !.pc = place] \in S!Session
                                      /\ [s EXCEPT !.pc = place].astray = s.astray
BY AnyFileIs DEF S!Handler, S!Reset, S!Session, S!SPlace, S!SCmd

LEMMA SendTypes ==
    ASSUME down \in Seq(Part), NEW msg \in Seq(Part), NEW s \in S!Session, S!Send(msg, s)
    PROVE  down' \in Seq(Part) /\ srv' \in S!Session
<1>1. <<Bytes>> \in Seq(Part)
  BY BodyTypes
<1>2. (IF s.astray THEN <<Bytes>> ELSE msg) \in Seq(Part)
  BY <1>1
<1> QED
  BY <1>2, ServerParts, SentType DEF S!Send, S!Becomes

LEMMA DataTypes ==
    ASSUME Types, NEW msg \in Seq(Part), NEW s \in S!Session, S!send_data(msg, s)
    PROVE  down' \in Seq(Part) /\ srv' \in S!Session
<1>1. S!Packet(msg) \in Seq(Part)
  BY BareType, ServerParts DEF S!Packet
<1>2. [s EXCEPT !.first_data = FALSE] \in S!Session
  BY DEF S!Session
<1> QED
  BY <1>1, <1>2, SendTypes DEF S!send_data, Types

ServerTypes == /\ srv' \in S!Session
               /\ len' = len
               /\ stored' \in [File -> Seq(Part)]
               /\ up' \in Seq(Part)
               /\ down' \in Seq(Part)

\* The server reads a part.
LEMMA ServerReads ==
    ASSUME Types, NEW place, S!TakesHeader(place) \/ S!TakesBody(place)
    PROVE  /\ srv.pc = place /\ up # <<>> /\ up[1] # FIN /\ up[1] \in Part
           /\ up' \in Seq(Part) /\ Len(up') <= Len(up)
           /\ S!TakesHeader(place) /\ ~S!Astray => up' = Tail(up)
           /\ S!TakesBody(place) /\ ~srv.astray => up' = Tail(up)
           /\ S!Reader \in S!Session /\ S!Reader.astray = S!Astray /\ S!Reader.pc = srv.pc
           /\ S!Astray \in BOOLEAN
<1>1. S!Astray \in BOOLEAN /\ srv.astray \in BOOLEAN /\ srv \in S!Session
  BY DEF S!Astray, Types, S!Session
<1>2. /\ srv.pc = place /\ Readable(up)
      /\ S!TakesHeader(place) => up' \in Rests(up, S!Astray)
      /\ S!TakesBody(place) => up' \in Rests(up, srv.astray)
  BY ServerParts DEF S!TakesHeader, S!TakesBody
<1>3. up # <<>> /\ up[1] # FIN /\ up \in Seq(Part)
  BY <1>2 DEF Readable, Types
<1>4. up[1] \in Part
  BY <1>3, TailParts
<1>5. /\ S!Reader \in S!Session /\ S!Reader.astray = S!Astray /\ S!Reader.pc = srv.pc
  BY <1>1 DEF S!Reader, S!Session
<1> QED
  BY <1>1, <1>2, <1>3, <1>4, <1>5, RestsAre

LEMMA RepliesType ==
    /\ S!file_err \in Seq(Part) /\ S!Last \in Seq(Part) /\ S!AfterFailure \in Seq(Part)
    /\ S!Last = <<LastHeader>>
    /\ S!file_err = <<[type |-> "ERR", code |-> "OK", length |-> 0]>>
<1>1. /\ S!file_err \in Seq(Part) /\ S!Last \in Seq(Part)
      /\ S!Last = <<LastHeader>>
      /\ S!file_err = <<[type |-> "ERR", code |-> "OK", length |-> 0]>>
  BY BareType, ServerParts DEF S!file_err, S!Last, Bare, LastHeader
<1> QED
  BY <1>1 DEF S!AfterFailure

LEMMA LeaveTypes ==
    ASSUME NEW s \in S!Session, down \in Seq(Part), srv' = [s EXCEPT !.pc = "exit"],
           down' = Append(down, FIN)
    PROVE  srv' \in S!Session /\ down' \in Seq(Part)
<1>1. "exit" \in S!SPlace
  BY DEF S!SPlace
<1>2. srv' \in S!Session
  BY <1>1, SessionTypes
<1>3. Append(down, FIN) \in Seq(Part)
  BY BodyTypes
<1> QED
  BY <1>2, <1>3

LEMMA HandlerSteps ==
    ASSUME Types, \/ S!quit \/ S!pwd \/ S!PwdFails \/ S!HasArgument \/ S!HasNoArgument
                  \/ S!Undefined \/ S!Leave
    PROVE  ServerTypes
<1>0. srv \in S!Session /\ down \in Seq(Part) /\ up \in Seq(Part) /\ stored \in [File -> Seq(Part)]
  BY DEF Types
<1>1. CASE S!quit
  <2>1. /\ S!TakesHeader("handler") /\ UNCHANGED <<len, stored>>
        /\ srv' = [S!Reader EXCEPT !.pc = "exit"] /\ down' = Append(down, FIN)
    BY <1>1, ServerParts DEF S!quit, S!Handle, S!Becomes
  <2> QED
    BY <1>0, <2>1, ServerReads, LeaveTypes DEF ServerTypes
<1>2. CASE S!pwd
  <2>1. /\ S!TakesHeader("handler") /\ UNCHANGED <<len, stored>>
        /\ S!Send(With("OK", "OK", Text), S!Reset(S!Reader))
    BY <1>2, ServerParts DEF S!pwd, S!Handle
  <2>2. With("OK", "OK", Text) \in Seq(Part)
    BY BareType, BodyTypes
  <2> QED
    BY <1>0, <2>1, <2>2, ServerReads, SessionTypes, SendTypes DEF ServerTypes
<1>3. CASE S!PwdFails \/ S!Undefined
  <2>1. S!TakesHeader("handler") /\ UNCHANGED <<down, len, stored>> /\ srv' = S!Reader
    BY <1>3 DEF S!PwdFails, S!Undefined, S!Handle, S!Becomes
  <2> QED
    BY <1>0, <2>1, ServerReads DEF ServerTypes
<1>4. CASE S!HasArgument
  <2>1. PICK type \in S!SCmd :
           /\ S!TakesHeader("handler") /\ UNCHANGED <<down, len, stored>>
           /\ srv' = [S!Reader EXCEPT !.pc = "argument", !.cmd = type]
    BY <1>4 DEF S!HasArgument, S!Handle, S!Becomes
  <2>2. S!Reader \in S!Session
    BY <2>1, ServerReads
  <2>3. srv' \in S!Session
    BY <2>1, <2>2 DEF S!Session, S!SPlace
  <2> QED
    BY <1>0, <2>1, <2>3, ServerReads DEF ServerTypes
<1>5. CASE S!Leave
  <2>1. /\ srv' = [srv EXCEPT !.pc = "exit"] /\ down' = Append(down, FIN)
        /\ UNCHANGED <<len, stored, up>>
    BY <1>5, ServerParts DEF S!Leave, S!At, S!Becomes
  <2> QED
    BY <1>0, <2>1, LeaveTypes DEF ServerTypes
<1>6. CASE S!HasNoArgument
  <2>1. S!TakesHeader("handler") /\ UNCHANGED <<len, stored>>
    BY <1>6 DEF S!HasNoArgument, S!Handle
  <2>2. S!Reader \in S!Session
    BY <2>1, ServerReads
  <2>3. CASE S!Send(S!file_err, S!Reset(S!Reader))
    BY <1>0, <2>1, <2>2, <2>3, ServerReads, SessionTypes, SendTypes, RepliesType DEF ServerTypes
  <2>4. CASE /\ UNCHANGED down
             /\ \E n \in 0..MaxEntries :
                   S!Becomes([S!Reader EXCEPT !.pc = "list", !.pos = 0, !.size = n])
    <3>1. PICK n \in 0..MaxEntries :
             srv' = [S!Reader EXCEPT !.pc = "list", !.pos = 0, !.size = n]
      BY <2>4 DEF S!Becomes
    <3>2. n \in Nat
      BY BoundsAssumption
    <3>3. srv' \in S!Session
      BY <2>2, <3>1, <3>2 DEF S!Session, S!SPlace
    <3> QED
      BY <1>0, <2>1, <2>4, <3>3, ServerReads DEF ServerTypes
  <2> QED
    BY <1>6, <2>3, <2>4 DEF S!HasNoArgument
<1> QED
  BY <1>1, <1>2, <1>3, <1>4, <1>5, <1>6

LEMMA WritesTypes ==
    ASSUME Types, NEW f \in File, NEW content \in Seq(Part), S!Writes(f, content)
    PROVE  stored' \in [File -> Seq(Part)]
BY DEF S!Writes, Types

LEMMA ArgumentSteps ==
    ASSUME Types, S!cd \/ S!dir \/ S!ftpget \/ S!GetRefused \/ S!ftpput \/ S!PutRefused
    PROVE  ServerTypes
<1>0. /\ srv \in S!Session /\ down \in Seq(Part) /\ up \in Seq(Part)
      /\ stored \in [File -> Seq(Part)] /\ S!TakesBody("argument")
  BY DEF Types, S!cd, S!dir, S!ftpget, S!GetRefused, S!ftpput, S!PutRefused, S!Argument
<1>1. S!Handler(srv) \in S!Session /\ S!Reset(S!Handler(srv)) \in S!Session
  BY <1>0, SessionTypes
<1>2. CASE S!cd
  <2>1. PICK reply \in {Bare("OK", "OK"), S!file_err} : S!Send(reply, S!Reset(S!Handler(srv)))
    BY <1>2, ServerParts DEF S!cd
  <2>2. reply \in Seq(Part)
    BY <2>1, BareType, RepliesType
  <2> QED
    BY <1>0, <1>1, <1>2, <2>1, <2>2, SendTypes, ServerReads DEF S!cd, ServerTypes
<1>3. CASE S!dir
  <2>1. PICK n \in 0..MaxEntries : srv' = [srv EXCEPT !.pc = "list", !.pos = 0, !.size = n]
    BY <1>3 DEF S!dir, S!Becomes
  <2>2. n \in Nat
    BY BoundsAssumption
  <2>3. srv' \in S!Session
    BY <1>0, <2>1, <2>2 DEF S!Session, S!SPlace
  <2> QED
    BY <1>0, <1>3, <2>3, ServerReads DEF S!dir, ServerTypes
<1>4. CASE S!ftpget
  <2>1. PICK f \in File : srv' = [srv EXCEPT !.pc = "file", !.file = f, !.pos = 0, !.size = len[f]]
    BY <1>4 DEF S!ftpget, S!Becomes, S!Named
  <2>2. len[f] \in Nat
    BY DEF Types
  <2>3. srv' \in S!Session
    BY <1>0, <2>1, <2>2 DEF S!Session, S!SPlace
  <2> QED
    BY <1>0, <1>4, <2>3, ServerReads DEF S!ftpget, ServerTypes
<1>5. CASE S!GetRefused \/ S!PutRefused
  <2>1. S!Send(S!file_err, S!Reset(S!Handler(srv))) /\ UNCHANGED <<len, stored>>
    BY <1>5 DEF S!GetRefused, S!PutRefused
  <2> QED
    BY <1>0, <1>1, <2>1, RepliesType, SendTypes, ServerReads DEF ServerTypes
<1>6. CASE S!ftpput
  <2>1. PICK f \in File : /\ S!Writes(f, <<>>)
                          /\ S!Send(Bare("OK", "OK_STOR"),
                                    S!Reset([srv EXCEPT !.pc = "recv", !.file = f]))
    BY <1>6, ServerParts DEF S!ftpput, S!Named
  <2> DEFINE s == [srv EXCEPT !.pc = "recv", !.file = f]
  <2>2. s \in S!Session
    BY <1>0 DEF S!Session, S!SPlace
  <2>3. S!Send(Bare("OK", "OK_STOR"), S!Reset(s))
    BY <2>1
  <2> HIDE DEF s
  <2>4. down' \in Seq(Part) /\ srv' \in S!Session
    BY <1>0, <2>2, <2>3, BareType, SendTypes, SessionTypes
  <2>5. stored' \in [File -> Seq(Part)]
    BY <2>1, EmptySeq, WritesTypes
  <2> QED
    BY <1>0, <1>6, <2>4, <2>5, ServerReads DEF S!ftpput, ServerTypes
<1> QED
  BY <1>2, <1>3, <1>4, <1>5, <1>6

LEMMA SendingSteps ==
    ASSUME Types, \/ S!DirFails \/ S!list_dir \/ S!send_file \/ S!GetFails \/ S!SendLast
    PROVE  ServerTypes
<1>0. /\ srv \in S!Session /\ down \in Seq(Part) /\ up \in Seq(Part) /\ srv.file \in File
      /\ stored \in [File -> Seq(Part)]
  BY DEF Types, S!Session
<1>1. S!Reset(S!Handler(srv)) \in S!Session
  BY <1>0, SessionTypes
<1>2. CASE \/ UNCHANGED <<len, stored, up>> /\ S!Send(S!AfterFailure, S!Reset(S!Handler(srv)))
           \/ S!GetFails \/ S!SendLast
  BY <1>0, <1>1, <1>2, SendTypes, RepliesType DEF ServerTypes, S!GetFails, S!SendLast
<1>3. CASE /\ S!Argument("LIST") \/ S!Handle("LIST", 0)
           /\ \E s \in {srv, S!Reader} : S!Send(S!AfterFailure, S!Reset(S!Handler(s)))
           /\ UNCHANGED <<len, stored>>
  <2>1. PICK place : S!TakesHeader(place) \/ S!TakesBody(place)
    BY <1>3 DEF S!Argument, S!Handle
  <2>2. \A s \in {srv, S!Reader} : S!Reset(S!Handler(s)) \in S!Session
    BY <1>0, <2>1, ServerReads, SessionTypes
  <2> QED
    BY <1>0, <1>3, <2>1, <2>2, ServerReads, SendTypes, RepliesType DEF ServerTypes
<1>4. CASE S!list_dir \/ S!send_file
  <2>1. PICK msg \in Seq(Part), s \in S!Session : S!send_data(msg, s)
    <3>0. srv.pos + 1 \in Nat
      BY <1>0 DEF S!Session
    <3>1. [srv EXCEPT !.pos = @ + 1] \in S!Session
      BY <1>0, <3>0 DEF S!Session
    <3>2. CASE S!list_dir
      <4>1. With("DATA", "DATA", Entry) \in Seq(Part)
        BY BareType, BodyTypes
      <4> QED
        BY <3>1, <3>2, <4>1, ServerParts DEF S!list_dir
    <3>3. CASE S!send_file /\ srv.pos < len[srv.file]
      <4>1. srv.pos + 1 \in 1..Size[srv.file]
        <5>1. /\ srv.pos \in Nat /\ len[srv.file] \in Nat /\ Size[srv.file] \in Nat
              /\ len[srv.file] <= Size[srv.file]
          BY <1>0, SizeType DEF Types, S!Session
        <5> QED
          BY <3>3, <5>1
      <4>2. With("DATA", "DATA", Block(srv.file, srv.pos + 1)) \in Seq(Part)
        BY <1>0, <4>1, BareType, BodyTypes
      <4> QED
        BY <3>1, <3>3, <4>2, ServerParts DEF S!send_file
    <3>4. CASE S!send_file /\ ~(srv.pos < len[srv.file])
      BY <1>0, <3>4, BareType, ServerParts DEF S!send_file
    <3> QED
      BY <1>4, <3>2, <3>3, <3>4
  <2> QED
    BY <1>0, <1>4, <2>1, DataTypes DEF S!list_dir, S!send_file, ServerTypes
<1> QED
  BY <1>2, <1>3, <1>4 DEF S!DirFails

LEMMA GoesTypes ==
    ASSUME NEW s \in S!Session, NEW place \in S!SPlace, S!Goes(s, place)
    PROVE  srv' \in S!Session /\ srv'.pc = place /\ srv'.astray = s.astray
<1>1. srv' = IF place = "handler" THEN S!Handler(s) ELSE [s EXCEPT !.pc = place]
  BY DEF S!Goes, S!Becomes
<1>2. [s EXCEPT !.pc = place].pc = place
  BY DEF S!Session
<1> QED
  BY <1>1, <1>2, SessionTypes

LEMMA ReceivingSteps ==
    ASSUME Types, \/ S!recv_file \/ S!RecvBlock \/ S!WriteFails \/ S!More \/ S!RecvFails
                  \/ S!sigterm_handler
    PROVE  ServerTypes
<1>0. /\ srv \in S!Session /\ down \in Seq(Part) /\ up \in Seq(Part) /\ srv.file \in File
      /\ stored \in [File -> Seq(Part)] /\ S!Places \subseteq S!SPlace
  BY DEF Types, S!Session, S!Places, S!SPlace
<1>1. CASE S!recv_file
  <2>1. PICK place \in S!SPlace : S!Goes(S!Reader, place)
    <3>1. S!AfterHeader(up[1]) \in S!SPlace
      BY DEF S!AfterHeader, S!SPlace
    <3> QED
      BY <1>0, <1>1, <3>1 DEF S!recv_file
  <2>2. srv' \in S!Session
    BY <1>1, <2>1, ServerReads, GoesTypes DEF S!recv_file
  <2> QED
    BY <1>0, <1>1, <2>2, ServerReads DEF S!recv_file, ServerTypes
<1>2. CASE S!RecvBlock
  <2>1. PICK place \in S!SPlace : S!Goes(srv, place)
    BY <1>0, <1>2 DEF S!RecvBlock, S!SPlace
  <2>2. Append(stored[srv.file], up[1]) \in Seq(Part)
    BY <1>0, <1>2, ServerReads DEF S!RecvBlock
  <2>3. stored' \in [File -> Seq(Part)]
    BY <1>0, <1>2, <2>2, WritesTypes DEF S!RecvBlock
  <2> QED
    BY <1>0, <1>2, <2>1, <2>3, GoesTypes, ServerReads DEF S!RecvBlock, ServerTypes
<1>3. CASE S!RecvFails
  BY <1>0, <1>3, SessionTypes DEF S!RecvFails, ServerTypes, S!Becomes
<1>4. CASE S!sigterm_handler
  <2>1. [srv EXCEPT !.sigterm_flag = TRUE] \in S!Session
    BY <1>0 DEF S!Session
  <2> QED
    BY <1>0, <1>4, <2>1 DEF S!sigterm_handler, ServerTypes, S!Becomes
<1>5. CASE S!WriteFails
  BY <1>0, <1>5, SessionTypes, ServerReads DEF S!WriteFails, ServerTypes, S!Becomes
<1>6. CASE S!More
  BY <1>0, <1>6, ServerReads DEF S!More, ServerTypes
<1> QED
  BY <1>1, <1>2, <1>3, <1>4, <1>5, <1>6

LEMMA TypesStep == Types /\ [Next]_vars => Types'
<1> SUFFICES ASSUME Types, [Next]_vars PROVE Types'
  OBVIOUS
<1>1. CASE Client
  BY <1>1, CommandTypes, AnswerTypes, TransmitTypes DEF Client, ClientTypes, Types
<1>2. CASE ClientTrouble
  BY <1>2, AnswerTypes DEF ClientTrouble, ClientTypes, Types
<1>3. CASE Server
  <2>1. ServerTypes
    BY <1>3, HandlerSteps, ArgumentSteps, SendingSteps, ReceivingSteps
    DEF Server, S!Step, S!Regular, S!Stop, S!Sigpipe
  <2> QED
    BY <1>3, <2>1 DEF Server, ServerTypes, Types
<1>4. CASE ServerTrouble
  <2>1. ServerTypes
    BY <1>4, HandlerSteps, SendingSteps, ReceivingSteps DEF ServerTrouble, S!Trouble
  <2> QED
    BY <1>4, <2>1 DEF ServerTrouble, ServerTypes, Types
<1>5. CASE Shrink
  <2>1. ASSUME NEW g, g \in [File -> Nat], \A f \in File : g[f] <= Size[f], NEW f \in File,
               g[f] > 0
        PROVE  /\ [g EXCEPT ![f] = @ - 1] \in [File -> Nat]
               /\ \A e \in File : [g EXCEPT ![f] = @ - 1][e] <= Size[e]
    BY <2>1, SizeType
  <2>2. CASE (\E f \in File : S!Shrink(f)) /\ UNCHANGED <<cl, got, here>>
    <3>1. PICK f \in File : S!Shrink(f)
      BY <2>2
    <3>2. len' \in [File -> Nat] /\ \A e \in File : len'[e] <= Size[e]
      BY <2>1, <3>1 DEF S!Shrink, Types
    <3> QED
      BY <1>5, <2>2, <3>1, <3>2 DEF Shrink, S!Shrink, Types
  <2>3. CASE (\E f \in File : C!Shrink(f)) /\ UNCHANGED <<srv, len, stored>>
    <3>1. PICK f \in File : C!Shrink(f)
      BY <2>3
    <3>2. here' \in [File -> Nat] /\ \A e \in File : here'[e] <= Size[e]
      BY <2>1, <3>1 DEF C!Shrink, Types
    <3> QED
      BY <1>5, <2>3, <3>1, <3>2 DEF Shrink, C!Shrink, Types
  <2> QED
    BY <1>5, <2>2, <2>3 DEF Shrink
<1>6. CASE Ended \/ UNCHANGED vars
  BY <1>6 DEF Ended, vars, Types
<1> QED
  BY <1>1, <1>2, <1>3, <1>4, <1>5, <1>6 DEF Next

-----------------------------------------------------------------------------
(***************************************************************************)
(* A put: what the server has stored, what is in the stream and what the   *)
(* client will send next, as long as the server is not astray.             *)
(***************************************************************************)
Unmixed == \A f \in File : stored[f] = Blocks(f, Len(stored[f]))
Sending == cl.cmd = "put" /\ cl.pc \in {"reply", "send"}
Have == Len(stored[srv.file])

\* What the server takes next in recv_file continues the file it writes.
Expected(s, f, n, l) ==
    /\ s # <<>> /\ s[1] = DataHeader =>
          Len(s) > 1 /\ n < Size[f] /\ s[2] = Block(f, n + 1)
    /\ s # <<>> /\ s[1] = LastHeader => n \in Lengths(f, l)

\* The client has nothing but empty packets to send.
CutOff == cl.pc = "send" /\ here[cl.file] <= cl.pos /\ cl.pos < cl.size

Stream ==
    /\ Chained(up, here)
    /\ ~Closed(down)
    /\ cl.pc = "send" => /\ cl.cmd = "put"
                         /\ cl.size \in Lengths(cl.file, here) /\ cl.pos <= cl.size
    /\ cl.cmd = "put" => cl.pc \in {"reply", "send"}
    /\ cl.cmd = "put" /\ cl.pc = "reply" => cl.pos = 0
    /\ srv.pc = "argument" /\ srv.cmd = "STOR" => up # <<>> /\ IsName(up[1])
    /\ srv.pc = "block" => /\ up # <<>> /\ Have < Size[srv.file]
                           /\ up[1] = Block(srv.file, Have + 1)
    /\ srv.pc = "recv" => Expected(up, srv.file, Have, here)
    /\ Sending /\ up # <<>> => Placed(cl.file, cl.pos, up[Len(up)]) \/ CutOff
    /\ Sending /\ up = <<>> /\ srv.pc = "recv" =>
          (srv.file = cl.file /\ Have = cl.pos) \/ CutOff

PutInv == Types /\ (~srv.astray => Unmixed /\ (srv.pc # "exit" => Stream))

LEMMA PlacedOnce ==
    ASSUME NEW f \in File, NEW g \in File, NEW n \in Nat, NEW m \in Nat, NEW r,
           Placed(f, n, r), Placed(g, m, r)
    PROVE  f = g /\ n = m
<1>1. n = 0 <=> m = 0
  BY DEF Placed, Name, Block
<1>2. CASE n = 0
  BY <1>1, <1>2 DEF Placed, Name
<1>3. CASE n # 0
  BY <1>1, <1>3 DEF Placed, Block
<1> QED
  BY <1>2, <1>3

LEMMA LengthsType ==
    ASSUME Types, NEW f \in File, NEW z \in Lengths(f, here)
    PROVE  z \in Nat /\ z <= Size[f]
BY SizeType DEF Lengths, Types

LEMMA EmptyUnplaced == \A f, n : ~Placed(f, n, EmptyHeader)
BY DEF Placed, EmptyHeader, Name, Block

\* After part r of the stream, which leads to block n of f, comes block n + 1.
LEMMA Next1 ==
    ASSUME Types, NEW s \in Seq(Part), s # <<>>, Chained(s, here), NEW f \in File, NEW n \in Nat,
           Placed(f, n, s[1])
    PROVE  /\ Expected(Tail(s), f, n, here)
           /\ \A g \in File : \A m \in Nat :
                 Tail(s) = <<>> /\ Placed(g, m, s[Len(s)]) => g = f /\ m = n
<1> DEFINE t == Tail(s)
<1>1. /\ Len(t) = Len(s) - 1 /\ Len(s) \in Nat /\ Len(s) > 0 /\ t \in Seq(Part)
      /\ \A i \in 1..Len(s) - 1 : t[i] = s[i + 1]
      /\ t = <<>> <=> Len(s) = 1
  BY TailParts
<1> HIDE DEF t
<1>2. ASSUME t # <<>>, t[1] = DataHeader
      PROVE  Len(t) > 1 /\ n < Size[f] /\ t[2] = Block(f, n + 1)
  <2>1. 1 < Len(s) /\ s[2] = DataHeader
    BY <1>1, <1>2
  <2>2. 2 < Len(s) /\ IsBlock(s[3])
    BY <1>1, <2>1 DEF Chained
  <2>0. PICK g \in File : \E m \in 1..Size[g] : s[3] = Block(g, m)
    BY <2>2 DEF IsBlock
  <2>3. PICK m \in 1..Size[g] : s[3] = Block(g, m)
    BY <2>0
  <2>4. Placed(g, m - 1, s[1])
    BY <1>1, <2>1, <2>2, <2>3 DEF Chained
  <2>5. m - 1 \in Nat /\ m \in Nat
    BY <2>3, SizeType
  <2>6. g = f /\ m - 1 = n
    BY <2>4, <2>5, PlacedOnce
  <2>7. m = n + 1 /\ n < Size[f] /\ Len(t) > 1 /\ t[2] = s[3]
    BY <1>1, <2>2, <2>3, <2>5, <2>6, SizeType
  <2> QED
    BY <2>3, <2>6, <2>7
<1>3. ASSUME t # <<>>, t[1] = LastHeader PROVE n \in Lengths(f, here)
  <2>1. 1 < Len(s) /\ s[2] = LastHeader
    BY <1>1, <1>3
  <2>2. Whole(s[1], here)
    BY <1>1, <2>1 DEF Chained
  <2>5. PICK g \in File : \E z \in Lengths(g, here) : Placed(g, z, s[1])
    BY <2>2 DEF Whole
  <2>3. PICK z \in Lengths(g, here) : Placed(g, z, s[1])
    BY <2>5
  <2>4. z \in Nat
    BY <2>3, LengthsType
  <2> QED
    BY <2>3, <2>4, PlacedOnce
<1>4. ASSUME NEW g \in File, NEW m \in Nat, t = <<>>, Placed(g, m, s[Len(s)])
      PROVE  g = f /\ m = n
  BY <1>1, <1>4, PlacedOnce
<1> QED
  BY <1>2, <1>3, <1>4 DEF Expected, t

\* After an empty packet comes nothing that recv_file writes, and not the last packet.
LEMMA NextEmpty ==
    ASSUME NEW s \in Seq(Part), NEW l, s # <<>>, Chained(s, l), s[1] = EmptyHeader
    PROVE  /\ \A f, n : Expected(Tail(s), f, n, l)
           /\ Tail(s) = <<>> => s[Len(s)] = EmptyHeader
<1> DEFINE t == Tail(s)
<1>1. /\ Len(t) = Len(s) - 1 /\ Len(s) \in Nat /\ Len(s) > 0 /\ t \in Seq(Part)
      /\ \A i \in 1..Len(s) - 1 : t[i] = s[i + 1]
      /\ t = <<>> <=> Len(s) = 1
  BY TailParts
<1> HIDE DEF t
<1>2. ASSUME t # <<>>, t[1] = DataHeader PROVE FALSE
  <2>1. 1 < Len(s) /\ s[2] = DataHeader
    BY <1>1, <1>2
  <2>2. 2 < Len(s) /\ IsBlock(s[3])
    BY <1>1, <2>1 DEF Chained
  <2>3. PICK g \in File : \E m \in 1..Size[g] : s[3] = Block(g, m)
    BY <2>2 DEF IsBlock
  <2>4. PICK m \in 1..Size[g] : s[3] = Block(g, m)
    BY <2>3
  <2>5. Placed(g, m - 1, s[1])
    BY <1>1, <2>1, <2>2, <2>4 DEF Chained
  <2> QED
    BY <2>5, EmptyUnplaced
<1>3. ASSUME t # <<>>, t[1] = LastHeader PROVE FALSE
  <2>1. 1 < Len(s) /\ s[2] = LastHeader
    BY <1>1, <1>3
  <2>2. Whole(s[1], l)
    BY <1>1, <2>1 DEF Chained
  <2> QED
    BY <2>2, EmptyUnplaced DEF Whole
<1>4. t = <<>> => s[Len(s)] = EmptyHeader
  BY <1>1
<1> QED
  BY <1>2, <1>3, <1>4 DEF Expected, t

\* What was put comes in the order of the file.
LEMMA BlocksLen == ASSUME NEW f, NEW n \in Nat PROVE Len(Blocks(f, n)) = n
BY DEF Blocks

LEMMA PutNext ==
    ASSUME Types, Unmixed, NEW f \in File,
           stored' = [stored EXCEPT ![f] = Append(stored[f], Block(f, Len(stored[f]) + 1))]
    PROVE  Unmixed' /\ Len(stored'[f]) = Len(stored[f]) + 1
<1> DEFINE n == Len(stored[f])
<1>1. n \in Nat /\ stored[f] \in Seq(Part) /\ stored[f] = Blocks(f, n)
  BY DEF Types, Unmixed
<1>2. /\ stored'[f] = Append(stored[f], Block(f, n + 1))
      /\ \A g \in File : g # f => stored'[g] = stored[g]
  BY DEF Types
<1> HIDE DEF n
<1>3. Append(Blocks(f, n), Block(f, n + 1)) = Blocks(f, n + 1)
  BY <1>1 DEF Blocks
<1>4. stored'[f] = Blocks(f, n + 1)
  BY <1>1, <1>2, <1>3
<1>5. Len(stored'[f]) = n + 1
  BY <1>1, <1>4, BlocksLen
<1>6. \A g \in File : stored'[g] = Blocks(g, Len(stored'[g]))
  BY <1>2, <1>4, <1>5 DEF Unmixed
<1> QED
  BY <1>5, <1>6 DEF Unmixed, n

\* Steps of the client that send nothing.
LEMMA ClientTakes ==
    ASSUME Types, Stream, UNCHANGED <<srv, stored, here, up>>, ~Closed(down'),
           cl'.pc = "send" => /\ cl'.cmd = "put"
                              /\ cl'.size \in Lengths(cl'.file, here) /\ cl'.pos <= cl'.size,
           cl'.cmd = "put" => /\ cl.cmd = "put" /\ cl'.pc \in {"reply", "send"}
                              /\ cl'.file = cl.file /\ cl'.pos = cl.pos
                              /\ (cl' = cl \/ cl.pc = "reply")
    PROVE  Stream'
<1>1. Sending' => /\ Sending /\ cl'.file = cl.file /\ cl'.pos = cl.pos
                  /\ (cl' = cl \/ cl.pc = "reply")
  BY DEF Sending, Stream
<1>2. Sending' => (CutOff => CutOff')
  BY <1>1 DEF CutOff
<1>3. Have' = Have
  BY DEF Have
<1>4. Sending' /\ up # <<>> => Placed(cl'.file, cl'.pos, up[Len(up)]) \/ CutOff'
  BY <1>1, <1>2 DEF Stream
<1>5. Sending' /\ up = <<>> /\ srv.pc = "recv" =>
         (srv.file = cl'.file /\ Have = cl'.pos) \/ CutOff'
  BY <1>1, <1>2 DEF Stream
<1>6. cl'.cmd = "put" /\ cl'.pc = "reply" => cl'.pos = 0
  BY DEF Stream
<1> QED
  BY <1>3, <1>4, <1>5, <1>6 DEF Stream

\* Steps of the client that send a message.
LEMMA ClientSends ==
    ASSUME Types, Stream, UNCHANGED <<srv, stored, here, down>>,
           NEW msg \in Seq(Part), msg # <<>>, up' = up \o msg, Chained(up \o msg, here),
           up = <<>> /\ srv.pc = "recv" => Expected(msg, srv.file, Have, here),
           cl'.pc = "send" => /\ cl'.cmd = "put"
                              /\ cl'.size \in Lengths(cl'.file, here) /\ cl'.pos <= cl'.size,
           cl'.cmd = "put" => /\ cl'.pc \in {"reply", "send"}
                              /\ (cl'.pc = "reply" => cl'.pos = 0),
           Sending' => Placed(cl'.file, cl'.pos, msg[Len(msg)]) \/ CutOff'
    PROVE  Stream'
<1>1. /\ up' # <<>> /\ up'[Len(up')] = msg[Len(msg)] /\ up' \in Seq(Part)
      /\ up = <<>> => up' = msg
      /\ Len(up) \in Nat /\ Len(up') = Len(up) + Len(msg) /\ Len(msg) > 0 /\ Len(msg) \in Nat
      /\ \A i \in 1..Len(up) : up'[i] = up[i]
  <2>1. up \in Seq(Part) /\ Len(up) \in Nat /\ Len(msg) \in Nat /\ Len(msg) > 0
    BY EmptySeq DEF Types
  <2>2. up' \in Seq(Part) /\ Len(up') = Len(up) + Len(msg)
    BY <2>1
  <2>3. up' # <<>>
    BY <2>1, <2>2, EmptySeq
  <2>4. up'[Len(up')] = msg[Len(msg)]
    BY <2>1, <2>2
  <2>5. up = <<>> => up' = msg
    BY ConcatEmptySeq
  <2> QED
    BY <2>1, <2>2, <2>3, <2>4, <2>5
<1>2. up # <<>> => up'[1] = up[1] /\ (Len(up) > 1 => up'[2] = up[2] /\ Len(up') > 1)
  BY <1>1, EmptySeq DEF Types
<1>3. Have' = Have
  BY DEF Have
<1>4. srv.pc = "recv" => Expected(up', srv.file, Have, here)
  <2>1. CASE up = <<>>
    BY <1>1, <2>1
  <2>2. CASE up # <<>>
    BY <1>2, <2>2 DEF Expected, Stream
  <2> QED
    BY <2>1, <2>2
<1>5. srv.pc = "argument" /\ srv.cmd = "STOR" => IsName(up'[1])
  BY <1>2 DEF Stream
<1>6. srv.pc = "block" => up'[1] = Block(srv.file, Have + 1) /\ Have < Size[srv.file]
  BY <1>2 DEF Stream
<1>7. ~Closed(down')
  BY DEF Stream
<1>8. Chained(up', here)
  OBVIOUS
<1>9. Sending' => Placed(cl'.file, cl'.pos, up'[Len(up')]) \/ CutOff'
  BY <1>1
<1> QED
  BY <1>1, <1>3, <1>4, <1>5, <1>6, <1>7, <1>8, <1>9 DEF Stream

\* The messages of the client: a header, or a header and a body.
LEMMA Messages ==
    ASSUME NEW t \in {"QUIT", "PWD", "CWD", "LIST", "RETR", "STOR", "OK", "ERR", "DATA"},
           NEW c \in {"OK", "OK_RETR", "OK_STOR", "LAST", "DATA"}, NEW b \in Part
    PROVE  /\ \E h \in Header : /\ h.type = t /\ h.code = c /\ h.length = 0
                                /\ Bare(t, c) = <<h>>
           /\ \E h \in Header : /\ h.type = t /\ h.code = c /\ h.length = 1
                                /\ With(t, c, b) = <<h, b>>
<1>1. [type |-> t, code |-> c, length |-> 0] \in Header
  BY DEF Header
<1>2. [type |-> t, code |-> c, length |-> 1] \in Header
  BY DEF Header
<1> QED
  BY <1>1, <1>2 DEF Bare, With

\* A message that is not of a put.
LEMMA PlainCommand ==
    ASSUME Types, Stream, UNCHANGED <<srv, stored, here, down>>,
           NEW h \in Header, h.type # "DATA", h.type = "STOR" => h = StorHeader,
           NEW msg, \/ msg = <<h>> /\ h # StorHeader
                    \/ \E b \in Part : /\ msg = <<h, b>> /\ b \notin Header /\ ~IsBlock(b)
                                       /\ h = StorHeader => IsName(b)
                    \/ msg = <<h, FIN>> /\ h # StorHeader,
           up' = up \o msg,
           cl'.pc # "send",
           cl'.cmd = "put" => /\ cl'.pc = "reply" /\ cl'.pos = 0 /\ cl'.file \in File
                              /\ msg = <<h, Name(cl'.file)>>
    PROVE  Stream'
<1>1. h \in Part /\ up \in Seq(Part) /\ h # DataHeader /\ h # LastHeader /\ ~IsBlock(h)
      /\ Regular(h)
  BY BodyTypes DEF Types, DataHeader, LastHeader, Regular
<1>2. Chained(up, here) /\ ~IsBlock(FIN) /\ FIN \in Part /\ FIN \notin Header
  BY BodyTypes DEF Stream
<1>3. msg \in Seq(Part) /\ msg # <<>> /\ msg[1] = h /\ Chained(up \o msg, here)
  <2>1. CASE msg = <<h>> /\ h # StorHeader
    BY <1>1, <1>2, <2>1, OneChained
  <2>2. CASE \E b \in Part : /\ msg = <<h, b>> /\ b \notin Header /\ ~IsBlock(b)
                             /\ h = StorHeader => IsName(b)
    <3>1. PICK b \in Part : /\ msg = <<h, b>> /\ b \notin Header /\ ~IsBlock(b)
                            /\ h = StorHeader => IsName(b)
      BY <2>2
    <3>2. \A f \in File : \A n \in 1..Size[f] : b # Block(f, n)
      BY <3>1 DEF IsBlock
    <3>3. Chained(up \o <<h, b>>, here)
      BY <1>1, <1>2, <3>1, <3>2, TwoChained
    <3> QED
      BY <1>1, <3>1, <3>3
  <2>3. CASE msg = <<h, FIN>> /\ h # StorHeader
    <3>1. \A f \in File : \A n \in 1..Size[f] : FIN # Block(f, n)
      BY <1>2 DEF IsBlock
    <3>2. Chained(up \o <<h, FIN>>, here)
      BY <1>1, <1>2, <2>3, <3>1, TwoChained
    <3> QED
      BY <1>1, <1>2, <2>3, <3>2
  <2> QED
    BY <2>1, <2>2, <2>3
<1>4. Expected(msg, srv.file, Have, here)
  BY <1>1, <1>3 DEF Expected
<1>6. Sending' => Placed(cl'.file, cl'.pos, msg[Len(msg)])
  <2> SUFFICES ASSUME Sending' PROVE Placed(cl'.file, cl'.pos, msg[Len(msg)])
    OBVIOUS
  <2>1. msg = <<h, Name(cl'.file)>> /\ cl'.pos = 0
    BY DEF Sending
  <2>2. msg[Len(msg)] = Name(cl'.file)
    BY <2>1
  <2> QED
    BY <2>1, <2>2 DEF Placed
<1> QED
  BY <1>3, <1>4, <1>6, ClientSends

LEMMA CommandStream ==
    ASSUME Types, Stream, UNCHANGED <<srv, stored>>, C!Command \/ C!quit
    PROVE  Stream'
<1>0. ~C!Gone /\ \A msg : Sent(up, msg, C!Gone) = up \o msg
  BY ClientParts DEF Stream, C!Gone, Sent
<1>1. CASE C!quit
  <2>1. PICK h \in Header : h.type = "QUIT" /\ Bare("QUIT", "OK") = <<h>>
    BY Messages, BodyTypes
  <2>2. up' = up \o <<h, FIN>>
    <3>1. up' = Append(up \o <<h>>, FIN)
      BY <1>0, <1>1, <2>1, ClientParts DEF C!quit
    <3>2. h \in Part /\ FIN \in Part /\ up \in Seq(Part)
      BY BodyTypes DEF Types
    <3> QED
      BY <3>1, <3>2
  <2>3. C!At("exit") /\ cl.pc = "prompt" /\ cl \in C!Client
    BY <1>1 DEF C!quit, Types
  <2>4. cl'.pc = "exit" /\ cl'.cmd = cl.cmd
    BY <2>3, ClientAt DEF C!CPlace
  <2>5. cl'.cmd # "put"
    BY <2>3, <2>4 DEF Stream
  <2>6. h # StorHeader /\ h.type \notin {"DATA", "STOR"}
    BY <2>1 DEF StorHeader
  <2>7. down' = down /\ here' = here
    BY <1>1 DEF C!quit
  <2> QED
    BY <2>2, <2>4, <2>5, <2>6, <2>7, PlainCommand
<1>2. CASE C!Command
  <2>10. PICK cmd \in C!CCmd, f \in File : \E msg :
          /\ C!exec_command(cmd, f, msg)
          /\ \/ cmd = "pwd" /\ msg = Bare("PWD", "OK")
             \/ cmd = "cd" /\ msg = With("CWD", "OK", Text)
             \/ cmd = "dir" /\ msg = With("LIST", "OK", Text)
             \/ cmd = "get" /\ msg = With("RETR", "OK", Name(f))
             \/ cmd = "put" /\ msg = With("STOR", "OK", Name(f))
    <3>2. CASE C!pwd
      BY <3>2, AnyFileIs, ClientParts DEF C!pwd, C!CCmd
    <3>3. CASE C!cd
      BY <3>3, AnyFileIs, ClientParts DEF C!cd, C!CCmd
    <3>4. CASE C!dir
      BY <3>4, AnyFileIs, ClientParts DEF C!dir, C!CCmd
    <3>5. CASE \E f \in File : C!ftpget(f)
      BY <3>5, ClientParts DEF C!ftpget, C!CCmd
    <3>6. CASE \E f \in File : C!ftpput(f)
      BY <3>6, ClientParts DEF C!ftpput, C!CCmd
    <3> QED
      BY <1>2, <3>2, <3>3, <3>4, <3>5, <3>6 DEF C!Command
  <2>1. PICK msg :
          /\ C!exec_command(cmd, f, msg)
          /\ \/ cmd = "pwd" /\ msg = Bare("PWD", "OK")
             \/ cmd = "cd" /\ msg = With("CWD", "OK", Text)
             \/ cmd = "dir" /\ msg = With("LIST", "OK", Text)
             \/ cmd = "get" /\ msg = With("RETR", "OK", Name(f))
             \/ cmd = "put" /\ msg = With("STOR", "OK", Name(f))
    BY <2>10
  <2>2. up' = up \o msg /\ down' = down /\ here' = here
    BY <1>0, <2>1, ClientParts DEF C!exec_command
  <2>3. cl'.pc = "reply" /\ cl'.cmd = cmd /\ cl'.file = f /\ cl'.pos = 0
    BY <2>1 DEF C!exec_command, Types, C!Client
  <2>4. /\ Text \in Part /\ Text \notin Header /\ ~IsBlock(Text)
        /\ Name(f) \in Part /\ Name(f) \notin Header /\ ~IsBlock(Name(f)) /\ IsName(Name(f))
    BY BodyTypes
  <2>5. CASE cmd = "pwd" /\ msg = Bare("PWD", "OK")
    <3>1. PICK h \in Header : h.type = "PWD" /\ msg = <<h>>
      BY <2>5, <2>4, Messages
    <3>2. h # StorHeader /\ h.type \notin {"DATA", "STOR"}
      BY <3>1 DEF StorHeader
    <3> QED
      BY <2>2, <2>3, <2>5, <3>1, <3>2, PlainCommand
  <2>6. CASE cmd = "put" /\ msg = With("STOR", "OK", Name(f))
    <3>1. msg = <<StorHeader, Name(f)>>
      BY <2>6 DEF With, StorHeader
    <3>2. StorHeader \in Header /\ StorHeader.type # "DATA"
      BY HeaderParts DEF StorHeader
    <3> QED
      BY <2>2, <2>3, <2>4, <2>6, <3>1, <3>2, PlainCommand
  <2>7. CASE cmd \notin {"pwd", "put"}
    <3>1. PICK t \in {"CWD", "LIST", "RETR"}, b \in {Text, Name(f)} : msg = With(t, "OK", b)
      BY <2>1, <2>7
    <3>2. PICK h \in Header : h.type = t /\ msg = <<h, b>>
      BY <2>4, <3>1, Messages
    <3>3. h # StorHeader /\ h.type \notin {"DATA", "STOR"}
      BY <3>1, <3>2 DEF StorHeader
    <3>4. b \in Part /\ b \notin Header /\ ~IsBlock(b)
      BY <2>4
    <3> QED
      BY <2>2, <2>3, <2>7, <3>2, <3>3, <3>4, PlainCommand
  <2> QED
    BY <2>1, <2>5, <2>6, <2>7
<1> QED
  BY <1>1, <1>2

LEMMA TransmitStream ==
    ASSUME Types, Stream, UNCHANGED <<srv, stored>>, C!Transmit
    PROVE  Stream'
<1>0. /\ ~C!Gone /\ \A msg : Sent(up, msg, C!Gone) = up \o msg
      /\ cl \in C!Client /\ cl.file \in File /\ cl.pos \in Nat /\ cl.size \in Nat
      /\ Size[cl.file] \in Nat /\ here[cl.file] \in Nat /\ here[cl.file] <= Size[cl.file]
      /\ up \in Seq(Part) /\ Chained(up, here)
  BY ClientParts, SizeType DEF Stream, C!Gone, Sent, Types, C!Client
<1>n. cl.pos \in Nat /\ cl.size \in Nat /\ here[cl.file] \in Nat
  BY <1>0
<1>1. CASE C!send_file /\ cl.pos < here[cl.file]
  <2> DEFINE f == cl.file
             n == cl.pos + 1
             b == Block(f, n)
             msg == <<DataHeader, b>>
  <2>1. /\ cl.pc = "send" /\ cl.pos < cl.size /\ down' = down /\ cl' = [cl EXCEPT !.pos = n]
        /\ here' = here /\ cl.pos < here[f] /\ ~CutOff
    <3>1. ~CutOff
      BY <1>n, <1>1 DEF CutOff
    <3>2. cl' = [cl EXCEPT !.pos = n]
      BY <1>1 DEF C!send_file
    <3> QED
      BY <1>1, <3>1, <3>2 DEF C!send_file
  <2>2. With("DATA", "DATA", b) = msg
    BY DEF With, DataHeader
  <2>3. up' = up \o msg
    <3>1. C!packet = msg
      BY <1>1, <2>2, ClientParts DEF C!packet
    <3> QED
      BY <1>0, <1>1, <3>1, ClientParts DEF C!send_file
  <2>4. n \in 1..Size[f] /\ b \in Part /\ IsBlock(b) /\ b \notin Header /\ n <= cl.size
    <3>0. /\ cl.pos \in Nat /\ Size[f] \in Nat /\ here[f] \in Nat /\ here[f] <= Size[f]
          /\ cl.pos < here[f] /\ f \in File /\ cl.pos < cl.size /\ cl.size \in Nat
      BY <1>0, <2>1
    <3>1. n \in 1..Size[f] /\ f \in File /\ n <= cl.size
      BY <3>0
    <3> HIDE DEF n, f
    <3> QED
      BY <3>1, BodyTypes
  <2>5. Sending
    BY <2>1 DEF Sending, Stream
  <2>6. Chained(up \o msg, here)
    <3>1. \A g \in File : \A m \in 1..Size[g] :
             b = Block(g, m) /\ up # <<>> => Placed(g, m - 1, up[Len(up)])
      <4>1. up # <<>> => Placed(f, cl.pos, up[Len(up)])
        BY <2>1, <2>5 DEF Stream
      <4>2. \A g, m : b = Block(g, m) => g = f /\ m = n
        BY DEF Block
      <4>3. n - 1 = cl.pos
        BY <1>n
      <4> QED
        BY <4>1, <4>2, <4>3
    <3>2. /\ DataHeader \in Header /\ DataHeader # LastHeader /\ DataHeader # StorHeader
          /\ Regular(DataHeader)
      BY HeaderParts DEF Regular, DataHeader
    <3> HIDE DEF b
    <3> QED
      BY <1>0, <2>4, <3>1, <3>2, TwoChained
  <2>7. up = <<>> /\ srv.pc = "recv" => Expected(msg, srv.file, Have, here)
    <3>1. up = <<>> /\ srv.pc = "recv" => srv.file = f /\ Have = cl.pos
      BY <2>1, <2>5 DEF Stream
    <3>2. DataHeader # LastHeader
      BY HeaderParts
    <3>3. cl.pos < Size[f]
      <4>1. /\ cl.pos \in Nat /\ Size[f] \in Nat /\ here[f] \in Nat /\ here[f] <= Size[f]
            /\ cl.pos < here[f]
        BY <1>0, <2>1
      <4> HIDE DEF f
      <4> QED
        BY <4>1
    <3> HIDE DEF f, b
    <3>4. msg[1] = DataHeader /\ Len(msg) = 2 /\ msg[2] = b
      OBVIOUS
    <3>5. srv.file = f /\ Have = cl.pos => b = Block(srv.file, Have + 1)
      BY DEF b
    <3> QED
      BY <3>1, <3>2, <3>3, <3>4, <3>5 DEF Expected
  <2>8. /\ cl'.pc = "send" /\ cl'.cmd = "put" /\ cl'.file = f /\ cl'.pos = n
        /\ cl'.size = cl.size
    BY <1>0, <2>1, <2>5 DEF C!Client, Sending
  <2>9. Placed(f, n, msg[Len(msg)])
    <3>1. n # 0
      BY <1>n
    <3>2. msg[Len(msg)] = b
      <4> HIDE DEF b
      <4> QED
        OBVIOUS
    <3> QED
      BY <3>1, <3>2 DEF Placed
  <2>10. msg \in Seq(Part) /\ msg # <<>>
    BY <2>4, HeaderParts, BodyTypes
  <2>11. cl.size \in Lengths(f, here)
    BY <2>1 DEF Stream
  <2> HIDE DEF msg, n, f
  <2> QED
    BY <2>1, <2>3, <2>4, <2>6, <2>7, <2>8, <2>9, <2>10, <2>11, ClientSends
<1>2. CASE C!send_file /\ ~(cl.pos < here[cl.file])
  <2> DEFINE msg == <<EmptyHeader>>
  <2>1. /\ cl.pc = "send" /\ cl.pos < cl.size /\ down' = down /\ cl' = cl /\ here' = here
        /\ CutOff
    <3>1. /\ cl.pc = "send" /\ cl.pos < cl.size /\ down' = down /\ cl' = cl /\ here' = here
      BY <1>2 DEF C!send_file
    <3>2. here[cl.file] <= cl.pos
      BY <1>n, <1>2
    <3> QED
      BY <3>1, <3>2 DEF CutOff
  <2>2. C!packet = msg
    BY <1>2, ClientParts DEF C!packet, Bare, EmptyHeader
  <2>3. up' = up \o msg
    BY <1>0, <1>2, <2>2, ClientParts DEF C!send_file
  <2>4. Chained(up \o msg, here)
    <3>1. /\ EmptyHeader \in Part /\ EmptyHeader \notin {DataHeader, StorHeader, LastHeader}
          /\ ~IsBlock(EmptyHeader) /\ Regular(EmptyHeader)
      BY HeaderParts, BodyTypes DEF Regular, EmptyHeader
    <3> QED
      BY <1>0, <3>1, OneChained
  <2>5. Expected(msg, srv.file, Have, here)
    BY HeaderParts DEF Expected
  <2>6. CutOff'
    BY <2>1 DEF CutOff
  <2>7. msg \in Seq(Part) /\ msg # <<>>
    BY HeaderParts, BodyTypes
  <2>8. /\ cl'.pc = "send" /\ cl'.cmd = "put"
        /\ cl'.size \in Lengths(cl'.file, here) /\ cl'.pos <= cl'.size
    BY <2>1 DEF Stream
  <2> HIDE DEF msg
  <2> QED
    BY <2>1, <2>3, <2>4, <2>5, <2>6, <2>7, <2>8, ClientSends
<1>3. CASE C!SendLast
  <2> DEFINE msg == <<LastHeader>>
  <2>1. cl.pc = "send" /\ cl.pos = cl.size /\ down' = down /\ here' = here /\ ~CutOff
    BY <1>0, <1>3 DEF C!SendLast, CutOff
  <2>2. Bare("DATA", "LAST") = msg
    BY DEF Bare, LastHeader
  <2>3. up' = up \o msg
    BY <1>0, <1>3, <2>2, ClientParts DEF C!SendLast
  <2>4. Sending /\ cl.pos \in Lengths(cl.file, here)
    BY <2>1 DEF Sending, Stream
  <2>5. Chained(up \o msg, here)
    <3>1. up # <<>> => Whole(up[Len(up)], here)
      BY <1>0, <2>1, <2>4 DEF Stream, Whole
    <3>2. LastHeader \in Part /\ LastHeader \notin {DataHeader, StorHeader} /\ ~IsBlock(LastHeader)
          /\ Regular(LastHeader)
      BY HeaderParts, BodyTypes DEF Regular, LastHeader
    <3> QED
      BY <1>0, <3>1, <3>2, OneChained
  <2>6. up = <<>> /\ srv.pc = "recv" => Expected(msg, srv.file, Have, here)
    <3>1. up = <<>> /\ srv.pc = "recv" => srv.file = cl.file /\ Have = cl.pos
      BY <2>1, <2>4 DEF Stream
    <3>2. DataHeader # LastHeader
      BY HeaderParts
    <3> QED
      BY <2>4, <3>1, <3>2 DEF Expected
  <2>7. cl'.pc = "prompt" /\ cl'.cmd = "none"
    BY <1>0, <1>3, ClientAt DEF C!SendLast, C!Return, C!CPlace
  <2>8. msg \in Seq(Part) /\ msg # <<>>
    BY HeaderParts, BodyTypes
  <2>9. ~Sending'
    BY <2>7 DEF Sending
  <2> HIDE DEF msg
  <2> QED
    BY <2>1, <2>3, <2>5, <2>6, <2>7, <2>8, <2>9, ClientSends
<1> QED
  BY <1>1, <1>2, <1>3 DEF C!Transmit

\* The client takes a part, or gives up.
LEMMA AnswerStream ==
    ASSUME Types, Stream, UNCHANGED <<srv, stored>>,
           C!Receive \/ C!Trouble \/ C!Hangup \/ C!Sigpipe
    PROVE  Stream'
<1>0. cl \in C!Client /\ ~C!Gone /\ ~Closed(down)
  BY ClientParts DEF Types, Stream, C!Gone
<1>1. CASE C!Hangup \/ C!Sigpipe
  BY <1>0, <1>1 DEF C!Hangup, C!Sigpipe
<1>2. CASE C!Receive \/ C!Trouble
  <2>1. UNCHANGED <<up, here>> /\ ~Closed(down')
    <3>1. CASE UNCHANGED <<here, up, down>>
      BY <1>0, <3>1
    <3>2. CASE \E place : C!TakesHeader(place) \/ C!TakesBody(place)
      BY <1>0, <3>2, ClientReads
    <3> QED
      BY <1>2, <3>1, <3>2 DEF C!Receive, C!Trouble, C!Reply, C!RecvText, C!RecvData,
         C!RecvBlock, C!More, C!RecvEnd, C!Timeout, C!ReadFails, C!WriteFails, C!Failed
  <2>2. \/ cl'.cmd # "put" /\ cl'.pc # "send"
        \/ /\ cl'.pc \in {"reply", "send"} /\ cl'.cmd = "put" /\ cl.cmd = "put" /\ cl.pc = "reply"
           /\ cl'.file = cl.file /\ cl'.pos = cl.pos
           /\ cl'.pc = "send" => cl'.size = here[cl.file]
    <3>1. CASE C!Reply
      <4> DEFINE c(place) == [cl EXCEPT !.astray = C!Astray,
                                        !.size = IF place = "send" THEN here[cl.file] ELSE 0]
      <4>1. PICK place \in C!CPlace :
               /\ C!Becomes(c(place), place)
               /\ place = "send" => cl.cmd = "put"
               /\ place \notin {"prompt", "send"} => cl.cmd # "put"
        <5>1. /\ C!AfterReply(down[1]) \in C!CPlace
              /\ C!AfterReply(down[1]) = "send" => cl.cmd = "put"
              /\ C!AfterReply(down[1]) \notin {"prompt", "send"} => cl.cmd # "put"
          BY DEF C!AfterReply, C!CPlace
        <5>2. /\ C!Replies \subseteq C!CPlace
              /\ "send" \in C!Replies => cl.cmd = "put"
              /\ \A place \in C!Replies : place \notin {"prompt", "send"} => cl.cmd # "put"
          BY DEF C!Replies, C!CPlace
        <5>3. PICK place \in IF C!Astray THEN C!Replies ELSE {C!AfterReply(down[1])} :
                 C!Becomes(c(place), place)
          BY <3>1 DEF C!Reply
        <5> QED
          BY <5>1, <5>2, <5>3
      <4>2. cl.pc = "reply" /\ here[cl.file] \in Nat /\ 0 \in Nat
        BY <1>0, <3>1 DEF C!Reply, C!TakesHeader, Types, C!Client
      <4>3. /\ c(place) \in C!Client /\ c(place).cmd = cl.cmd /\ c(place).file = cl.file
            /\ c(place).pos = cl.pos
            /\ place = "send" => c(place).size = here[cl.file]
        <5>1. C!Astray \in BOOLEAN
          BY <1>0 DEF C!Astray, C!Client
        <5> QED
          BY <1>0, <4>2, <5>1 DEF C!Client
      <4> HIDE DEF c
      <4> QED
        BY <4>1, <4>2, <4>3, ClientBecomes
    <3>2. CASE C!RecvData
      <4>1. PICK place \in {"block", "data", "prompt"} :
               C!Becomes([cl EXCEPT !.astray = C!Astray], place)
        BY <3>2 DEF C!RecvData, C!Reads, C!AfterData
      <4>2. cl.pc = "data" /\ cl.cmd # "put" /\ place \in C!CPlace
        BY <3>2 DEF C!RecvData, C!TakesHeader, C!CPlace, Stream
      <4>3. [cl EXCEPT !.astray = C!Astray] \in C!Client /\ [cl EXCEPT !.astray = C!Astray].cmd = cl.cmd
        BY <1>0, ClientReaders DEF C!Client
      <4> QED
        BY <4>1, <4>2, <4>3, ClientBecomes
    <3>3. CASE C!RecvText \/ C!ReadFails \/ C!WriteFails
      BY <1>0, <3>3, ClientAt DEF C!RecvText, C!ReadFails, C!WriteFails, C!Return, C!CPlace
    <3>4. CASE C!RecvBlock
      <4>1. PICK place \in {"data", "prompt"} : C!At(place)
        BY <3>4 DEF C!RecvBlock, C!AfterBlock
      <4>2. cl.cmd # "put" /\ place \in C!CPlace
        BY <3>4 DEF C!RecvBlock, C!TakesBody, C!CPlace, Stream
      <4> QED
        BY <1>0, <4>1, <4>2, ClientAt
    <3>5. CASE C!More
      <4>1. /\ cl'.pc = cl.pc /\ cl'.cmd = cl.cmd /\ cl'.file = cl.file /\ cl'.pos = cl.pos
            /\ cl.pc \in {"reply", "data", "text", "block"}
        BY <1>0, <3>5 DEF C!More, C!TakesHeader, C!TakesBody, C!Client
      <4> QED
        BY <4>1 DEF Stream
    <3>6. ASSUME NEW a \in BOOLEAN, C!Failed(a) PROVE cl'.cmd # "put" /\ cl'.pc # "send"
      <4>1. PICK place \in {"data", "prompt"} : /\ C!Becomes([cl EXCEPT !.astray = a], place)
                                                /\ place = "prompt" \/ cl.cmd = "dir"
        BY <3>6 DEF C!Failed, C!AfterBlock
      <4>2. /\ [cl EXCEPT !.astray = a] \in C!Client /\ [cl EXCEPT !.astray = a].cmd = cl.cmd
            /\ place \in C!CPlace
        BY <1>0 DEF C!Client, C!CPlace
      <4> QED
        BY <4>1, <4>2, ClientBecomes
    <3>7. cl.astray \in BOOLEAN /\ (cl.astray \/ down # <<>>) \in BOOLEAN
      BY <1>0 DEF C!Client
    <3>8. CASE C!Timeout \/ C!RecvEnd
      BY <3>6, <3>7, <3>8 DEF C!Timeout, C!RecvEnd
    <3> QED
      BY <1>2, <3>1, <3>2, <3>3, <3>4, <3>5, <3>8 DEF C!Receive, C!Trouble
  <2>3. CASE cl'.cmd # "put" /\ cl'.pc # "send"
    BY <2>1, <2>3, ClientTakes
  <2>4. CASE /\ cl'.pc \in {"reply", "send"} /\ cl'.cmd = "put" /\ cl.cmd = "put" /\ cl.pc = "reply"
             /\ cl'.file = cl.file /\ cl'.pos = cl.pos
             /\ cl'.pc = "send" => cl'.size = here[cl.file]
    <3>1. cl.pos = 0 /\ here[cl.file] \in Nat /\ 0 <= here[cl.file]
      BY <1>0, <2>4 DEF Stream, Types, C!Client
    <3>2. cl'.pc = "send" => cl'.size \in Lengths(cl'.file, here) /\ cl'.pos <= cl'.size
      BY <2>4, <3>1 DEF Lengths
    <3> QED
      BY <2>1, <2>4, <3>2, ClientTakes
  <2> QED
    BY SMTT(20), <2>2, <2>3, <2>4
<1> QED
  BY <1>1, <1>2

-----------------------------------------------------------------------------
(***************************************************************************)
(* What a server that is not astray after a step has read: a header where  *)
(* it takes a header.                                                      *)
(***************************************************************************)
HeaderStep == \/ S!quit \/ S!pwd \/ S!PwdFails \/ S!HasArgument \/ S!HasNoArgument
              \/ S!Undefined \/ S!recv_file \/ (S!DirFails /\ srv.pc = "handler")
LastKept(s, t) == t = s \/ (s # <<>> /\ t = Tail(s))

LEMMA SendAstray == ASSUME NEW msg, NEW s, S!Send(msg, s) PROVE srv' = s
BY DEF S!Send, S!Becomes

LEMMA HeaderSteps ==
    ASSUME Types, HeaderStep
    PROVE  /\ srv'.astray = S!Astray
           /\ \E place \in {"handler", "recv"} : S!TakesHeader(place)
           /\ srv.pc \in {"handler", "recv"}
<1>1. CASE S!quit
  <2>1. S!TakesHeader("handler") /\ srv' = [S!Reader EXCEPT !.pc = "exit"]
    BY <1>1 DEF S!quit, S!Handle, S!Becomes
  <2>2. "exit" \in S!SPlace
    BY DEF S!SPlace
  <2> QED
    BY <2>1, <2>2, ServerReads, SessionTypes
<1>2. CASE S!pwd
  <2>1. S!TakesHeader("handler") /\ srv' = S!Reset(S!Reader)
    BY <1>2, SendAstray DEF S!pwd, S!Handle
  <2> QED
    BY <2>1, ServerReads, SessionTypes
<1>3. CASE S!PwdFails \/ S!Undefined
  <2>1. S!TakesHeader("handler") /\ srv' = S!Reader
    BY <1>3 DEF S!PwdFails, S!Undefined, S!Handle, S!Becomes
  <2> QED
    BY <2>1, ServerReads
<1>4. CASE S!HasArgument
  <2>1. PICK type : /\ S!TakesHeader("handler")
                    /\ srv' = [S!Reader EXCEPT !.pc = "argument", !.cmd = type]
    BY <1>4 DEF S!HasArgument, S!Handle, S!Becomes
  <2>2. S!Reader \in S!Session /\ S!Reader.astray = S!Astray /\ srv.pc = "handler"
    BY <2>1, ServerReads
  <2> QED
    BY <2>1, <2>2 DEF S!Session
<1>5. CASE S!HasNoArgument
  <2>1. S!TakesHeader("handler")
    BY <1>5 DEF S!HasNoArgument, S!Handle
  <2>2. S!Reader \in S!Session /\ S!Reader.astray = S!Astray /\ srv.pc = "handler"
    BY <2>1, ServerReads
  <2>3. CASE S!Send(S!file_err, S!Reset(S!Reader))
    BY <2>1, <2>2, <2>3, SendAstray, SessionTypes
  <2>4. CASE \E n : S!Becomes([S!Reader EXCEPT !.pc = "list", !.pos = 0, !.size = n])
    BY <2>1, <2>2, <2>4 DEF S!Becomes, S!Session
  <2> QED
    BY <1>5, <2>3, <2>4 DEF S!HasNoArgument
<1>6. CASE S!recv_file
  <2>1. PICK place \in S!SPlace : S!Goes(S!Reader, place)
    BY <1>6 DEF S!recv_file, S!AfterHeader, S!Places, S!SPlace
  <2>2. S!TakesHeader("recv")
    BY <1>6 DEF S!recv_file
  <2> QED
    BY <2>1, <2>2, ServerReads, GoesTypes
<1>7. CASE S!DirFails /\ srv.pc = "handler"
  <2>1. S!TakesHeader("handler") /\ srv' = S!Reset(S!Handler(S!Reader))
    <3>1. S!Handle("LIST", 0) /\ S!Send(S!AfterFailure, S!Reset(S!Handler(S!Reader)))
      BY <1>7 DEF S!DirFails, S!Argument, S!TakesBody
    <3> QED
      BY <3>1, SendAstray DEF S!Handle
  <2>2. S!Reader \in S!Session /\ S!Reader.astray = S!Astray
    BY <2>1, ServerReads
  <2> QED
    BY <1>7, <2>1, <2>2, SessionTypes
<1> QED
  BY <1>1, <1>2, <1>3, <1>4, <1>5, <1>6, <1>7 DEF HeaderStep

LEMMA OtherSteps ==
    ASSUME Types, S!Step \/ S!Trouble, ~HeaderStep
    PROVE  /\ srv'.astray = srv.astray
           /\ up' = up \/ \E place \in {"argument", "block"} : S!TakesBody(place)
<1>0. srv \in S!Session /\ S!Handler(srv) \in S!Session /\ S!Handler(srv).astray = srv.astray
      /\ S!Reset(S!Handler(srv)).astray = srv.astray
  BY SessionTypes DEF Types
<1>1. CASE \E msg : /\ S!Send(msg, S!Reset(S!Handler(srv)))
                    /\ S!cd \/ S!GetRefused \/ S!PutRefused \/ S!GetFails \/ S!SendLast
  BY <1>0, <1>1, SendAstray DEF S!cd, S!GetRefused, S!PutRefused, S!GetFails, S!SendLast, S!Argument
<1>2. CASE S!dir \/ S!ftpget
  BY <1>0, <1>2 DEF S!dir, S!ftpget, S!Argument, S!Becomes, S!Session
<1>3. CASE S!list_dir \/ S!send_file
  <2>1. up' = up
    BY <1>3 DEF S!list_dir, S!send_file
  <2>2. \E s \in {srv, [srv EXCEPT !.pos = @ + 1]} : srv' = [s EXCEPT !.first_data = FALSE]
    BY <1>3, SendAstray DEF S!list_dir, S!send_file, S!send_data
  <2> QED
    BY <1>0, <2>1, <2>2 DEF S!Session
<1>4. CASE S!ftpput
  <2>1. PICK f : srv' = S!Reset([srv EXCEPT !.pc = "recv", !.file = f])
    BY <1>4, SendAstray DEF S!ftpput
  <2> QED
    BY <1>0, <1>4, <2>1 DEF S!ftpput, S!Argument, S!Session, S!Reset
<1>5. CASE S!RecvBlock
  <2>1. PICK place \in S!SPlace : S!Goes(srv, place)
    BY <1>5 DEF S!RecvBlock, S!Places, S!SPlace
  <2> QED
    BY <1>0, <1>5, <2>1, GoesTypes DEF S!RecvBlock
<1>6. CASE S!RecvFails
  BY <1>0, <1>6 DEF S!RecvFails, S!Becomes
<1>7. CASE S!WriteFails
  BY <1>0, <1>7 DEF S!WriteFails, S!Becomes
<1>8. CASE S!More
  BY <1>0, <1>8 DEF S!More
<1>9. CASE S!Leave
  BY <1>0, <1>9 DEF S!Leave, S!At, S!Becomes, S!Session
<1>10. CASE S!sigterm_handler
  BY <1>0, <1>10 DEF S!sigterm_handler, S!Becomes, S!Session
<1>11. CASE S!DirFails
  <2>1. CASE S!Argument("LIST") /\ S!Send(S!AfterFailure, S!Reset(S!Handler(srv)))
    BY <1>0, <2>1, SendAstray DEF S!Argument
  <2>2. CASE S!Send(S!AfterFailure, S!Reset(S!Handler(srv))) /\ up' = up
    BY <1>0, <2>2, SendAstray
  <2>3. CASE S!Handle("LIST", 0)
    BY <1>11, <2>3 DEF HeaderStep, S!Handle, S!TakesHeader
  <2> QED
    BY <1>11, <2>1, <2>2, <2>3 DEF S!DirFails
<1> QED
  BY <1>1, <1>2, <1>3, <1>4, <1>5, <1>6, <1>7, <1>8, <1>9, <1>10, <1>11
  DEF S!Step, S!Regular, S!Trouble, S!Stop, S!Sigpipe, HeaderStep, S!cd, S!GetRefused,
      S!PutRefused, S!GetFails, S!SendLast

LEMMA Aligned ==
    ASSUME Types, S!Step \/ S!Trouble, ~srv'.astray
    PROVE  /\ ~srv.astray /\ LastKept(up, up')
           /\ HeaderStep => /\ up # <<>> /\ up[1] \in Header /\ up' = Tail(up)
                            /\ ~S!Astray /\ S!Reader = srv
<1>0. srv \in S!Session
  BY DEF Types
<1>1. CASE HeaderStep
  <2>1. PICK place : S!TakesHeader(place)
    BY <1>1, HeaderSteps
  <2>2. ~S!Astray
    BY <1>1, HeaderSteps
  <2>3. ~srv.astray /\ up[1] \in Header
    BY <2>2, ServerParts DEF S!Astray
  <2>4. S!Reader = srv
    BY <1>0, <2>2, <2>3 DEF S!Reader, S!Astray, S!Session
  <2> QED
    BY <2>1, <2>2, <2>3, <2>4, ServerReads DEF LastKept
<1>2. CASE ~HeaderStep
  <2>1. ~srv.astray
    BY <1>2, OtherSteps
  <2>2. LastKept(up, up')
    BY <1>2, <2>1, OtherSteps, ServerReads DEF LastKept
  <2> QED
    BY <1>2, <2>1, <2>2
<1> QED
  BY <1>1, <1>2

LEMMA LastStays ==
    ASSUME NEW s \in Seq(Part), NEW t, LastKept(s, t), t # <<>>
    PROVE  s # <<>> /\ t[Len(t)] = s[Len(s)]
<1>1. CASE t = s
  BY <1>1
<1>2. CASE s # <<>> /\ t = Tail(s)
  <2>1. /\ Len(t) = Len(s) - 1 /\ Len(s) \in Nat /\ Len(s) > 0
        /\ \A i \in 1..Len(s) - 1 : t[i] = s[i + 1]
        /\ t = <<>> <=> Len(s) = 1
    BY <1>2, TailParts
  <2>2. Len(t) \in 1..Len(s) - 1 /\ Len(t) + 1 = Len(s)
    BY <2>1
  <2> QED
    BY <1>2, <2>1, <2>2
<1> QED
  BY <1>1, <1>2 DEF LastKept

LEMMA ServerQuiet ==
    ASSUME Types, Stream, UNCHANGED <<cl, here>>, LastKept(up, up'), ~Closed(down'),
           srv'.pc \notin {"argument", "block", "recv"}
    PROVE  Stream'
<1>1. up \in Seq(Part) /\ Chained(up, here)
  BY DEF Types, Stream
<1>2. Chained(up', here)
  BY <1>1, TailChained DEF LastKept
<1>3. (Sending' => Sending) /\ (CutOff' <=> CutOff)
  BY DEF Sending, CutOff
<1>4. up' # <<>> => up # <<>> /\ up'[Len(up')] = up[Len(up)]
  BY <1>1, LastStays
<1> QED
  BY <1>2, <1>3, <1>4 DEF Stream

\* The server begins to wait for what follows up[1], block n of the file.
LEMMA ServerReceives ==
    ASSUME Types, Stream, UNCHANGED <<cl, here>>, up # <<>>, up' = Tail(up), ~Closed(down'),
           srv'.pc = "recv", srv'.file \in File, NEW n \in Nat, Len(stored'[srv'.file]) = n,
           Placed(srv'.file, n, up[1])
    PROVE  Stream'
<1>1. up \in Seq(Part) /\ Chained(up, here) /\ cl \in C!Client /\ cl.file \in File /\ cl.pos \in Nat
  BY DEF Types, Stream, C!Client
<1>2. Chained(up', here)
  BY <1>1, TailChained
<1>3. (Sending' <=> Sending) /\ (CutOff' <=> CutOff)
  BY DEF Sending, CutOff
<1>4. up' # <<>> => up # <<>> /\ up'[Len(up')] = up[Len(up)]
  BY <1>1, LastStays DEF LastKept
<1>5. Expected(up', srv'.file, n, here)
  BY <1>1, Next1
<1>6. Sending /\ up' = <<>> => (srv'.file = cl.file /\ n = cl.pos) \/ CutOff
  <2>1. Sending => Placed(cl.file, cl.pos, up[Len(up)]) \/ CutOff
    BY DEF Stream
  <2> QED
    BY <1>1, <2>1, Next1
<1>7. Have' = n
  BY DEF Have
<1> QED
  BY <1>2, <1>3, <1>4, <1>5, <1>6, <1>7 DEF Stream

\* The server has read an empty packet.
LEMMA ServerSkips ==
    ASSUME Types, Stream, UNCHANGED <<cl, here>>, up # <<>>, up[1] = EmptyHeader,
           up' = Tail(up), ~Closed(down'), srv'.pc = "recv"
    PROVE  Stream'
<1>1. up \in Seq(Part) /\ Chained(up, here)
  BY DEF Types, Stream
<1>2. Chained(up', here)
  BY <1>1, TailChained
<1>3. (Sending' <=> Sending) /\ (CutOff' <=> CutOff)
  BY DEF Sending, CutOff
<1>4. up' # <<>> => up # <<>> /\ up'[Len(up')] = up[Len(up)]
  BY <1>1, LastStays DEF LastKept
<1>5. Expected(up', srv'.file, Have', here)
  BY <1>1, NextEmpty
<1>6. Sending /\ up' = <<>> => CutOff
  <2>1. Sending => Placed(cl.file, cl.pos, up[Len(up)]) \/ CutOff
    BY DEF Stream
  <2>2. up' = <<>> => up[Len(up)] = EmptyHeader
    BY <1>1, NextEmpty
  <2> QED
    BY <2>1, <2>2, EmptyUnplaced
<1> QED
  BY <1>2, <1>3, <1>4, <1>5, <1>6 DEF Stream

LEMMA LastOfBoth ==
    ASSUME NEW s \in Seq(Part), NEW t \in Seq(Part), t # <<>>
    PROVE  LET st == s \o t
           IN  st \in Seq(Part) /\ st # <<>> /\ st[Len(st)] = t[Len(t)]
<1> DEFINE st == s \o t
<1>1. Len(s) \in Nat /\ Len(t) \in Nat /\ Len(t) > 0
  BY EmptySeq
<1>2. st \in Seq(Part) /\ Len(st) = Len(s) + Len(t)
  OBVIOUS
<1>3. /\ Len(s) + Len(t) \in 1..Len(s) + Len(t) /\ ~(Len(s) + Len(t) <= Len(s))
      /\ (Len(s) + Len(t)) - Len(s) = Len(t) /\ Len(s) + Len(t) # 0
  BY <1>1
<1>4. st[Len(s) + Len(t)] = t[Len(t)]
  BY <1>3, ConcatProperties
<1> HIDE DEF st
<1>5. Len(<<>>) = 0
  OBVIOUS
<1> QED
  BY <1>2, <1>3, <1>4, <1>5 DEF st

LEMMA ReplyOpen ==
    ASSUME Types, Stream, NEW msg \in Seq(Part), msg # <<>>, msg[Len(msg)] # FIN,
           NEW s, S!Send(msg, s), ~s.astray
    PROVE  ~Closed(down') /\ srv' = s
<1>1. down' = down \/ down' = down \o msg
  BY ServerParts DEF S!Send, Sent
<1>2. CASE down' = down \o msg
  <2>2. down'[Len(down')] = msg[Len(msg)]
    BY <1>2, LastOfBoth DEF Types
  <2> QED
    BY <2>2 DEF Closed, S!Send, S!Becomes
<1> QED
  BY <1>1, <1>2 DEF Stream, S!Send, S!Becomes

\* No reply ends the stream.
LEMMA RepliesOpen ==
    /\ \A t, c : LET m == Bare(t, c) IN t # "fin" => m # <<>> /\ m[Len(m)] # FIN
    /\ \A t, c, b : LET m == With(t, c, b) IN b # FIN => m # <<>> /\ m[Len(m)] # FIN
BY DEF Bare, With, FIN

LEMMA ServerRepliesOpen ==
    \A m \in {S!file_err, S!Last, S!AfterFailure} :
       m \in Seq(Part) /\ m # <<>> /\ m[Len(m)] # FIN
<1> DEFINE e == [type |-> "ERR", code |-> "OK", length |-> 0]
           m == <<e>> \o <<LastHeader>>
<1>1. e \in Part /\ LastHeader \in Part /\ LastHeader # FIN /\ e # FIN
  BY BodyTypes, HeaderParts DEF Header
<1>2. S!AfterFailure = m
  BY RepliesType DEF S!AfterFailure
<1> HIDE DEF e
<1>3. <<e>> \in Seq(Part) /\ Len(<<e>>) = 1
  BY <1>1
<1>4. m \in Seq(Part) /\ Len(m) = 2 /\ m[2] = LastHeader
  BY <1>1, <1>3, AddOne
<1> HIDE DEF m
<1>5. m # <<>>
  <2>1. Len(<<>>) = 0
    OBVIOUS
  <2> QED
    BY <1>4, <2>1
<1>6. S!file_err = <<e>> /\ S!Last = <<LastHeader>>
  BY RepliesType DEF e
<1>7. \A r \in {e, LastHeader} : <<r>> \in Seq(Part) /\ <<r>> # <<>> /\ <<r>>[Len(<<r>>)] = r
  BY <1>1
<1>8. \A x \in {<<e>>, <<LastHeader>>, m} : x \in Seq(Part) /\ x # <<>> /\ x[Len(x)] # FIN
  <2>1. m[Len(m)] # FIN
    BY <1>1, <1>4
  <2> QED
    BY <1>1, <1>4, <1>5, <1>7, <2>1
<1> QED
  BY <1>2, <1>6, <1>8

\* Where the replies and data of the server leave it.
LEMMA AfterSend ==
    ASSUME Types, Stream, NEW msg \in Seq(Part), msg # <<>>, msg[Len(msg)] # FIN,
           ~srv'.astray, srv \in S!Session,
           \/ \E s : S!Send(msg, s) /\ s.pc \in {"handler", "list", "file"}
           \/ S!send_data(msg, srv) /\ srv.pc \in {"list", "file"}
           \/ S!send_data(msg, [srv EXCEPT !.pos = @ + 1]) /\ srv.pc \in {"list", "file"}
    PROVE  ~Closed(down') /\ srv'.pc \in {"handler", "list", "file"}
<1>1. CASE \E s : S!Send(msg, s) /\ s.pc \in {"handler", "list", "file"}
  BY <1>1, ReplyOpen, SendAstray
<1>2. ASSUME NEW s \in {srv, [srv EXCEPT !.pos = @ + 1]}, S!send_data(msg, s),
             srv.pc \in {"list", "file"}
      PROVE  ~Closed(down') /\ srv'.pc \in {"handler", "list", "file"}
  <2> DEFINE pk == S!Packet(msg)
             t == [s EXCEPT !.first_data = FALSE]
  <2>1. S!Send(pk, t)
    BY <1>2 DEF S!send_data
  <2>2. t.pc = srv.pc
    BY <1>2 DEF Types, S!Session
  <2>3. pk \in Seq(Part) /\ pk # <<>> /\ pk[Len(pk)] # FIN
    <3>1. CASE srv.first_data
      <4> DEFINE ok == Bare("OK", "OK_RETR")
      <4>1. pk = ok \o msg
        BY <3>1, ServerParts DEF S!Packet
      <4>2. ok \in Seq(Part) /\ Len(ok) = 1
        BY BareType DEF Bare
      <4> HIDE DEF ok, pk
      <4>3. Len(msg) \in Nat /\ Len(msg) > 0
        BY EmptySeq
      <4> QED
        BY <4>1, <4>2, LastOfBoth
    <3>2. CASE ~srv.first_data
      <4>1. pk = msg
        BY <3>2, ConcatEmptySeq DEF S!Packet
      <4> QED
        BY <4>1
    <3> QED
      BY <3>1, <3>2
  <2> HIDE DEF pk, t
  <2> QED
    BY <1>2, <2>1, <2>2, <2>3, ReplyOpen, SendAstray
<1> QED
  BY <1>1, <1>2

\* The steps that leave it at its loop, or sending.
LEMMA QuietSteps ==
    ASSUME Types, Stream, UNCHANGED <<cl, here>>, ~srv'.astray,
           \/ S!pwd \/ S!PwdFails \/ S!HasNoArgument \/ S!Undefined \/ S!cd \/ S!dir \/ S!DirFails \/ S!list_dir
           \/ S!ftpget \/ S!GetRefused \/ S!PutRefused \/ S!send_file \/ S!GetFails
           \/ S!SendLast \/ S!RecvFails \/ S!WriteFails
    PROVE  Stream' /\ stored' = stored
<1>1. /\ ~srv.astray /\ LastKept(up, up')
      /\ HeaderStep => S!Reader = srv
  BY Aligned DEF S!Step, S!Regular, S!Trouble
<1>3. stored' = stored
  BY DEF S!pwd, S!PwdFails, S!HasNoArgument, S!Undefined, S!cd, S!dir, S!DirFails, S!list_dir,
     S!ftpget, S!GetRefused, S!PutRefused, S!send_file, S!GetFails, S!SendLast, S!RecvFails,
     S!WriteFails
<1>0. srv \in S!Session /\ ~Closed(down) /\ S!Handler(srv) \in S!Session
      /\ S!Reset(srv).pc = srv.pc /\ S!Reset(S!Handler(srv)).pc = "handler"
      /\ S!Handler(srv).pc = "handler"
  BY SessionTypes DEF Types, Stream
<1>2. ~Closed(down') /\ srv'.pc \notin {"argument", "block", "recv"}
  <2>1. CASE \E msg \in {S!AfterFailure, S!file_err, S!Last} :
                S!Send(msg, S!Reset(S!Handler(srv)))
    BY <1>0, <2>1, AfterSend, ServerRepliesOpen
  <2>2. CASE S!cd
    <3>1. CASE S!Send(S!file_err, S!Reset(S!Handler(srv)))
      BY <2>1, <3>1
    <3>2. CASE S!Send(Bare("OK", "OK"), S!Reset(S!Handler(srv)))
      <4>1. LET m == Bare("OK", "OK") IN m \in Seq(Part) /\ m # <<>> /\ m[Len(m)] # FIN
        BY BareType, RepliesOpen
      <4> QED
        BY <1>0, <3>2, <4>1, AfterSend
    <3> QED
      BY <2>2, <3>1, <3>2, ServerParts DEF S!cd
  <2>3. CASE S!pwd
    <3> DEFINE m == With("OK", "OK", Text)
    <3>1. m \in Seq(Part) /\ m # <<>> /\ m[Len(m)] # FIN
      <4>1. Text # FIN /\ Text \in Part
        BY BodyTypes
      <4> QED
        BY <4>1, BareType, RepliesOpen
    <3>2. S!Send(m, S!Reset(srv)) /\ srv.pc = "handler"
      <4>1. S!Reader = srv
        BY <1>1, <2>3 DEF HeaderStep
      <4> QED
        BY <2>3, <4>1, ServerParts DEF S!pwd, S!Handle, S!TakesHeader
    <3>3. S!Reset(srv).pc = "handler"
      BY <1>0, <3>2
    <3> HIDE DEF m
    <3> QED
      BY <1>0, <3>1, <3>2, <3>3, AfterSend
  <2>4. CASE S!list_dir \/ S!send_file
    <3>1. PICK m \in {With("DATA", "DATA", Entry), Bare("DATA", "DATA"),
                      With("DATA", "DATA", Block(srv.file, srv.pos + 1))} :
            /\ \/ S!send_data(m, srv)
               \/ S!send_data(m, [srv EXCEPT !.pos = @ + 1])
            /\ m \in Seq(Part)
      <4>1. CASE S!list_dir
        BY <4>1, ServerParts, BareType, BodyTypes DEF S!list_dir
      <4>2. CASE S!send_file /\ srv.pos < len[srv.file]
        <5>1. /\ srv.pos \in Nat /\ len[srv.file] \in Nat /\ Size[srv.file] \in Nat
              /\ len[srv.file] <= Size[srv.file] /\ srv.file \in File
          BY <1>0, SizeType DEF Types, S!Session
        <5>2. srv.pos + 1 \in 1..Size[srv.file]
          BY <4>2, <5>1
        <5>3. With("DATA", "DATA", Block(srv.file, srv.pos + 1)) \in Seq(Part)
          BY <5>1, <5>2, BareType, BodyTypes
        <5> QED
          BY <4>2, <5>3, ServerParts DEF S!send_file
      <4>3. CASE S!send_file /\ ~(srv.pos < len[srv.file])
        BY <4>3, BareType, ServerParts DEF S!send_file
      <4> QED
        BY <2>4, <4>1, <4>2, <4>3
    <3>2. m # <<>> /\ m[Len(m)] # FIN
      <4>1. Entry # FIN /\ \A f, n : Block(f, n) # FIN
        BY BodyTypes DEF Block, FIN
      <4> QED
        BY <4>1, RepliesOpen
    <3>3. srv.pc \in {"list", "file"}
      BY <2>4 DEF S!list_dir, S!send_file
    <3> QED
      BY <1>0, <3>1, <3>2, <3>3, AfterSend
  <2>5. CASE S!dir \/ S!ftpget
    <3>1. srv'.pc \in {"list", "file"} /\ down' = down
      BY <1>0, <2>5 DEF S!dir, S!ftpget, S!Becomes, S!Session
    <3> QED
      BY <1>0, <3>1
  <2>6. CASE S!PwdFails \/ S!Undefined
    <3>1. S!Reader = srv
      BY <1>1, <2>6 DEF HeaderStep
    <3>2. srv' = S!Reader /\ srv.pc = "handler" /\ down' = down
      BY <2>6 DEF S!PwdFails, S!Undefined, S!Handle, S!TakesHeader, S!Becomes
    <3> QED
      BY <1>0, <3>1, <3>2
  <2>7. CASE S!RecvFails \/ S!WriteFails
    BY <1>0, <2>7 DEF S!RecvFails, S!WriteFails, S!Becomes
  <2>8. CASE S!HasNoArgument
    <3>1. S!Reader = srv
      BY <1>1, <2>8 DEF HeaderStep
    <3>2. srv.pc = "handler"
      BY <2>8 DEF S!HasNoArgument, S!Handle, S!TakesHeader
    <3>3. CASE S!Send(S!file_err, S!Reset(S!Reader))
      BY <1>0, <3>1, <3>2, <3>3, AfterSend, ServerRepliesOpen
    <3>4. CASE UNCHANGED down /\ \E n : S!Becomes([S!Reader EXCEPT !.pc = "list", !.pos = 0, !.size = n])
      <4>1. srv'.pc = "list"
        BY <1>0, <3>1, <3>4 DEF S!Becomes, S!Session
      <4> QED
        BY <1>0, <3>4, <4>1
    <3> QED
      BY <2>8, <3>3, <3>4 DEF S!HasNoArgument
  <2>9. CASE S!DirFails
    <3>1. CASE S!Send(S!AfterFailure, S!Reset(S!Handler(S!Reader))) /\ S!Handle("LIST", 0)
      <4>1. S!Reader = srv
        BY <1>1, <2>9, <3>1 DEF HeaderStep, S!Handle, S!TakesHeader
      <4> QED
        BY <2>1, <3>1, <4>1
    <3> QED
      BY <2>1, <2>9, <3>1 DEF S!DirFails
  <2> QED
    BY <2>1, <2>2, <2>3, <2>4, <2>5, <2>6, <2>7, <2>8, <2>9
    DEF S!GetRefused, S!PutRefused, S!GetFails, S!SendLast
<1> QED
  BY <1>1, <1>2, <1>3, ServerQuiet

LEMMA ArgumentStream ==
    ASSUME Types, Stream, UNCHANGED <<cl, here>>, ~srv'.astray, S!HasArgument
    PROVE  Stream' /\ stored' = stored
<1>0. /\ up # <<>> /\ up[1] \in Header /\ up' = Tail(up) /\ S!Reader = srv /\ ~S!Astray
  BY Aligned DEF HeaderStep, S!Step, S!Regular
<1>1. /\ up \in Seq(Part) /\ down' = down /\ stored' = stored /\ srv \in S!Session
      /\ \E type \in S!SCmd \ {"none"} : /\ srv' = [srv EXCEPT !.pc = "argument", !.cmd = type]
                                         /\ up[1] = [type |-> type, code |-> "OK", length |-> 1]
  BY <1>0 DEF S!HasArgument, S!Handle, S!Becomes, Types
<1>2. srv'.pc = "argument" /\ srv'.cmd = up[1].type
  BY <1>1 DEF S!Session
<1>3. Chained(up', here) /\ Chained(up, here)
  BY <1>0, <1>1, TailChained DEF Stream
<1>4. up[1].type = "STOR" => up' # <<>> /\ IsName(up'[1])
  <2> SUFFICES ASSUME up[1].type = "STOR" PROVE up' # <<>> /\ IsName(up'[1])
    OBVIOUS
  <2>1. /\ Len(up') = Len(up) - 1 /\ Len(up) \in Nat /\ Len(up) > 0
        /\ \A i \in 1..Len(up) - 1 : up'[i] = up[i + 1]
        /\ up' = <<>> <=> Len(up) = 1
    BY <1>0, <1>1, TailParts
  <2>2. up[1] = StorHeader
    BY <1>3, <2>1 DEF Chained, Regular
  <2>3. 1 < Len(up) /\ IsName(up[2])
    BY <1>3, <2>1, <2>2 DEF Chained
  <2> QED
    BY <2>1, <2>3
<1>5. (Sending' => Sending) /\ (CutOff' <=> CutOff)
  BY DEF Sending, CutOff
<1>6. up' # <<>> => up'[Len(up')] = up[Len(up)]
  BY <1>0, <1>1, LastStays DEF LastKept
<1>7. ~Closed(down')
  BY <1>1 DEF Stream
<1> QED
  BY <1>0, <1>1, <1>2, <1>3, <1>4, <1>5, <1>6, <1>7 DEF Stream

\* A put begins: the file is empty, and what follows is its first block.
LEMMA PutStream ==
    ASSUME Types, Unmixed, Stream, UNCHANGED <<cl, here>>, ~srv'.astray, S!ftpput
    PROVE  Stream' /\ Unmixed' /\ srv'.pc = "recv"
<1>0. ~srv.astray /\ srv \in S!Session /\ S!TakesBody("argument") /\ srv.cmd = "STOR"
  BY Aligned DEF S!Step, S!Regular, S!ftpput, S!Argument, Types
<1>1. /\ up # <<>> /\ up' = Tail(up) /\ srv.pc = "argument"
  BY <1>0, ServerReads
<1>2. PICK f \in File : /\ up[1] = Name(f) /\ S!Writes(f, <<>>)
                        /\ S!Send(Bare("OK", "OK_STOR"),
                                  S!Reset([srv EXCEPT !.pc = "recv", !.file = f]))
  BY <1>0, ServerParts DEF S!ftpput, S!Named
<1> DEFINE s == S!Reset([srv EXCEPT !.pc = "recv", !.file = f])
<1>3. s.pc = "recv" /\ s.file = f /\ ~s.astray
  BY <1>0, <1>2 DEF S!Session, S!Reset
<1>4. ~Closed(down') /\ srv' = s
  <2>1. LET m == Bare("OK", "OK_STOR") IN m \in Seq(Part) /\ m # <<>> /\ m[Len(m)] # FIN
    BY BareType, RepliesOpen
  <2>2. S!Send(Bare("OK", "OK_STOR"), s)
    BY <1>2
  <2> HIDE DEF s
  <2> QED
    BY <1>3, <2>1, <2>2, ReplyOpen
<1>5. stored'[f] = <<>> /\ \A g \in File : g # f => stored'[g] = stored[g]
  BY <1>0, <1>2 DEF Types, S!Writes
<1>6. Placed(f, 0, up[1]) /\ Len(stored'[f]) = 0
  BY <1>2, <1>5 DEF Placed
<1>7. Unmixed'
  <2>1. Blocks(f, 0) = <<>>
    BY DEF Blocks
  <2> QED
    BY <1>5, <1>6, <2>1 DEF Unmixed
<1> HIDE DEF s
<1>8. Stream'
  BY <1>1, <1>2, <1>3, <1>4, <1>6, ServerReceives
<1> QED
  BY <1>3, <1>4, <1>7, <1>8

\* In recv_file, the header of a packet.
LEMMA HeaderStream ==
    ASSUME Types, Stream, UNCHANGED <<cl, here>>, ~srv'.astray, S!recv_file
    PROVE  Stream' /\ stored' = stored
<1>0. /\ up # <<>> /\ up[1] \in Header /\ up' = Tail(up) /\ S!Reader = srv /\ ~S!Astray
  BY Aligned DEF HeaderStep, S!Step, S!Regular
<1>1. /\ up \in Seq(Part) /\ down' = down /\ stored' = stored
      /\ srv.pc = "recv" /\ srv \in S!Session /\ S!Goes(srv, S!AfterHeader(up[1]))
  BY <1>0 DEF S!recv_file, S!TakesHeader, Types
<1>2. ~Closed(down') /\ Chained(up, here)
  BY <1>1 DEF Stream
<1>3. CASE S!AfterHeader(up[1]) = "handler"
  <2>1. srv'.pc = "handler"
    BY <1>1, <1>3, GoesTypes DEF S!SPlace
  <2> QED
    BY <1>0, <1>1, <1>2, <2>1, ServerQuiet DEF LastKept
<1>4. CASE S!AfterHeader(up[1]) # "handler"
  <2>1. /\ Len(up') = Len(up) - 1 /\ Len(up) \in Nat /\ Len(up) > 0
        /\ \A i \in 1..Len(up) - 1 : up'[i] = up[i + 1]
        /\ up' = <<>> <=> Len(up) = 1
    BY <1>0, <1>1, TailParts
  <2>2. Regular(up[1])
    BY <1>2, <2>1 DEF Chained
  <2>3. \/ up[1] = DataHeader /\ S!AfterHeader(up[1]) = "block"
        \/ up[1] = EmptyHeader /\ S!AfterHeader(up[1]) = "recv"
    BY <1>4, <2>2 DEF S!AfterHeader, Regular, DataHeader, LastHeader, EmptyHeader
  <2>4. CASE up[1] = DataHeader /\ S!AfterHeader(up[1]) = "block"
    <3>1. srv'.pc = "block" /\ srv'.file = srv.file
      BY <1>1, <2>4 DEF S!Session, S!Goes, S!Becomes
    <3>2. Len(up) > 1 /\ Have < Size[srv.file] /\ up[2] = Block(srv.file, Have + 1)
      BY <1>0, <1>1, <2>4 DEF Stream, Expected
    <3>3. up' # <<>> /\ up'[1] = up[2]
      BY <2>1, <3>2
    <3>4. Have' = Have
      BY <1>1, <3>1 DEF Have
    <3>5. Chained(up', here)
      BY <1>0, <1>1, <1>2, TailChained
    <3>6. (Sending' => Sending) /\ (CutOff' <=> CutOff)
      BY DEF Sending, CutOff
    <3>7. up'[Len(up')] = up[Len(up)]
      BY <1>0, <1>1, <3>3, LastStays DEF LastKept
    <3>8. Stream'
      BY <1>0, <1>2, <3>1, <3>2, <3>3, <3>4, <3>5, <3>6, <3>7 DEF Stream
    <3> QED
      BY <1>1, <3>8
  <2>5. CASE up[1] = EmptyHeader /\ S!AfterHeader(up[1]) = "recv"
    <3>1. srv'.pc = "recv"
      BY <1>1, <2>5 DEF S!Session, S!Goes, S!Becomes
    <3> QED
      BY <1>0, <1>1, <1>2, <2>5, <3>1, ServerSkips
  <2> QED
    BY <2>3, <2>4, <2>5
<1> QED
  BY <1>3, <1>4

\* In recv_file, a block.
LEMMA BlockStream ==
    ASSUME Types, Unmixed, Stream, UNCHANGED <<cl, here>>, ~srv'.astray, S!RecvBlock
    PROVE  Stream' /\ Unmixed' /\ srv'.pc = "recv"
<1> DEFINE f == srv.file
           n == Len(stored[f]) + 1
<1>0. ~srv.astray /\ srv \in S!Session /\ S!TakesBody("block")
  BY Aligned DEF S!Step, S!Regular, S!RecvBlock, Types
<1>1. /\ up # <<>> /\ up' = Tail(up) /\ up \in Seq(Part) /\ down' = down
      /\ srv.pc = "block" /\ srv' = [srv EXCEPT !.pc = "recv"]
      /\ stored' = [stored EXCEPT ![f] = Append(stored[f], up[1])]
  <2>1. S!Goes(srv, "recv") /\ S!Writes(f, Append(stored[f], up[1])) /\ down' = down
    BY <1>0 DEF S!RecvBlock
  <2> QED
    BY <1>0, <2>1, ServerReads DEF S!Goes, S!Becomes, S!Writes, Types
<1>2. up[1] = Block(f, n)
  BY <1>1 DEF Stream, Have
<1>3. srv'.pc = "recv" /\ srv'.file = f /\ f \in File
  BY <1>1 DEF Types, S!Session
<1>4. Len(stored[f]) \in Nat /\ n \in Nat /\ n # 0
  BY <1>3 DEF Types
<1>5. Unmixed' /\ Len(stored'[f]) = n
  BY <1>1, <1>2, <1>3, PutNext
<1>6. Placed(f, n, up[1])
  BY <1>2, <1>4 DEF Placed
<1>7. ~Closed(down')
  BY <1>1 DEF Stream
<1> HIDE DEF f, n
<1>8. Stream'
  BY <1>1, <1>3, <1>4, <1>5, <1>6, <1>7, ServerReceives
<1> QED
  BY <1>3, <1>5, <1>8

LEMMA SigtermStream ==
    ASSUME Types, Stream, UNCHANGED <<cl, here>>, S!sigterm_handler
    PROVE  Stream' /\ stored' = stored
<1>1. /\ UNCHANGED <<stored, up, down>>
      /\ srv'.pc = srv.pc /\ srv'.cmd = srv.cmd /\ srv'.file = srv.file
  BY DEF S!sigterm_handler, S!Becomes, Types, S!Session
<1>2. Have' = Have /\ (Sending' <=> Sending) /\ (CutOff' <=> CutOff)
  BY <1>1 DEF Have, Sending, CutOff
<1> QED
  BY <1>1, <1>2 DEF Stream

\* Somebody cuts off a file that is put: the client has less to send than it thinks.
LEMMA ShrinkStream ==
    ASSUME Types, Stream, UNCHANGED <<srv, stored>>, NEW f \in File, C!Shrink(f)
    PROVE  Stream'
<1>1. /\ UNCHANGED <<cl, up, down>> /\ here[f] = Size[f] /\ here' = [here EXCEPT ![f] = @ - 1]
      /\ here \in [File -> Nat]
  BY DEF C!Shrink, Types
<1>2. \A g \in File : here'[g] \in Nat /\ here'[g] <= here[g]
  <2>1. \A g \in File : here[g] \in Nat
    BY <1>1
  <2>2. here[f] > 0
    BY DEF C!Shrink
  <2> QED
    BY <1>1, <2>1, <2>2
<1>3. \A g \in File : Lengths(g, here) \subseteq Lengths(g, here')
  BY <1>1 DEF Lengths
<1>4. Chained(up, here')
  <2>1. \A r : Whole(r, here) => Whole(r, here')
    BY <1>3 DEF Whole
  <2> QED
    BY <2>1 DEF Stream, Chained
<1>5. cl.file \in File /\ cl.pos \in Nat /\ srv.file \in File
  BY DEF Types, C!Client, S!Session
<1>6. CutOff => CutOff'
  <2>1. here'[cl.file] <= here[cl.file] /\ here'[cl.file] \in Nat /\ here[cl.file] \in Nat
    BY <1>1, <1>2, <1>5
  <2> QED
    BY <1>1, <1>5, <2>1 DEF CutOff
<1>7. Have' = Have /\ (Sending' <=> Sending)
  BY <1>1 DEF Have, Sending
<1>8. srv.pc = "recv" => Expected(up, srv.file, Have, here')
  BY <1>3, <1>5 DEF Stream, Expected
<1>9. cl.pc = "send" => cl.size \in Lengths(cl.file, here')
  BY <1>3, <1>5 DEF Stream
<1> QED
  BY <1>1, <1>4, <1>6, <1>7, <1>8, <1>9 DEF Stream

LEMMA PutStep == PutInv /\ [Next]_vars => PutInv'
<1> SUFFICES ASSUME PutInv, [Next]_vars PROVE PutInv'
  OBVIOUS
<1>1. Types' /\ Types
  BY TypesStep DEF PutInv
<1> SUFFICES ASSUME ~srv'.astray PROVE Unmixed' /\ (srv'.pc # "exit" => Stream')
  BY <1>1 DEF PutInv
<1>2. CASE Client \/ ClientTrouble
  <2>1. UNCHANGED <<srv, stored>>
    BY <1>2 DEF Client, ClientTrouble
  <2>2. Unmixed /\ Unmixed'
    BY <2>1 DEF PutInv, Unmixed
  <2>3. srv.pc # "exit" => Stream'
    BY <1>1, <1>2, <2>1, CommandStream, AnswerStream, TransmitStream
    DEF Client, ClientTrouble, PutInv
  <2> QED
    BY <2>1, <2>2, <2>3
<1>3. CASE Server \/ ServerTrouble
  <2>1. UNCHANGED <<cl, here>> /\ (S!Step \/ S!Trouble)
    BY <1>3 DEF Server, ServerTrouble
  <2>2. ~srv.astray
    BY <1>1, <2>1, Aligned
  <2>3. srv.pc # "exit"
    BY <2>1 DEF S!Step, S!Regular, S!Trouble, S!quit, S!pwd, S!HasArgument, S!HasNoArgument,
       S!Undefined, S!More, S!cd, S!dir, S!list_dir, S!ftpget, S!GetRefused, S!send_file,
       S!GetFails, S!SendLast, S!ftpput, S!PutRefused, S!recv_file, S!RecvBlock, S!RecvFails,
       S!Stop, S!Sigpipe, S!PwdFails, S!DirFails, S!WriteFails, S!sigterm_handler, S!Handle,
       S!Argument, S!TakesHeader, S!TakesBody
  <2>4. Unmixed /\ Stream
    BY <2>2, <2>3 DEF PutInv
  <2>5. CASE S!quit \/ S!Leave
    <3>1. stored' = stored
      BY <2>5 DEF S!quit, S!Leave
    <3>2. srv'.pc = "exit"
      <4>1. CASE S!quit
        <5>1. srv' = [S!Reader EXCEPT !.pc = "exit"] /\ S!Reader = srv
          BY <1>1, <2>1, <4>1, Aligned DEF HeaderStep, S!quit, S!Becomes
        <5> QED
          BY <1>1, <5>1 DEF Types, S!Session
      <4>2. CASE S!Leave
        BY <1>1, <4>2 DEF S!Leave, S!At, S!Becomes, Types, S!Session
      <4> QED
        BY <2>5, <4>1, <4>2
    <3> QED
      BY <2>4, <3>1, <3>2 DEF Unmixed
  <2>6. CASE S!ftpput \/ S!RecvBlock
    BY <1>1, <2>1, <2>4, <2>6, PutStream, BlockStream
  <2>7. CASE ~(S!quit \/ S!Leave \/ S!ftpput \/ S!RecvBlock \/ S!More)
    <3>1. Stream' /\ stored' = stored
      BY <1>1, <2>1, <2>4, <2>7, QuietSteps, ArgumentStream, HeaderStream, SigtermStream
      DEF S!Step, S!Regular, S!Trouble, S!Stop, S!Sigpipe
    <3> QED
      BY <2>4, <3>1 DEF Unmixed
  <2>8. CASE S!More
    BY <2>2, <2>8 DEF S!More
  <2> QED
    BY <2>5, <2>6, <2>7, <2>8
<1>4. CASE Shrink
  <2>1. UNCHANGED <<srv, stored>>
    BY <1>4 DEF Shrink, S!Shrink
  <2>2. Unmixed /\ Unmixed'
    BY <2>1 DEF PutInv, Unmixed
  <2>3. CASE (\E f \in File : S!Shrink(f)) /\ UNCHANGED <<cl, got, here>>
    <3>1. UNCHANGED <<cl, here, up, down>>
      BY <2>3 DEF S!Shrink
    <3>2. srv.pc # "exit" => Stream'
      BY <2>1, <3>1 DEF PutInv, Stream, Have, Sending, Expected, CutOff
    <3> QED
      BY <2>1, <2>2, <3>2
  <2>4. CASE \E f \in File : C!Shrink(f)
    BY <1>1, <2>1, <2>2, <2>4, ShrinkStream DEF PutInv
  <2> QED
    BY <1>4, <2>3, <2>4 DEF Shrink
<1>5. CASE Ended \/ UNCHANGED vars
  <2>1. UNCHANGED <<cl, here, srv, stored, up, down>>
    BY <1>5 DEF Ended, vars
  <2> QED
    BY <1>1, <2>1 DEF PutInv, Unmixed, Stream, Have, Sending, Expected, CutOff
<1> QED
  BY <1>2, <1>3, <1>4, <1>5 DEF Next

LEMMA PutInit == Init => PutInv
<1> SUFFICES ASSUME Init PROVE PutInv
  OBVIOUS
<1>1. Types
  BY TypesInit
<1>2. Unmixed
  <2>1. \A f : Blocks(f, 0) = <<>>
    BY DEF Blocks
  <2>2. \A f \in File : stored[f] = <<>> /\ Len(stored[f]) = 0
    BY DEF Init, S!Init
  <2> QED
    BY <2>1, <2>2 DEF Unmixed
<1>3. Stream
  BY DEF Init, C!Init, S!Init, Stream, Chained, Closed, Sending
<1> QED
  BY <1>1, <1>2, <1>3 DEF PutInv

\* Whatever was late or failed, in whatever order, and also when the files are cut off
\* while they are put: as long as the server process has not taken a body for a header,
\* what a file on the server holds is the beginning of the file that was put there, in
\* order (ftpput of myftpc.c and myftpd.c, recv_file and send_file of common.c).
THEOREM PutsUnmixed == Spec => []PutUnmixed
<1>1. PutInv => PutUnmixed
  BY DEF PutInv, Unmixed, PutUnmixed
<1> QED  BY <1>1, PutInit, PutStep, PTL DEF Spec

-----------------------------------------------------------------------------
(***************************************************************************)
(* The packets of a transfer, as both directions carry them: headers, a    *)
(* body after each header that announces one, and nothing after the last   *)
(* packet or an error.                                                     *)
(***************************************************************************)
ErrHeader == [type |-> "ERR", code |-> "OK", length |-> 0]
RetrHeader == [type |-> "OK", code |-> "OK_RETR", length |-> 0]
Ends == {LastHeader, ErrHeader}

\* mid: the header of the first packet has been taken already.
Packets(s, mid) ==
    /\ mid => s # <<>>
    /\ \A i \in 1..Len(s) :
          /\ s[i] \in Body \cup {DataHeader, EmptyHeader} \cup Ends
          /\ s[i] \in Body <=> IF i = 1 THEN mid ELSE s[i - 1] = DataHeader
          /\ s[i] = DataHeader => i < Len(s)
          /\ s[i] \in Ends => i = Len(s)
Over(s) == s # <<>> /\ s[Len(s)] \in Ends

LEMMA Bodies ==
    /\ Body \subseteq Part
    /\ \A r \in Body : r \notin Header /\ r # FIN
    /\ Text \in Body /\ Entry \in Body
    /\ \A f \in File : Name(f) \in Body /\ \A n \in 1..Size[f] : Block(f, n) \in Body
    /\ {DataHeader, EmptyHeader, RetrHeader} \cup Ends \subseteq Header
    /\ EmptyHeader # DataHeader /\ EmptyHeader \notin Ends /\ DataHeader \notin Ends
    /\ LastHeader # ErrHeader
    /\ RetrHeader \notin {DataHeader, EmptyHeader} \cup Ends
<1>1. Body \subseteq Part /\ Text \in Body /\ Entry \in Body
  BY DEF Part, Body
<1>2. \A f \in File : Name(f) \in Body /\ \A n \in 1..Size[f] : Block(f, n) \in Body
  BY DEF Body
<1>3. ASSUME NEW r \in Body PROVE r \notin Header /\ r # FIN
  <2>1. CASE r \in {Text, Entry, Bytes}
    BY <2>1, BodyTypes
  <2>2. CASE IsName(r) \/ IsBlock(r)
    BY <2>2, BodyTypes, HeaderTypes
  <2> QED
    BY <2>1, <2>2 DEF Body, IsName, IsBlock
<1>4. /\ {DataHeader, EmptyHeader, RetrHeader} \cup Ends \subseteq Header
      /\ EmptyHeader # DataHeader /\ EmptyHeader \notin Ends /\ DataHeader \notin Ends
      /\ LastHeader # ErrHeader
      /\ RetrHeader \notin {DataHeader, EmptyHeader} \cup Ends
  BY DEF DataHeader, EmptyHeader, LastHeader, ErrHeader, RetrHeader, Ends, Header
<1> QED
  BY <1>1, <1>2, <1>3, <1>4

LEMMA PacketsOpen ==
    ASSUME NEW s \in Seq(Part), NEW mid, Packets(s, mid)
    PROVE  ~ Closed(s) /\ (s # <<>> => s[1] # FIN)
<1>1. \A i \in 1..Len(s) : s[i] # FIN
  BY Bodies, BodyTypes DEF Packets
<1>2. s # <<>> => 1 \in 1..Len(s) /\ Len(s) \in 1..Len(s)
  BY TailParts
<1> QED
  BY <1>1, <1>2 DEF Closed

LEMMA NoPackets == Packets(<<>>, FALSE) /\ ~ Over(<<>>)
BY DEF Packets, Over

\* The first part is taken.
LEMMA PacketsTail ==
    ASSUME NEW s \in Seq(Part), s # <<>>, NEW mid \in BOOLEAN, Packets(s, mid)
    PROVE  /\ s[1] \in Body <=> mid
           /\ ~ mid => s[1] \in {DataHeader, EmptyHeader} \cup Ends
           /\ Packets(Tail(s), s[1] = DataHeader)
           /\ s[1] \in Ends => Tail(s) = <<>>
           /\ s[1] \notin Ends => (Over(Tail(s)) <=> Over(s))
<1> DEFINE t == Tail(s)
<1>1. /\ Len(t) = Len(s) - 1 /\ Len(s) \in Nat /\ Len(s) > 0 /\ t \in Seq(Part)
      /\ \A i \in 1..Len(s) - 1 : t[i] = s[i + 1]
      /\ t = <<>> <=> Len(s) = 1
  BY TailParts
<1> HIDE DEF t
<1>2. 1 \in 1..Len(s)
  BY <1>1
<1>3. /\ s[1] \in Body <=> mid
      /\ ~ mid => s[1] \in {DataHeader, EmptyHeader} \cup Ends
      /\ s[1] = DataHeader => 1 < Len(s)
      /\ s[1] \in Ends => 1 = Len(s)
  BY <1>2 DEF Packets
<1>4. s[1] = DataHeader => t # <<>>
  BY <1>1, <1>3
<1>5. ASSUME NEW i \in 1..Len(t)
      PROVE  /\ t[i] \in Body \cup {DataHeader, EmptyHeader} \cup Ends
             /\ t[i] \in Body <=> IF i = 1 THEN s[1] = DataHeader ELSE t[i - 1] = DataHeader
             /\ t[i] = DataHeader => i < Len(t)
             /\ t[i] \in Ends => i = Len(t)
  <2>1. i + 1 \in 1..Len(s) /\ t[i] = s[i + 1] /\ i + 1 # 1 /\ (i + 1) - 1 = i /\ i \in Nat
    BY <1>1
  <2>2. /\ s[i + 1] \in Body \cup {DataHeader, EmptyHeader} \cup Ends
        /\ s[i + 1] \in Body <=> s[i] = DataHeader
        /\ s[i + 1] = DataHeader => i + 1 < Len(s)
        /\ s[i + 1] \in Ends => i + 1 = Len(s)
    BY <2>1 DEF Packets
  <2>3. i # 1 => t[i - 1] = s[i]
    <3> SUFFICES ASSUME i # 1 PROVE t[i - 1] = s[i]
      OBVIOUS
    <3>1. i - 1 \in 1..Len(s) - 1 /\ (i - 1) + 1 = i
      BY <1>1
    <3> QED
      BY <1>1, <3>1
  <2>4. (i + 1 < Len(s) => i < Len(t)) /\ (i + 1 = Len(s) => i = Len(t))
    BY <1>1
  <2> QED
    BY <2>1, <2>2, <2>3, <2>4
<1>6. Packets(t, s[1] = DataHeader)
  BY <1>4, <1>5 DEF Packets
<1>7. s[1] \notin Ends => (Over(t) <=> Over(s))
  <2>1. CASE Len(s) = 1
    BY <1>1, <2>1 DEF Over
  <2>2. CASE Len(s) # 1
    <3>1. Len(t) \in 1..Len(s) - 1 /\ Len(t) + 1 = Len(s) /\ t # <<>>
      BY <1>1, <2>2
    <3>2. t[Len(t)] = s[Len(s)]
      BY <1>1, <3>1
    <3> QED
      BY <3>1, <3>2 DEF Over
  <2> QED
    BY <2>1, <2>2
<1> QED
  BY <1>1, <1>3, <1>6, <1>7 DEF t

\* A packet without a body is sent.
LEMMA PacketsOne ==
    ASSUME NEW s \in Seq(Part), NEW mid \in BOOLEAN, Packets(s, mid), ~ Over(s),
           NEW h \in {EmptyHeader} \cup Ends
    PROVE  /\ Packets(s \o <<h>>, mid)
           /\ Over(s \o <<h>>) <=> h \in Ends
<1> DEFINE t == s \o <<h>>
<1>1. h \in Part /\ h \notin Body /\ h # DataHeader
  BY Bodies, BodyTypes
<1>2. /\ Len(t) = Len(s) + 1 /\ t[Len(s) + 1] = h /\ Len(s) \in Nat
      /\ \A i \in 1..Len(s) : t[i] = s[i]
      /\ t \in Seq(Part)
  BY <1>1, AddOne
<1> HIDE DEF t
<1>3. t # <<>>
  BY <1>2, EmptySeq
<1>4. ASSUME NEW i \in 1..Len(t)
      PROVE  /\ t[i] \in Body \cup {DataHeader, EmptyHeader} \cup Ends
             /\ t[i] \in Body <=> IF i = 1 THEN mid ELSE t[i - 1] = DataHeader
             /\ t[i] = DataHeader => i < Len(t)
             /\ t[i] \in Ends => i = Len(t)
  <2>1. CASE i \in 1..Len(s)
    <3>1. /\ s[i] \in Body \cup {DataHeader, EmptyHeader} \cup Ends
          /\ s[i] \in Body <=> IF i = 1 THEN mid ELSE s[i - 1] = DataHeader
          /\ s[i] = DataHeader => i < Len(s)
          /\ s[i] \in Ends => i = Len(s)
      BY <2>1 DEF Packets
    <3>2. t[i] = s[i] /\ i \in Nat
      BY <1>2, <2>1
    <3>3. i # 1 => t[i - 1] = s[i - 1]
      <4> SUFFICES ASSUME i # 1 PROVE i - 1 \in 1..Len(s)
        BY <1>2
      <4> QED
        BY <1>2, <2>1
    <3>4. s[i] \notin Ends
      <4> SUFFICES ASSUME s[i] \in Ends PROVE FALSE
        OBVIOUS
      <4>1. i = Len(s) /\ Len(s) > 0
        BY <1>2, <2>1, <3>1
      <4>2. s # <<>>
        BY <4>1
      <4> QED
        BY <4>1, <4>2 DEF Over
    <3>5. i < Len(s) => i < Len(t)
      BY <1>2, <2>1
    <3> QED
      BY <3>1, <3>2, <3>3, <3>4, <3>5
  <2>2. CASE i = Len(s) + 1
    <3>1. t[i] = h /\ i = Len(t)
      BY <1>2, <2>2
    <3>2. IF i = 1 THEN ~ mid ELSE t[i - 1] # DataHeader
      <4>1. CASE i = 1
        <5>1. Len(s) = 0
          BY <1>2, <2>2, <4>1
        <5> QED
          BY <4>1, <5>1 DEF Packets
      <4>2. CASE i # 1
        <5>1. i - 1 = Len(s) /\ Len(s) \in 1..Len(s)
          BY <1>2, <2>2, <4>2
        <5>2. s[Len(s)] # DataHeader
          BY <1>2, <5>1 DEF Packets
        <5> QED
          BY <1>2, <4>2, <5>1, <5>2
      <4> QED
        BY <4>1, <4>2
    <3> QED
      BY <1>1, <3>1, <3>2
  <2> QED
    BY <1>2, <2>1, <2>2
<1>5. Packets(t, mid)
  BY <1>3, <1>4 DEF Packets
<1>6. Over(t) <=> h \in Ends
  BY <1>2, <1>3 DEF Over
<1> QED
  BY <1>5, <1>6 DEF t

\* A packet with a body is sent.
LEMMA PacketsPair ==
    ASSUME NEW s \in Seq(Part), NEW mid \in BOOLEAN, Packets(s, mid), ~ Over(s),
           NEW b \in Body
    PROVE  /\ Packets(s \o <<DataHeader, b>>, mid)
           /\ ~ Over(s \o <<DataHeader, b>>)
<1> DEFINE t == s \o <<DataHeader, b>>
<1>1. b \in Part /\ DataHeader \in Part /\ DataHeader \notin Body /\ b # DataHeader /\ b \notin Ends
      /\ DataHeader \notin Ends
  BY Bodies, BodyTypes
<1>2. /\ Len(t) = Len(s) + 2 /\ t[Len(s) + 1] = DataHeader /\ t[Len(s) + 2] = b /\ Len(s) \in Nat
      /\ \A i \in 1..Len(s) : t[i] = s[i]
      /\ t \in Seq(Part)
  BY <1>1, AddTwo
<1> HIDE DEF t
<1>3. t # <<>>
  BY <1>2, EmptySeq
<1>4. ASSUME NEW i \in 1..Len(t)
      PROVE  /\ t[i] \in Body \cup {DataHeader, EmptyHeader} \cup Ends
             /\ t[i] \in Body <=> IF i = 1 THEN mid ELSE t[i - 1] = DataHeader
             /\ t[i] = DataHeader => i < Len(t)
             /\ t[i] \in Ends => i = Len(t)
  <2>1. CASE i \in 1..Len(s)
    <3>1. /\ s[i] \in Body \cup {DataHeader, EmptyHeader} \cup Ends
          /\ s[i] \in Body <=> IF i = 1 THEN mid ELSE s[i - 1] = DataHeader
          /\ s[i] = DataHeader => i < Len(s)
          /\ s[i] \in Ends => i = Len(s)
      BY <2>1 DEF Packets
    <3>2. t[i] = s[i] /\ i \in Nat
      BY <1>2, <2>1
    <3>3. i # 1 => t[i - 1] = s[i - 1]
      <4> SUFFICES ASSUME i # 1 PROVE i - 1 \in 1..Len(s)
        BY <1>2
      <4> QED
        BY <1>2, <2>1
    <3>4. s[i] \notin Ends
      <4> SUFFICES ASSUME s[i] \in Ends PROVE FALSE
        OBVIOUS
      <4>1. i = Len(s) /\ Len(s) > 0
        BY <1>2, <2>1, <3>1
      <4>2. s # <<>>
        BY <4>1
      <4> QED
        BY <4>1, <4>2 DEF Over
    <3>5. i < Len(s) => i < Len(t)
      BY <1>2, <2>1
    <3> QED
      BY <3>1, <3>2, <3>3, <3>4, <3>5
  <2>2. CASE i = Len(s) + 1
    <3>1. t[i] = DataHeader /\ i < Len(t)
      BY <1>2, <2>2
    <3>2. IF i = 1 THEN ~ mid ELSE t[i - 1] # DataHeader
      <4>1. CASE i = 1
        <5>1. Len(s) = 0
          BY <1>2, <2>2, <4>1
        <5> QED
          BY <4>1, <5>1 DEF Packets
      <4>2. CASE i # 1
        <5>1. i - 1 = Len(s) /\ Len(s) \in 1..Len(s)
          BY <1>2, <2>2, <4>2
        <5>2. s[Len(s)] # DataHeader
          BY <1>2, <5>1 DEF Packets
        <5> QED
          BY <1>2, <4>2, <5>1, <5>2
      <4> QED
        BY <4>1, <4>2
    <3> QED
      BY <1>1, <3>1, <3>2
  <2>3. CASE i = Len(s) + 2
    <3>1. t[i] = b /\ i # 1 /\ t[i - 1] = DataHeader
      BY <1>2, <2>3
    <3> QED
      BY <1>1, <3>1
  <2> QED
    BY <1>2, <2>1, <2>2, <2>3
<1>5. Packets(t, mid)
  BY <1>3, <1>4 DEF Packets
<1>6. ~ Over(t)
  BY <1>1, <1>2 DEF Over
<1> QED
  BY <1>5, <1>6 DEF t

-----------------------------------------------------------------------------
(***************************************************************************)
(* Where the two processes can be as long as every command was answered    *)
(* once, in time: from the prompt, with what a put has sent perhaps still  *)
(* to be read, through the command and its answer back to the prompt.      *)
(***************************************************************************)
\* The message of a command.
Asked(c) ==
    CASE c.cmd = "pwd" -> Bare("PWD", "OK")
      [] c.cmd = "cd" -> With("CWD", "OK", Text)
      [] c.cmd = "dir" -> With("LIST", "OK", Text)
      [] c.cmd = "get" -> With("RETR", "OK", Name(c.file))
      [] c.cmd = "put" -> With("STOR", "OK", Name(c.file))

\* With p before the next command, the server comes to wait for that command.
Waiting(r, p) ==
    \/ r.pc = "handler" /\ p = <<>>
    \/ r.pc \in {"recv", "block"} /\ Packets(p, r.pc = "block") /\ Over(p)
\* With s on its way to the client, the server sends what is left of a transfer.
Flow(r, s, mid) ==
    /\ Packets(s, mid)
    /\ \/ r.pc \in {"list", "file"} /\ ~r.first_data /\ ~Over(s)
       \/ r.pc = "handler" /\ Over(s)

Idle == cl.pc = "prompt" /\ down = <<>> /\ Waiting(srv, up)
Unread == /\ cl.pc = "reply" /\ cl.cmd # "none" /\ down = <<>>
          /\ \E p \in Seq(Part) : up = p \o Asked(cl) /\ Waiting(srv, p)
Argued == /\ cl.pc = "reply" /\ cl.cmd \notin {"none", "pwd"} /\ down = <<>>
          /\ srv.pc = "argument" /\ srv.cmd = Asked(cl)[1].type /\ up = <<Asked(cl)[2]>>
AnsweredAtOnce ==
    /\ cl.pc = "reply" /\ up = <<>>
    /\ \/ cl.cmd = "pwd" /\ srv.pc = "handler" /\ down = With("OK", "OK", Text)
       \/ cl.cmd = "cd" /\ srv.pc = "handler" /\ down \in {Bare("OK", "OK"), <<ErrHeader>>}
       \/ cl.cmd = "put" /\ srv.pc = "handler" /\ down = <<ErrHeader>>
       \/ cl.cmd = "put" /\ srv.pc = "recv" /\ down = Bare("OK", "OK_STOR")
       \/ /\ cl.cmd \in {"dir", "get"} /\ srv.pc = "handler"
          /\ down \in {<<LastHeader>>, <<ErrHeader>>}
FlowBegins ==
    /\ cl.pc = "reply" /\ up = <<>> /\ cl.cmd \in {"dir", "get"}
    /\ \/ srv.pc \in {"list", "file"} /\ srv.first_data /\ down = <<>>
       \/ down # <<>> /\ down[1] = RetrHeader /\ Flow(srv, Tail(down), FALSE)
TextSent == cl.pc = "text" /\ up = <<>> /\ down = <<Text>> /\ srv.pc = "handler"
Flowing == /\ cl.pc \in {"data", "block"} /\ cl.cmd \in {"dir", "get"} /\ up = <<>>
           /\ Flow(srv, down, cl.pc = "block")
Putting == /\ cl.pc = "send" /\ down = <<>>
           /\ srv.pc \in {"recv", "block"} /\ Packets(up, srv.pc = "block") /\ ~Over(up)

Serving(r) == /\ r.pc # "exit" /\ ~r.sigterm_flag /\ ~r.astray
              /\ r.pc \notin {"list", "file"} => r.first_data
Phase == \/ Idle \/ Unread \/ Argued \/ AnsweredAtOnce \/ FlowBegins \/ TextSent
         \/ Flowing \/ Putting

\* The client has left; before it ends, the server still reads what a put has sent.
Parting == <<[type |-> "QUIT", code |-> "OK", length |-> 0], FIN>>
Parted == \/ srv.pc = "exit" /\ ~srv.astray
          \/ Serving(srv) /\ \E p \in Seq(Part) : up = p \o Parting /\ Waiting(srv, p)
Sync == orderly => /\ ~cl.astray
                   /\ IF cl.pc = "exit" THEN Parted ELSE Serving(srv) /\ Phase

LEMMA Single ==
    ASSUME NEW r \in Part
    PROVE  <<r>> \in Seq(Part) /\ <<r>> # <<>> /\ <<r>>[1] = r /\ Tail(<<r>>) = <<>>
           /\ Len(<<r>>) = 1
OBVIOUS

LEMMA Double ==
    ASSUME NEW r \in Part, NEW b \in Part
    PROVE  /\ <<r, b>> \in Seq(Part) /\ <<r, b>> # <<>> /\ <<r, b>>[1] = r /\ <<r, b>>[2] = b
           /\ Tail(<<r, b>>) = <<b>> /\ Len(<<r, b>>) = 2
<1>1. Tail(<<r, b>>) = <<b>>
  OBVIOUS
<1>2. /\ <<r, b>> \in Seq(Part) /\ <<r, b>>[1] = r /\ <<r, b>>[2] = b /\ Len(<<r, b>>) = 2
  OBVIOUS
<1>3. <<r, b>> # <<>>
  <2>1. Len(<<>>) = 0
    OBVIOUS
  <2> QED  BY <1>2, <2>1
<1> QED  BY <1>1, <1>2, <1>3

LEMMA FirstOfBoth ==
    ASSUME NEW s \in Seq(Part), s # <<>>, NEW t \in Seq(Part)
    PROVE  /\ s \o t \in Seq(Part) /\ s \o t # <<>> /\ (s \o t)[1] = s[1]
           /\ Tail(s \o t) = Tail(s) \o t
<1>1. Len(s) \in Nat /\ Len(s) > 0 /\ Len(t) \in Nat
  BY TailParts
<1>2. s \o t \in Seq(Part) /\ Len(s \o t) = Len(s) + Len(t) /\ (s \o t)[1] = s[1]
  BY <1>1
<1>3. s \o t # <<>>
  BY <1>1, <1>2, EmptySeq
<1>4. Tail(s \o t) = Tail(s) \o t
  BY <1>1
<1> QED  BY <1>2, <1>3, <1>4

\* The message of a command: a header that names it, and perhaps a body.
LEMMA AskedParts ==
    ASSUME NEW c \in C!Client, c.cmd # "none"
    PROVE  /\ Asked(c) \in Seq(Part) /\ Asked(c) # <<>>
           /\ Asked(c)[1] \in Header /\ Asked(c)[1].code = "OK"
           /\ Asked(c)[1].length = IF c.cmd = "pwd" THEN 0 ELSE 1
           /\ c.cmd = "pwd" => Asked(c)[1].type = "PWD" /\ Tail(Asked(c)) = <<>>
           /\ c.cmd = "cd" => Asked(c)[1].type = "CWD"
           /\ c.cmd = "dir" => Asked(c)[1].type = "LIST"
           /\ c.cmd = "get" => Asked(c)[1].type = "RETR" /\ Asked(c)[2] = Name(c.file)
           /\ c.cmd = "put" => Asked(c)[1].type = "STOR" /\ Asked(c)[2] = Name(c.file)
           /\ c.cmd # "pwd" => Asked(c)[2] \in Body /\ Tail(Asked(c)) = <<Asked(c)[2]>>
           /\ Asked(c)[Len(Asked(c))] # FIN
<1>1. c.cmd \in {"pwd", "cd", "dir", "get", "put"} /\ c.file \in File
  BY DEF C!Client, C!CCmd
<1>2. ASSUME NEW t \in {"CWD", "LIST", "RETR", "STOR"}, NEW b \in Body, Asked(c) = With(t, "OK", b)
      PROVE  /\ Asked(c) \in Seq(Part) /\ Asked(c) # <<>>
             /\ Asked(c)[1] \in Header /\ Asked(c)[1].code = "OK" /\ Asked(c)[1].type = t
             /\ Asked(c)[1].length = 1
             /\ Asked(c)[2] = b /\ Tail(Asked(c)) = <<Asked(c)[2]>>
             /\ Asked(c)[Len(Asked(c))] # FIN
  <2> DEFINE h == [type |-> t, code |-> "OK", length |-> 1]
  <2>1. h \in Header /\ h.code = "OK" /\ h.type = t /\ h.length = 1
    BY DEF Header
  <2>2. Asked(c) = <<h, b>>
    BY <1>2 DEF With
  <2> HIDE DEF h
  <2>3. h \in Part /\ b \in Part /\ b # FIN
    BY <2>1, Bodies, BodyTypes
  <2> QED  BY <2>1, <2>2, <2>3, Double
<1>3. CASE c.cmd = "pwd"
  <2> DEFINE h == [type |-> "PWD", code |-> "OK", length |-> 0]
  <2>1. h \in Header /\ h.code = "OK" /\ h.type = "PWD" /\ h.length = 0
    BY DEF Header
  <2>2. Asked(c) = <<h>>
    BY <1>3 DEF Asked, Bare
  <2> HIDE DEF h
  <2>3. h \in Part /\ h # FIN
    BY <2>1, BodyTypes
  <2> QED  BY <1>3, <2>1, <2>2, <2>3, Single
<1>4. CASE c.cmd = "cd"
  BY <1>2, <1>4, Bodies DEF Asked
<1>5. CASE c.cmd = "dir"
  BY <1>2, <1>5, Bodies DEF Asked
<1>6. CASE c.cmd = "get"
  <2>1. Name(c.file) \in Body /\ Asked(c) = With("RETR", "OK", Name(c.file))
    BY <1>1, <1>6, Bodies DEF Asked
  <2> QED  BY <1>2, <1>6, <2>1
<1>7. CASE c.cmd = "put"
  <2>1. Name(c.file) \in Body /\ Asked(c) = With("STOR", "OK", Name(c.file))
    BY <1>1, <1>7, Bodies DEF Asked
  <2> QED  BY <1>2, <1>7, <2>1
<1> QED  BY <1>1, <1>3, <1>4, <1>5, <1>6, <1>7

\* Neither stream is closed.
Open(s) == ~Closed(s) /\ (s # <<>> => s[1] # FIN)

LEMMA OpenShort ==
    /\ Open(<<>>)
    /\ \A r \in Part \ {FIN} : Open(<<r>>)
    /\ \A r \in Part \ {FIN}, b \in Part \ {FIN} : Open(<<r, b>>)
BY Single, Double DEF Open, Closed

LEMMA OpenBoth ==
    ASSUME NEW s \in Seq(Part), NEW t \in Seq(Part), t # <<>>, t[Len(t)] # FIN,
           s = <<>> => t[1] # FIN, s # <<>> => s[1] # FIN
    PROVE  Open(s \o t)
<1>1. ~Closed(s \o t)
  BY LastOfBoth DEF Closed
<1>2. CASE s = <<>>
  BY <1>1, <1>2 DEF Open
<1>3. CASE s # <<>>
  BY <1>1, <1>3, FirstOfBoth DEF Open
<1> QED  BY <1>2, <1>3

LEMMA WaitingOpen ==
    ASSUME NEW p \in Seq(Part), NEW r, Waiting(r, p) PROVE Open(p)
BY PacketsOpen, OpenShort DEF Waiting, Open

LEMMA PhaseOpen ==
    ASSUME Types, Phase PROVE Open(up) /\ Open(down)
<1>1. up \in Seq(Part) /\ down \in Seq(Part) /\ cl \in C!Client
  BY DEF Types
<1>2. CASE Idle
  BY <1>1, <1>2, WaitingOpen, OpenShort DEF Idle
<1>3. CASE Unread
  <2>1. PICK p \in Seq(Part) : up = p \o Asked(cl) /\ Waiting(srv, p)
    BY <1>3 DEF Unread
  <2>2. Open(p)
    BY <2>1, WaitingOpen
  <2>3. /\ Asked(cl) \in Seq(Part) /\ Asked(cl) # <<>> /\ Asked(cl)[1] # FIN
        /\ Asked(cl)[Len(Asked(cl))] # FIN
    BY <1>1, <1>3, AskedParts, BodyTypes DEF Unread
  <2>4. Open(up)
    BY <2>1, <2>2, <2>3, OpenBoth DEF Open
  <2> QED  BY <1>3, <2>4, OpenShort DEF Unread
<1>4. CASE Argued
  <2>1. Asked(cl)[2] \in Part \ {FIN}
    BY <1>1, <1>4, AskedParts, Bodies DEF Argued
  <2> QED  BY <1>4, <2>1, OpenShort DEF Argued
<1>5. CASE AnsweredAtOnce
  <2>1. /\ Text \in Part \ {FIN} /\ LastHeader \in Part \ {FIN} /\ ErrHeader \in Part \ {FIN}
    BY Bodies, BodyTypes DEF Ends
  <2>2. \A t \in {"OK"}, c \in {"OK", "OK_STOR"}, n \in {0, 1} :
           [type |-> t, code |-> c, length |-> n] \in Part \ {FIN}
    BY BodyTypes DEF Header
  <2>3. Open(With("OK", "OK", Text)) /\ Open(Bare("OK", "OK")) /\ Open(Bare("OK", "OK_STOR"))
    BY <2>1, <2>2, OpenShort DEF With, Bare
  <2>4. Open(<<LastHeader>>) /\ Open(<<ErrHeader>>)
    BY <2>1, OpenShort
  <2> QED  BY <1>5, <2>3, <2>4, OpenShort DEF AnsweredAtOnce
<1>6. CASE FlowBegins
  <2>1. ASSUME down # <<>>, down[1] = RetrHeader, Flow(srv, Tail(down), FALSE)
        PROVE  Open(down)
    <3>1. Tail(down) \in Seq(Part) /\ Len(Tail(down)) = Len(down) - 1 /\ Len(down) \in Nat
          /\ Len(down) > 0 /\ (Tail(down) = <<>> <=> Len(down) = 1)
          /\ \A i \in 1..Len(down) - 1 : Tail(down)[i] = down[i + 1]
      BY <1>1, <2>1, TailParts
    <3>2. RetrHeader # FIN
      BY Bodies, BodyTypes
    <3>3. ~Closed(Tail(down))
      BY <2>1, <3>1, PacketsOpen DEF Flow
    <3>4. CASE Len(down) = 1
      BY <2>1, <3>2, <3>4 DEF Open, Closed
    <3>5. CASE Len(down) # 1
      <4>1. Len(down) - 1 \in 1..Len(down) - 1 /\ (Len(down) - 1) + 1 = Len(down)
        BY <3>1, <3>5
      <4>2. Tail(down)[Len(Tail(down))] = down[Len(down)]
        BY <3>1, <4>1
      <4> QED  BY <2>1, <3>1, <3>2, <3>3, <3>5, <4>2 DEF Open, Closed
    <3> QED  BY <3>4, <3>5
  <2> QED  BY <1>6, <2>1, OpenShort DEF FlowBegins
<1>7. CASE TextSent
  BY <1>7, Bodies, OpenShort DEF TextSent
<1>8. CASE Flowing
  BY <1>1, <1>8, PacketsOpen, OpenShort DEF Flowing, Flow, Open
<1>9. CASE Putting
  BY <1>1, <1>9, PacketsOpen, OpenShort DEF Putting, Open
<1> QED  BY <1>2, <1>3, <1>4, <1>5, <1>6, <1>7, <1>8, <1>9 DEF Phase

\* The steps of the client.
LEMMA AskedIs ==
    \A c : /\ c.cmd = "pwd" => Asked(c) = Bare("PWD", "OK")
           /\ c.cmd = "cd" => Asked(c) = With("CWD", "OK", Text)
           /\ c.cmd = "dir" => Asked(c) = With("LIST", "OK", Text)
           /\ c.cmd = "get" => Asked(c) = With("RETR", "OK", Name(c.file))
           /\ c.cmd = "put" => Asked(c) = With("STOR", "OK", Name(c.file))
BY DEF Asked

LEMMA CommandPhase ==
    ASSUME Types, Types', Phase, srv' = srv, C!Command
    PROVE  Phase' /\ cl'.astray = cl.astray
<1>0. cl \in C!Client /\ cl' \in C!Client /\ up \in Seq(Part)
  BY DEF Types
<1>1. ASSUME NEW cmd \in {"pwd", "cd", "dir", "get", "put"}, NEW f \in File, NEW msg,
             C!exec_command(cmd, f, msg),
             \A c : c.cmd = cmd /\ c.file = f => msg = Asked(c)
      PROVE  Phase' /\ cl'.astray = cl.astray
  <2>2. /\ cl.pc = "prompt" /\ up' = Sent(up, msg, C!Gone) /\ down' = down
        /\ cl' = [cl EXCEPT !.pc = "reply", !.cmd = cmd, !.file = f, !.pos = 0,
                            !.watched = FALSE, !.count = @ + 1]
    BY <1>1, ClientParts DEF C!exec_command
  <2>3. cl'.pc = "reply" /\ cl'.cmd = cmd /\ cl'.file = f /\ cl'.astray = cl.astray
    BY <1>0, <2>2 DEF C!Client
  <2>4. Idle
    BY <2>2 DEF Phase, Unread, Argued, AnsweredAtOnce, FlowBegins, TextSent, Flowing, Putting
  <2>5. ~ C!Gone
    BY <2>4, ClientParts DEF Idle, C!Gone, Closed
  <2>6. up' = up \o Asked(cl')
    BY <1>1, <2>2, <2>3, <2>5 DEF Sent
  <2>7. Unread'
    BY <1>0, <1>1, <2>2, <2>3, <2>4, <2>6 DEF Idle, Unread
  <2> QED  BY <2>3, <2>7 DEF Phase
<1>2. CASE C!pwd
  BY <1>1, <1>2, AnyFileIs, ClientParts, AskedIs DEF C!pwd
<1>3. CASE C!cd
  BY <1>1, <1>3, AnyFileIs, ClientParts, AskedIs DEF C!cd
<1>4. CASE C!dir
  BY <1>1, <1>4, AnyFileIs, ClientParts, AskedIs DEF C!dir
<1>5. ASSUME NEW f \in File, C!ftpget(f) PROVE Phase' /\ cl'.astray = cl.astray
  BY <1>1, <1>5, ClientParts, AskedIs DEF C!ftpget
<1>6. ASSUME NEW f \in File, C!ftpput(f) PROVE Phase' /\ cl'.astray = cl.astray
  BY <1>1, <1>6, ClientParts, AskedIs DEF C!ftpput
<1> QED  BY <1>2, <1>3, <1>4, <1>5, <1>6, ClientParts DEF C!Command

\* What the client takes of a transfer.
LEMMA FlowTail ==
    ASSUME NEW r, NEW s \in Seq(Part), s # <<>>, NEW mid \in BOOLEAN, Flow(r, s, mid)
    PROVE  /\ s[1] \in Body <=> mid
           /\ ~ mid => s[1] \in {DataHeader, EmptyHeader} \cup Ends
           /\ s[1] \in Ends => r.pc = "handler" /\ Tail(s) = <<>>
           /\ s[1] \notin Ends => Flow(r, Tail(s), s[1] = DataHeader)
<1>1. Packets(s, mid)
  BY DEF Flow
<1>2. /\ s[1] \in Body <=> mid
      /\ ~ mid => s[1] \in {DataHeader, EmptyHeader} \cup Ends
      /\ Packets(Tail(s), s[1] = DataHeader)
      /\ s[1] \in Ends => Tail(s) = <<>>
      /\ s[1] \notin Ends => (Over(Tail(s)) <=> Over(s))
  BY <1>1, PacketsTail
<1>3. s[1] \in Ends => Over(s)
  BY <1>2, TailParts DEF Over
<1> QED  BY <1>2, <1>3 DEF Flow

\* Where the client takes a header, it finds one.
LEMMA AnswerFound ==
    ASSUME Types, Phase, cl.pc \in {"reply", "data"}, down # <<>> PROVE down[1] \in Header
<1>1. down \in Seq(Part)
  BY DEF Types
<1>2. CASE AnsweredAtOnce
  <2>1. \A t \in {"OK"}, c \in {"OK", "OK_STOR"} :
           Bare(t, c)[1] \in Header /\ With(t, c, Text)[1] \in Header
    BY DEF Bare, With, Header
  <2>2. LastHeader \in Header /\ ErrHeader \in Header
    BY Bodies DEF Ends
  <2>3. <<LastHeader>>[1] = LastHeader /\ <<ErrHeader>>[1] = ErrHeader
    OBVIOUS
  <2> QED  BY <1>2, <2>1, <2>2, <2>3 DEF AnsweredAtOnce
<1>3. CASE FlowBegins
  BY <1>3, Bodies DEF FlowBegins
<1>4. CASE Flowing
  <2>1. Flow(srv, down, FALSE)
    BY <1>4 DEF Flowing, Phase, Idle, Unread, Argued, AnsweredAtOnce, FlowBegins, TextSent, Putting
  <2>2. down[1] \in {DataHeader, EmptyHeader} \cup Ends
    BY <1>1, <2>1, FlowTail
  <2> QED  BY <2>2, Bodies
<1> QED  BY <1>2, <1>3, <1>4 DEF Phase, Idle, Unread, Argued, TextSent, Putting

\* What the client does with a header, a text or a block.
LEMMA ReplyIs ==
    ASSUME Types, Phase, ~cl.astray, C!Reply
    PROVE  LET place == C!AfterReply(down[1])
           IN  /\ cl.pc = "reply" /\ down # <<>> /\ down' = Tail(down) /\ up' = up /\ here' = here
               /\ cl'.pc = place /\ ~cl'.astray
               /\ place # "prompt" => /\ cl'.cmd = cl.cmd /\ cl'.file = cl.file
                                      /\ cl'.pos = cl.pos
               /\ place = "prompt" => cl'.cmd = "none"
               /\ place = "send" => cl'.size = here[cl.file]
<1> DEFINE place == C!AfterReply(down[1])
           n == IF place = "send" THEN here[cl.file] ELSE 0
           c == [cl EXCEPT !.astray = C!Astray, !.size = n]
<1>1. /\ cl.pc = "reply" /\ down # <<>> /\ up' = up /\ here' = here
      /\ C!TakesHeader("reply") /\ cl \in C!Client /\ down \in Seq(Part)
  BY ClientReads DEF C!Reply, Types
<1>2. ~C!Astray
  BY <1>1, AnswerFound, ClientParts DEF C!Astray
<1>3. down' = Tail(down)
  BY <1>1, <1>2, ClientReads
<1>4. C!Becomes(c, place)
  BY <1>2 DEF C!Reply
<1>5. n \in Nat /\ place \in C!CPlace
  BY <1>1 DEF Types, C!Client, C!AfterReply, C!CPlace
<1> HIDE DEF n, place
<1>6. /\ c \in C!Client /\ c.astray = C!Astray /\ c.size = n /\ c.cmd = cl.cmd
      /\ c.file = cl.file /\ c.pos = cl.pos
  <2>1. C!Astray \in BOOLEAN
    BY <1>1 DEF C!Astray, C!Client
  <2> QED  BY <1>1, <1>5, <2>1 DEF C!Client
<1> HIDE DEF c
<1>7. /\ cl'.pc = place /\ cl'.astray = c.astray /\ (place = "prompt" => cl'.cmd = "none")
      /\ place # "prompt" => /\ cl'.cmd = c.cmd /\ cl'.file = c.file
                             /\ cl'.pos = c.pos /\ cl'.size = c.size
  BY <1>4, <1>5, <1>6, ClientBecomes
<1>8. place = "send" => n = here[cl.file]
  BY DEF n
<1> QED  BY <1>1, <1>2, <1>3, <1>6, <1>7, <1>8 DEF place

LEMMA DataIs ==
    ASSUME Types, Phase, ~cl.astray, C!RecvData
    PROVE  LET place == C!AfterData(down[1])
           IN  /\ cl.pc = "data" /\ down # <<>> /\ down' = Tail(down) /\ up' = up /\ here' = here
               /\ cl'.pc = place /\ ~cl'.astray
               /\ place # "prompt" => cl'.cmd = cl.cmd /\ cl'.file = cl.file
               /\ place = "prompt" => cl'.cmd = "none"
<1> DEFINE place == C!AfterData(down[1])
           c == [cl EXCEPT !.astray = C!Astray]
<1>1. /\ cl.pc = "data" /\ down # <<>> /\ up' = up /\ here' = here
      /\ C!TakesHeader("data") /\ cl \in C!Client
  BY ClientReads DEF C!RecvData, Types
<1>2. ~C!Astray
  BY <1>1, AnswerFound, ClientParts DEF C!Astray
<1>3. down' = Tail(down)
  BY <1>1, <1>2, ClientReads
<1>4. C!Becomes(c, place)
  BY <1>2 DEF C!RecvData, C!Reads
<1>5. place \in C!CPlace
  BY DEF C!AfterData, C!CPlace
<1> HIDE DEF place
<1>6. c \in C!Client /\ c.astray = C!Astray /\ c.cmd = cl.cmd /\ c.file = cl.file
  <2>1. C!Astray \in BOOLEAN
    BY <1>1 DEF C!Astray, C!Client
  <2> QED  BY <1>1, <2>1 DEF C!Client
<1> HIDE DEF c
<1>7. /\ cl'.pc = place /\ cl'.astray = c.astray /\ (place = "prompt" => cl'.cmd = "none")
      /\ place # "prompt" => cl'.cmd = c.cmd /\ cl'.file = c.file
  BY <1>4, <1>5, <1>6, ClientBecomes
<1> QED  BY <1>1, <1>2, <1>3, <1>6, <1>7 DEF place

LEMMA BodyIs ==
    ASSUME Types, ~cl.astray, NEW place, NEW place2 \in {"prompt", "data"}, C!TakesBody(place),
           C!At(place2)
    PROVE  /\ cl.pc = place /\ down # <<>> /\ down' = Tail(down) /\ up' = up /\ here' = here
           /\ cl'.pc = place2 /\ ~cl'.astray
           /\ place2 # "prompt" => cl'.cmd = cl.cmd /\ cl'.file = cl.file
BY ClientReads, ClientAt DEF Types, C!CPlace

LEMMA ReplyPhase ==
    ASSUME Types, Types', Phase, Serving(srv), srv' = srv, ~cl.astray, C!Reply
    PROVE  Phase' /\ ~cl'.astray
<1> DEFINE place == C!AfterReply(down[1])
<1>1. /\ cl \in C!Client /\ down # <<>> /\ down' = Tail(down) /\ up' = up
      /\ cl.pc = "reply" /\ ~cl'.astray
  BY ReplyIs DEF Types
<1>2. /\ cl'.pc = place
      /\ place # "prompt" => cl'.cmd = cl.cmd
  BY ReplyIs
<1>3. \A part : \A t, c : C!Is(part, t, c) <=> part.type = t /\ part.code = c
  BY DEF C!Is
<1> SUFFICES Phase'
  BY <1>1
<1>4. CASE AnsweredAtOnce
  <2>0. up = <<>>
    BY <1>4 DEF AnsweredAtOnce
  <2>1. CASE srv.pc = "handler" /\ down' = <<>> /\ place = "prompt"
    BY <1>1, <1>2, <2>0, <2>1 DEF Idle, Waiting, Phase
  <2>2. \A h \in Header : down = <<h>> => down[1] = h /\ down' = <<>>
    BY <1>1, Single, BodyTypes
  <2>3. LastHeader \in Header /\ ErrHeader \in Header
    BY Bodies DEF Ends
  <2>4. CASE down = <<ErrHeader>> \/ down = <<LastHeader>>
    <3>1. down' = <<>> /\ down[1] \in {ErrHeader, LastHeader}
      BY <2>2, <2>3, <2>4
    <3>2. down[1].type # "OK"
      BY <3>1 DEF ErrHeader, LastHeader
    <3>3. \A c : Bare("OK", c)[1].type = "OK" /\ With("OK", c, Text)[1].type = "OK"
      BY DEF Bare, With
    <3>4. srv.pc = "handler"
      BY <1>4, <3>2, <3>3 DEF AnsweredAtOnce
    <3>5. place = "prompt"
      BY <1>3, <3>2 DEF C!AfterReply
    <3> QED  BY <2>1, <3>1, <3>4, <3>5
  <2>5. CASE cl.cmd = "pwd" /\ srv.pc = "handler" /\ down = With("OK", "OK", Text)
    <3> DEFINE h == [type |-> "OK", code |-> "OK", length |-> 1]
    <3>1. h \in Header /\ down = <<h, Text>>
      BY <2>5 DEF With, Header
    <3>2. h.type = "OK" /\ h.code = "OK" /\ h.length = 1
      OBVIOUS
    <3> HIDE DEF h
    <3>3. down[1] = h /\ down' = <<Text>>
      BY <1>1, <3>1, Double, BodyTypes
    <3>4. place = "text"
      BY <1>3, <2>5, <3>1, <3>2, <3>3 DEF C!AfterReply
    <3>5. TextSent'
      BY <1>1, <1>2, <2>0, <2>5, <3>3, <3>4 DEF TextSent
    <3> QED  BY <3>5 DEF Phase
  <2>6. CASE cl.cmd = "cd" /\ srv.pc = "handler" /\ down = Bare("OK", "OK")
    <3> DEFINE h == [type |-> "OK", code |-> "OK", length |-> 0]
    <3>1. h \in Header /\ down = <<h>>
      BY <2>6 DEF Bare, Header
    <3> HIDE DEF h
    <3>2. place = "prompt"
      BY <2>6 DEF C!AfterReply
    <3> QED  BY <2>1, <2>2, <2>6, <3>1, <3>2
  <2>7. CASE cl.cmd = "put" /\ srv.pc = "recv" /\ down = Bare("OK", "OK_STOR")
    <3> DEFINE h == [type |-> "OK", code |-> "OK_STOR", length |-> 0]
    <3>1. h \in Header /\ down = <<h>>
      BY <2>7 DEF Bare, Header
    <3>2. h.type = "OK" /\ h.code = "OK_STOR"
      OBVIOUS
    <3> HIDE DEF h
    <3>3. down[1] = h /\ down' = <<>>
      BY <2>2, <3>1
    <3>4. place = "send"
      BY <1>3, <2>7, <3>1, <3>2, <3>3 DEF C!AfterReply
    <3>5. Putting'
      BY <1>1, <1>2, <2>0, <2>7, <3>3, <3>4, NoPackets DEF Putting
    <3> QED  BY <3>5 DEF Phase
  <2> QED  BY <1>4, <2>4, <2>5, <2>6, <2>7 DEF AnsweredAtOnce
<1>5. CASE FlowBegins
  <2>1. /\ down[1] = RetrHeader /\ Flow(srv, down', FALSE) /\ up' = <<>>
        /\ cl.cmd \in {"dir", "get"}
    BY <1>1, <1>5 DEF FlowBegins
  <2>2. place = "data"
    BY <1>3, <2>1, Bodies DEF C!AfterReply, RetrHeader
  <2>3. Flowing'
    BY <1>2, <2>1, <2>2 DEF Flowing
  <2> QED  BY <2>3 DEF Phase
<1>6. AnsweredAtOnce \/ FlowBegins
  BY <1>1 DEF Phase, Idle, Unread, Argued, TextSent, Flowing, Putting
<1> QED  BY <1>4, <1>5, <1>6

LEMMA TextPhase ==
    ASSUME Types, Types', Phase, srv' = srv, ~cl.astray, C!RecvText
    PROVE  Phase' /\ ~cl'.astray
<1>1. /\ cl \in C!Client /\ down' = Tail(down) /\ up' = up
      /\ cl.pc = "text" /\ cl'.pc = "prompt" /\ ~cl'.astray
  BY BodyIs DEF Types, C!RecvText, C!Return
<1>2. TextSent
  BY <1>1 DEF Phase, Idle, Unread, Argued, AnsweredAtOnce, FlowBegins, Flowing, Putting
<1>3. down' = <<>>
  BY <1>1, <1>2, Single, BodyTypes DEF TextSent
<1>4. Idle'
  BY <1>1, <1>2, <1>3 DEF TextSent, Idle, Waiting
<1> QED  BY <1>1, <1>4 DEF Phase

LEMMA DataPhase ==
    ASSUME Types, Types', Phase, srv' = srv, ~cl.astray, C!RecvData
    PROVE  Phase' /\ ~cl'.astray
<1> DEFINE place == C!AfterData(down[1])
<1>1. /\ cl \in C!Client /\ down # <<>> /\ down' = Tail(down) /\ up' = up
      /\ cl.pc = "data" /\ ~cl'.astray /\ down \in Seq(Part)
  BY DataIs DEF Types
<1>2. /\ cl'.pc = place
      /\ place # "prompt" => cl'.cmd = cl.cmd
  BY DataIs
<1> SUFFICES Phase'
  BY <1>1
<1>3. Flowing
  BY <1>1 DEF Phase, Idle, Unread, Argued, AnsweredAtOnce, FlowBegins, TextSent, Putting
<1>4. Flow(srv, down, FALSE) /\ up = <<>> /\ cl.cmd \in {"dir", "get"}
  BY <1>1, <1>3 DEF Flowing
<1>5. /\ down[1] \in {DataHeader, EmptyHeader} \cup Ends
      /\ down[1] \in Ends => srv.pc = "handler" /\ down' = <<>>
      /\ down[1] \notin Ends => Flow(srv, down', down[1] = DataHeader)
  BY <1>1, <1>4, FlowTail
<1>6. CASE down[1] \in Ends
  <2>1. place = "prompt"
    BY <1>6, Bodies, ClientParts DEF C!AfterData, Ends, LastHeader, ErrHeader
  <2>2. Idle'
    BY <1>1, <1>2, <1>4, <1>5, <1>6, <2>1 DEF Idle, Waiting
  <2> QED  BY <2>2 DEF Phase
<1>7. CASE down[1] \in {DataHeader, EmptyHeader}
  <2>1. place = IF down[1] = DataHeader THEN "block" ELSE "data"
    BY <1>7, Bodies, ClientParts DEF C!AfterData, DataHeader, EmptyHeader
  <2>2. down[1] \notin Ends
    BY <1>7, Bodies
  <2>3. cl'.pc \in {"data", "block"} /\ (cl'.pc = "block" <=> down[1] = DataHeader)
    BY <1>2, <2>1
  <2>4. Flow(srv', down', cl'.pc = "block")
    <3>1. (cl'.pc = "block") = (down[1] = DataHeader)
      BY <2>3
    <3> QED  BY <1>5, <2>2, <3>1
  <2>5. Flowing'
    BY <1>1, <1>2, <1>4, <2>1, <2>3, <2>4 DEF Flowing
  <2> QED  BY <2>5 DEF Phase
<1> QED  BY <1>5, <1>6, <1>7

LEMMA BlockPhase ==
    ASSUME Types, Types', Phase, srv' = srv, ~cl.astray, C!RecvBlock
    PROVE  Phase' /\ ~cl'.astray
<1>0. C!TakesBody("block") /\ C!At("data")
  BY DEF C!RecvBlock, C!AfterBlock
<1>1. /\ cl \in C!Client /\ down # <<>> /\ down' = Tail(down) /\ up' = up
      /\ cl.pc = "block" /\ ~cl'.astray /\ down \in Seq(Part)
  BY <1>0, BodyIs DEF Types
<1>2. cl'.pc = "data" /\ cl'.cmd = cl.cmd
  BY <1>0, BodyIs
<1> SUFFICES Phase'
  BY <1>1
<1>3. Flowing
  BY <1>1 DEF Phase, Idle, Unread, Argued, AnsweredAtOnce, FlowBegins, TextSent, Putting
<1>4. Flow(srv, down, TRUE) /\ up = <<>> /\ cl.cmd \in {"dir", "get"}
  BY <1>1, <1>3 DEF Flowing
<1>5. down[1] \in Body /\ (down[1] \notin Ends => Flow(srv, down', down[1] = DataHeader))
  BY <1>1, <1>4, FlowTail
<1>6. down[1] \notin Ends /\ down[1] # DataHeader
  BY <1>5, Bodies
<1>7. Flow(srv', down', cl'.pc = "block")
  <2>1. (cl'.pc = "block") = (down[1] = DataHeader)
    BY <1>2, <1>6
  <2> QED  BY <1>5, <1>6, <2>1
<1>8. Flowing'
  BY <1>1, <1>2, <1>4, <1>7 DEF Flowing
<1> QED  BY <1>8 DEF Phase

LEMMA TransmitPhase ==
    ASSUME Types, Types', Phase, srv' = srv, C!Transmit
    PROVE  Phase' /\ cl'.astray = cl.astray
<1>1. /\ cl \in C!Client /\ up \in Seq(Part) /\ cl.pc = "send" /\ down' = down
  BY DEF Types, C!Transmit, C!send_file, C!SendLast
<1>2. Putting
  BY <1>1 DEF Phase, Idle, Unread, Argued, AnsweredAtOnce, FlowBegins, TextSent, Flowing
<1>3. ~ C!Gone
  BY <1>2, ClientParts DEF Putting, C!Gone, Closed
<1>4. CASE C!send_file
  <2>1. up' = up \o C!packet /\ cl' \in {cl, [cl EXCEPT !.pos = @ + 1]}
    BY <1>3, <1>4, ClientParts DEF C!send_file, Sent
  <2>2. cl'.pc = "send" /\ cl'.astray = cl.astray
    BY <1>1, <2>1 DEF C!Client
  <2>3. Packets(up', srv.pc = "block") /\ ~Over(up')
    <3>1. CASE cl.pos < here[cl.file]
      <4> DEFINE b == Block(cl.file, cl.pos + 1)
      <4>1. b \in Body
        <5>1. /\ cl.pos \in Nat /\ cl.file \in File /\ here[cl.file] \in Nat
              /\ Size[cl.file] \in Nat /\ here[cl.file] <= Size[cl.file]
          BY <1>1, SizeType DEF Types, C!Client
        <5>2. cl.pos + 1 \in 1..Size[cl.file]
          BY <3>1, <5>1
        <5> QED  BY <5>1, <5>2, Bodies
      <4>2. C!packet = <<DataHeader, b>>
        BY <3>1, ClientParts DEF C!packet, With, DataHeader
      <4> HIDE DEF b
      <4> QED  BY <1>1, <1>2, <2>1, <4>1, <4>2, PacketsPair DEF Putting
    <3>2. CASE ~(cl.pos < here[cl.file])
      <4>1. C!packet = <<EmptyHeader>> /\ EmptyHeader \notin Ends
        BY <3>2, ClientParts, Bodies DEF C!packet, Bare, EmptyHeader
      <4> QED  BY <1>1, <1>2, <2>1, <4>1, PacketsOne DEF Putting
    <3> QED  BY <3>1, <3>2
  <2>4. Putting'
    BY <1>1, <1>2, <2>2, <2>3 DEF Putting
  <2> QED  BY <2>2, <2>4 DEF Phase
<1>5. CASE C!SendLast
  <2>1. up' = up \o <<LastHeader>> /\ C!At("prompt")
    BY <1>3, <1>5, ClientParts DEF C!SendLast, C!Return, Sent, Bare, LastHeader
  <2>2. Packets(up', srv.pc = "block") /\ Over(up')
    BY <1>1, <1>2, <2>1, PacketsOne DEF Putting, Ends
  <2>3. cl'.pc = "prompt" /\ cl'.astray = cl.astray
    BY <1>1, <2>1, ClientAt DEF C!CPlace
  <2>4. Idle'
    BY <1>1, <1>2, <2>2, <2>3 DEF Putting, Idle, Waiting
  <2> QED  BY <2>3, <2>4 DEF Phase
<1> QED  BY <1>4, <1>5 DEF C!Transmit

\* Every step of a client that goes on, if nothing is late; and its end.
LEMMA ClientPhase ==
    ASSUME Types, Types', Phase, Serving(srv), ~cl.astray, cl.pc # "exit", Client
    PROVE  /\ ~cl'.astray
           /\ IF cl'.pc = "exit" THEN Parted' ELSE Serving(srv)' /\ Phase'
<1>1. srv' = srv /\ cl \in C!Client
  BY DEF Client, Types
<1>2. Open(up) /\ Open(down)
  BY PhaseOpen
<1>3. ~ C!AtEnd /\ ~ C!Gone
  BY <1>2, ClientParts DEF C!AtEnd, C!Gone, Open
<1>4. ~ C!More
  <2>1. C!TakesHeader("reply") \/ C!TakesHeader("data") => ~C!Astray
    BY ClientReads, AnswerFound, ClientParts DEF C!Astray
  <2> QED  BY <2>1 DEF C!More
<1>5. CASE C!quit
  <2> DEFINE h == [type |-> "QUIT", code |-> "OK", length |-> 0]
  <2>1. cl'.pc = "exit" /\ cl'.astray = cl.astray /\ cl.pc = "prompt"
    BY <1>1, <1>5, ClientAt DEF C!quit, C!CPlace
  <2>2. up' = Append(up \o <<h>>, FIN)
    BY <1>3, <1>5, ClientParts DEF C!quit, Sent, Bare
  <2>3. h \in Part /\ FIN \in Part /\ up \in Seq(Part)
    BY BodyTypes DEF Types, Header
  <2> HIDE DEF h
  <2>4. Append(up \o <<h>>, FIN) = up \o <<h, FIN>>
    BY <2>3
  <2>5. up' = up \o Parting
    BY <2>2, <2>4 DEF Parting, h
  <2>6. Idle
    BY <2>1 DEF Phase, Unread, Argued, AnsweredAtOnce, FlowBegins, TextSent, Flowing, Putting
  <2>7. Serving(srv') /\ Waiting(srv', up)
    BY <1>1, <2>6 DEF Idle
  <2>8. Parted'
    BY <2>3, <2>5, <2>7 DEF Parted
  <2> QED  BY <2>1, <2>8
<1>6. CASE ~C!quit
  <2>1. C!Command \/ C!Reply \/ C!RecvText \/ C!RecvData \/ C!RecvBlock \/ C!Transmit
    BY <1>3, <1>4, <1>6 DEF Client, C!Receive, C!RecvEnd, C!Hangup, C!Sigpipe
  <2>2. Phase' /\ ~cl'.astray
    BY <1>1, <2>1, CommandPhase, ReplyPhase, TextPhase, DataPhase, BlockPhase, TransmitPhase
  <2>3. cl'.pc # "exit"
    BY <2>2 DEF Phase, Idle, Unread, Argued, AnsweredAtOnce, FlowBegins, TextSent, Flowing,
       Putting
  <2> QED  BY <1>1, <2>2, <2>3
<1> QED  BY <1>5, <1>6

\* The steps of the server.
LEMMA ServerSends ==
    ASSUME Types, Phase, NEW msg \in Seq(Part), NEW r, ~r.astray, S!Send(msg, r)
    PROVE  srv' = r /\ down' = down \o msg /\ (down = <<>> => down' = msg)
<1>1. ~ S!Gone
  BY PhaseOpen, ServerParts DEF S!Gone, Open
<1>2. srv' = r /\ down' = down \o msg
  BY <1>1, ServerParts DEF S!Send, S!Becomes, Sent
<1> QED  BY <1>2, ConcatEmptySeq

LEMMA HandlerServing ==
    ASSUME srv \in S!Session, Serving(srv)
    PROVE  LET r == S!Reset(S!Handler(srv)) IN r.pc = "handler" /\ Serving(r)
BY DEF S!Reset, S!Handler, S!Session, Serving

\* In its loop it finds the message of the command that the client waits for.
LEMMA CommandFound ==
    ASSUME Types, Phase, srv.pc = "handler", up # <<>>
    PROVE  /\ cl \in C!Client /\ cl.pc = "reply" /\ cl.cmd # "none" /\ down = <<>>
           /\ up = Asked(cl)
<1>1. Unread
  BY DEF Phase, Idle, Waiting, Argued, AnsweredAtOnce, FlowBegins, TextSent, Flowing, Putting
<1>2. cl \in C!Client
  BY DEF Types
<1>3. PICK p \in Seq(Part) : up = p \o Asked(cl) /\ p = <<>>
  BY <1>1 DEF Unread, Waiting
<1>4. Asked(cl) \in Seq(Part)
  BY <1>1, <1>2, AskedParts DEF Unread
<1> QED  BY <1>1, <1>2, <1>3, <1>4, ConcatEmptySeq DEF Unread

\* Where the server takes a header, it finds one.
LEMMA MessageFound ==
    ASSUME Types, Phase, srv.pc \in {"handler", "recv"}, up # <<>> PROVE up[1] \in Header
<1>1. CASE srv.pc = "handler"
  BY <1>1, CommandFound, AskedParts
<1>2. CASE srv.pc = "recv"
  <2>1. cl \in C!Client /\ up \in Seq(Part)
    BY DEF Types
  <2>2. {DataHeader, EmptyHeader} \cup Ends \subseteq Header
    BY Bodies
  <2>3. ASSUME NEW p \in Seq(Part), p # <<>>, Packets(p, FALSE) PROVE p[1] \in Header
    BY <2>2, <2>3, PacketsTail
  <2>4. CASE Idle
    BY <1>2, <2>1, <2>3, <2>4 DEF Idle, Waiting
  <2>5. CASE Unread
    <3>1. PICK p \in Seq(Part) : up = p \o Asked(cl) /\ Waiting(srv, p)
      BY <2>5 DEF Unread
    <3>2. p # <<>> /\ Packets(p, FALSE)
      BY <1>2, <3>1 DEF Waiting, Over
    <3>3. up[1] = p[1]
      BY <2>1, <2>5, <3>1, <3>2, AskedParts, FirstOfBoth DEF Unread
    <3> QED  BY <2>3, <3>2, <3>3
  <2>6. CASE Putting
    BY <1>2, <2>1, <2>3, <2>6 DEF Putting
  <2> QED  BY <1>2, <2>4, <2>5, <2>6 DEF Phase, Argued, AnsweredAtOnce, FlowBegins, Flow, TextSent,
              Flowing
<1> QED  BY <1>1, <1>2

LEMMA NotAstray ==
    ASSUME Types, ~srv.astray, S!Step,
           srv.pc \in {"handler", "recv"} /\ up # <<>> => up[1] \in Header
    PROVE  ~srv'.astray
<1>1. CASE HeaderStep
  <2>1. PICK place \in {"handler", "recv"} : S!TakesHeader(place)
    BY <1>1, HeaderSteps
  <2>2. ~S!Astray
    BY <2>1, ServerReads, ServerParts DEF S!Astray
  <2> QED  BY <1>1, <2>2, HeaderSteps
<1>2. CASE ~HeaderStep
  BY <1>2, OtherSteps
<1> QED  BY <1>1, <1>2

LEMMA HandlerPhase ==
    ASSUME Types, Phase, Serving(srv), cl' = cl, ~srv'.astray,
           S!quit \/ S!pwd \/ S!HasArgument \/ S!HasNoArgument \/ S!Undefined
    PROVE  Serving(srv)' /\ Phase'
<1>1. srv.pc = "handler" /\ S!TakesHeader("handler") /\ srv \in S!Session
  BY DEF S!quit, S!pwd, S!HasArgument, S!HasNoArgument, S!Undefined, S!Handle, S!TakesHeader,
     Types
<1>2. up # <<>> /\ up' = Tail(up) /\ ~S!Astray /\ S!Reader = srv
  BY Aligned DEF HeaderStep, S!Step, S!Regular
<1>3. /\ cl \in C!Client /\ cl.pc = "reply" /\ cl.cmd # "none" /\ down = <<>>
      /\ up = Asked(cl)
  BY <1>1, <1>2, CommandFound
<1>4. cl.cmd \in {"pwd", "cd", "dir", "get", "put"}
  BY <1>3 DEF C!Client, C!CCmd
<1>5. /\ up[1] \in Header /\ up[1].code = "OK"
      /\ up[1].type \in {"PWD", "CWD", "LIST", "RETR", "STOR"}
      /\ cl.cmd = "pwd" <=> up[1].type = "PWD"
      /\ up[1].length = IF cl.cmd = "pwd" THEN 0 ELSE 1
  BY <1>3, <1>4, AskedParts
<1>6. ~ S!quit /\ ~ S!HasNoArgument /\ ~ S!Undefined
  <2>1. \A type, n : S!Handle(type, n) => up[1].type = type /\ up[1].length = n
    BY <1>2 DEF S!Handle
  <2>4. \A type : /\ S!Handle(type, 0) => type = "PWD"
                  /\ S!Handle(type, 1) => type # "QUIT"
    BY <1>5, <2>1
  <2>5. ~ S!quit
    BY <2>4 DEF S!quit
  <2>2. ~ S!quit /\ ~ S!HasNoArgument
    BY <2>4, <2>5 DEF S!HasNoArgument
  <2>3. up[1] \in S!Commands
    BY <1>5 DEF Header, S!Commands
  <2> QED  BY <1>2, <2>2, <2>3 DEF S!Undefined
<1>7. CASE S!pwd
  <2> DEFINE m == With("OK", "OK", Text)
  <2>1. S!Send(m, S!Reset(srv)) /\ up[1].type = "PWD"
    BY <1>2, <1>7, ServerParts DEF S!pwd, S!Handle
  <2>0. ~S!Reset(srv).astray
    BY <1>1, SessionTypes DEF Serving
  <2>2. m \in Seq(Part)
    BY BareType, BodyTypes
  <2> HIDE DEF m
  <2>3. srv' = S!Reset(srv) /\ down' = m
    BY <1>3, <2>0, <2>1, <2>2, ServerSends
  <2>4. cl.cmd = "pwd" /\ up' = <<>>
    BY <1>2, <1>3, <1>5, <2>1, AskedParts
  <2>5. srv'.pc = "handler" /\ Serving(srv')
    BY <1>1, <2>3 DEF S!Reset, S!Session, Serving
  <2>6. AnsweredAtOnce'
    BY <1>3, <2>3, <2>4, <2>5 DEF AnsweredAtOnce, m
  <2> QED  BY <2>5, <2>6 DEF Phase
<1>8. CASE S!HasArgument
  <2>0. PICK type \in S!SCmd \ {"none"} :
           S!Handle(type, 1) /\ srv' = [srv EXCEPT !.pc = "argument", !.cmd = type]
    BY <1>2, <1>8 DEF S!HasArgument, S!Becomes
  <2>4. up[1].type = type /\ type # "PWD"
    BY <1>2, <2>0 DEF S!Handle, S!SCmd
  <2>1. /\ srv' = [srv EXCEPT !.pc = "argument", !.cmd = up[1].type] /\ down' = down
        /\ up[1].type # "PWD"
    BY <1>8, <2>0, <2>4 DEF S!HasArgument
  <2>2. cl.cmd # "pwd" /\ up' = <<Asked(cl)[2]>>
    BY <1>2, <1>3, <1>5, <2>1, AskedParts
  <2>3. srv'.pc = "argument" /\ srv'.cmd = up[1].type /\ Serving(srv')
    BY <1>1, <2>1 DEF S!Session, Serving
  <2>5. Argued'
    BY <1>3, <2>1, <2>2, <2>3 DEF Argued
  <2> QED  BY <2>3, <2>5 DEF Phase
<1> QED  BY <1>6, <1>7, <1>8

LEMMA ArgumentPhase ==
    ASSUME Types, Phase, Serving(srv), cl' = cl,
           S!cd \/ S!dir \/ S!ftpget \/ S!GetRefused \/ S!ftpput \/ S!PutRefused
    PROVE  Serving(srv)' /\ Phase'
<1>1. srv.pc = "argument" /\ S!TakesBody("argument") /\ srv \in S!Session /\ ~srv.astray
  BY DEF S!cd, S!dir, S!ftpget, S!GetRefused, S!ftpput, S!PutRefused, S!Argument, S!TakesBody,
     Types, Serving
<1>2. up # <<>> /\ up' = Tail(up)
  BY <1>1, ServerReads
<1>3. Argued
  BY <1>1 DEF Phase, Idle, Waiting, Unread, AnsweredAtOnce, FlowBegins, TextSent, Flowing, Flow,
     Putting
<1>4. /\ cl \in C!Client /\ cl.pc = "reply" /\ down = <<>>
      /\ cl.cmd \in {"cd", "dir", "get", "put"}
  BY <1>3 DEF Argued, Types, C!Client, C!CCmd
<1>5. /\ cl.cmd = "cd" <=> srv.cmd = "CWD"
      /\ cl.cmd = "dir" <=> srv.cmd = "LIST"
      /\ cl.cmd = "get" <=> srv.cmd = "RETR"
      /\ cl.cmd = "put" <=> srv.cmd = "STOR"
  BY <1>3, <1>4, AskedParts DEF Argued
<1>6. up' = <<>>
  <2>1. Asked(cl)[2] \in Part
    BY <1>4, AskedParts, Bodies
  <2> QED  BY <1>2, <1>3, <2>1, Single DEF Argued
<1> DEFINE done == S!Reset(S!Handler(srv))
<1>7. done.pc = "handler" /\ Serving(done) /\ ~done.astray
  BY <1>1, HandlerServing DEF Serving
<1> HIDE DEF done
<1>8. S!file_err = <<ErrHeader>> /\ <<ErrHeader>> \in Seq(Part)
  BY RepliesType DEF ErrHeader
<1>9. CASE S!cd
  <2>1. PICK m \in {Bare("OK", "OK"), S!file_err} : S!Send(m, done)
    BY <1>9, ServerParts DEF S!cd, done
  <2>2. m \in Seq(Part)
    BY <1>8, BareType
  <2>3. srv' = done /\ down' = m
    BY <1>4, <1>7, <2>1, <2>2, ServerSends
  <2>4. cl.cmd = "cd"
    BY <1>5, <1>9 DEF S!cd, S!Argument
  <2>5. AnsweredAtOnce'
    BY <1>4, <1>6, <1>7, <1>8, <2>1, <2>3, <2>4 DEF AnsweredAtOnce
  <2> QED  BY <1>7, <2>3, <2>5 DEF Phase
<1>10. CASE S!GetRefused \/ S!PutRefused
  <2>1. S!Send(S!file_err, done)
    BY <1>10 DEF S!GetRefused, S!PutRefused, done
  <2>2. srv' = done /\ down' = <<ErrHeader>>
    BY <1>4, <1>7, <1>8, <2>1, ServerSends
  <2>3. cl.cmd \in {"get", "put"}
    BY <1>5, <1>10 DEF S!GetRefused, S!PutRefused, S!Argument
  <2>4. AnsweredAtOnce'
    BY <1>4, <1>6, <1>7, <2>2, <2>3 DEF AnsweredAtOnce
  <2> QED  BY <1>7, <2>2, <2>4 DEF Phase
<1>11. CASE S!dir \/ S!ftpget
  <2>1. srv'.pc \in {"list", "file"} /\ srv'.first_data /\ Serving(srv') /\ down' = down
    <3>1. CASE S!dir
      <4>1. PICK n \in 0..MaxEntries : srv' = [srv EXCEPT !.pc = "list", !.pos = 0, !.size = n]
        BY <3>1 DEF S!dir, S!Becomes
      <4> QED  BY <1>1, <3>1, <4>1 DEF S!dir, S!Session, Serving
    <3>2. CASE S!ftpget
      <4>1. PICK f : srv' = [srv EXCEPT !.pc = "file", !.file = f, !.pos = 0, !.size = len[f]]
        BY <3>2 DEF S!ftpget, S!Becomes
      <4> QED  BY <1>1, <3>2, <4>1 DEF S!ftpget, S!Session, Serving
    <3> QED  BY <1>11, <3>1, <3>2
  <2>2. cl.cmd \in {"dir", "get"}
    BY <1>5, <1>11 DEF S!dir, S!ftpget, S!Argument
  <2>3. FlowBegins'
    BY <1>4, <1>6, <2>1, <2>2 DEF FlowBegins
  <2> QED  BY <2>1, <2>3 DEF Phase
<1>12. CASE S!ftpput
  <2>0. PICK f : S!Send(Bare("OK", "OK_STOR"), S!Reset([srv EXCEPT !.pc = "recv", !.file = f]))
    BY <1>12, ServerParts DEF S!ftpput
  <2> DEFINE r == S!Reset([srv EXCEPT !.pc = "recv", !.file = f])
  <2>1. S!Send(Bare("OK", "OK_STOR"), r)
    BY <2>0
  <2>2. r.pc = "recv" /\ Serving(r) /\ ~r.astray
    BY <1>1 DEF S!Reset, S!Session, Serving
  <2> HIDE DEF r
  <2>3. srv' = r /\ down' = Bare("OK", "OK_STOR")
    BY <1>4, <2>1, <2>2, ServerSends, BareType
  <2>4. cl.cmd = "put"
    BY <1>5, <1>12 DEF S!ftpput, S!Argument
  <2>5. AnsweredAtOnce'
    BY <1>4, <1>6, <2>2, <2>3, <2>4 DEF AnsweredAtOnce
  <2> QED  BY <2>2, <2>3, <2>5 DEF Phase
<1> QED  BY <1>9, <1>10, <1>11, <1>12

LEMMA EmptyStream == <<>> \in Seq(Part)
OBVIOUS

\* What list_dir and send_file send, up to the last packet or the error.
Packet(m) == \/ \E b \in Body : m = <<DataHeader, b>>
             \/ \E h \in {EmptyHeader} \cup Ends : m = <<h>>

LEMMA PacketAdded ==
    ASSUME NEW s \in Seq(Part), NEW mid \in BOOLEAN, Packets(s, mid), ~Over(s),
           NEW m, Packet(m)
    PROVE  /\ m \in Seq(Part) /\ m # <<>>
           /\ Packets(s \o m, mid) /\ (Over(s \o m) <=> m[1] \in Ends)
<1>1. ASSUME NEW b \in Body, m = <<DataHeader, b>>
      PROVE  /\ m \in Seq(Part) /\ m # <<>>
             /\ Packets(s \o m, mid) /\ (Over(s \o m) <=> m[1] \in Ends)
  <2>1. DataHeader \in Part /\ b \in Part /\ DataHeader \notin Ends
    BY Bodies, BodyTypes
  <2>2. m \in Seq(Part) /\ m # <<>> /\ m[1] = DataHeader
    BY <1>1, <2>1, Double
  <2> QED  BY <1>1, <2>1, <2>2, PacketsPair
<1>2. ASSUME NEW h \in {EmptyHeader} \cup Ends, m = <<h>>
      PROVE  /\ m \in Seq(Part) /\ m # <<>>
             /\ Packets(s \o m, mid) /\ (Over(s \o m) <=> m[1] \in Ends)
  <2>1. h \in Part
    BY Bodies, BodyTypes
  <2> QED  BY <1>2, <2>1, Single, PacketsOne
<1> QED  BY <1>1, <1>2 DEF Packet

\* After such a packet.
LEMMA PacketPhase ==
    ASSUME Types, Phase, cl' = cl, up' = up, srv.pc \in {"list", "file"}, NEW m, Packet(m),
           \/ /\ srv'.pc = srv.pc /\ ~srv'.first_data /\ m[1] \notin Ends
              /\ down' = down \o ((IF srv.first_data THEN <<RetrHeader>> ELSE <<>>) \o m)
           \/ srv'.pc = "handler" /\ m[1] \in Ends /\ down' = down \o m
    PROVE  Phase'
<1>1. down \in Seq(Part) /\ RetrHeader \in Part /\ m \in Seq(Part) /\ m # <<>>
  <2>1. m \in Seq(Part) /\ m # <<>>
    BY EmptyStream, NoPackets, PacketAdded
  <2> QED  BY <2>1, Bodies, BodyTypes DEF Types
<1>2. FlowBegins \/ Flowing
  BY DEF Phase, Idle, Waiting, Unread, Argued, AnsweredAtOnce, TextSent, Putting
<1>3. Packets(m, FALSE) /\ (Over(m) <=> m[1] \in Ends)
  <2>1. <<>> \o m = m
    BY <1>1, ConcatEmptySeq
  <2> QED  BY <2>1, EmptyStream, NoPackets, PacketAdded
<1>4. CASE FlowBegins /\ srv.first_data /\ down = <<>> /\ m[1] \notin Ends
  <2> DEFINE t == <<RetrHeader>>
  <2>0. t \in Seq(Part) /\ t # <<>> /\ t[1] = RetrHeader /\ Tail(t) = <<>>
    BY <1>1, Single
  <2>1. down' = down \o (t \o m)
    BY <1>4
  <2> HIDE DEF t
  <2>2. down' = t \o m
    <3>1. t \o m \in Seq(Part)
      BY <1>1, <2>0
    <3> QED  BY <1>4, <2>1, <3>1, ConcatEmptySeq
  <2>3. down' # <<>> /\ down'[1] = RetrHeader /\ Tail(down') = m
    <3>1. down' # <<>> /\ down'[1] = t[1] /\ Tail(down') = Tail(t) \o m
      BY <1>1, <2>0, <2>2, FirstOfBoth
    <3>2. <<>> \o m = m
      BY <1>1, ConcatEmptySeq
    <3> QED  BY <2>0, <3>1, <3>2
  <2>4. FlowBegins'
    BY <1>3, <1>4, <2>3 DEF FlowBegins, Flow
  <2> QED  BY <2>4 DEF Phase
<1>5. CASE FlowBegins /\ down = <<>> /\ m[1] \in Ends
  <2>1. down' = m /\ srv'.pc = "handler"
    BY <1>1, <1>5, ConcatEmptySeq
  <2>2. m \in {<<LastHeader>>, <<ErrHeader>>}
    <3>1. \A b : <<DataHeader, b>>[1] \notin Ends /\ <<EmptyHeader>>[1] \notin Ends
      BY Bodies
    <3> QED  BY <1>5, <3>1 DEF Packet, Ends
  <2>3. AnsweredAtOnce'
    BY <1>5, <2>1, <2>2 DEF FlowBegins, AnsweredAtOnce
  <2> QED  BY <2>3 DEF Phase
<1>6. CASE FlowBegins /\ ~srv.first_data
  <2>1. /\ down # <<>> /\ down[1] = RetrHeader /\ Packets(Tail(down), FALSE)
        /\ ~Over(Tail(down))
    BY <1>6 DEF FlowBegins, Flow
  <2>2. down' = down \o m
    BY <1>1, <1>6, ConcatEmptySeq
  <2>3. Tail(down) \in Seq(Part)
    BY <1>1, <2>1, TailParts
  <2>4. down' # <<>> /\ down'[1] = RetrHeader /\ Tail(down') = Tail(down) \o m
    BY <1>1, <2>1, <2>2, FirstOfBoth
  <2>5. Packets(Tail(down'), FALSE) /\ (Over(Tail(down')) <=> m[1] \in Ends)
    BY <2>1, <2>3, <2>4, PacketAdded
  <2>6. FlowBegins'
    BY <1>6, <2>4, <2>5 DEF FlowBegins, Flow
  <2> QED  BY <2>6 DEF Phase
<1>7. CASE Flowing
  <2>1. Packets(down, cl.pc = "block") /\ ~Over(down) /\ ~srv.first_data
    BY <1>7 DEF Flowing, Flow
  <2>2. down' = down \o m
    BY <1>1, <2>1, ConcatEmptySeq
  <2>3. Packets(down', cl.pc = "block") /\ (Over(down') <=> m[1] \in Ends)
    BY <1>1, <2>1, <2>2, PacketAdded
  <2>4. Flowing'
    BY <1>7, <2>3 DEF Flowing, Flow
  <2> QED  BY <2>4 DEF Phase
<1> QED  BY <1>2, <1>4, <1>5, <1>6, <1>7 DEF FlowBegins, Flow

LEMMA SendingPhase ==
    ASSUME Types, Phase, Serving(srv), cl' = cl, up' = up,
           S!list_dir \/ S!send_file \/ S!GetFails \/ S!SendLast
    PROVE  Serving(srv)' /\ Phase'
<1>1. srv.pc \in {"list", "file"} /\ srv \in S!Session
  BY DEF S!list_dir, S!send_file, S!GetFails, S!SendLast, Types
<1>2. ASSUME NEW m, Packet(m), m[1] \notin Ends,
             S!send_data(m, srv) \/ S!send_data(m, [srv EXCEPT !.pos = @ + 1])
      PROVE  Serving(srv)' /\ Phase'
  <2>1. PICK s \in {srv, [srv EXCEPT !.pos = @ + 1]} : S!send_data(m, s)
    BY <1>2
  <2> DEFINE r == [s EXCEPT !.first_data = FALSE]
             x == (IF srv.first_data THEN <<RetrHeader>> ELSE <<>>) \o m
  <2>2. /\ r.pc = srv.pc /\ r.first_data = FALSE /\ r.sigterm_flag = srv.sigterm_flag
        /\ ~r.astray
    BY <1>1, <2>1 DEF S!Session, Serving
  <2>3. S!Send(x, r)
    BY <2>1, ServerParts DEF S!send_data, S!Packet, Bare, RetrHeader
  <2>4. x \in Seq(Part)
    <3>1. m \in Seq(Part)
      BY <1>2, EmptyStream, NoPackets, PacketAdded
    <3>2. <<RetrHeader>> \in Seq(Part)
      BY Bodies, BodyTypes
    <3> QED  BY <3>1, <3>2, EmptyStream
  <2> HIDE DEF r
  <2>5. srv' = r /\ down' = down \o x
    BY <2>2, <2>3, <2>4, ServerSends
  <2>6. Phase'
    BY <1>1, <1>2, <2>2, <2>5, PacketPhase
  <2>7. Serving(srv')
    BY <1>1, <2>2, <2>5 DEF Serving
  <2> QED  BY <2>6, <2>7
<1>3. CASE S!list_dir
  <2>1. With("DATA", "DATA", Entry) = <<DataHeader, Entry>>
    BY DEF With, DataHeader
  <2>2. S!send_data(<<DataHeader, Entry>>, [srv EXCEPT !.pos = @ + 1])
    BY <1>3, <2>1, ServerParts DEF S!list_dir
  <2>3. Packet(<<DataHeader, Entry>>) /\ <<DataHeader, Entry>>[1] \notin Ends
    BY Bodies DEF Packet
  <2> QED  BY <1>2, <2>2, <2>3
<1>4. CASE S!send_file /\ srv.pos < len[srv.file]
  <2> DEFINE b == Block(srv.file, srv.pos + 1)
  <2>1. With("DATA", "DATA", b) = <<DataHeader, b>>
    BY DEF With, DataHeader
  <2>2. S!send_data(<<DataHeader, b>>, [srv EXCEPT !.pos = @ + 1])
    BY <1>4, <2>1, ServerParts DEF S!send_file
  <2>3. b \in Body
    <3>1. /\ srv.pos \in Nat /\ len[srv.file] \in Nat /\ Size[srv.file] \in Nat
          /\ len[srv.file] <= Size[srv.file] /\ srv.file \in File
      BY <1>1, SizeType DEF Types, S!Session
    <3>2. srv.pos + 1 \in 1..Size[srv.file]
      BY <1>4, <3>1
    <3> QED  BY <3>1, <3>2, Bodies
  <2> HIDE DEF b
  <2>4. Packet(<<DataHeader, b>>) /\ <<DataHeader, b>>[1] \notin Ends
    BY <2>3, Bodies DEF Packet
  <2> QED  BY <1>2, <2>2, <2>4
<1>5. CASE S!send_file /\ ~(srv.pos < len[srv.file])
  <2>1. S!send_data(<<EmptyHeader>>, srv)
    BY <1>5, ServerParts DEF S!send_file, Bare, EmptyHeader
  <2>2. Packet(<<EmptyHeader>>) /\ <<EmptyHeader>>[1] \notin Ends
    BY Bodies DEF Packet
  <2> QED  BY <1>2, <2>1, <2>2
<1>6. CASE S!GetFails \/ S!SendLast
  <2> DEFINE r == S!Reset(S!Handler(srv))
  <2>1. PICK m \in {<<LastHeader>>, <<ErrHeader>>} : S!Send(m, r)
    BY <1>6, RepliesType DEF S!GetFails, S!SendLast, ErrHeader
  <2>2. r.pc = "handler" /\ Serving(r) /\ ~r.astray
    BY <1>1, HandlerServing DEF Serving
  <2> HIDE DEF r
  <2>3. Packet(m) /\ m[1] \in Ends
    BY <2>1 DEF Packet, Ends
  <2>4. m \in Seq(Part)
    BY <2>3, EmptyStream, NoPackets, PacketAdded
  <2>5. srv' = r /\ down' = down \o m
    BY <2>1, <2>2, <2>4, ServerSends
  <2> QED  BY <1>1, <2>2, <2>3, <2>5, PacketPhase
<1> QED  BY <1>3, <1>4, <1>5, <1>6

\* What recv_file takes of a put.
LEMMA PutTail ==
    ASSUME Types, NEW p \in Seq(Part), p # <<>>, Packets(p, srv.pc = "block"), up[1] = p[1],
           Serving(srv), ~srv'.astray, S!recv_file \/ S!RecvBlock
    PROVE  /\ Serving(srv')
           /\ p[1] \in Ends => srv'.pc = "handler" /\ Tail(p) = <<>> /\ Over(p)
           /\ p[1] \notin Ends => /\ srv'.pc \in {"recv", "block"}
                                  /\ Packets(Tail(p), srv'.pc = "block")
                                  /\ Over(Tail(p)) <=> Over(p)
<1> DEFINE mid == srv.pc = "block"
<1>1. srv \in S!Session /\ mid \in BOOLEAN
  BY DEF Types
<1>2. /\ p[1] \in Body <=> mid
      /\ ~ mid => p[1] \in {DataHeader, EmptyHeader} \cup Ends
      /\ Packets(Tail(p), p[1] = DataHeader)
      /\ p[1] \in Ends => Tail(p) = <<>>
      /\ p[1] \notin Ends => (Over(Tail(p)) <=> Over(p))
  BY <1>1, PacketsTail
<1>3. p[1] \in Ends => Over(p)
  BY <1>2, TailParts DEF Over
<1>4. CASE S!recv_file
  <2> DEFINE place == S!AfterHeader(p[1])
  <2>0. ~S!Astray /\ S!Reader = srv
    BY <1>4, Aligned DEF HeaderStep, S!Step, S!Regular
  <2>1. /\ srv.pc = "recv"
        /\ srv' = IF place = "handler" THEN S!Handler(srv) ELSE [srv EXCEPT !.pc = place]
    BY <1>4, <2>0 DEF S!recv_file, S!TakesHeader, S!Goes, S!Becomes
  <2>2. p[1] \in {DataHeader, EmptyHeader} \cup Ends
    BY <1>2, <2>1
  <2>3. CASE p[1] \in Ends
    <3>1. place = "handler"
      BY <2>3, Bodies, ServerParts DEF S!AfterHeader, Ends, LastHeader, ErrHeader
    <3>2. srv'.pc = "handler" /\ Serving(srv')
      BY <1>1, <2>1, <3>1 DEF S!Handler, S!Session, Serving
    <3> QED  BY <1>2, <1>3, <2>3, <3>2
  <2>4. CASE p[1] \in {DataHeader, EmptyHeader}
    <3>1. place = IF p[1] = DataHeader THEN "block" ELSE "recv"
      BY <2>4, Bodies, ServerParts DEF S!AfterHeader, DataHeader, EmptyHeader
    <3>2. srv'.pc = place /\ Serving(srv')
      BY <1>1, <2>1, <3>1 DEF S!Session, Serving
    <3>3. (srv'.pc = "block") = (p[1] = DataHeader)
      BY <3>1, <3>2
    <3>4. p[1] \notin Ends
      BY <2>4, Bodies
    <3> QED  BY <1>2, <3>1, <3>2, <3>3, <3>4
  <2> QED  BY <2>2, <2>3, <2>4
<1>5. CASE S!RecvBlock
  <2>1. srv.pc = "block" /\ srv' = [srv EXCEPT !.pc = "recv"]
    BY <1>5 DEF S!RecvBlock, S!TakesBody, S!Goes, S!Becomes, Serving
  <2>2. srv'.pc = "recv" /\ Serving(srv')
    BY <1>1, <2>1 DEF S!Session, Serving
  <2>3. p[1] \notin Ends /\ p[1] # DataHeader
    BY <1>2, <2>1, Bodies
  <2>4. (srv'.pc = "block") = (p[1] = DataHeader)
    BY <2>2, <2>3
  <2> QED  BY <1>2, <2>2, <2>3, <2>4
<1> QED  BY <1>4, <1>5

LEMMA ReceivingPhase ==
    ASSUME Types, Types', Phase, Serving(srv), ~srv'.astray, cl' = cl, S!recv_file \/ S!RecvBlock
    PROVE  Serving(srv)' /\ Phase'
<1>1. /\ srv.pc \in {"recv", "block"} /\ up # <<>> /\ up' = Tail(up) /\ down' = down
      /\ up \in Seq(Part) /\ cl \in C!Client
  <2>1. CASE S!recv_file
    BY <2>1, Aligned DEF HeaderStep, S!Step, S!Regular, S!recv_file, S!TakesHeader, Types
  <2>2. CASE S!RecvBlock
    BY <2>2, ServerReads DEF S!RecvBlock, S!TakesBody, Types, Serving
  <2> QED  BY <2>1, <2>2
<1>2. Idle \/ Unread \/ Putting
  BY <1>1 DEF Phase, Argued, AnsweredAtOnce, FlowBegins, TextSent, Flowing, Flow
<1>3. CASE Idle
  <2>1. Packets(up, srv.pc = "block") /\ Over(up)
    BY <1>1, <1>3 DEF Idle, Waiting
  <2>2. Serving(srv') /\ Waiting(srv', up')
    BY <1>1, <2>1, PutTail DEF Waiting
  <2>3. Idle'
    BY <1>1, <1>3, <2>2 DEF Idle
  <2> QED  BY <2>2, <2>3 DEF Phase
<1>4. CASE Unread
  <2>1. PICK p \in Seq(Part) : up = p \o Asked(cl) /\ Waiting(srv, p)
    BY <1>4 DEF Unread
  <2>2. Packets(p, srv.pc = "block") /\ Over(p) /\ p # <<>>
    BY <1>1, <2>1 DEF Waiting, Over
  <2>3. Asked(cl) \in Seq(Part)
    BY <1>1, <1>4, AskedParts DEF Unread
  <2>4. up[1] = p[1] /\ up' = Tail(p) \o Asked(cl) /\ Tail(p) \in Seq(Part)
    BY <1>1, <2>1, <2>2, <2>3, FirstOfBoth, TailParts
  <2>5. Serving(srv') /\ Waiting(srv', Tail(p))
    BY <2>2, <2>4, PutTail DEF Waiting
  <2>6. Unread'
    BY <1>1, <1>4, <2>4, <2>5 DEF Unread
  <2> QED  BY <2>5, <2>6 DEF Phase
<1>5. CASE Putting
  <2>1. Packets(up, srv.pc = "block") /\ ~Over(up)
    BY <1>5 DEF Putting
  <2>2. /\ Serving(srv') /\ srv'.pc \in {"recv", "block"}
        /\ Packets(up', srv'.pc = "block") /\ ~Over(up')
    BY <1>1, <2>1, PutTail
  <2>3. Putting'
    BY <1>1, <1>5, <2>2 DEF Putting
  <2> QED  BY <2>2, <2>3 DEF Phase
<1> QED  BY <1>2, <1>3, <1>4, <1>5

LEMMA ServerPhase ==
    ASSUME Types, Types', Phase, Serving(srv), Server
    PROVE  Serving(srv)' /\ Phase'
<1>1. cl' = cl /\ S!Step
  BY DEF Server
<1>2. ~ S!AtEnd /\ ~ S!Gone
  BY PhaseOpen, ServerParts DEF S!AtEnd, S!Gone, Open
<1>3. ~ S!RecvFails /\ ~ S!Stop /\ ~ S!Sigpipe /\ ~ S!More
  BY <1>2 DEF S!RecvFails, S!Stop, S!Sigpipe, S!More, Serving
<1>4. S!list_dir \/ S!send_file \/ S!GetFails \/ S!SendLast => up' = up
  BY DEF S!list_dir, S!send_file, S!GetFails, S!SendLast
<1>5. ~srv'.astray
  BY <1>1, NotAstray, MessageFound DEF Serving
<1> QED
  BY <1>1, <1>3, <1>4, <1>5, HandlerPhase, ArgumentPhase, SendingPhase, ReceivingPhase
  DEF S!Step, S!Regular

\* The server, when the client has left.
LEMMA LastServed ==
    ASSUME Types, Parted, S!Step PROVE Parted'
<1> DEFINE h == [type |-> "QUIT", code |-> "OK", length |-> 0]
<1>0. h \in Header /\ h \in Part /\ FIN \in Part /\ h # FIN /\ h.type = "QUIT" /\ h.code = "OK"
      /\ h \in S!Commands /\ srv \in S!Session
  BY BodyTypes DEF Header, S!Commands, Types
<1>1. Parting = <<h, FIN>>
  BY DEF Parting
<1> HIDE DEF h
<1>2. Parting \in Seq(Part) /\ Parting # <<>> /\ Parting[1] = h
  BY <1>0, <1>1, Double
<1>3. srv.pc # "exit"
  BY DEF S!Step, S!Regular, S!quit, S!pwd, S!HasArgument, S!HasNoArgument, S!Undefined, S!More,
     S!cd, S!dir, S!list_dir, S!ftpget, S!send_file, S!SendLast, S!ftpput, S!recv_file,
     S!RecvBlock, S!RecvFails, S!Stop, S!GetRefused, S!GetFails, S!PutRefused, S!Sigpipe,
     S!Handle, S!Argument, S!TakesHeader, S!TakesBody
<1>4. PICK p \in Seq(Part) : up = p \o Parting /\ Waiting(srv, p) /\ Serving(srv)
  BY <1>3 DEF Parted
<1>5. CASE srv.pc = "handler"
  <2>1. up = Parting
    BY <1>2, <1>4, <1>5, ConcatEmptySeq DEF Waiting
  <2>2. up # <<>> /\ up[1] = h /\ up[1] # FIN
    BY <1>0, <1>2, <2>1
  <2>3. ~srv'.astray
    BY <1>0, <1>4, <2>2, NotAstray DEF Serving
  <2>4. ~S!AtEnd
    BY <2>2, ServerParts DEF S!AtEnd
  <2>5. S!quit \/ S!pwd \/ S!HasArgument \/ S!HasNoArgument \/ S!Undefined
    BY <1>4, <1>5, <2>4
    DEF S!Step, S!Regular, S!More, S!cd, S!dir, S!list_dir, S!ftpget, S!send_file, S!SendLast,
        S!ftpput, S!recv_file, S!RecvBlock, S!RecvFails, S!Stop, S!GetRefused, S!GetFails,
        S!PutRefused, S!Sigpipe, S!Argument, S!TakesHeader, S!TakesBody, Serving
  <2>6. ~S!Astray /\ S!Reader = srv
    BY <2>3, <2>5, Aligned DEF HeaderStep
  <2>7. S!quit
    <3>1. \A type, n : S!Handle(type, n) => type = "QUIT"
      BY <1>0, <2>2, <2>6 DEF S!Handle
    <3> QED  BY <1>0, <2>2, <2>5, <2>6, <3>1
             DEF S!pwd, S!HasArgument, S!HasNoArgument, S!Undefined, S!SCmd
  <2>8. srv' = [srv EXCEPT !.pc = "exit"]
    BY <2>6, <2>7 DEF S!quit, S!Becomes
  <2> QED  BY <1>0, <2>3, <2>8 DEF S!Session, Parted
<1>6. CASE srv.pc # "handler"
  <2>1. srv.pc \in {"recv", "block"} /\ Packets(p, srv.pc = "block") /\ Over(p) /\ p # <<>>
    BY <1>4, <1>6 DEF Waiting, Over
  <2>2. up # <<>> /\ up[1] = p[1] /\ Tail(up) = Tail(p) \o Parting
    BY <1>2, <1>4, <2>1, FirstOfBoth
  <2>3. up[1] # FIN
    BY <2>1, <2>2, PacketsOpen
  <2>4. srv.pc = "recv" => up[1] \in Header
    BY <2>1, <2>2, PacketsTail, Bodies
  <2>5. ~srv'.astray /\ ~srv.astray
    BY <1>4, <1>6, <2>4, NotAstray DEF Serving
  <2>6. ~S!AtEnd
    BY <2>3, ServerParts DEF S!AtEnd
  <2>7. S!recv_file \/ S!RecvBlock
    BY <1>4, <2>1, <2>5, <2>6
    DEF S!Step, S!Regular, S!quit, S!pwd, S!HasArgument, S!HasNoArgument, S!Undefined, S!More,
        S!cd, S!dir, S!list_dir, S!ftpget, S!send_file, S!SendLast, S!ftpput, S!RecvFails,
        S!Stop, S!GetRefused, S!GetFails, S!PutRefused, S!Sigpipe, S!Handle, S!Argument,
        S!TakesHeader, S!TakesBody, Serving
  <2>8. up' = Tail(up)
    <3>1. CASE S!recv_file
      BY <2>5, <3>1, Aligned DEF HeaderStep, S!Step, S!Regular
    <3>2. CASE S!RecvBlock
      BY <2>5, <3>2, ServerReads DEF S!RecvBlock
    <3> QED  BY <2>7, <3>1, <3>2
  <2>9. Serving(srv') /\ Waiting(srv', Tail(p))
    BY <1>4, <2>1, <2>2, <2>5, <2>7, PutTail DEF Waiting
  <2>10. Tail(p) \in Seq(Part)
    BY <2>1, TailParts
  <2>11. up' = Tail(p) \o Parting
    BY <2>2, <2>8
  <2> QED  BY <2>9, <2>10, <2>11 DEF Parted, Parting
<1> QED  BY <1>5, <1>6

\* Nothing was late or failed before either.
LEMMA StillOrderly ==
    ASSUME [Next]_vars, orderly'
    PROVE  orderly /\ (Client \/ Server \/ Shrink \/ UNCHANGED vars)
<1>1. ~ ClientTrouble /\ ~ ServerTrouble
  BY DEF ClientTrouble, ServerTrouble
<1>2. orderly
  BY <1>1 DEF Next, Client, Server, Shrink, Ended, vars
<1> QED  BY <1>1, <1>2 DEF Next, Ended

LEMMA ClientGone == ASSUME cl.pc = "exit" PROVE ~Client
BY DEF Client, C!Command, C!quit, C!Receive, C!Transmit, C!Hangup, C!Sigpipe, C!pwd, C!cd,
   C!dir, C!ftpget, C!ftpput, C!exec_command, C!Reply, C!RecvText, C!RecvData, C!RecvBlock,
   C!More, C!RecvEnd, C!Failed, C!TakesHeader, C!TakesBody, C!send_file, C!SendLast

LEMMA SyncStep == Types /\ Sync /\ [Next]_vars => Sync'
<1> SUFFICES ASSUME Types, Sync, [Next]_vars, orderly'
             PROVE  /\ ~cl'.astray
                    /\ IF cl'.pc = "exit" THEN Parted' ELSE Serving(srv)' /\ Phase'
  BY DEF Sync
<1>1. Types'
  BY TypesStep
<1>2. orderly /\ (Client \/ Server \/ Shrink \/ UNCHANGED vars)
  BY StillOrderly
<1>3. ~cl.astray /\ IF cl.pc = "exit" THEN Parted ELSE Serving(srv) /\ Phase
  BY <1>2 DEF Sync
<1>4. CASE Client
  BY <1>1, <1>3, <1>4, ClientPhase, ClientGone
<1>5. CASE Server
  <2>1. cl' = cl /\ S!Step
    BY <1>5 DEF Server
  <2> QED  BY <1>1, <1>3, <1>5, <2>1, ServerPhase, LastServed
<1>6. CASE Shrink \/ UNCHANGED vars
  <2>1. UNCHANGED <<cl, srv, up, down>>
    BY <1>6 DEF Shrink, S!Shrink, C!Shrink, vars
  <2>2. (Phase => Phase') /\ (Serving(srv) => Serving(srv'))
    BY <2>1 DEF Phase, Idle, Unread, Argued, AnsweredAtOnce, FlowBegins, TextSent,
       Flowing, Putting
  <2>3. Parted => Parted'
    BY <2>1 DEF Parted
  <2> QED  BY <1>3, <2>1, <2>2, <2>3
<1> QED  BY <1>2, <1>4, <1>5, <1>6

LEMMA SyncInit == Init => Sync
<1> SUFFICES ASSUME Init PROVE Sync
  OBVIOUS
<1>1. Serving(srv)
  BY DEF Init, S!Init, Serving
<1>2. Idle
  BY DEF Init, C!Init, S!Init, Idle, Waiting
<1>3. ~cl.astray /\ cl.pc # "exit"
  BY DEF Init, C!Init
<1> QED  BY <1>1, <1>2, <1>3 DEF Sync, Phase

\* As long as every command was answered in time, once, nothing of one command is
\* left for the next: neither process takes a body for a header, and when the client
\* prompts and the server waits for a command, both streams are empty (recv_msg and the
\* commands of myftpc.c, the replies of myftpd.c).
THEOREM StreamsInStep == Spec => []InStep
<1>1. Sync => InStep
  <2> SUFFICES ASSUME Sync, orderly
               PROVE  /\ ~cl.astray /\ ~srv.astray
                      /\ cl.pc = "prompt" /\ srv.pc = "handler" => up = <<>> /\ down = <<>>
    BY DEF InStep
  <2>1. ~cl.astray /\ ~srv.astray
    BY DEF Sync, Parted, Serving
  <2>2. ASSUME cl.pc = "prompt", srv.pc = "handler" PROVE up = <<>> /\ down = <<>>
    <3>1. Idle
      BY <2>2 DEF Sync, Phase, Unread, Argued, AnsweredAtOnce, FlowBegins, TextSent, Flowing,
         Putting
    <3> QED  BY <2>2, <3>1 DEF Idle, Waiting
  <2> QED  BY <2>1, <2>2
<1> QED  BY <1>1, TypesInit, SyncInit, TypesStep, SyncStep, PTL DEF Spec

-----------------------------------------------------------------------------
(***************************************************************************)
(* A get: what the client has written, what is in the stream and what the  *)
(* server will send next.                                                  *)
(***************************************************************************)
\* The server reads file f, of which l blocks are left.
Reads(r, f, l) == /\ r.pc = "file" /\ r.file = f /\ r.pos <= r.size /\ r.size \in {Size[f], l}
                  /\ r.first_data => r.pos = 0

\* Behind the t parts that the client has taken, s continues file f in order; the
\* server has read up to its position, and nothing but empty packets follow if it
\* found the end of the file before that.
Continues(f, l, r, s, t) ==
    /\ \A i \in 1..Len(s) :
          /\ s[i] \in Body => \E k \in 1..Size[f] : s[i] = Block(f, k) /\ 2 * k = t + i
          /\ s[i] = EmptyHeader => /\ \A j \in i..Len(s) : s[j] \notin Body \cup {LastHeader}
                                   /\ r.pc = "file" => 2 * r.pos < t + i
    /\ s # <<>> /\ s[Len(s)] = LastHeader => \E z \in {Size[f], l} : 2 * z + 1 = t + Len(s)
    /\ r.pc = "file" => /\ 2 * r.pos <= t + Len(s)
                        /\ 2 * r.pos < t + Len(s) => l <= r.pos /\ r.pos < r.size

Taken == IF cl.pc = "block" THEN 2 * Len(got) + 1 ELSE 2 * Len(got)
Fetched == cl.cmd = "get" =>
    /\ cl.pc \in {"reply", "data", "block"}
    /\ got = Blocks(cl.file, Len(got))
    /\ srv.pc \in {"list", "file"} => Reads(srv, cl.file, len[cl.file])
    /\ cl.pc # "reply" => Continues(cl.file, len[cl.file], srv, down, Taken)
    /\ cl.pc = "reply" => got = <<>>
    /\ cl.pc = "reply" /\ down # <<>> /\ down[1] = RetrHeader =>
          Continues(cl.file, len[cl.file], srv, Tail(down), 0)
GetInv == Types /\ Sync /\ (orderly /\ cl.pc # "exit" => Fetched)

\* The client takes a part that is not an empty packet.
LEMMA ContinuesTail ==
    ASSUME NEW f, NEW l, NEW r \in S!Session, NEW t \in Nat, NEW s \in Seq(Part), s # <<>>,
           Continues(f, l, r, s, t), s[1] # EmptyHeader
    PROVE  Continues(f, l, r, Tail(s), t + 1)
<1> DEFINE u == Tail(s)
<1>1. /\ Len(u) = Len(s) - 1 /\ Len(s) \in Nat /\ Len(s) > 0 /\ u \in Seq(Part)
      /\ \A i \in 1..Len(s) - 1 : u[i] = s[i + 1]
      /\ u = <<>> <=> Len(s) = 1
  BY TailParts
<1> HIDE DEF u
<1>2. ASSUME NEW i \in 1..Len(u), u[i] \in Body
      PROVE  \E k \in 1..Size[f] : u[i] = Block(f, k) /\ 2 * k = (t + 1) + i
  <2>1. i + 1 \in 1..Len(s) /\ u[i] = s[i + 1] /\ i \in Nat
    BY <1>1
  <2>2. PICK k \in 1..Size[f] : s[i + 1] = Block(f, k) /\ 2 * k = t + (i + 1)
    BY <1>2, <2>1 DEF Continues
  <2>3. t + (i + 1) = (t + 1) + i
    BY <2>1
  <2> QED  BY <2>1, <2>2, <2>3
<1>3. ASSUME NEW i \in 1..Len(u), u[i] = EmptyHeader
      PROVE  /\ \A j \in i..Len(u) : u[j] \notin Body \cup {LastHeader}
             /\ r.pc = "file" => 2 * r.pos < (t + 1) + i
  <2>1. i + 1 \in 1..Len(s) /\ u[i] = s[i + 1] /\ i \in Nat
    BY <1>1
  <2>2. /\ \A j \in i + 1..Len(s) : s[j] \notin Body \cup {LastHeader}
        /\ r.pc = "file" => 2 * r.pos < t + (i + 1)
    BY <1>3, <2>1 DEF Continues
  <2>3. t + (i + 1) = (t + 1) + i
    BY <2>1
  <2>4. ASSUME NEW j \in i..Len(u) PROVE u[j] \notin Body \cup {LastHeader}
    <3>1. j \in 1..Len(s) - 1 /\ j + 1 \in i + 1..Len(s)
      BY <1>1, <2>1
    <3> QED  BY <1>1, <2>2, <3>1
  <2> QED  BY <2>2, <2>3, <2>4
<1>4. (t + 1) + Len(u) = t + Len(s)
  BY <1>1
<1>5. u # <<>> => u[Len(u)] = s[Len(s)]
  <2> SUFFICES ASSUME u # <<>> PROVE u[Len(u)] = s[Len(s)]
    OBVIOUS
  <2>1. Len(u) \in 1..Len(s) - 1 /\ Len(u) + 1 = Len(s)
    BY <1>1
  <2> QED  BY <1>1, <2>1
<1>6. u # <<>> /\ u[Len(u)] = LastHeader => \E z \in {Size[f], l} : 2 * z + 1 = (t + 1) + Len(u)
  <2> SUFFICES ASSUME u # <<>>, u[Len(u)] = LastHeader
               PROVE  \E z \in {Size[f], l} : 2 * z + 1 = (t + 1) + Len(u)
    OBVIOUS
  <2>1. \E z \in {Size[f], l} : 2 * z + 1 = t + Len(s)
    BY <1>5 DEF Continues
  <2> QED  BY <1>4, <2>1
<1>7. r.pc = "file" => /\ 2 * r.pos <= (t + 1) + Len(u)
                       /\ 2 * r.pos < (t + 1) + Len(u) => l <= r.pos /\ r.pos < r.size
  BY <1>4 DEF Continues
<1> QED  BY <1>2, <1>3, <1>6, <1>7 DEF Continues, u

\* The client takes an empty packet: nothing else is to come.
LEMMA ContinuesEmpty ==
    ASSUME NEW f, NEW l, NEW r \in S!Session, NEW t \in Nat, NEW s \in Seq(Part), s # <<>>,
           Continues(f, l, r, s, t), s[1] = EmptyHeader
    PROVE  Continues(f, l, r, Tail(s), t)
<1> DEFINE u == Tail(s)
<1>1. /\ Len(u) = Len(s) - 1 /\ Len(s) \in Nat /\ Len(s) > 0 /\ u \in Seq(Part)
      /\ \A i \in 1..Len(s) - 1 : u[i] = s[i + 1]
      /\ u = <<>> <=> Len(s) = 1
  BY TailParts
<1> HIDE DEF u
<1>2. 1 \in 1..Len(s)
  BY <1>1
<1>3. /\ \A j \in 1..Len(s) : s[j] \notin Body \cup {LastHeader}
      /\ r.pc = "file" => 2 * r.pos < t + 1
  BY <1>2 DEF Continues
<1>4. \A j \in 1..Len(u) : u[j] \notin Body \cup {LastHeader}
  <2> TAKE j \in 1..Len(u)
  <2>1. j \in 1..Len(s) - 1 /\ j + 1 \in 1..Len(s)
    BY <1>1
  <2> QED  BY <1>1, <1>3, <2>1
<1>5. ASSUME r.pc = "file"
      PROVE  /\ \A i \in 1..Len(u) : 2 * r.pos < t + i
             /\ 2 * r.pos <= t + Len(u)
             /\ l <= r.pos /\ r.pos < r.size
  <2>1. r.pos \in Nat /\ 2 * r.pos < t + 1
    BY <1>3, <1>5 DEF S!Session
  <2>2. 2 * r.pos < t + Len(s)
    BY <1>1, <2>1
  <2>3. l <= r.pos /\ r.pos < r.size
    BY <1>5, <2>2 DEF Continues
  <2>4. \A i \in 1..Len(u) : 2 * r.pos < t + i
    BY <1>1, <2>1
  <2>5. 2 * r.pos <= t + Len(u)
    BY <1>1, <2>1
  <2> QED  BY <2>3, <2>4, <2>5
<1>6. u # <<>> => Len(u) \in 1..Len(u)
  BY <1>1
<1>7. \A i \in 1..Len(u) : \A j \in i..Len(u) : j \in 1..Len(u)
  BY <1>1
<1> QED  BY <1>4, <1>5, <1>6, <1>7 DEF Continues, u

\* Nothing was sent yet.
LEMMA ContinuesFirst ==
    ASSUME NEW f, NEW l, NEW r, r.pc # "file" \/ r.pos = 0 PROVE Continues(f, l, r, <<>>, 0)
BY DEF Continues

\* The server sends the next block.
LEMMA ContinuesBlock ==
    ASSUME NEW f \in File, NEW l \in Nat, l <= Size[f], NEW r \in S!Session, NEW q \in S!Session,
           NEW t \in Nat, NEW s \in Seq(Part), Continues(f, l, r, s, t),
           r.pc = "file", q.pc = "file", r.pos < l, q.pos = r.pos + 1
    PROVE  Continues(f, l, q, s \o <<DataHeader, Block(f, r.pos + 1)>>, t)
<1> DEFINE b == Block(f, r.pos + 1)
           u == s \o <<DataHeader, b>>
<1>1. r.pos \in Nat /\ Size[f] \in Nat /\ r.pos + 1 \in 1..Size[f]
  BY SizeType DEF S!Session
<1>2. b \in Body /\ b \in Part /\ DataHeader \in Part /\ DataHeader \notin Body
      /\ DataHeader # EmptyHeader /\ b # EmptyHeader /\ b # LastHeader
  BY <1>1, Bodies, BodyTypes DEF Ends
<1>3. /\ Len(u) = Len(s) + 2 /\ u[Len(s) + 1] = DataHeader /\ u[Len(s) + 2] = b /\ Len(s) \in Nat
      /\ \A i \in 1..Len(s) : u[i] = s[i]
  BY <1>2, AddTwo
<1> HIDE DEF u
<1>4. 2 * r.pos = t + Len(s)
  <2>1. 2 * r.pos <= t + Len(s) /\ (2 * r.pos < t + Len(s) => l <= r.pos)
    BY DEF Continues
  <2>2. r.pos \in Nat /\ Len(s) \in Nat /\ ~ l <= r.pos
    BY <1>1, <1>3
  <2>3. ~ 2 * r.pos < t + Len(s)
    BY <2>1, <2>2
  <2>4. 2 * r.pos <= t + Len(s)
    BY <2>1
  <2> QED  BY <2>2, <2>3, <2>4
<1>5. \A i \in 1..Len(s) : s[i] # EmptyHeader
  <2> SUFFICES ASSUME NEW i \in 1..Len(s), s[i] = EmptyHeader PROVE FALSE
    OBVIOUS
  <2>1. 2 * r.pos < t + i
    BY DEF Continues
  <2> QED  BY <1>1, <1>3, <1>4, <2>1
<1>6. ASSUME NEW i \in 1..Len(u)
      PROVE  /\ u[i] \in Body => \E k \in 1..Size[f] : u[i] = Block(f, k) /\ 2 * k = t + i
             /\ u[i] # EmptyHeader
  <2>1. CASE i \in 1..Len(s)
    BY <1>3, <1>5, <2>1 DEF Continues
  <2>2. CASE i = Len(s) + 1
    BY <1>2, <1>3, <2>2
  <2>3. CASE i = Len(s) + 2
    <3>1. 2 * (r.pos + 1) = t + i
      <4>1. r.pos \in Nat /\ Len(s) \in Nat
        BY <1>1, <1>3
      <4>2. 2 * (r.pos + 1) = t + (Len(s) + 2)
        BY <1>4, <4>1
      <4> QED  BY <2>3, <4>2
    <3> QED  BY <1>1, <1>2, <1>3, <2>3, <3>1
  <2> QED  BY <1>3, <2>1, <2>2, <2>3
<1>7. u[Len(u)] # LastHeader
  BY <1>2, <1>3
<1>8. 2 * q.pos = t + Len(u)
  <2>1. r.pos \in Nat /\ Len(s) \in Nat /\ Len(u) = Len(s) + 2
    BY <1>1, <1>3
  <2> QED  BY SMTT(20), <1>4, <2>1
<1> HIDE DEF b
<1>9. /\ 2 * q.pos <= t + Len(u) /\ ~(2 * q.pos < t + Len(u))
  <2>1. t + Len(u) \in Nat
    BY <1>3
  <2> QED  BY <1>8, <2>1
<1>10. Continues(f, l, q, u, t)
  BY <1>6, <1>7, <1>9 DEF Continues
<1> QED  BY <1>10 DEF u, b

\* The server finds the end of the file too soon.
LEMMA ContinuesShort ==
    ASSUME NEW f \in File, NEW l \in Nat, NEW r \in S!Session, NEW q \in S!Session,
           NEW t \in Nat, NEW s \in Seq(Part), Continues(f, l, r, s, t), ~Over(s),
           r.pc = "file", q.pc = "file", l <= r.pos, r.pos < r.size, q.pos = r.pos,
           q.size = r.size
    PROVE  Continues(f, l, q, s \o <<EmptyHeader>>, t)
<1> DEFINE u == s \o <<EmptyHeader>>
<1>1. r.pos \in Nat
  BY DEF S!Session
<1>2. EmptyHeader \in Part /\ EmptyHeader \notin Body /\ EmptyHeader # LastHeader
  BY Bodies, BodyTypes DEF Ends
<1>3. /\ Len(u) = Len(s) + 1 /\ u[Len(s) + 1] = EmptyHeader /\ Len(s) \in Nat
      /\ \A i \in 1..Len(s) : u[i] = s[i]
  BY <1>2, AddOne
<1> HIDE DEF u
<1>4. 2 * r.pos <= t + Len(s)
  BY DEF Continues
<1>5. ASSUME NEW i \in 1..Len(u)
      PROVE  /\ u[i] \in Body => \E k \in 1..Size[f] : u[i] = Block(f, k) /\ 2 * k = t + i
             /\ u[i] = EmptyHeader => /\ \A j \in i..Len(u) : u[j] \notin Body \cup {LastHeader}
                                      /\ 2 * r.pos < t + i
  <2>1. CASE i \in 1..Len(s)
    <3>1. /\ s[i] \in Body => \E k \in 1..Size[f] : s[i] = Block(f, k) /\ 2 * k = t + i
          /\ s[i] = EmptyHeader => /\ \A j \in i..Len(s) : s[j] \notin Body \cup {LastHeader}
                                   /\ 2 * r.pos < t + i
      BY <2>1 DEF Continues
    <3>2. \A j \in i..Len(u) : (j \in i..Len(s) /\ u[j] = s[j]) \/ u[j] = EmptyHeader
      BY <1>3, <2>1
    <3> QED  BY <1>2, <1>3, <2>1, <3>1, <3>2
  <2>2. CASE i = Len(s) + 1
    <3>1. 2 * r.pos < t + i
      BY <1>1, <1>3, <1>4, <2>2
    <3>2. \A j \in i..Len(u) : u[j] = EmptyHeader
      BY <1>3, <2>2
    <3> QED  BY <1>2, <1>3, <2>2, <3>1, <3>2
  <2> QED  BY <1>3, <2>1, <2>2
<1>6. u[Len(u)] # LastHeader
  BY <1>2, <1>3
<1>7. 2 * q.pos <= t + Len(u)
  BY <1>1, <1>3, <1>4
<1>8. Continues(f, l, q, u, t)
  BY <1>5, <1>6, <1>7 DEF Continues
<1> QED  BY <1>8 DEF u

\* The server sends the last packet, or an error, and is done.
LEMMA ContinuesEnd ==
    ASSUME NEW f \in File, NEW l \in Nat, NEW r \in S!Session, NEW q,
           NEW t \in Nat, NEW s \in Seq(Part), Continues(f, l, r, s, t), NEW h \in Ends,
           r.pc = "file", q.pc = "handler", r.size \in {Size[f], l},
           h = LastHeader => r.pos = r.size
    PROVE  Continues(f, l, q, s \o <<h>>, t)
<1> DEFINE u == s \o <<h>>
<1>1. r.pos \in Nat /\ r.size \in Nat
  BY DEF S!Session
<1>2. h \in Part /\ h \notin Body /\ EmptyHeader # h
  BY Bodies, BodyTypes
<1>3. /\ Len(u) = Len(s) + 1 /\ u[Len(s) + 1] = h /\ Len(s) \in Nat
      /\ \A i \in 1..Len(s) : u[i] = s[i]
  BY <1>2, AddOne
<1> HIDE DEF u
<1>4. ASSUME h = LastHeader
      PROVE  2 * r.pos = t + Len(s) /\ \A i \in 1..Len(s) : s[i] # EmptyHeader
  <2>1. /\ 2 * r.pos <= t + Len(s)
        /\ 2 * r.pos < t + Len(s) => r.pos < r.size
    BY DEF Continues
  <2>2. 2 * r.pos = t + Len(s)
    BY SMTT(20), <1>1, <1>3, <1>4, <2>1
  <2>3. ASSUME NEW i \in 1..Len(s), s[i] = EmptyHeader PROVE FALSE
    <3>1. 2 * r.pos < t + i
      BY <2>3 DEF Continues
    <3> QED  BY <1>1, <1>3, <2>2, <3>1
  <2> QED  BY <2>2, <2>3
<1>5. ASSUME NEW i \in 1..Len(u)
      PROVE  /\ u[i] \in Body => \E k \in 1..Size[f] : u[i] = Block(f, k) /\ 2 * k = t + i
             /\ u[i] = EmptyHeader => \A j \in i..Len(u) : u[j] \notin Body \cup {LastHeader}
  <2>1. CASE i \in 1..Len(s)
    <3>1. /\ s[i] \in Body => \E k \in 1..Size[f] : s[i] = Block(f, k) /\ 2 * k = t + i
          /\ s[i] = EmptyHeader => \A j \in i..Len(s) : s[j] \notin Body \cup {LastHeader}
      BY <2>1 DEF Continues
    <3>2. \A j \in i..Len(u) : (j \in i..Len(s) /\ u[j] = s[j]) \/ u[j] = h
      BY <1>3, <2>1
    <3> QED  BY <1>2, <1>3, <1>4, <2>1, <3>1, <3>2
  <2>2. CASE i = Len(s) + 1
    BY <1>2, <1>3, <2>2
  <2> QED  BY <1>3, <2>1, <2>2
<1>6. ASSUME u[Len(u)] = LastHeader PROVE \E z \in {Size[f], l} : 2 * z + 1 = t + Len(u)
  <2>1. h = LastHeader
    BY <1>3, <1>6
  <2>2. 2 * r.size + 1 = t + Len(u)
    BY <1>1, <1>3, <1>4, <2>1
  <2> QED  BY <2>2
<1>7. Continues(f, l, q, u, t)
  BY <1>5, <1>6 DEF Continues
<1> QED  BY <1>7 DEF u

\* A file that becomes shorter while the server reads it.
LEMMA ContinuesShrink ==
    ASSUME NEW f \in File, NEW l \in Nat, l < Size[f], NEW r \in S!Session,
           NEW t, NEW s, Continues(f, Size[f], r, s, t)
    PROVE  Continues(f, l, r, s, t)
<1>1. r.pos \in Nat /\ Size[f] \in Nat
  BY SizeType DEF S!Session
<1>2. Size[f] <= r.pos => l <= r.pos
  BY <1>1
<1> QED  BY <1>2 DEF Continues

LEMMA BlocksAdd ==
    /\ \A f : Blocks(f, 0) = <<>> /\ Len(<<>>) = 0
    /\ \A f : \A n \in Nat : Append(Blocks(f, n), Block(f, n + 1)) = Blocks(f, n + 1)
<1>1. \A f : Blocks(f, 0) = <<>> /\ Len(<<>>) = 0
  BY DEF Blocks
<1>2. ASSUME NEW f, NEW n \in Nat
      PROVE  Append(Blocks(f, n), Block(f, n + 1)) = Blocks(f, n + 1)
  BY DEF Blocks
<1> QED  BY <1>1, <1>2

\* The steps of the client.
LEMMA GetCommand ==
    ASSUME Types, Types', Phase, UNCHANGED <<srv, len>>, C!Command PROVE Fetched'
<1>1. cl.pc = "prompt" /\ got' = <<>> /\ down' = down /\ cl'.pc = "reply"
  <2>1. \A cmd, f, msg : C!exec_command(cmd, f, msg) =>
           /\ cl.pc = "prompt" /\ got' = <<>> /\ down' = down
           /\ cl' = [cl EXCEPT !.pc = "reply", !.cmd = cmd, !.file = f, !.pos = 0,
                               !.watched = FALSE, !.count = @ + 1]
    BY DEF C!exec_command
  <2>2. \E cmd, f, msg : C!exec_command(cmd, f, msg)
    BY DEF C!Command, C!pwd, C!cd, C!dir, C!ftpget, C!ftpput
  <2> QED  BY <2>1, <2>2 DEF Types, C!Client
<1>2. Idle
  BY <1>1 DEF Phase, Unread, Argued, AnsweredAtOnce, FlowBegins, TextSent, Flowing, Putting
<1>3. down = <<>> /\ srv.pc \notin {"list", "file"}
  BY <1>2 DEF Idle, Waiting
<1> QED  BY <1>1, <1>3, BlocksAdd DEF Fetched

LEMMA GetReply ==
    ASSUME Types, Phase, Fetched, ~cl.astray, UNCHANGED <<srv, len>>, C!Reply PROVE Fetched'
<1> DEFINE place == C!AfterReply(down[1])
<1>1. /\ cl \in C!Client /\ down # <<>> /\ down' = Tail(down) /\ got' = got
      /\ cl.pc = "reply"
  BY ReplyIs DEF Types, C!Reply
<1>2. /\ cl'.pc = place
      /\ place # "prompt" => cl'.cmd = cl.cmd /\ cl'.file = cl.file
      /\ place = "prompt" => cl'.cmd = "none"
  BY ReplyIs
<1> SUFFICES ASSUME cl'.cmd = "get" PROVE Fetched'
  BY DEF Fetched
<1>3. cl.cmd = "get" /\ cl'.file = cl.file /\ cl'.pc # "prompt"
  BY <1>2
<1>4. place = "data" /\ down[1].type = "OK"
  BY <1>2, <1>3 DEF C!AfterReply, C!Is
<1>5. FlowBegins
  <2>1. ~ AnsweredAtOnce
    <3> SUFFICES ASSUME down \in {<<LastHeader>>, <<ErrHeader>>} PROVE FALSE
      BY <1>3 DEF AnsweredAtOnce
    <3>1. down[1] \in Ends
      BY DEF Ends
    <3> QED  BY <1>4, <3>1 DEF Ends, LastHeader, ErrHeader
  <2> QED
    BY <1>1, <2>1 DEF Phase, Idle, Unread, Argued, TextSent, Flowing, Putting
<1>6. /\ got = <<>> /\ Continues(cl.file, len[cl.file], srv, Tail(down), 0)
      /\ got = Blocks(cl.file, Len(got))
      /\ srv.pc \in {"list", "file"} => Reads(srv, cl.file, len[cl.file])
  BY <1>1, <1>3, <1>5 DEF FlowBegins, Fetched
<1>7. Taken' = 0
  BY <1>1, <1>2, <1>4, <1>6, BlocksAdd DEF Taken
<1> QED  BY <1>1, <1>2, <1>3, <1>4, <1>6, <1>7 DEF Fetched

LEMMA GetData ==
    ASSUME Types, Phase, Fetched, ~cl.astray, UNCHANGED <<srv, len>>, C!RecvData PROVE Fetched'
<1> DEFINE place == C!AfterData(down[1])
<1>1. /\ cl \in C!Client /\ down # <<>> /\ down' = Tail(down) /\ got' = got
      /\ cl.pc = "data" /\ down \in Seq(Part) /\ srv \in S!Session
  BY DataIs DEF Types, C!RecvData
<1>2. /\ cl'.pc = place
      /\ place # "prompt" => cl'.cmd = cl.cmd /\ cl'.file = cl.file
      /\ place = "prompt" => cl'.cmd = "none"
  BY DataIs
<1> SUFFICES ASSUME cl'.cmd = "get" PROVE Fetched'
  BY DEF Fetched
<1>3. cl.cmd = "get" /\ cl'.file = cl.file /\ place # "prompt"
  BY <1>2
<1>4. Flowing
  BY <1>1 DEF Phase, Idle, Unread, Argued, AnsweredAtOnce, FlowBegins, TextSent, Putting
<1>5. down[1] \in {DataHeader, EmptyHeader} \cup Ends
  BY <1>1, <1>4, FlowTail DEF Flowing
<1>6. down[1] \notin Ends
  BY <1>3, ClientParts, Bodies DEF C!AfterData, Ends, LastHeader, ErrHeader
<1>7. /\ Continues(cl.file, len[cl.file], srv, down, Taken)
      /\ got = Blocks(cl.file, Len(got))
      /\ srv.pc \in {"list", "file"} => Reads(srv, cl.file, len[cl.file])
  BY <1>1, <1>3 DEF Fetched
<1>8. Taken = 2 * Len(got) /\ Taken \in Nat
  BY <1>1 DEF Taken, Types
<1>9. CASE down[1] = DataHeader
  <2>1. place = "block" /\ down[1] # EmptyHeader
    BY <1>9, ClientParts, Bodies DEF C!AfterData, DataHeader
  <2>2. Taken' = Taken + 1
    BY <1>1, <1>2, <1>8, <2>1 DEF Taken
  <2>3. Continues(cl.file, len[cl.file], srv, Tail(down), Taken + 1)
    BY <1>1, <1>7, <1>8, <2>1, ContinuesTail
  <2> QED  BY <1>1, <1>2, <1>3, <1>7, <2>1, <2>2, <2>3 DEF Fetched
<1>10. CASE down[1] = EmptyHeader
  <2>1. place = "data"
    BY <1>10, ClientParts, Bodies DEF C!AfterData, EmptyHeader
  <2>2. Taken' = Taken
    BY <1>1, <1>2, <1>8, <2>1 DEF Taken
  <2>3. Continues(cl.file, len[cl.file], srv, Tail(down), Taken)
    BY <1>1, <1>7, <1>8, <1>10, ContinuesEmpty
  <2> QED  BY <1>1, <1>2, <1>3, <1>7, <2>1, <2>2, <2>3 DEF Fetched
<1> QED  BY <1>5, <1>6, <1>9, <1>10

LEMMA GetBlock ==
    ASSUME Types, Phase, Fetched, ~cl.astray, UNCHANGED <<srv, len>>, C!RecvBlock PROVE Fetched'
<1>0. C!TakesBody("block") /\ C!At("data")
  BY DEF C!RecvBlock, C!AfterBlock
<1>1. /\ cl \in C!Client /\ down # <<>> /\ down' = Tail(down) /\ got \in Seq(Part)
      /\ cl.pc = "block" /\ down \in Seq(Part) /\ srv \in S!Session
      /\ got' = IF cl.cmd = "get" THEN Append(got, down[1]) ELSE got
  BY <1>0, BodyIs DEF Types, C!RecvBlock, C!Written
<1>2. cl'.pc = "data" /\ cl'.cmd = cl.cmd /\ cl'.file = cl.file
  BY <1>0, BodyIs
<1> SUFFICES ASSUME cl.cmd = "get" PROVE Fetched'
  BY <1>2 DEF Fetched
<1>3. Flowing
  BY <1>1 DEF Phase, Idle, Unread, Argued, AnsweredAtOnce, FlowBegins, TextSent, Putting
<1>4. down[1] \in Body /\ down[1] # EmptyHeader /\ 1 \in 1..Len(down)
  <2>1. Flow(srv, down, TRUE)
    BY <1>1, <1>3 DEF Flowing
  <2>2. down[1] \in Body /\ down[1] \notin Header /\ EmptyHeader \in Header
    BY <1>1, <2>1, FlowTail, Bodies
  <2>3. Len(down) \in Nat /\ Len(down) > 0
    BY <1>1, TailParts
  <2> QED  BY <2>2, <2>3
<1>5. /\ Continues(cl.file, len[cl.file], srv, down, Taken)
      /\ got = Blocks(cl.file, Len(got))
      /\ srv.pc \in {"list", "file"} => Reads(srv, cl.file, len[cl.file])
  BY <1>1 DEF Fetched
<1> DEFINE n == Len(got)
<1>6. Taken = 2 * n + 1 /\ n \in Nat
  BY <1>1 DEF Taken
<1>7. down[1] = Block(cl.file, n + 1)
  <2>1. PICK k \in 1..Size[cl.file] : down[1] = Block(cl.file, k) /\ 2 * k = Taken + 1
    BY <1>4, <1>5 DEF Continues
  <2>2. Size[cl.file] \in Nat
    BY <1>1, SizeType DEF C!Client
  <2>3. k = n + 1
    BY <1>6, <2>1, <2>2
  <2> QED  BY <2>1, <2>3
<1>8. got' = Blocks(cl.file, n + 1)
  BY <1>1, <1>5, <1>6, <1>7, BlocksAdd
<1>9. Len(got') = n + 1
  BY <1>6, <1>8, BlocksLen
<1>10. Taken' = Taken + 1 /\ Taken \in Nat
  <2>1. Taken' = 2 * (n + 1)
    BY <1>2, <1>9 DEF Taken
  <2> QED  BY <1>6, <2>1
<1>11. Continues(cl.file, len[cl.file], srv, Tail(down), Taken + 1)
  BY <1>1, <1>4, <1>5, <1>10, ContinuesTail
<1> QED  BY <1>1, <1>2, <1>5, <1>8, <1>9, <1>10, <1>11 DEF Fetched

LEMMA GetClient ==
    ASSUME Types, Types', Phase, Fetched, ~cl.astray, cl'.pc # "exit", Client PROVE Fetched'
<1>1. UNCHANGED <<srv, len>> /\ cl \in C!Client
  BY DEF Client, Types
<1>2. ~ C!AtEnd
  BY PhaseOpen, ClientParts DEF C!AtEnd, Open
<1>3. ~ C!More
  <2>1. C!TakesHeader("reply") \/ C!TakesHeader("data") => ~C!Astray
    BY ClientReads, AnswerFound, ClientParts DEF C!Astray
  <2> QED  BY <2>1 DEF C!More
<1>4. ~ C!quit /\ ~ C!Leave
  BY <1>1, ClientAt DEF C!quit, C!Leave, C!CPlace
<1>5. CASE C!RecvText \/ C!SendLast
  <2>1. cl'.cmd = "none"
    BY <1>1, <1>5, ClientAt DEF C!RecvText, C!SendLast, C!Return, C!CPlace
  <2> QED  BY <2>1 DEF Fetched
<1>6. CASE C!send_file
  <2>1. cl.pc = "send" /\ cl'.cmd = cl.cmd
    BY <1>1, <1>6 DEF C!send_file, C!Client
  <2> QED  BY <2>1 DEF Fetched
<1> QED
  BY <1>1, <1>2, <1>3, <1>4, <1>5, <1>6, GetCommand, GetReply, GetData, GetBlock
  DEF Client, C!Receive, C!RecvEnd, C!Transmit, C!Hangup, C!Sigpipe

\* What the server adds to a get, wherever it is in the stream.
LEMMA GetAdds ==
    ASSUME Types, Phase, Fetched, cl.cmd = "get", srv.pc = "file",
           UNCHANGED <<cl, got, len>>, NEW m, Packet(m),
           \/ /\ srv'.pc = "file" /\ Reads(srv', cl.file, len[cl.file])
              /\ down' = down \o ((IF srv.first_data THEN <<RetrHeader>> ELSE <<>>) \o m)
           \/ srv'.pc = "handler" /\ m[1] \in Ends /\ down' = down \o m,
           \A s \in Seq(Part), t \in Nat :
              Continues(cl.file, len[cl.file], srv, s, t) /\ ~Over(s)
                 => Continues(cl.file, len[cl.file], srv', s \o m, t)
    PROVE  Fetched'
<1>1. /\ down \in Seq(Part) /\ RetrHeader \in Part /\ m \in Seq(Part) /\ m # <<>>
      /\ got \in Seq(Part)
  <2>1. m \in Seq(Part) /\ m # <<>>
    BY EmptyStream, NoPackets, PacketAdded
  <2> QED  BY <2>1, Bodies, BodyTypes DEF Types
<1>2. FlowBegins \/ Flowing
  BY DEF Phase, Idle, Waiting, Unread, Argued, AnsweredAtOnce, TextSent, Putting
<1>3. /\ cl.pc \in {"reply", "data", "block"} /\ got = Blocks(cl.file, Len(got))
      /\ cl.pc = "reply" => got = <<>>
      /\ srv.first_data => srv.pos = 0
  BY DEF Fetched, Reads
<1>4. srv'.pc \in {"list", "file"} => Reads(srv', cl.file, len[cl.file])
  OBVIOUS
<1>5. ASSUME cl.pc = "reply", down' # <<>>, down'[1] = RetrHeader
      PROVE  Continues(cl.file, len[cl.file], srv', Tail(down'), 0)
  <2>1. FlowBegins
    BY <1>2, <1>5 DEF Flowing
  <2>2. CASE srv.first_data
    <3>1. down = <<>>
      BY <2>1, <2>2 DEF FlowBegins, Flow
    <3>2. srv'.pc = "file"
      <4>1. down' = m => down'[1] # RetrHeader \/ m[1] \notin Ends
        BY Bodies
      <4>2. down \o m = m
        BY <1>1, <3>1, ConcatEmptySeq
      <4> QED  BY <1>5, <4>1, <4>2
    <3> DEFINE t == <<RetrHeader>>
    <3>3. t \in Seq(Part) /\ t # <<>> /\ t[1] = RetrHeader /\ Tail(t) = <<>>
      BY <1>1, Single
    <3>4. down' = down \o (t \o m)
      BY <2>2, <3>2
    <3> HIDE DEF t
    <3>5. down' = t \o m
      <4>1. t \o m \in Seq(Part)
        BY <1>1, <3>3
      <4> QED  BY <3>1, <3>4, <4>1, ConcatEmptySeq
    <3>6. Tail(down') = <<>> \o m
      <4>1. Tail(t \o m) = Tail(t) \o m
        BY <1>1, <3>3, FirstOfBoth
      <4> QED  BY <3>3, <3>5, <4>1
    <3>7. Continues(cl.file, len[cl.file], srv, <<>>, 0)
      BY <1>3, <2>2, ContinuesFirst
    <3> QED  BY <3>6, <3>7, EmptyStream, NoPackets
  <2>3. CASE ~srv.first_data
    <3>1. /\ down # <<>> /\ down[1] = RetrHeader /\ ~Over(Tail(down))
      BY <2>1, <2>3 DEF FlowBegins, Flow
    <3>2. down' = down \o m
      BY <1>1, <2>3, ConcatEmptySeq
    <3>3. Tail(down) \in Seq(Part) /\ Tail(down') = Tail(down) \o m
      BY <1>1, <3>1, <3>2, FirstOfBoth, TailParts
    <3>4. Continues(cl.file, len[cl.file], srv, Tail(down), 0)
      BY <1>5, <3>1 DEF Fetched
    <3> QED  BY <3>1, <3>3, <3>4
  <2> QED  BY <2>2, <2>3
<1>6. ASSUME cl.pc # "reply"
      PROVE  Continues(cl.file, len[cl.file], srv', down', Taken)
  <2>1. Flowing
    BY <1>2, <1>6 DEF FlowBegins
  <2>2. ~Over(down) /\ ~srv.first_data
    BY <2>1 DEF Flowing, Flow
  <2>3. down' = down \o m
    BY <1>1, <2>2, ConcatEmptySeq
  <2>4. Continues(cl.file, len[cl.file], srv, down, Taken)
    BY <1>6 DEF Fetched
  <2>5. Taken \in Nat
    BY <1>1 DEF Taken
  <2> QED  BY <1>1, <2>2, <2>3, <2>4, <2>5
<1>7. Taken' = Taken
  BY DEF Taken
<1> QED  BY <1>3, <1>4, <1>5, <1>6, <1>7 DEF Fetched

LEMMA GetSending ==
    ASSUME Types, Phase, Fetched, ~srv.astray, cl.cmd = "get", UNCHANGED <<cl, got, len>>,
           S!list_dir \/ S!send_file \/ S!GetFails \/ S!SendLast
    PROVE  Fetched'
<1> DEFINE f == cl.file
           l == len[f]
<1>1. srv \in S!Session /\ f \in File /\ l \in Nat /\ l <= Size[f] /\ Size[f] \in Nat
  BY SizeType DEF Types, C!Client
<1>2. srv.pc \in {"list", "file"} /\ Reads(srv, f, l)
  BY DEF Fetched, S!list_dir, S!send_file, S!GetFails, S!SendLast
<1>3. srv.pc = "file" /\ srv.file = f /\ srv.size \in {Size[f], l} /\ srv.pos \in Nat
      /\ srv.pos <= srv.size /\ srv.size \in Nat
  BY <1>1, <1>2 DEF Reads, S!Session
<1> HIDE DEF f, l
<1>4. ASSUME NEW m, Packet(m), m[1] \notin Ends,
             NEW q \in {srv, [srv EXCEPT !.pos = @ + 1]}, S!send_data(m, q),
             q.pos <= q.size,
             \A s \in Seq(Part), t \in Nat :
                Continues(f, l, srv, s, t) /\ ~Over(s)
                   => Continues(f, l, [q EXCEPT !.first_data = FALSE], s \o m, t)
      PROVE  Fetched'
  <2> DEFINE r == [q EXCEPT !.first_data = FALSE]
             x == (IF srv.first_data THEN <<RetrHeader>> ELSE <<>>) \o m
  <2>1. /\ r.pc = "file" /\ r.file = f /\ r.size = srv.size /\ r.first_data = FALSE
        /\ r.pos = q.pos /\ q.size = srv.size /\ ~r.astray
    BY <1>1, <1>3 DEF S!Session
  <2>2. S!Send(x, r)
    BY <1>4, ServerParts DEF S!send_data, S!Packet, Bare, RetrHeader
  <2>3. x \in Seq(Part)
    <3>1. m \in Seq(Part)
      BY <1>4, EmptyStream, NoPackets, PacketAdded
    <3>2. <<RetrHeader>> \in Seq(Part)
      BY Bodies, BodyTypes
    <3> QED  BY <3>1, <3>2, EmptyStream
  <2>4. Reads(r, f, l)
    BY <1>3, <1>4, <2>1 DEF Reads
  <2>5. \A s \in Seq(Part), t \in Nat :
           Continues(f, l, srv, s, t) /\ ~Over(s) => Continues(f, l, r, s \o m, t)
    BY <1>4
  <2> HIDE DEF r
  <2>6. srv' = r /\ down' = down \o x
    BY <2>1, <2>2, <2>3, ServerSends
  <2> QED  BY <1>3, <1>4, <2>1, <2>4, <2>5, <2>6, GetAdds DEF f, l
<1>5. ~ S!list_dir
  BY <1>3 DEF S!list_dir
<1>6. CASE S!send_file /\ srv.pos < l
  <2> DEFINE b == Block(f, srv.pos + 1)
             m == <<DataHeader, b>>
             q == [srv EXCEPT !.pos = @ + 1]
             r == [q EXCEPT !.first_data = FALSE]
  <2>1. With("DATA", "DATA", b) = m
    BY DEF With, DataHeader
  <2>2. S!send_data(m, q) /\ srv.pos < srv.size
    BY <1>3, <1>6, <2>1, ServerParts DEF S!send_file, l
  <2>3. b \in Body
    <3>1. srv.pos + 1 \in 1..Size[f]
      BY <1>1, <1>3, <1>6
    <3> QED  BY <1>1, <3>1, Bodies
  <2>4. Packet(m) /\ m[1] \notin Ends
    BY <2>3, Bodies DEF Packet
  <2>5. q.pos <= q.size
    BY <1>1, <1>3, <2>2 DEF S!Session
  <2>6. r \in S!Session /\ r.pc = "file" /\ r.pos = srv.pos + 1
    <3>1. q \in S!Session /\ q.pc = "file" /\ q.pos = srv.pos + 1
      BY <1>1, <1>3 DEF S!Session
    <3> HIDE DEF q
    <3> QED  BY <3>1 DEF S!Session
  <2> HIDE DEF r
  <2>7. \A s \in Seq(Part), t \in Nat :
           Continues(f, l, srv, s, t) /\ ~Over(s) => Continues(f, l, r, s \o m, t)
    BY <1>1, <1>3, <1>6, <2>6, ContinuesBlock
  <2> QED  BY <1>4, <2>2, <2>4, <2>5, <2>7 DEF r
<1>7. CASE S!send_file /\ ~(srv.pos < l)
  <2> DEFINE m == <<EmptyHeader>>
             r == [srv EXCEPT !.first_data = FALSE]
  <2>1. S!send_data(m, srv) /\ srv.pos < srv.size
    BY <1>3, <1>7, ServerParts DEF S!send_file, Bare, EmptyHeader, l
  <2>2. Packet(m) /\ m[1] \notin Ends
    BY Bodies DEF Packet
  <2>3. r \in S!Session /\ r.pc = "file" /\ r.pos = srv.pos /\ r.size = srv.size
    BY <1>1, <1>3 DEF S!Session
  <2>4. l <= srv.pos
    BY <1>1, <1>3, <1>7
  <2> HIDE DEF r
  <2>5. \A s \in Seq(Part), t \in Nat :
           Continues(f, l, srv, s, t) /\ ~Over(s) => Continues(f, l, r, s \o m, t)
    BY <1>1, <1>3, <2>1, <2>3, <2>4, ContinuesShort
  <2> QED  BY <1>3, <1>4, <2>1, <2>2, <2>5 DEF r
<1>8. CASE S!GetFails \/ S!SendLast
  <2> DEFINE r == S!Reset(S!Handler(srv))
  <2>1. PICK h \in Ends : S!Send(<<h>>, r) /\ (h = LastHeader => srv.pos = srv.size)
    <3>1. CASE S!GetFails
      BY <3>1, RepliesType, Bodies DEF S!GetFails, ErrHeader, Ends
    <3>2. CASE S!SendLast
      BY <3>2, RepliesType DEF S!SendLast, Ends
    <3> QED  BY <1>8, <3>1, <3>2
  <2>2. r.pc = "handler" /\ ~r.astray
    BY <1>1, SessionTypes
  <2> HIDE DEF r
  <2>3. Packet(<<h>>) /\ <<h>>[1] \in Ends /\ <<h>> \in Seq(Part)
    BY Bodies, BodyTypes DEF Packet
  <2>4. srv' = r /\ down' = down \o <<h>>
    BY <2>1, <2>2, <2>3, ServerSends
  <2>5. \A s \in Seq(Part), t \in Nat :
           Continues(f, l, srv, s, t) /\ ~Over(s) => Continues(f, l, r, s \o <<h>>, t)
    BY <1>1, <1>3, <2>1, <2>2, ContinuesEnd
  <2> QED  BY <1>3, <2>2, <2>3, <2>4, <2>5, GetAdds DEF f, l
<1> QED  BY <1>5, <1>6, <1>7, <1>8

LEMMA GetServer ==
    ASSUME Types, Phase, Serving(srv), Fetched, Server PROVE Fetched'
<1>1. UNCHANGED <<cl, got, len>>
  BY DEF Server, S!Step, S!Regular, S!quit, S!pwd, S!HasArgument, S!HasNoArgument,
     S!Undefined, S!More, S!cd, S!dir, S!list_dir,
     S!ftpget, S!GetRefused, S!send_file, S!GetFails, S!SendLast, S!ftpput, S!PutRefused,
     S!recv_file, S!RecvBlock, S!RecvFails, S!Stop, S!Sigpipe, S!Leave
<1> SUFFICES ASSUME cl.cmd = "get" PROVE Fetched'
  BY <1>1 DEF Fetched
<1>2. /\ cl \in C!Client /\ srv \in S!Session /\ cl.file \in File
      /\ cl.pc \in {"reply", "data", "block"} /\ got = Blocks(cl.file, Len(got))
      /\ cl.pc = "reply" => got = <<>>
  BY DEF Types, C!Client, Fetched
<1>3. ASSUME cl.pc = "reply", srv'.pc \notin {"list", "file"},
             down' # <<>> => down'[1] # RetrHeader
      PROVE  Fetched'
  BY <1>1, <1>2, <1>3 DEF Fetched
<1>4. ~ S!AtEnd /\ ~ S!Gone
  BY PhaseOpen, ServerParts DEF S!AtEnd, S!Gone, Open
<1>5. ~ S!RecvFails /\ ~ S!Stop /\ ~ S!Sigpipe /\ ~ S!More
  BY <1>4 DEF S!RecvFails, S!Stop, S!Sigpipe, S!More, Serving
<1>9. ~srv'.astray /\ ~srv.astray
  BY NotAstray, MessageFound DEF Serving, Server
<1>6. CASE S!quit \/ S!pwd \/ S!HasArgument \/ S!HasNoArgument \/ S!Undefined
  <2>0. up # <<>> /\ ~S!Astray /\ S!Reader = srv
    BY <1>6, <1>9, Aligned DEF HeaderStep, S!Step, S!Regular
  <2>1. srv.pc = "handler" /\ up # <<>>
    BY <1>6, <2>0 DEF S!quit, S!pwd, S!HasArgument, S!HasNoArgument, S!Undefined, S!Handle,
       S!TakesHeader
  <2>2. cl.pc = "reply" /\ down = <<>> /\ up = Asked(cl)
    BY <2>1, CommandFound
  <2>3. /\ up[1] \in Header /\ up[1].code = "OK" /\ up[1].type = "RETR"
        /\ up[1].length = 1
    BY <1>2, <2>2, AskedParts
  <2>4. S!HasArgument
    <3>1. \A type, n : S!Handle(type, n) => type = "RETR" /\ n = 1
      BY <2>0, <2>3 DEF S!Handle
    <3>2. ~S!quit
      BY <3>1 DEF S!quit
    <3>3. ~S!pwd /\ ~S!HasNoArgument
      <4>1. ~S!Handle("PWD", 0) /\ \A type : ~S!Handle(type, 0)
        BY <3>1
      <4> QED  BY <4>1 DEF S!pwd, S!HasNoArgument
    <3>4. up[1] \in S!Commands
      BY <2>3 DEF Header, S!Commands
    <3> QED  BY <1>6, <2>0, <3>2, <3>3, <3>4 DEF S!Undefined
  <2>5. srv'.pc = "argument" /\ down' = <<>>
    BY <1>2, <2>0, <2>2, <2>4 DEF S!HasArgument, S!Becomes, S!Session
  <2> QED  BY <1>3, <2>2, <2>5
<1>7. CASE S!cd \/ S!dir \/ S!ftpget \/ S!GetRefused \/ S!ftpput \/ S!PutRefused
  <2>1. srv.pc = "argument" /\ up # <<>>
    BY <1>7, ServerReads DEF S!cd, S!dir, S!ftpget, S!GetRefused, S!ftpput, S!PutRefused,
       S!Argument
  <2>2. Argued
    BY <2>1 DEF Phase, Idle, Waiting, Unread, AnsweredAtOnce, FlowBegins, TextSent, Flowing,
       Flow, Putting
  <2>3. /\ cl.pc = "reply" /\ down = <<>> /\ srv.cmd = "RETR"
        /\ up[1] = Name(cl.file)
    <3>1. Asked(cl)[1].type = "RETR" /\ Asked(cl)[2] = Name(cl.file)
      BY <1>2, AskedParts
    <3> QED  BY <2>2, <3>1 DEF Argued
  <2>4. CASE S!ftpget
    <3>1. PICK f \in S!Named : srv' = [srv EXCEPT !.pc = "file", !.file = f, !.pos = 0,
                                                !.size = len[f]]
      BY <2>4 DEF S!ftpget, S!Becomes
    <3>5. f = cl.file
      BY <1>2, <1>9, <2>3, <3>1, ServerParts DEF S!Named, Name
    <3>2. srv' = [srv EXCEPT !.pc = "file", !.file = cl.file, !.pos = 0,
                             !.size = len[cl.file]] /\ down' = <<>>
      BY <2>3, <2>4, <3>1, <3>5 DEF S!ftpget
    <3>3. len[cl.file] \in Nat
      BY <1>2 DEF Types
    <3>4. Reads(srv', cl.file, len[cl.file])
      BY <1>2, <3>2, <3>3 DEF Reads, S!Session
    <3> QED  BY <1>1, <1>2, <2>3, <3>2, <3>4 DEF Fetched
  <2>5. CASE S!GetRefused
    <3> DEFINE r == S!Reset(S!Handler(srv))
    <3>1. S!Send(<<ErrHeader>>, r) /\ <<ErrHeader>> \in Seq(Part)
      BY <2>5, RepliesType DEF S!GetRefused, ErrHeader
    <3>2. r.pc = "handler" /\ ~r.astray
      BY <1>2, <1>9, SessionTypes
    <3> HIDE DEF r
    <3>3. srv' = r /\ down' = <<ErrHeader>>
      BY <2>3, <3>1, <3>2, ServerSends
    <3>4. <<ErrHeader>>[1] # RetrHeader
      BY Bodies DEF Ends
    <3> QED  BY <1>3, <2>3, <3>2, <3>3, <3>4
  <2> QED
    BY <1>7, <2>3, <2>4, <2>5 DEF S!cd, S!dir, S!ftpput, S!PutRefused, S!Argument
<1>8. CASE S!recv_file \/ S!RecvBlock
  <2>1. srv.pc \in {"recv", "block"} /\ down' = down
    BY <1>8 DEF S!recv_file, S!RecvBlock, S!TakesHeader, S!TakesBody
  <2>2. Unread
    BY <1>2, <2>1 DEF Phase, Idle, Argued, AnsweredAtOnce, FlowBegins, TextSent, Flowing, Flow,
       Putting
  <2>3. srv'.pc \notin {"list", "file"}
    <3>1. CASE S!recv_file
      <4>1. PICK place \in {"recv", "block", "handler"} : S!Goes(S!Reader, place)
        BY <3>1 DEF S!recv_file, S!AfterHeader, S!Places
      <4>2. S!Reader \in S!Session /\ place \in S!SPlace
        BY <3>1, ServerReads DEF S!recv_file, S!SPlace
      <4> QED  BY <4>1, <4>2, GoesTypes
    <3>2. CASE S!RecvBlock
      <4>1. S!Goes(srv, "recv") /\ "recv" \in S!SPlace
        BY <1>9, <3>2 DEF S!RecvBlock, S!SPlace
      <4> QED  BY <1>2, <4>1, GoesTypes
    <3> QED  BY <1>8, <3>1, <3>2
  <2> QED  BY <1>3, <2>1, <2>2, <2>3 DEF Unread
<1> QED
  BY SMTT(20), <1>1, <1>5, <1>6, <1>7, <1>8, <1>9, GetSending DEF Server, S!Step, S!Regular

LEMMA GetShrink ==
    ASSUME Types, Fetched, Shrink PROVE Fetched'
<1>1. UNCHANGED <<cl, got, srv, down>>
  BY DEF Shrink, S!Shrink, C!Shrink
<1>0. CASE \E f \in File : C!Shrink(f)
  <2>1. UNCHANGED <<cl, got, srv, down>> /\ cl.pc = "send"
    BY <1>0, <1>1 DEF C!Shrink
  <2> QED  BY <2>1 DEF Fetched
<1> SUFFICES ASSUME \E f \in File : S!Shrink(f) PROVE Fetched'
  BY <1>0 DEF Shrink
<1> SUFFICES ASSUME cl.cmd = "get" PROVE Fetched'
  BY <1>1 DEF Fetched
<1> DEFINE f == cl.file
<1>2. /\ f \in File /\ srv \in S!Session /\ Size[f] \in Nat /\ len \in [File -> Nat]
      /\ cl.pc \in {"reply", "data", "block"} /\ got = Blocks(f, Len(got))
      /\ cl.pc = "reply" => got = <<>>
  BY SizeType DEF Types, C!Client, Fetched
<1>3. PICK g \in File : S!Shrink(g)
  OBVIOUS
<1>4. srv.pc = "file" /\ srv.file = g /\ len[g] = Size[g] /\ len[g] > 0
      /\ len' = [len EXCEPT ![g] = @ - 1]
  BY <1>3 DEF S!Shrink
<1>5. g = f /\ Reads(srv, f, Size[f])
  BY <1>4 DEF Fetched, Reads
<1>6. len[f] = Size[f] /\ len'[f] \in Nat /\ len'[f] < Size[f]
  BY <1>2, <1>4, <1>5
<1>7. Reads(srv, f, len'[f])
  BY <1>5 DEF Reads
<1>8. \A s, t : Continues(f, Size[f], srv, s, t) => Continues(f, len'[f], srv, s, t)
  BY <1>2, <1>6, ContinuesShrink
<1>9. /\ cl.pc # "reply" => Continues(f, len[f], srv, down, Taken)
      /\ cl.pc = "reply" /\ down # <<>> /\ down[1] = RetrHeader =>
            Continues(f, len[f], srv, Tail(down), 0)
  BY DEF Fetched
<1>10. Taken' = Taken
  BY <1>1 DEF Taken
<1>11. /\ cl'.pc # "reply" => Continues(f, len'[f], srv', down', Taken')
       /\ cl'.pc = "reply" /\ down' # <<>> /\ down'[1] = RetrHeader =>
             Continues(f, len'[f], srv', Tail(down'), 0)
  BY <1>1, <1>6, <1>8, <1>9, <1>10
<1> QED  BY <1>1, <1>2, <1>7, <1>11 DEF Fetched

LEMMA GetStep == GetInv /\ [Next]_vars => GetInv'
<1> SUFFICES ASSUME GetInv, [Next]_vars PROVE GetInv'
  OBVIOUS
<1>1. Types' /\ Sync'
  BY TypesStep, SyncStep DEF GetInv
<1> SUFFICES ASSUME orderly', cl'.pc # "exit" PROVE Fetched'
  BY <1>1 DEF GetInv
<1>2. orderly /\ (Client \/ Server \/ Shrink \/ UNCHANGED vars)
  BY StillOrderly DEF GetInv
<1>5. cl.pc # "exit"
  <2>1. Server \/ Shrink \/ UNCHANGED vars => cl' = cl
    BY DEF Server, Shrink, C!Shrink, vars
  <2> QED  BY <1>2, <2>1, ClientGone
<1>3. Types /\ Serving(srv) /\ Phase /\ Fetched /\ ~cl.astray
  BY <1>2, <1>5 DEF GetInv, Sync
<1>4. CASE UNCHANGED vars
  BY <1>3, <1>4 DEF vars, Fetched, Taken
<1> QED  BY <1>1, <1>2, <1>3, <1>4, GetClient, GetServer, GetShrink

\* The client's half: it takes the last packet of a get.
LEMMA GetEnds ==
    ASSUME GetInv, [Next]_vars, orderly', cl.cmd = "get", cl.pc = "data", cl'.pc = "prompt",
           Readable(down), down[1] = LastHeader
    PROVE  got \in {Blocks(cl.file, n) : n \in {Size[cl.file], len[cl.file]}}
<1>0. orderly /\ (Client \/ Server \/ Shrink \/ UNCHANGED vars)
  BY StillOrderly DEF GetInv
<1>1. orderly /\ Client
  BY <1>0 DEF Server, Shrink, C!Shrink, vars
<1>2. /\ Types /\ Phase /\ ~cl.astray /\ down \in Seq(Part) /\ got \in Seq(Part)
      /\ got = Blocks(cl.file, Len(got)) /\ cl.file \in File
      /\ Continues(cl.file, len[cl.file], srv, down, Taken)
  BY <1>1 DEF GetInv, Sync, Fetched, Types, C!Client
<1>3. Flow(srv, down, FALSE)
  BY <1>2 DEF Phase, Idle, Unread, Argued, AnsweredAtOnce, FlowBegins, TextSent, Flowing, Putting
<1>9. down # <<>>
  BY DEF Readable
<1>4. Len(down) = 1
  <2>1. Tail(down) = <<>>
    BY <1>2, <1>3, <1>9, FlowTail DEF Ends
  <2> QED  BY <1>2, <1>9, <2>1, TailParts
<1>5. Taken = 2 * Len(got) /\ Len(got) \in Nat
  BY <1>2 DEF Taken
<1>6. PICK z \in {Size[cl.file], len[cl.file]} : 2 * z + 1 = Taken + Len(down)
  BY <1>2, <1>4, <1>9 DEF Continues
<1>7. z \in Nat
  BY <1>2, SizeType DEF Types
<1>8. z = Len(got)
  BY <1>4, <1>5, <1>6, <1>7
<1> QED  BY <1>2, <1>8

\* The server's half: it takes the last packet of a put.
LEMMA PutEnds ==
    ASSUME PutInv, ~srv.astray, srv.pc = "recv", up # <<>>, up[1] = LastHeader
    PROVE  stored[srv.file] \in {Blocks(srv.file, n) : n \in {Size[srv.file], here[srv.file]}}
<1>1. Expected(up, srv.file, Have, here) /\ Unmixed /\ srv.file \in File
  BY DEF PutInv, Stream, Types, S!Session
<1>2. Have \in {Size[srv.file], here[srv.file]}
  BY <1>1 DEF Expected, Lengths
<1> QED  BY <1>1, <1>2 DEF Unmixed, Have

\* A server that is not astray after a step was not so before.
LEMMA NeverBack ==
    ASSUME Types, [Next]_vars, ~srv'.astray PROVE ~srv.astray
<1>1. CASE Server \/ ServerTrouble
  BY <1>1, Aligned DEF Server, ServerTrouble
<1>2. CASE srv' = srv
  BY <1>2
<1> QED  BY <1>1, <1>2
         DEF Next, Client, ClientTrouble, Shrink, Ended, S!Shrink, C!Shrink, vars

\* Who takes the last packet has exactly the file, or of a file that was cut off before
\* or meanwhile what was left: the server for every put, whatever was late before, as
\* long as it has not taken a body for a header; the client for every get before which
\* nothing was late (recv_file and send_file of common.c).
THEOREM TransfersWhole == Spec => TransferComplete
<1>1. Init => PutInv /\ GetInv
  <2> SUFFICES ASSUME Init PROVE PutInv /\ GetInv
    OBVIOUS
  <2>1. Types /\ PutInv /\ Sync
    BY TypesInit, PutInit, SyncInit
  <2>2. cl.cmd = "none"
    BY DEF Init, C!Init
  <2> QED  BY <2>1, <2>2 DEF GetInv, Fetched
<1>2. PutInv /\ GetInv /\ [Next]_vars
        => [ /\ (/\ ~srv'.astray /\ srv.pc = "recv" /\ srv'.pc = "handler"
                /\ Readable(up) /\ up[1] = S!Last[1]
                => stored[srv.file] \in {Blocks(srv.file, n) :
                                         n \in {Size[srv.file], here[srv.file]}})
             /\ (/\ orderly' /\ cl.cmd = "get" /\ cl.pc = "data" /\ cl'.pc = "prompt"
                /\ Readable(down) /\ down[1] = S!Last[1]
                => got \in {Blocks(cl.file, n) : n \in {Size[cl.file], len[cl.file]}}) ]_vars
  <2>1. S!Last[1] = LastHeader
    BY RepliesType
  <2> QED  BY <2>1, GetEnds, PutEnds, NeverBack DEF Readable, PutInv
<1> QED  BY <1>1, <1>2, PutStep, GetStep, PTL DEF Spec, TransferComplete

-----------------------------------------------------------------------------
(***************************************************************************)
(* What is safety in CommandReturns: while a command runs, the client and  *)
(* the server never wait for each other, neither both for a message nor    *)
(* both for room in a socket buffer.                                       *)
(***************************************************************************)
\* What the client waits for is there, or there is room for what it sends.
ClientGoesOn ==
    \/ cl.pc \in {"reply", "text", "data", "block"} /\ Readable(down)
    \/ cl.pc = "send" /\ cl.pos <= cl.size /\ Len(up) + 2 <= Window

\* The same of the server, with room for the longest answer it may send.
ServerGoesOn ==
    \/ srv.pc \in {"recv", "block"} /\ Readable(up)
    \/ /\ srv.pc \in {"handler", "argument"} /\ Readable(up) /\ Len(down) + 2 <= Window
       /\ srv.pc = "argument" => srv.cmd # "none"
    \/ srv.pc \in {"list", "file"} /\ srv.pos <= srv.size /\ Len(down) + 3 <= Window

OneGoesOn == orderly /\ cl.pc \notin {"prompt", "exit"} => ClientGoesOn \/ ServerGoesOn

\* list_dir and send_file do not go beyond the end.
Bounded == srv.pc \in {"list", "file"} => srv.pos <= srv.size

LEMMA BoundedStep == Types /\ Bounded /\ [Next]_vars => Bounded'
<1> SUFFICES ASSUME Types, Bounded, [Next]_vars PROVE Bounded'
  OBVIOUS
<1>1. srv \in S!Session /\ srv.pos \in Nat /\ srv.size \in Nat
  BY DEF Types, S!Session
<1>2. S!Reader \in S!Session /\ S!Reader = [srv EXCEPT !.astray = S!Astray]
  <2>1. S!Astray \in BOOLEAN
    BY <1>1 DEF S!Astray, S!Session
  <2> QED  BY <1>1, <2>1 DEF S!Reader, S!Session
<1>3. ASSUME NEW s \in S!Session, NEW n \in 0..MaxEntries,
             srv' = [s EXCEPT !.pc = "list", !.pos = 0, !.size = n]
      PROVE  Bounded'
  <2>1. srv'.pos = 0 /\ srv'.size = n
    BY <1>3 DEF S!Session
  <2>2. n >= 0
    BY <1>3
  <2> QED  BY <2>1, <2>2 DEF Bounded
<1>4. ASSUME NEW s \in {srv, S!Reader}, srv'.pc = s.pc, srv'.pos = s.pos, srv'.size = s.size
      PROVE  Bounded'
  <2>1. s.pc = srv.pc /\ s.pos = srv.pos /\ s.size = srv.size
    BY <1>1, <1>2 DEF S!Session
  <2> QED  BY <1>4, <2>1 DEF Bounded
<1>5. CASE S!dir
  BY <1>1, <1>3, <1>5 DEF S!dir, S!Becomes
<1>6. CASE S!HasNoArgument
  <2>1. CASE S!Send(S!file_err, S!Reset(S!Reader))
    <3>1. srv' = S!Reset(S!Reader)
      BY <2>1, SendAstray
    <3> QED  BY <1>2, <1>4, <3>1 DEF S!Reset, S!Session
  <2> QED
    BY <1>2, <1>3, <1>6, <2>1 DEF S!HasNoArgument, S!Becomes
<1>7. CASE S!ftpget
  <2>1. PICK f \in File : srv' = [srv EXCEPT !.pc = "file", !.file = f, !.pos = 0,
                                             !.size = len[f]]
    BY <1>7 DEF S!ftpget, S!Becomes, S!Named
  <2>2. srv'.pos = 0 /\ srv'.size = len[f] /\ len[f] \in Nat
    BY <1>1, <2>1 DEF Types, S!Session
  <2> QED  BY <2>2 DEF Bounded
<1>8. CASE S!list_dir \/ S!send_file
  <2>1. srv.pos < srv.size
    BY <1>8 DEF S!list_dir, S!send_file
  <2>2. PICK s \in {srv, [srv EXCEPT !.pos = @ + 1]} : srv' = [s EXCEPT !.first_data = FALSE]
    BY <1>8, SendAstray DEF S!list_dir, S!send_file, S!send_data
  <2>3. srv'.size = srv.size /\ srv'.pos \in {srv.pos, srv.pos + 1}
    BY <1>1, <2>2 DEF S!Session
  <2> QED  BY <1>1, <2>1, <2>3 DEF Bounded
<1>9. CASE S!quit \/ S!HasArgument \/ S!cd \/ S!GetRefused \/ S!GetFails \/ S!SendLast
           \/ S!ftpput \/ S!PutRefused \/ S!recv_file \/ S!RecvBlock \/ S!RecvFails \/ S!Stop
           \/ S!Sigpipe \/ S!DirFails \/ S!WriteFails
  <2>1. /\ \A s \in {srv, S!Reader} : /\ S!Handler(s).pc = "handler"
                                       /\ S!Reset(S!Handler(s)).pc = "handler"
        /\ \A s \in S!Session : S!Reset(s).pc = s.pc
    BY <1>1, <1>2, SessionTypes
  <2>2. srv'.pc \notin {"list", "file"}
    <3>1. CASE S!quit \/ S!HasArgument \/ S!Stop \/ S!Sigpipe
      BY <1>1, <1>2, <3>1 DEF S!quit, S!HasArgument, S!Stop, S!Sigpipe, S!Leave, S!At,
         S!Becomes, S!Session
    <3>2. CASE S!cd \/ S!GetRefused \/ S!GetFails \/ S!SendLast \/ S!PutRefused \/ S!DirFails
               \/ S!RecvFails \/ S!WriteFails
      <4>1. \E s \in {srv, S!Reader} : srv' \in {S!Handler(s), S!Reset(S!Handler(s))}
        BY <3>2, SendAstray DEF S!cd, S!GetRefused, S!GetFails, S!SendLast, S!PutRefused,
           S!DirFails, S!RecvFails, S!WriteFails, S!Becomes
      <4> QED  BY <2>1, <4>1
    <3>3. CASE S!ftpput
      <4>1. PICK f \in File : srv' = S!Reset([srv EXCEPT !.pc = "recv", !.file = f])
        BY <3>3, SendAstray DEF S!ftpput, S!Named
      <4>2. /\ [srv EXCEPT !.pc = "recv", !.file = f] \in S!Session
            /\ [srv EXCEPT !.pc = "recv", !.file = f].pc = "recv"
        BY <1>1 DEF S!Session, S!SPlace
      <4> QED  BY <2>1, <4>1, <4>2
    <3>4. CASE S!recv_file \/ S!RecvBlock
      <4>1. PICK s \in {srv, S!Reader} : \E place \in S!Places : S!Goes(s, place)
        <5>1. CASE S!recv_file
          <6>1. S!AfterHeader(up[1]) \in S!Places
            BY DEF S!AfterHeader, S!Places
          <6> QED  BY <5>1, <6>1 DEF S!recv_file
        <5>2. CASE S!RecvBlock
          BY <5>2 DEF S!RecvBlock, S!Places
        <5> QED  BY <3>4, <5>1, <5>2
      <4>2. PICK place \in S!Places : S!Goes(s, place)
        BY <4>1
      <4>3. place \in S!SPlace /\ place \notin {"list", "file"} /\ s \in S!Session
        BY <1>1, <1>2 DEF S!Places, S!SPlace
      <4> QED  BY <4>2, <4>3, GoesTypes
    <3> QED  BY <1>9, <3>1, <3>2, <3>3, <3>4
  <2> QED  BY <2>2 DEF Bounded
<1>10. CASE S!pwd \/ S!PwdFails \/ S!Undefined \/ S!More \/ S!sigterm_handler
  <2>1. CASE S!pwd
    <3>1. srv' = S!Reset(S!Reader)
      BY <2>1, SendAstray DEF S!pwd
    <3> QED  BY <1>2, <1>4, <3>1 DEF S!Reset, S!Session
  <2>2. CASE S!PwdFails \/ S!Undefined
    BY <1>4, <2>2 DEF S!PwdFails, S!Undefined, S!Becomes
  <2>3. CASE S!More \/ S!sigterm_handler
    BY <1>1, <1>4, <2>3 DEF S!More, S!sigterm_handler, S!Becomes, S!Session
  <2> QED  BY <1>10, <2>1, <2>2, <2>3
<1>11. CASE srv' = srv
  BY <1>11 DEF Bounded
<1> QED  BY <1>5, <1>6, <1>7, <1>8, <1>9, <1>10, <1>11
         DEF Next, Client, ClientTrouble, Server, ServerTrouble, Shrink, Ended, S!Step, S!Regular,
             S!Trouble, S!Shrink, C!Shrink, vars

LEMMA GoesOn ==
    ASSUME Types, Sync, PutInv, Bounded
    PROVE  OneGoesOn
<1> SUFFICES ASSUME orderly, cl.pc \notin {"prompt", "exit"}, ~ ClientGoesOn
             PROVE  ServerGoesOn
  BY DEF OneGoesOn
<1>1. Phase /\ Serving(srv) /\ Open(up) /\ Open(down) /\ up \in Seq(Part) /\ down \in Seq(Part)
  BY PhaseOpen DEF Sync, Types
<1>2. /\ up # <<>> => Readable(up)
      /\ down # <<>> => Readable(down)
  BY <1>1 DEF Open, Readable
<1>3. Len(<<>>) = 0 /\ Window \in Nat /\ Window >= 3
  BY WindowAssumption
<1>4. CASE Unread
  <2>1. PICK p \in Seq(Part) : up = p \o Asked(cl) /\ Waiting(srv, p)
    BY <1>4 DEF Unread
  <2>2. Asked(cl) \in Seq(Part) /\ Asked(cl) # <<>>
    BY <1>4, AskedParts DEF Unread, Types
  <2>3. up # <<>>
    BY <2>1, <2>2, LastOfBoth
  <2> QED  BY <1>2, <1>3, <1>4, <2>1, <2>3 DEF Unread, Waiting, ServerGoesOn
<1>5. CASE Argued
  <2>1. srv.cmd # "none"
    BY SMTT(20), <1>5, AskedIs DEF Argued, Types, C!Client, C!CCmd, With
  <2> QED  BY <1>2, <1>3, <1>5, <2>1 DEF Argued, ServerGoesOn
<1>6. CASE AnsweredAtOnce \/ TextSent
  <2>1. down # <<>> /\ cl.pc \in {"reply", "text"}
    BY <1>6 DEF AnsweredAtOnce, TextSent, With, Bare
  <2> QED  BY <1>2, <2>1 DEF ClientGoesOn
<1>7. CASE FlowBegins
  <2>1. cl.pc = "reply" /\ ~ Readable(down)
    BY <1>7 DEF FlowBegins, ClientGoesOn
  <2>2. down = <<>> /\ srv.pc \in {"list", "file"}
    BY <1>2, <1>7, <2>1 DEF FlowBegins
  <2> QED  BY <1>3, <2>2 DEF ServerGoesOn, Bounded
<1>8. CASE Flowing
  BY <1>2, <1>3, <1>8 DEF Flowing, Flow, Over, ClientGoesOn, ServerGoesOn, Bounded
<1>9. CASE Putting
  <2>1. cl.pos <= cl.size
    BY <1>1, <1>9 DEF Putting, PutInv, Stream, Serving
  <2>2. ~ (Len(up) + 2 <= Window)
    BY <1>9, <2>1 DEF Putting, ClientGoesOn
  <2>3. up # <<>>
    BY <1>3, <2>2
  <2> QED  BY <1>2, <1>9, <2>3 DEF Putting, ServerGoesOn
<1> QED  BY <1>1, <1>4, <1>5, <1>6, <1>7, <1>8, <1>9 DEF Phase, Idle

\* As long as nothing was late or failed, a client in a command and the server do not
\* block each other, however small the socket buffers, for files of any length
\* (recv_msg and send_msg of common.c): WindowAssumption asks for room for one answer
\* with the packet behind it.
THEOREM NeitherStuck == Spec => []OneGoesOn
<1>1. Init => Bounded
  BY DEF Init, S!Init, Bounded
<1> QED  BY <1>1, TypesInit, SyncInit, PutInit, TypesStep, SyncStep, PutStep, BoundedStep, GoesOn,
            PTL DEF Spec
=============================================================================
