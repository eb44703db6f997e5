----------------------------- MODULE MySh_proofs -----------------------------
(***************************************************************************)
(* Proofs about mysh, for lines of any length, any number of jobs and any  *)
(* input: that gettoken, read_command and parseline read the lines of the  *)
(* grammar, how exec_recursive connects the commands, that they do not     *)
(* wait for each other for ever, and when the shell prompts.               *)
(***************************************************************************)
EXTENDS MySh, WellFoundedInduction, SequenceTheorems, FiniteSetTheorems, TLAPS

(***************************************************************************)
(* Induction on the natural numbers, for sets, from the theorems about     *)
(* well-founded relations.                                                 *)
(***************************************************************************)
LEMMA NatSetMin ==
    ASSUME NEW T \in SUBSET Nat, T # {}
    PROVE  \E x \in T : \A y \in T : x <= y
<1> DEFINE R == OpToRel(<, Nat)
<1>1. IsWellFoundedOn(R, Nat)
  BY NatLessThanWellFounded, Zenon
<1>2. \A x, y \in Nat : x < y => <<x, y>> \in R
  BY DEF OpToRel
<1> HIDE DEF R
<1>3. PICK x \in T : \A y \in T : ~ (<<y, x>> \in R)
  BY <1>1, WFMin
<1>4. ASSUME NEW y \in T PROVE x <= y
  <2>1. ~ (y < x)
    BY <1>2, <1>3, Zenon
  <2> QED
    BY <2>1
<1> QED
  BY <1>4

LEMMA NatSetInduction ==
    ASSUME NEW n \in Nat, NEW S, 0 \in S, \A k \in 0..n-1 : k \in S => k + 1 \in S
    PROVE  n \in S
<1> SUFFICES ASSUME n \notin S PROVE FALSE
  OBVIOUS
<1>1. PICK x \in Nat \ S : \A y \in Nat \ S : x <= y
  <2>1. Nat \ S \in SUBSET Nat /\ Nat \ S # {}
    OBVIOUS
  <2> QED
    BY <2>1, NatSetMin
<1>2. x # 0 /\ x - 1 \in 0..n-1 /\ x - 1 \in S
  BY <1>1
<1> QED
  BY <1>1, <1>2

(***************************************************************************)
(* The folds of MyShLine.  FoldLeft goes over sets of positions, the last  *)
(* one first; such a recursion has a solution, and from the front it is a  *)
(* loop that hands on its result.                                          *)
(***************************************************************************)
LEMMA MaxLast == ASSUME NEW n \in Nat, NEW s \in SUBSET (1..n), n \in s PROVE Max(s) = n
<1>1. \E x \in s : \A y \in s : x >= y
  OBVIOUS
<1>2. Max(s) \in s /\ \A y \in s : Max(s) >= y
  BY <1>1 DEF Max
<1>3. Max(s) \in 1..n /\ Max(s) >= n
  BY <1>2
<1> QED
  BY <1>3

LEMMA MaxIn == ASSUME NEW n \in Nat, NEW s \in SUBSET (1..n), s # {}
    PROVE  Max(s) \in s /\ \A y \in s : y <= Max(s)
<1> DEFINE T == {n - x : x \in s}
<1>1. \A x \in s : x \in Nat /\ n - x \in Nat
  OBVIOUS
<1>2. T \in SUBSET Nat /\ T # {}
  BY <1>1
<1>3. PICK m \in T : \A y \in T : m <= y
  BY <1>2, NatSetMin
<1>4. PICK x \in s : m = n - x
  OBVIOUS
<1>5. ASSUME NEW y \in s PROVE x >= y
  <2>1. m <= n - y
    BY <1>3
  <2> QED
    BY <1>1, <1>4, <2>1
<1> QED
  BY <1>5 DEF Max

FoldSolved(n, base, g, iter) ==
    \A s \in SUBSET (1..n) :
       iter[s] = IF s = {} THEN base ELSE g[Max(s)][iter[s \ {Max(s)}]]

LEMMA FoldExists ==
    ASSUME NEW n \in Nat, NEW X, NEW base \in X, NEW g \in [1..n -> [X -> X]]
    PROVE  \E iter \in [SUBSET (1..n) -> X] : FoldSolved(n, base, g, iter)
<1> DEFINE Solves(k, iter) == FoldSolved(k, base, g, iter)
           K == {k \in 0..n : \E iter \in [SUBSET (1..k) -> X] : Solves(k, iter)}
<1>1. 0 \in K
  <2> DEFINE iter == [s \in SUBSET (1..0) |-> base]
  <2>1. iter \in [SUBSET (1..0) -> X] /\ Solves(0, iter)
    BY DEF FoldSolved
  <2> HIDE DEF iter, Solves
  <2>2. \E it \in [SUBSET (1..0) -> X] : Solves(0, it)
    BY <2>1, Zenon
  <2>3. 0 \in 0..n
    OBVIOUS
  <2> QED
    BY <2>2, <2>3, Zenon
<1>2. ASSUME NEW k \in 0..n-1, k \in K PROVE k + 1 \in K
  <2>1. PICK iter \in [SUBSET (1..k) -> X] : Solves(k, iter)
    BY <1>2
  <2> DEFINE Before(s) == s \ {k + 1}
             next == [s \in SUBSET (1..k+1) |->
                        IF k + 1 \in s THEN g[k + 1][iter[Before(s)]] ELSE iter[s]]
  <2>2. \A s \in SUBSET (1..k+1) :
            Before(s) \in SUBSET (1..k) /\ (k + 1 \notin s => s \in SUBSET (1..k))
    OBVIOUS
  <2>3. next \in [SUBSET (1..k+1) -> X]
    BY <2>2
  <2>4. ASSUME NEW s \in SUBSET (1..k+1)
        PROVE  next[s] = IF s = {} THEN base ELSE g[Max(s)][next[s \ {Max(s)}]]
    <3>1. CASE k + 1 \in s
      <4>1. Max(s) = k + 1
        BY <3>1, MaxLast
      <4>2. next[Before(s)] = iter[Before(s)]
        BY <2>2
      <4> QED
        BY <3>1, <4>1, <4>2
    <3>2. CASE k + 1 \notin s
      <4>1. s \in SUBSET (1..k) /\ s \ {Max(s)} \in SUBSET (1..k)
        BY <2>2, <3>2
      <4>2. next[s] = iter[s] /\ next[s \ {Max(s)}] = iter[s \ {Max(s)}]
        BY <4>1
      <4> QED
        BY <2>1, <4>1, <4>2 DEF FoldSolved
    <3> QED
      BY <3>1, <3>2
  <2>5. Solves(k + 1, next)
    BY <2>4 DEF FoldSolved
  <2> HIDE DEF next, Solves
  <2> QED
    BY <2>3, <2>5
<1> HIDE DEF K
<1>3. n \in K
  BY <1>1, <1>2, NatSetInduction
<1> QED
  BY <1>3 DEF K

\* The loop of a fold that is solved.
LEMMA FoldLoop ==
    ASSUME NEW n \in Nat, NEW iter
    PROVE  /\ {} = 1..0
           /\ \A k \in 1..n : /\ 1..k \in SUBSET (1..n) /\ 1..k # {} /\ Max(1..k) = k
                              /\ (1..k) \ {k} = 1..k-1
<1>1. ASSUME NEW k \in 1..n PROVE Max(1..k) = k
  BY MaxLast
<1> QED
  BY <1>1

(***************************************************************************)
(* read_command and parseline.                                             *)
(***************************************************************************)
LEMMA ReadTokenType == \A b \in Seq(Token), t \in Token : ReadToken(b, t) \in Seq(Token)
BY DEF ReadToken

\* The fold of read_command is a loop over the tokens.
LEMMA ReadLoop ==
    ASSUME NEW input \in Seq(Token), NEW n \in Nat, n = Len(input)
    PROVE  \E st : /\ st[0] = <<>>
                   /\ \A k \in 1..n : st[k] = ReadToken(st[k - 1], input[k])
                   /\ read_command(input) = st[n]
<1> DEFINE g == [k \in 1..n |-> [x \in Seq(Token) |-> ReadToken(x, input[k])]]
           Solves(iter) ==
              iter = [s \in SUBSET (1..n) |->
                        IF s = {} THEN <<>> ELSE ReadToken(iter[s \ {Max(s)}], input[Max(s)])]
           It == CHOOSE iter : Solves(iter)
           st == [k \in 0..n |-> It[1..k]]
<1>1. DOMAIN input = 1..n /\ \A k \in 1..n : input[k] \in Token
  OBVIOUS
<1>2. read_command(input) = It[1..n]
  BY <1>1 DEF read_command, FoldLeft, MapThenFoldSet
<1>3. g \in [1..n -> [Seq(Token) -> Seq(Token)]]
  BY <1>1, ReadTokenType
<1>4. \A x \in Seq(Token), k \in 1..n : g[k][x] = ReadToken(x, input[k])
  OBVIOUS
<1> HIDE DEF g
<1>5. PICK iter \in [SUBSET (1..n) -> Seq(Token)] : FoldSolved(n, <<>>, g, iter)
  <2>1. <<>> \in Seq(Token)
    OBVIOUS
  <2> QED
    BY <1>3, <2>1, FoldExists
<1>6. Solves(iter)
  <2>1. ASSUME NEW s \in SUBSET (1..n), s # {}
        PROVE  iter[s] = ReadToken(iter[s \ {Max(s)}], input[Max(s)])
    <3>1. Max(s) \in 1..n
      BY <2>1, MaxIn
    <3>2. iter[s \ {Max(s)}] \in Seq(Token)
      BY <1>5
    <3>3. iter[s] = g[Max(s)][iter[s \ {Max(s)}]]
      BY <1>5, <2>1 DEF FoldSolved
    <3>4. g[Max(s)][iter[s \ {Max(s)}]] = ReadToken(iter[s \ {Max(s)}], input[Max(s)])
      BY <1>4, <3>1, <3>2
    <3> QED
      BY <3>3, <3>4
  <2>2. \A s \in SUBSET (1..n) :
           iter[s] = IF s = {} THEN <<>> ELSE ReadToken(iter[s \ {Max(s)}], input[Max(s)])
    BY <1>5, <2>1 DEF FoldSolved
  <2>3. iter = [s \in SUBSET (1..n) |-> iter[s]]
    BY <1>5
  <2> QED
    BY <2>2, <2>3, Zenon
<1> HIDE DEF Solves
<1>7. Solves(It)
  BY <1>6
<1>8. It[{}] = <<>>
  BY <1>7 DEF Solves
<1>9. ASSUME NEW k \in 1..n PROVE It[1..k] = ReadToken(It[1..k-1], input[k])
  <2>1. 1..k \in SUBSET (1..n) /\ 1..k # {} /\ Max(1..k) = k /\ (1..k) \ {k} = 1..k-1
    BY FoldLoop
  <2>2. It[1..k] = ReadToken(It[(1..k) \ {Max(1..k)}], input[Max(1..k)])
    BY <1>7, <2>1 DEF Solves
  <2> QED
    BY <2>1, <2>2
<1> HIDE DEF It
<1>10. st[0] = <<>>
  BY <1>8, FoldLoop
<1>11. \A k \in 1..n : st[k] = ReadToken(st[k - 1], input[k])
  BY <1>9
<1>12. read_command(input) = st[n]
  BY <1>2
<1> QED
  BY <1>10, <1>11, <1>12

LEMMA ReadIsSequence ==
    ASSUME NEW input \in Seq(Token)
    PROVE  read_command(input) \in Seq(Token)
<1> DEFINE n == Len(input)
<1>1. n \in Nat /\ \A k \in 1..n : input[k] \in Token
  OBVIOUS
<1>2. PICK st : /\ st[0] = <<>>
                /\ \A k \in 1..n : st[k] = ReadToken(st[k - 1], input[k])
                /\ read_command(input) = st[n]
  BY <1>1, ReadLoop
<1> HIDE DEF n
<1> DEFINE K == {k \in 0..n : st[k] \in Seq(Token)}
<1>3. 0 \in K
  <2>1. 0 \in 0..n /\ <<>> \in Seq(Token)
    BY <1>1
  <2> QED
    BY <1>2, <2>1
<1>4. ASSUME NEW k \in 0..n-1, k \in K PROVE k + 1 \in K
  <2>1. k + 1 \in 1..n /\ k + 1 \in 0..n /\ (k + 1) - 1 = k
    BY <1>1
  <2>2. st[k + 1] = ReadToken(st[k], input[k + 1])
    BY <1>2, <2>1
  <2> QED
    BY <1>1, <1>4, <2>1, <2>2, ReadTokenType
<1> HIDE DEF K
<1>5. n \in K
  BY <1>1, <1>3, <1>4, NatSetInduction
<1> QED
  BY <1>2, <1>5 DEF K

\* What parseline works on: the types of its blocks change, their number not.
Line(len) == [blocks : [1..len -> Token \cup {"DIR"}], bg : BOOLEAN, ok : BOOLEAN]

\* The fields of a line after one iteration, for a block in the middle.
LEMMA ParseBlockIs ==
    ASSUME NEW len \in Nat, NEW line \in Line(len), Len(line.blocks) = len, NEW i \in 2..len-1
    PROVE  LET b == line.blocks
               new == ParseBlock(line, i)
               good == /\ b[i] \in Redirections =>
                             b[i - 1] \in {"NORMAL", "DIR"} /\ b[i + 1] = "NORMAL"
                       /\ b[i] = "BG" => i = len - 1
           IN  /\ new \in Line(len)
               /\ ~line.ok => new = line
               /\ line.ok => (new.ok <=> good)
               /\ line.ok /\ good =>
                     /\ new.bg <=> line.bg \/ b[i] = "BG"
                     /\ new.blocks = [h \in 1..len |->
                           IF h = i + 1 /\ b[i] \in Redirections THEN "DIR" ELSE b[h]]
<1> DEFINE b == line.blocks
<1>1. b \in [1..len -> Token \cup {"DIR"}] /\ line.bg \in BOOLEAN /\ line.ok \in BOOLEAN
  BY DEF Line
<1>2. CASE ~line.ok
  BY <1>2 DEF ParseBlock
<1>3. CASE line.ok /\ b[i] \in Redirections
  <2>1. ParseBlock(line, i) = Redirect(line, i) /\ b[i] # "BG"
    BY <1>3 DEF ParseBlock, Redirections
  <2>2. CASE b[i - 1] \in {"NORMAL", "DIR"} /\ b[i + 1] = "NORMAL"
    <3>1. Redirect(line, i) = [line EXCEPT !.blocks[i + 1] = "DIR"]
      BY <2>2 DEF Redirect
    <3> DEFINE c == [b EXCEPT ![i + 1] = "DIR"]
    <3>2. /\ c \in [1..len -> Token \cup {"DIR"}]
          /\ c = [h \in 1..len |-> IF h = i + 1 THEN "DIR" ELSE b[h]]
      BY <1>1
    <3>3. [line EXCEPT !.blocks[i + 1] = "DIR"] = [line EXCEPT !.blocks = c]
      OBVIOUS
    <3> HIDE DEF c
    <3>4. ParseBlock(line, i) = [line EXCEPT !.blocks = c]
      BY <2>1, <3>1, <3>3
    <3>5. /\ [line EXCEPT !.blocks = c].blocks = c
          /\ [line EXCEPT !.blocks = c].ok = line.ok
          /\ [line EXCEPT !.blocks = c].bg = line.bg
      BY DEF Line
    <3>6. [line EXCEPT !.blocks = c] \in Line(len)
      BY <1>1, <3>2 DEF Line
    <3> QED
      BY <1>3, <2>1, <2>2, <3>2, <3>4, <3>5, <3>6
  <2>3. CASE ~(b[i - 1] \in {"NORMAL", "DIR"} /\ b[i + 1] = "NORMAL")
    <3>1. Redirect(line, i) = [line EXCEPT !.ok = FALSE]
      BY <2>3 DEF Redirect
    <3> QED
      BY <1>1, <1>3, <2>1, <2>3, <3>1 DEF Line
  <2> QED
    BY <2>2, <2>3
<1>4. CASE line.ok /\ b[i] = "BG"
  BY <1>1, <1>4 DEF ParseBlock, Redirections, Line
<1>5. CASE line.ok /\ b[i] \notin Redirections /\ b[i] # "BG"
  <2>1. ParseBlock(line, i) = line
    BY <1>5 DEF ParseBlock
  <2> QED
    BY <1>1, <1>5, <2>1 DEF Line
<1> QED
  BY <1>2, <1>3, <1>4, <1>5

Unparsed(blocks) == [blocks |-> blocks, bg |-> FALSE, ok |-> blocks[1] = "NORMAL"]

LEMMA ParseBlockType ==
    ASSUME NEW len \in Nat, NEW line \in Line(len), NEW i \in 2..len-1
    PROVE  ParseBlock(line, i) \in Line(len)
<1>1. Len(line.blocks) = len
  BY LenProperties DEF Line
<1> QED
  BY <1>1, ParseBlockIs

\* The fold of parseline is a loop over the blocks in the middle.
LEMMA ParseLoop ==
    ASSUME NEW blocks \in Seq(Token), NEW len \in Nat, len = Len(blocks),
           NEW n \in Nat, 1..n = 1..len-2
    PROVE  \E st : /\ st[0] = Unparsed(blocks)
                   /\ \A k \in 1..n : st[k] = ParseBlock(st[k - 1], k + 1)
                   /\ parseline(blocks) = st[n]
<1> DEFINE g == [k \in 1..n |-> [x \in Line(len) |-> ParseBlock(x, k + 1)]]
           Solves(iter) ==
              iter = [s \in SUBSET (1..n) |->
                        IF s = {} THEN Unparsed(blocks)
                        ELSE ParseBlock(iter[s \ {Max(s)}], Middle(blocks)[Max(s)])]
           It == CHOOSE iter : Solves(iter)
           st == [k \in 0..n |-> It[1..k]]
<1>1. /\ DOMAIN Middle(blocks) = 1..n
      /\ \A k \in 1..n : Middle(blocks)[k] = k + 1 /\ k + 1 \in 2..len-1
  BY DEF Middle
<1>2. parseline(blocks) = It[1..n]
  BY <1>1 DEF parseline, FoldLeft, MapThenFoldSet, Unparsed
<1>3. g \in [1..n -> [Line(len) -> Line(len)]]
  BY <1>1, ParseBlockType
<1>4. \A x \in Line(len), k \in 1..n : g[k][x] = ParseBlock(x, k + 1)
  OBVIOUS
<1> HIDE DEF g
<1>5. PICK iter \in [SUBSET (1..n) -> Line(len)] : FoldSolved(n, Unparsed(blocks), g, iter)
  <2>1. Unparsed(blocks) \in Line(len)
    BY DEF Unparsed, Line
  <2> QED
    BY <1>3, <2>1, FoldExists
<1>6. Solves(iter)
  <2>1. ASSUME NEW s \in SUBSET (1..n), s # {}
        PROVE  iter[s] = ParseBlock(iter[s \ {Max(s)}], Middle(blocks)[Max(s)])
    <3>1. Max(s) \in 1..n
      BY <2>1, MaxIn
    <3>2. iter[s \ {Max(s)}] \in Line(len)
      BY <1>5
    <3>3. iter[s] = g[Max(s)][iter[s \ {Max(s)}]]
      BY <1>5, <2>1 DEF FoldSolved
    <3>4. g[Max(s)][iter[s \ {Max(s)}]] = ParseBlock(iter[s \ {Max(s)}], Max(s) + 1)
      BY <1>4, <3>1, <3>2
    <3> QED
      BY <1>1, <3>1, <3>3, <3>4
  <2>2. \A s \in SUBSET (1..n) :
           iter[s] = IF s = {} THEN Unparsed(blocks)
                     ELSE ParseBlock(iter[s \ {Max(s)}], Middle(blocks)[Max(s)])
    BY <1>5, <2>1 DEF FoldSolved
  <2>3. iter = [s \in SUBSET (1..n) |-> iter[s]]
    BY <1>5
  <2> QED
    BY <2>2, <2>3, Zenon
<1> HIDE DEF Solves
<1>7. Solves(It)
  BY <1>6
<1>8. It[{}] = Unparsed(blocks)
  BY <1>7 DEF Solves
<1>9. ASSUME NEW k \in 1..n PROVE It[1..k] = ParseBlock(It[1..k-1], k + 1)
  <2>1. 1..k \in SUBSET (1..n) /\ 1..k # {} /\ Max(1..k) = k /\ (1..k) \ {k} = 1..k-1
    BY FoldLoop
  <2>2. It[1..k] = ParseBlock(It[(1..k) \ {Max(1..k)}], Middle(blocks)[Max(1..k)])
    BY <1>7, <2>1 DEF Solves
  <2> QED
    BY <1>1, <2>1, <2>2
<1> HIDE DEF It
<1>10. st[0] = Unparsed(blocks)
  BY <1>8, FoldLoop
<1>11. \A k \in 1..n : st[k] = ParseBlock(st[k - 1], k + 1)
  BY <1>9
<1>12. parseline(blocks) = st[n]
  BY <1>2
<1> QED
  BY <1>10, <1>11, <1>12

\* What the loop has made of a line when it has looked at the blocks up to m.
Accepted(b, m) ==
    /\ b[1] = "NORMAL"
    /\ \A h \in 2..m : /\ b[h] \in Redirections => b[h - 1] = "NORMAL" /\ b[h + 1] = "NORMAL"
                       /\ b[h] = "BG" => h = Len(b) - 1
ParsedTo(b, m, line) ==
    /\ line \in Line(Len(b))
    /\ line.ok <=> Accepted(b, m)
    /\ line.ok => /\ line.bg <=> \E h \in 2..m : b[h] = "BG"
                  /\ line.blocks = [h \in 1..Len(b) |->
                        IF h \in Targets(b) /\ h <= m + 1 THEN "DIR" ELSE b[h]]

LEMMA ParsedToFirst ==
    ASSUME NEW b \in Seq(Token), Len(b) > 0
    PROVE  ParsedTo(b, 1, Unparsed(b))
<1> DEFINE line == Unparsed(b)
<1>1. line.ok = (b[1] = "NORMAL") /\ line.bg = FALSE /\ line.blocks = b /\ line \in Line(Len(b))
  BY LenProperties DEF Unparsed, Line
<1>2. Accepted(b, 1) <=> b[1] = "NORMAL"
  BY DEF Accepted
<1>3. ASSUME line.ok, NEW h \in 1..Len(b) PROVE ~(h \in Targets(b) /\ h <= 1 + 1)
  <2>1. SUFFICES ASSUME h \in Targets(b), h <= 1 + 1 PROVE FALSE
    OBVIOUS
  <2>2. h = 2 /\ b[h - 1] \in Redirections
    BY <2>1 DEF Targets
  <2>3. b[1] = "NORMAL"
    BY <1>1, <1>3, Zenon
  <2> QED
    BY <2>2, <2>3 DEF Redirections
<1>4. b = [h \in 1..Len(b) |-> b[h]]
  OBVIOUS
<1> HIDE DEF line
<1>5. line.ok => line.blocks = [h \in 1..Len(b) |->
                     IF h \in Targets(b) /\ h <= 1 + 1 THEN "DIR" ELSE b[h]]
  BY <1>1, <1>3, <1>4
<1>6. line.ok <=> Accepted(b, 1)
  BY <1>1, <1>2, Zenon
<1>7. line.bg <=> \E h \in 2..1 : b[h] = "BG"
  BY <1>1
<1> QED
  BY <1>1, <1>5, <1>6, <1>7 DEF ParsedTo, line

LEMMA ParsedToNext ==
    ASSUME NEW b \in Seq(Token), NEW m \in Nat, m > 0, m + 1 < Len(b),
           NEW line, ParsedTo(b, m, line)
    PROVE  ParsedTo(b, m + 1, ParseBlock(line, m + 1))
<1> DEFINE i == m + 1
           c == line.blocks
           new == ParseBlock(line, i)
           good == /\ c[i] \in Redirections => c[i - 1] \in {"NORMAL", "DIR"} /\ c[i + 1] = "NORMAL"
                   /\ c[i] = "BG" => i = Len(b) - 1
<1>1. line \in Line(Len(b)) /\ Len(c) = Len(b) /\ i \in 2..Len(b)-1 /\ Len(b) \in Nat
  BY LenProperties DEF ParsedTo, Line
<1>2. /\ new \in Line(Len(b))
      /\ ~line.ok => new = line
      /\ line.ok => (new.ok <=> good)
      /\ line.ok /\ good =>
            /\ new.bg <=> line.bg \/ c[i] = "BG"
            /\ new.blocks = [h \in 1..Len(b) |->
                  IF h = i + 1 /\ c[i] \in Redirections THEN "DIR" ELSE c[h]]
  BY <1>1, ParseBlockIs
<1>3. Accepted(b, m + 1) <=>
         /\ Accepted(b, m)
         /\ b[i] \in Redirections => b[i - 1] = "NORMAL" /\ b[i + 1] = "NORMAL"
         /\ b[i] = "BG" => i = Len(b) - 1
  BY <1>1 DEF Accepted
<1>4. CASE ~line.ok
  BY <1>2, <1>3, <1>4 DEF ParsedTo
<1>5. CASE line.ok
  <2>1. \A h \in 1..Len(b) : c[h] = IF h \in Targets(b) /\ h <= m + 1 THEN "DIR" ELSE b[h]
    BY <1>5 DEF ParsedTo
  <2>2. \A h \in 1..Len(b) : /\ h \in Targets(b) => b[h] = "NORMAL"
                             /\ b[h] \in Token /\ b[h] # "DIR"
    BY DEF Targets, Token, Redirections
  <2>3. good <=> /\ b[i] \in Redirections => b[i - 1] = "NORMAL" /\ b[i + 1] = "NORMAL"
                 /\ b[i] = "BG" => i = Len(b) - 1
    BY <1>1, <2>1, <2>2 DEF Redirections, Token
  <2>4. (c[i] \in Redirections <=> b[i] \in Redirections) /\ (c[i] = "BG" <=> b[i] = "BG")
    BY <1>1, <2>1, <2>2 DEF Redirections
  <2>5. ASSUME good, NEW h \in 1..Len(b)
        PROVE  (IF h = i + 1 /\ c[i] \in Redirections THEN "DIR" ELSE c[h])
                 = IF h \in Targets(b) /\ h <= i + 1 THEN "DIR" ELSE b[h]
    <3>1. i + 1 \in Targets(b) <=> b[i + 1] = "NORMAL" /\ b[i] \in Redirections
      BY <1>1 DEF Targets
    <3> QED
      BY <1>1, <2>1, <2>3, <2>4, <2>5, <3>1
  <2>6. line.bg <=> \E h \in 2..m : b[h] = "BG"
    BY <1>5 DEF ParsedTo
  <2>7. Accepted(b, m)
    BY <1>5 DEF ParsedTo
  <2> HIDE DEF good, c, new
  <2>8. new.ok <=> Accepted(b, m + 1)
    BY <1>2, <1>3, <1>5, <2>3, <2>7
  <2>9. new.ok => (new.bg <=> \E h \in 2..m+1 : b[h] = "BG")
    BY <1>1, <1>2, <1>5, <2>4, <2>6
  <2>10. new.ok => new.blocks = [h \in 1..Len(b) |->
                        IF h \in Targets(b) /\ h <= (m + 1) + 1 THEN "DIR" ELSE b[h]]
    BY <1>2, <1>5, <2>5
  <2> QED
    BY <1>2, <2>8, <2>9, <2>10 DEF ParsedTo, new
<1> QED
  BY <1>4, <1>5

LEMMA ParsedAll ==
    ASSUME NEW b \in Seq(Token), Len(b) > 1
    PROVE  ParsedTo(b, Len(b) - 1, parseline(b))
<1> DEFINE n == Len(b) - 2
<1>1. n \in Nat /\ 1..n = 1..Len(b)-2 /\ Len(b) \in Nat
  OBVIOUS
<1>2. PICK st : /\ st[0] = Unparsed(b)
                /\ \A k \in 1..n : st[k] = ParseBlock(st[k - 1], k + 1)
                /\ parseline(b) = st[n]
  BY <1>1, ParseLoop
<1> DEFINE K == {k \in 0..n : ParsedTo(b, k + 1, st[k])}
<1>3. 0 \in K
  BY <1>1, <1>2, ParsedToFirst
<1>4. ASSUME NEW k \in 0..n-1, k \in K PROVE k + 1 \in K
  <2>1. k + 1 \in 1..n /\ (k + 1) - 1 = k /\ (k + 1) + 1 < Len(b) /\ k + 1 \in Nat /\ k + 1 > 0
    BY <1>1
  <2>2. st[k + 1] = ParseBlock(st[k], (k + 1) + 1)
    BY <1>2, <2>1
  <2>3. ParsedTo(b, (k + 1) + 1, ParseBlock(st[k], (k + 1) + 1))
    BY <1>4, <2>1, ParsedToNext
  <2> QED
    BY <2>1, <2>2, <2>3
<1>5. n \in K
  <2> HIDE DEF K, n
  <2> QED
    BY <1>1, <1>3, <1>4, NatSetInduction
<1> QED
  BY <1>1, <1>2, <1>5

LEMMA EndsAndMiddle ==
    ASSUME NEW len \in Nat, len > 1
    PROVE  /\ \A h \in 1..len : h = 1 \/ h = len \/ h \in 2..len-1
           /\ \A h \in 2..len-1 : h \in 1..len
OBVIOUS

\* parseline accepts the lines of the grammar, marks their targets and finds
\* the &, and refuses every other line, however long (parseline.c).
THEOREM LinesParsed ==
    \A b \in Seq(Token) : Complete(b) =>
        IF WellFormed(b) THEN parseline(b) = Parsed(b) ELSE ~parseline(b).ok
<1> SUFFICES ASSUME NEW b \in Seq(Token), Complete(b)
             PROVE  IF WellFormed(b) THEN parseline(b) = Parsed(b) ELSE ~parseline(b).ok
  OBVIOUS
<1> DEFINE len == Len(b)
           line == parseline(b)
<1>1. len \in Nat /\ len > 0 /\ b[len] = "EOL" /\ DOMAIN b = 1..len
  BY DEF Complete, Last
<1>2. CASE len = 1
  <2>1. PICK st : st[0] = Unparsed(b) /\ parseline(b) = st[0]
    <3>1. 0 \in Nat /\ 1..0 = 1..Len(b)-2
      BY <1>2
    <3> QED
      BY <1>1, <3>1, ParseLoop
  <2>2. ~line.ok /\ ~WellFormed(b)
    <3>1. b[1] = "EOL"
      BY <1>1, <1>2
    <3>2. line.ok = (b[1] = "NORMAL")
      BY <2>1 DEF Unparsed
    <3> HIDE DEF line
    <3> QED
      BY <3>1, <3>2 DEF WellFormed
  <2> QED
    BY <2>2
<1>3. CASE len > 1
  <2>1. ParsedTo(b, len - 1, line)
    BY <1>3, ParsedAll
  <2>2. Accepted(b, len - 1) <=> WellFormed(b)
    <3>1. /\ \A h \in 1..len : h = 1 \/ h = len \/ h \in 2..len-1
          /\ \A h \in 2..len-1 : h \in 1..len
      BY <1>1, <1>3, EndsAndMiddle
    <3>2. /\ b[1] = "NORMAL" => b[1] \notin Redirections /\ b[1] # "BG"
          /\ b[len] \notin Redirections /\ b[len] # "BG"
      BY <1>1 DEF Redirections
    <3>3. ASSUME Accepted(b, len - 1) PROVE WellFormed(b)
      BY <1>1, <3>1, <3>2, <3>3 DEF Accepted, WellFormed
    <3>4. ASSUME WellFormed(b) PROVE Accepted(b, len - 1)
      BY <1>1, <3>1, <3>4 DEF Accepted, WellFormed
    <3> QED
      BY <3>3, <3>4
  <2>3. ASSUME WellFormed(b) PROVE line = Parsed(b)
    <3>1. line.ok = TRUE /\ line \in Line(len)
      BY <2>1, <2>2, <2>3 DEF ParsedTo, Line
    <3>2. line.bg = (\E h \in DOMAIN b : b[h] = "BG")
      <4>1. (\E h \in DOMAIN b : b[h] = "BG") <=> \E h \in 2..len-1 : b[h] = "BG"
        <5>1. \A h \in 1..len : h = 1 \/ h = len \/ h \in 2..len-1
          BY <1>1, <1>3, EndsAndMiddle
        <5>2. b[1] # "BG" /\ b[len] # "BG"
          BY <1>1, <2>3 DEF WellFormed
        <5>3. \A h \in 2..len-1 : h \in 1..len
          BY <1>1, <1>3, EndsAndMiddle
        <5> QED
          BY <1>1, <5>1, <5>2, <5>3
      <4> QED
        BY <2>1, <3>1, <4>1 DEF ParsedTo, Line
    <3>3. line.blocks = [h \in DOMAIN b |-> IF h \in Targets(b) THEN "DIR" ELSE b[h]]
      <4>1. \A h \in 1..len : h <= (len - 1) + 1
        BY <1>1
      <4> QED
        BY <1>1, <2>1, <3>1, <4>1 DEF ParsedTo
    <3> HIDE DEF line
    <3>4. line = [blocks |-> line.blocks, bg |-> line.bg, ok |-> line.ok]
      BY <3>1 DEF Line
    <3> QED
      BY <3>1, <3>2, <3>3, <3>4 DEF Parsed
  <2> QED
    BY <2>1, <2>2, <2>3 DEF ParsedTo
<1> QED
  BY <1>1, <1>2, <1>3

\* All that exec_recursive needs of a line: it begins with a command.
LEMMA LineBegins ==
    ASSUME NEW b \in Seq(Token), Complete(b), parseline(b).ok
    PROVE  /\ parseline(b).blocks \in Seq(Token \cup {"DIR"})
           /\ Len(parseline(b).blocks) > 0
           /\ parseline(b).blocks[1] = "NORMAL"
           /\ parseline(b).bg \in BOOLEAN
<1>1. parseline(b) = Parsed(b) /\ b[1] = "NORMAL" /\ Len(b) > 0 /\ DOMAIN b = 1..Len(b)
  BY LinesParsed DEF WellFormed, Complete
<1>2. Parsed(b).blocks = [h \in 1..Len(b) |-> IF h \in Targets(b) THEN "DIR" ELSE b[h]]
  BY <1>1 DEF Parsed
<1>3. Parsed(b).blocks \in Seq(Token \cup {"DIR"}) /\ Len(Parsed(b).blocks) = Len(b)
  BY <1>1, <1>2, IsASeq
<1>4. 1 \notin Targets(b)
  BY DEF Targets
<1> QED
  BY <1>1, <1>2, <1>3, <1>4 DEF Parsed

-----------------------------------------------------------------------------
(***************************************************************************)
(* Without is a loop, too: from a prefix to the next it keeps one element  *)
(* more, or none.                                                          *)
(***************************************************************************)
Kept(e, t, x) == IF x = e THEN t ELSE Append(t, x)

\* st holds what is left of the first k of the n elements of s.
Leaving(s, e, n, st) ==
    /\ st[0] = <<>>
    /\ \A k \in 1..n : st[k] = Kept(e, st[k - 1], s[k])
    /\ Without(s, e) = st[n]

LEMMA WithoutLoop ==
    ASSUME NEW X, NEW s \in Seq(X), NEW e, NEW n \in Nat, n = Len(s)
    PROVE  \E st : Leaving(s, e, n, st) /\ \A k \in 0..n : st[k] \in Seq(X)
<1> DEFINE g == [k \in 1..n |-> [t \in Seq(X) |-> Kept(e, t, s[k])]]
           Solves(iter) ==
              iter = [S \in SUBSET (1..n) |->
                        IF S = {} THEN <<>> ELSE Kept(e, iter[S \ {Max(S)}], s[Max(S)])]
           It == CHOOSE iter : Solves(iter)
           st == [k \in 0..n |-> It[1..k]]
<1>1. DOMAIN s = 1..n /\ \A k \in 1..n : s[k] \in X
  OBVIOUS
<1>2. Without(s, e) = It[1..n]
  BY <1>1 DEF Without, FoldLeft, MapThenFoldSet, Kept
<1>0. \A t \in Seq(X), x \in X : Kept(e, t, x) \in Seq(X)
  BY DEF Kept
<1>3. g \in [1..n -> [Seq(X) -> Seq(X)]]
  BY <1>0, <1>1
<1>4. \A t \in Seq(X), k \in 1..n : g[k][t] = Kept(e, t, s[k])
  OBVIOUS
<1> HIDE DEF g
<1>5. PICK iter \in [SUBSET (1..n) -> Seq(X)] : FoldSolved(n, <<>>, g, iter)
  <2>1. <<>> \in Seq(X)
    OBVIOUS
  <2> QED
    BY <1>3, <2>1, FoldExists
<1>6. Solves(iter)
  <2>1. ASSUME NEW S \in SUBSET (1..n), S # {}
        PROVE  iter[S] = Kept(e, iter[S \ {Max(S)}], s[Max(S)])
    <3>1. Max(S) \in 1..n
      BY <2>1, MaxIn
    <3>2. iter[S \ {Max(S)}] \in Seq(X)
      BY <1>5
    <3>3. iter[S] = g[Max(S)][iter[S \ {Max(S)}]]
      BY <1>5, <2>1 DEF FoldSolved
    <3>4. g[Max(S)][iter[S \ {Max(S)}]] = Kept(e, iter[S \ {Max(S)}], s[Max(S)])
      BY <1>4, <3>1, <3>2
    <3> QED
      BY <3>3, <3>4
  <2>2. \A S \in SUBSET (1..n) :
           iter[S] = IF S = {} THEN <<>> ELSE Kept(e, iter[S \ {Max(S)}], s[Max(S)])
    BY <1>5, <2>1 DEF FoldSolved
  <2>3. iter = [S \in SUBSET (1..n) |-> iter[S]]
    BY <1>5
  <2> QED
    BY <2>2, <2>3, Zenon
<1> HIDE DEF Solves
<1>7. Solves(It)
  BY <1>6
<1>8. It[{}] = <<>>
  BY <1>7 DEF Solves
<1>9. ASSUME NEW k \in 1..n PROVE It[1..k] = Kept(e, It[1..k-1], s[k])
  <2>1. 1..k \in SUBSET (1..n) /\ 1..k # {} /\ Max(1..k) = k /\ (1..k) \ {k} = 1..k-1
    BY FoldLoop
  <2>2. It[1..k] = Kept(e, It[(1..k) \ {Max(1..k)}], s[Max(1..k)])
    BY <1>7, <2>1 DEF Solves
  <2> QED
    BY <2>1, <2>2
<1> HIDE DEF It
<1>10. st[0] = <<>>
  BY <1>8, FoldLoop
<1>11. \A k \in 1..n : st[k] = Kept(e, st[k - 1], s[k])
  BY <1>9
<1>12. Without(s, e) = st[n]
  BY <1>2
<1> HIDE DEF st
<1> DEFINE K == {k \in 0..n : st[k] \in Seq(X)}
<1>13. 0 \in K
  <2>1. 0 \in 0..n /\ <<>> \in Seq(X)
    OBVIOUS
  <2> QED
    BY <1>10, <2>1
<1>14. ASSUME NEW k \in 0..n-1, k \in K PROVE k + 1 \in K
  <2>1. k + 1 \in 1..n /\ k + 1 \in 0..n /\ (k + 1) - 1 = k
    OBVIOUS
  <2>2. st[k + 1] = Kept(e, st[k], s[k + 1])
    BY <1>11, <2>1
  <2>3. s[k + 1] \in X /\ st[k] \in Seq(X)
    BY <1>1, <1>14, <2>1
  <2>4. st[k + 1] \in Seq(X)
    BY <1>0, <2>2, <2>3
  <2> QED
    BY <2>1, <2>4
<1>15. ASSUME NEW j \in 0..n PROVE j \in K
  <2>1. \A k \in 0..j-1 : k \in K => k + 1 \in K
    BY <1>14
  <2> HIDE DEF K
  <2> QED
    BY <1>13, <2>1, NatSetInduction
<1> QED
  BY <1>10, <1>11, <1>12, <1>15 DEF Leaving

LEMMA WithoutIn ==
    ASSUME NEW X, NEW s \in Seq(X), NEW e
    PROVE  Without(s, e) \in Seq(X)
<1> DEFINE n == Len(s)
<1>1. n \in Nat /\ n = Len(s) /\ n \in 0..n
  OBVIOUS
<1> HIDE DEF n
<1>2. PICK st : Leaving(s, e, n, st) /\ \A k \in 0..n : st[k] \in Seq(X)
  BY <1>1, WithoutLoop
<1> QED
  BY <1>1, <1>2 DEF Leaving

LEMMA WithoutAppend ==
    ASSUME NEW X, NEW s \in Seq(X), NEW x \in X, NEW e
    PROVE  Without(Append(s, x), e) = Kept(e, Without(s, e), x)
<1> DEFINE n == Len(s)
           a == Append(s, x)
<1>1. /\ n \in Nat /\ n + 1 \in Nat /\ n = Len(s)
      /\ a \in Seq(X) /\ n + 1 = Len(a)
      /\ a[n + 1] = x /\ \A k \in 1..n : a[k] = s[k]
  OBVIOUS
<1> HIDE DEF a, n
<1>2. PICK st : Leaving(s, e, n, st)
  BY <1>1, WithoutLoop
<1>3. PICK at : Leaving(a, e, n + 1, at)
  BY <1>1, WithoutLoop
<1> DEFINE K == {k \in 0..n : st[k] = at[k]}
<1>4. 0 \in K
  BY <1>1, <1>2, <1>3 DEF Leaving
<1>5. ASSUME NEW k \in 0..n-1, k \in K PROVE k + 1 \in K
  <2>1. k + 1 \in 1..n /\ k + 1 \in 1..n+1 /\ (k + 1) - 1 = k /\ st[k] = at[k] /\ k + 1 \in 0..n
    BY <1>1, <1>5
  <2>2. st[k + 1] = Kept(e, st[k], s[k + 1])
    BY <1>2, <2>1 DEF Leaving
  <2>3. at[k + 1] = Kept(e, at[k], a[k + 1])
    BY <1>3, <2>1 DEF Leaving
  <2> QED
    BY <1>1, <2>1, <2>2, <2>3
<1>6. n \in K
  <2> HIDE DEF K
  <2> QED
    BY <1>1, <1>4, <1>5, NatSetInduction
<1>7. at[n + 1] = Kept(e, at[n], a[n + 1])
  <2>1. n + 1 \in 1..n+1 /\ (n + 1) - 1 = n
    BY <1>1
  <2> QED
    BY <1>3, <2>1 DEF Leaving
<1> QED
  BY <1>1, <1>2, <1>3, <1>6, <1>7 DEF a, Leaving

\* The first k elements of s.
Prefix(s, k) == SubSeq(s, 1, k)

LEMMA PrefixNext ==
    ASSUME NEW X, NEW s \in Seq(X), NEW k \in 1..Len(s)
    PROVE  /\ Prefix(s, k - 1) \in Seq(X)
           /\ Prefix(s, k) = Append(Prefix(s, k - 1), s[k])
<1>1. k \in Nat /\ k - 1 \in Nat /\ Len(s) \in Nat
  OBVIOUS
<1>2. /\ Prefix(s, k - 1) \in Seq(X) /\ Len(Prefix(s, k - 1)) = k - 1
      /\ \A j \in 1..k-1 : Prefix(s, k - 1)[j] = s[j]
  BY <1>1 DEF Prefix
<1>3. /\ Prefix(s, k) \in Seq(X) /\ Len(Prefix(s, k)) = k
      /\ \A j \in 1..k : Prefix(s, k)[j] = s[j]
  BY <1>1 DEF Prefix
<1> QED
  BY <1>1, <1>2, <1>3

LEMMA WithoutPrefix ==
    ASSUME NEW X, NEW s \in Seq(X), NEW e
    PROVE  /\ Without(Prefix(s, 0), e) = <<>>
           /\ \A k \in 1..Len(s) :
                 Without(Prefix(s, k), e) = Kept(e, Without(Prefix(s, k - 1), e), s[k])
           /\ Without(Prefix(s, Len(s)), e) = Without(s, e)
           /\ \A k \in 0..Len(s) : Without(Prefix(s, k), e) \in Seq(X)
<1>1. Without(<<>>, e) = <<>>
  <2>1. <<>> \in Seq(X) /\ 0 = Len(<<>>) /\ 0 \in Nat
    OBVIOUS
  <2>2. PICK st : Leaving(<<>>, e, 0, st)
    BY <2>1, WithoutLoop
  <2> QED
    BY <2>2 DEF Leaving
<1>2. Prefix(s, 0) = <<>> /\ Prefix(s, Len(s)) = s
  BY DEF Prefix
<1>3. ASSUME NEW k \in 1..Len(s)
      PROVE  Without(Prefix(s, k), e) = Kept(e, Without(Prefix(s, k - 1), e), s[k])
  <2>1. s[k] \in X
    OBVIOUS
  <2>2. Prefix(s, k - 1) \in Seq(X) /\ Prefix(s, k) = Append(Prefix(s, k - 1), s[k])
    BY PrefixNext
  <2> DEFINE p == Prefix(s, k - 1)
             x == s[k]
  <2> HIDE DEF p, x
  <2>3. p \in Seq(X) /\ x \in X
    BY <2>1, <2>2 DEF p, x
  <2>4. Without(Append(p, x), e) = Kept(e, Without(p, e), x)
    BY <2>3, WithoutAppend
  <2> QED
    BY <2>2, <2>4 DEF p, x
<1>4. ASSUME NEW k \in 0..Len(s) PROVE Without(Prefix(s, k), e) \in Seq(X)
  <2>1. Prefix(s, k) \in Seq(X)
    BY DEF Prefix
  <2> QED
    BY <2>1, WithoutIn
<1> QED
  BY <1>1, <1>2, <1>3, <1>4

(***************************************************************************)
(* read_command reads the command of Command: what it has after k tokens   *)
(* is all of them but the ends of lines, until the first end of a line     *)
(* that ends the command.                                                  *)
(***************************************************************************)
Read(input, k) == Without(Prefix(input, k), "EOL")
Ending(input, i) ==
    /\ input[i] = "EOL"
    /\ ~(\A h \in 1..i : input[h] = "EOL")
    /\ ~Continues(Last(Read(input, i - 1)))
FirstEnding(input, i) == Ending(input, i) /\ \A h \in 1..i - 1 : ~Ending(input, h)

LEMMA CommandIs ==
    ASSUME NEW input \in Seq(Token), NEW n \in Nat, n = Len(input)
    PROVE  /\ (\A i \in 1..n : ~Ending(input, i)) => Command(input) = Without(input, "EOL")
           /\ \A i \in 1..n : FirstEnding(input, i) =>
                 Command(input) = Append(Read(input, i - 1), "EOL")
<1> DEFINE E(i) == Ending(input, i)
           End == CHOOSE i \in 1..n : E(i) /\ \A h \in 1..i - 1 : ~E(h)
<1>1. Command(input) = IF \E i \in 1..n : E(i) THEN Append(Read(input, End - 1), "EOL")
                       ELSE Without(input, "EOL")
  <2>1. DOMAIN input = 1..n
    OBVIOUS
  <2> QED
    BY <2>1 DEF Command, Ending, Read, Prefix
<1>2. ASSUME NEW i \in 1..n, FirstEnding(input, i) PROVE End = i
  <2>1. E(End) /\ (\A h \in 1..End - 1 : ~E(h)) /\ End \in 1..n
    BY <1>2 DEF FirstEnding
  <2>2. E(i) /\ \A h \in 1..i - 1 : ~E(h)
    BY <1>2 DEF FirstEnding
  <2> HIDE DEF End, E
  <2>3. ~(End < i) /\ ~(i < End)
    <3>1. End < i => End \in 1..i - 1
      BY <2>1
    <3>2. i < End => i \in 1..End - 1
      BY <2>1
    <3> QED
      BY <2>1, <2>2, <3>1, <3>2
  <2> QED
    BY <2>1, <2>3
<1>3. ASSUME NEW i \in 1..n, FirstEnding(input, i)
      PROVE  Command(input) = Append(Read(input, i - 1), "EOL")
  <2>1. \E h \in 1..n : E(h)
    BY <1>3 DEF FirstEnding
  <2>2. End = i
    BY <1>2, <1>3
  <2> HIDE DEF E, End
  <2> QED
    BY <1>1, <2>1, <2>2
<1>4. ASSUME \A i \in 1..n : ~Ending(input, i) PROVE Command(input) = Without(input, "EOL")
  BY <1>1, <1>4
<1> QED
  BY <1>3, <1>4

\* The ends of lines are not among what is read, and nothing is read of empty lines.
ReadsTokens(input, k) ==
    /\ \A i \in 1..Len(Read(input, k)) : Read(input, k)[i] # "EOL"
    /\ Read(input, k) = <<>> <=> \A h \in 1..k : input[h] = "EOL"

LEMMA ReadsTokensAlways ==
    ASSUME NEW input \in Seq(Token), NEW n \in Nat, n = Len(input), NEW j \in 0..n
    PROVE  ReadsTokens(input, j)
<1> DEFINE K == {k \in 0..n : ReadsTokens(input, k)}
<1>1. Read(input, 0) = <<>> /\ \A k \in 0..n : Read(input, k) \in Seq(Token)
  BY WithoutPrefix DEF Read
<1>2. \A k \in 1..n : Read(input, k) = Kept("EOL", Read(input, k - 1), input[k])
  BY WithoutPrefix DEF Read
<1>3. 0 \in K
  BY <1>1 DEF ReadsTokens
<1>4. ASSUME NEW k \in 0..n-1, k \in K PROVE k + 1 \in K
  <2>1. k + 1 \in 1..n /\ k + 1 \in 0..n /\ (k + 1) - 1 = k /\ k \in 0..n /\ k \in Nat
    OBVIOUS
  <2> DEFINE r == Read(input, k)
             new == Read(input, k + 1)
             t == input[k + 1]
  <2>2. r \in Seq(Token) /\ t \in Token
    BY <1>1, <2>1
  <2>3. new = Kept("EOL", r, t)
    BY <1>2, <2>1
  <2>4. /\ \A i \in 1..Len(r) : r[i] # "EOL"
        /\ r = <<>> <=> \A h \in 1..k : input[h] = "EOL"
    BY <1>4 DEF ReadsTokens
  <2>5. (\A h \in 1..k + 1 : input[h] = "EOL") <=> (\A h \in 1..k : input[h] = "EOL") /\ t = "EOL"
    <3>1. \A h : h \in 1..k + 1 <=> h \in 1..k \/ h = k + 1
      BY <2>1
    <3> QED
      BY <3>1
  <2> HIDE DEF r, t
  <2>6. /\ \A i \in 1..Len(new) : new[i] # "EOL"
        /\ new = <<>> <=> r = <<>> /\ t = "EOL"
    <3>1. CASE t = "EOL"
      BY <2>3, <2>4, <3>1 DEF Kept
    <3>2. CASE t # "EOL"
      <4>1. new = Append(r, t)
        BY <2>3, <3>2 DEF Kept
      <4> HIDE DEF new
      <4>2. /\ Len(r) \in Nat /\ Len(new) = Len(r) + 1 /\ new[Len(r) + 1] = t
            /\ \A i \in 1..Len(r) : new[i] = r[i]
        BY <2>2, <4>1
      <4>3. \A i \in 1..Len(r) + 1 : i \in 1..Len(r) \/ i = Len(r) + 1
        BY <4>2
      <4>4. new # <<>>
        BY <4>2
      <4> QED
        BY <2>4, <3>2, <4>2, <4>3, <4>4
    <3> QED
      BY <3>1, <3>2
  <2> HIDE DEF new
  <2>7. ReadsTokens(input, k + 1)
    BY <2>4, <2>5, <2>6 DEF ReadsTokens, new
  <2> QED
    BY <2>1, <2>7
<1>5. j \in K
  <2>1. \A k \in 0..j-1 : k \in K => k + 1 \in K
    BY <1>4
  <2> HIDE DEF K
  <2> QED
    BY <1>3, <2>1, NatSetInduction
<1> QED
  BY <1>5

\* What the loop of read_command has after k tokens.
ReadTo(input, k, blocks) ==
    /\ (\A i \in 1..k : ~Ending(input, i)) => blocks = Read(input, k)
    /\ \A i \in 1..k : FirstEnding(input, i) => blocks = Append(Read(input, i - 1), "EOL")

LEMMA EndingFirst ==
    ASSUME NEW input, NEW k \in Nat, NEW j \in 1..k, Ending(input, j)
    PROVE  \E i \in 1..k : FirstEnding(input, i)
<1> DEFINE T == {i \in 1..k : Ending(input, i)}
<1>1. T \in SUBSET Nat /\ T # {}
  OBVIOUS
<1>2. PICK i \in T : \A y \in T : i <= y
  BY <1>1, NatSetMin
<1>3. \A h \in 1..i - 1 : h \in 1..k /\ ~(i <= h)
  OBVIOUS
<1> QED
  BY <1>2, <1>3 DEF FirstEnding

LEMMA ReadToNext ==
    ASSUME NEW input \in Seq(Token), NEW n \in Nat, n = Len(input), NEW k \in 0..n-1,
           NEW blocks, ReadTo(input, k, blocks)
    PROVE  ReadTo(input, k + 1, ReadToken(blocks, input[k + 1]))
<1> DEFINE r == Read(input, k)
           t == input[k + 1]
           new == ReadToken(blocks, t)
<1>1. k + 1 \in 1..n /\ k \in 0..n /\ (k + 1) - 1 = k /\ k \in Nat
  OBVIOUS
<1>2. r \in Seq(Token) /\ t \in Token /\ \A i \in 0..n : Read(input, i) \in Seq(Token)
  <2>1. \A i \in 0..n : Read(input, i) \in Seq(Token)
    BY WithoutPrefix DEF Read
  <2>2. t \in Token
    BY <1>1
  <2> QED
    BY <1>1, <2>1, <2>2
<1>3. Read(input, k + 1) = Kept("EOL", r, t)
  <2>1. \A i \in 1..n : Read(input, i) = Kept("EOL", Read(input, i - 1), input[i])
    BY WithoutPrefix DEF Read
  <2> QED
    BY <1>1, <2>1
<1>4. /\ \A i \in 1..Len(r) : r[i] # "EOL"
      /\ r = <<>> <=> \A h \in 1..k : input[h] = "EOL"
  <2>1. ReadsTokens(input, k)
    BY <1>1, ReadsTokensAlways
  <2> QED
    BY <2>1 DEF ReadsTokens
<1>5. \A i : i \in 1..k + 1 <=> i \in 1..k \/ i = k + 1
  BY <1>1
<1>6. Ending(input, k + 1) <=> t = "EOL" /\ r # <<>> /\ ~Continues(Last(r))
  <2>1. Ending(input, k + 1) <=> /\ t = "EOL"
                                 /\ ~(\A h \in 1..k + 1 : input[h] = "EOL")
                                 /\ ~Continues(Last(r))
    BY <1>1 DEF Ending
  <2>2. t = "EOL" => ((\A h \in 1..k + 1 : input[h] = "EOL") <=> r = <<>>)
    BY <1>4, <1>5
  <2> QED
    BY <2>1, <2>2
<1> HIDE DEF r, t
<1>7. ASSUME \A i \in 1..k : ~Ending(input, i) PROVE ReadTo(input, k + 1, new)
  <2>1. blocks = r
    BY <1>7 DEF ReadTo, r
  <2>2. ~Complete(r)
    <3>1. r # <<>> => Len(r) \in 1..Len(r) /\ Last(r) = r[Len(r)]
      BY <1>2 DEF Last
    <3> QED
      BY <1>4, <3>1 DEF Complete
  <2>3. new = IF t = "EOL" /\ (r = <<>> \/ Continues(Last(r))) THEN r ELSE Append(r, t)
    BY <2>1, <2>2 DEF ReadToken
  <2> HIDE DEF new
  <2>4. CASE Ending(input, k + 1)
    <3>1. new = Append(r, "EOL")
      BY <1>6, <2>3, <2>4
    <3>2. \A i \in 1..k + 1 : FirstEnding(input, i) => i = k + 1
      BY <1>5, <1>7 DEF FirstEnding
    <3>3. \A i \in 1..k + 1 : FirstEnding(input, i) => new = Append(Read(input, i - 1), "EOL")
      BY <1>1, <3>1, <3>2 DEF r
    <3>4. k + 1 \in 1..k + 1
      BY <1>1
    <3> QED
      BY <2>4, <3>3, <3>4 DEF ReadTo
  <2>5. CASE ~Ending(input, k + 1)
    <3>1. new = Read(input, k + 1)
      BY <1>3, <1>6, <2>3, <2>5 DEF Kept
    <3>2. \A i \in 1..k + 1 : ~Ending(input, i)
      BY <1>5, <1>7, <2>5
    <3> QED
      BY <3>1, <3>2 DEF ReadTo, FirstEnding
  <2> QED
    BY <2>4, <2>5
<1>8. ASSUME NEW j \in 1..k, Ending(input, j) PROVE ReadTo(input, k + 1, new)
  <2>1. PICK i \in 1..k : FirstEnding(input, i)
    BY <1>1, <1>8, EndingFirst
  <2>2. blocks = Append(Read(input, i - 1), "EOL") /\ i - 1 \in 0..n
    BY <1>1, <2>1 DEF ReadTo
  <2>3. Complete(blocks)
    <3> DEFINE p == Read(input, i - 1)
    <3>1. p \in Seq(Token)
      BY <1>2, <2>2
    <3> HIDE DEF p
    <3>2. Append(p, "EOL") # <<>> /\ Last(Append(p, "EOL")) = "EOL"
      BY <3>1 DEF Last
    <3> QED
      BY <2>2, <3>2 DEF Complete, p
  <2>4. new = blocks
    BY <2>3 DEF ReadToken
  <2> HIDE DEF new
  <2>5. \A h \in 1..k + 1 : FirstEnding(input, h) => h \in 1..k
    <3>1. ~FirstEnding(input, k + 1)
      BY <1>1, <1>8 DEF FirstEnding
    <3> QED
      BY <1>5, <3>1
  <2>6. ~(\A h \in 1..k + 1 : ~Ending(input, h))
    BY <1>5, <1>8
  <2> QED
    BY <2>4, <2>5, <2>6 DEF ReadTo
<1> QED
  BY <1>7, <1>8 DEF t

\* read_command of parseline.c, for input of any length: it returns the tokens of
\* the first command, without the ends of lines before it and inside it.
THEOREM CommandRead ==
    \A input \in Seq(Token) : read_command(input) = Command(input)
<1> SUFFICES ASSUME NEW input \in Seq(Token) PROVE read_command(input) = Command(input)
  OBVIOUS
<1> DEFINE n == Len(input)
<1>1. n \in Nat /\ n = Len(input)
  OBVIOUS
<1> HIDE DEF n
<1>2. PICK st : /\ st[0] = <<>>
                /\ \A k \in 1..n : st[k] = ReadToken(st[k - 1], input[k])
                /\ read_command(input) = st[n]
  BY <1>1, ReadLoop
<1> DEFINE K == {k \in 0..n : ReadTo(input, k, st[k])}
<1>3. 0 \in K
  <2>1. Read(input, 0) = <<>>
    BY WithoutPrefix DEF Read
  <2> QED
    BY <1>1, <1>2, <2>1 DEF ReadTo
<1>4. ASSUME NEW k \in 0..n-1, k \in K PROVE k + 1 \in K
  <2>1. k + 1 \in 1..n /\ k + 1 \in 0..n /\ (k + 1) - 1 = k
    BY <1>1
  <2>2. st[k + 1] = ReadToken(st[k], input[k + 1])
    BY <1>2, <2>1
  <2>3. ReadTo(input, k + 1, ReadToken(st[k], input[k + 1]))
    BY <1>1, <1>4, ReadToNext
  <2> QED
    BY <2>1, <2>2, <2>3
<1> HIDE DEF K
<1>5. n \in K
  BY <1>1, <1>3, <1>4, NatSetInduction
<1>6. ReadTo(input, n, st[n])
  BY <1>5 DEF K
<1>7. CASE \A i \in 1..n : ~Ending(input, i)
  <2>1. Read(input, n) = Without(input, "EOL")
    BY <1>1, WithoutPrefix DEF Read
  <2>2. Command(input) = Without(input, "EOL")
    BY <1>1, <1>7, CommandIs
  <2> QED
    BY <1>2, <1>6, <1>7, <2>1, <2>2 DEF ReadTo
<1>8. CASE \E j \in 1..n : Ending(input, j)
  <2>1. PICK i \in 1..n : FirstEnding(input, i)
    BY <1>1, <1>8, EndingFirst
  <2>2. Command(input) = Append(Read(input, i - 1), "EOL")
    BY <1>1, <2>1, CommandIs
  <2> QED
    BY <1>2, <1>6, <2>1, <2>2 DEF ReadTo
<1> QED
  BY <1>7, <1>8

LEMMA InputsRead == \A input \in Seq(Token) : Reads(input)
<1> SUFFICES ASSUME NEW input \in Seq(Token) PROVE Reads(input)
  OBVIOUS
<1> DEFINE b == read_command(input)
<1>1. b = Command(input) /\ b \in Seq(Token)
  BY CommandRead, ReadIsSequence
<1>2. Complete(b) => IF WellFormed(b) THEN parseline(b) = Parsed(b) ELSE ~parseline(b).ok
  BY <1>1, LinesParsed
<1> QED
  BY <1>1, <1>2 DEF Reads

(***************************************************************************)
(* gettoken finds the tokens of Tokens, in a line that ends with eol.      *)
(***************************************************************************)
Scan == [tokens : Seq(Token), at : {"start", ">", "word"}]
Unscanned == [tokens |-> <<>>, at |-> "start"]

LEMMA TableType ==
    /\ DOMAIN tkn_tbl = {"<", ">", "|", "&", "eol"}
    /\ \A c \in DOMAIN tkn_tbl : tkn_tbl[c] \in Token
BY DEF tkn_tbl, Token, Redirections

LEMMA BeginType == \A t \in Seq(Token), c \in Char : Begin(t, c) \in Scan
<1> SUFFICES ASSUME NEW t \in Seq(Token), NEW c \in Char PROVE Begin(t, c) \in Scan
  OBVIOUS
<1>1. CASE c \in {"blank", "letter", ">"}
  BY <1>1 DEF Begin, Scan
<1>2. CASE c \notin {"blank", "letter", ">"}
  <2>1. tkn_tbl[c] \in Token
    BY <1>2, TableType DEF Char
  <2>2. Append(t, tkn_tbl[c]) \in Seq(Token)
    BY <2>1
  <2> QED
    BY <1>2, <2>2 DEF Begin, Scan
<1> QED
  BY <1>1, <1>2

LEMMA GetCharType == \A s \in Scan, c \in Char : GetChar(s, c) \in Scan
<1> SUFFICES ASSUME NEW s \in Scan, NEW c \in Char PROVE GetChar(s, c) \in Scan
  OBVIOUS
<1>1. s.tokens \in Seq(Token) /\ s.at \in {"start", ">", "word"}
  BY DEF Scan
<1>2. \A t \in {"NORMAL", "REDIR_OUT", "REDIR_APPEND"} : Append(s.tokens, t) \in Seq(Token)
  BY <1>1 DEF Token, Redirections
<1>3. CASE s.at = "start"
  BY <1>1, <1>3, BeginType DEF GetChar
<1>4. CASE s.at = ">"
  <2>1. CASE c = ">"
    BY <1>2, <1>4, <2>1 DEF GetChar, Scan
  <2>2. CASE c # ">"
    BY <1>2, <1>4, <2>2, BeginType DEF GetChar
  <2> QED
    BY <2>1, <2>2
<1>5. CASE s.at = "word"
  BY <1>2, <1>5, BeginType DEF GetChar
<1> QED
  BY <1>1, <1>3, <1>4, <1>5

\* The fold of gettoken is a loop over the characters.
LEMMA CharLoop ==
    ASSUME NEW chars \in Seq(Char), NEW n \in Nat, n = Len(chars)
    PROVE  \E st : /\ st[0] = Unscanned
                   /\ \A k \in 1..n : st[k] = GetChar(st[k - 1], chars[k])
                   /\ gettoken(chars) = st[n].tokens
<1> DEFINE g == [k \in 1..n |-> [x \in Scan |-> GetChar(x, chars[k])]]
           Solves(iter) ==
              iter = [s \in SUBSET (1..n) |->
                        IF s = {} THEN Unscanned ELSE GetChar(iter[s \ {Max(s)}], chars[Max(s)])]
           It == CHOOSE iter : Solves(iter)
           st == [k \in 0..n |-> It[1..k]]
<1>1. DOMAIN chars = 1..n /\ \A k \in 1..n : chars[k] \in Char
  OBVIOUS
<1>2. gettoken(chars) = It[1..n].tokens
  BY <1>1 DEF gettoken, FoldLeft, MapThenFoldSet, Unscanned
<1>3. g \in [1..n -> [Scan -> Scan]]
  BY <1>1, GetCharType
<1>4. \A x \in Scan, k \in 1..n : g[k][x] = GetChar(x, chars[k])
  OBVIOUS
<1> HIDE DEF g
<1>5. PICK iter \in [SUBSET (1..n) -> Scan] : FoldSolved(n, Unscanned, g, iter)
  <2>1. Unscanned \in Scan
    BY DEF Unscanned, Scan
  <2> QED
    BY <1>3, <2>1, FoldExists
<1>6. Solves(iter)
  <2>1. ASSUME NEW s \in SUBSET (1..n), s # {}
        PROVE  iter[s] = GetChar(iter[s \ {Max(s)}], chars[Max(s)])
    <3>1. Max(s) \in 1..n
      BY <2>1, MaxIn
    <3>2. iter[s \ {Max(s)}] \in Scan
      BY <1>5
    <3>3. iter[s] = g[Max(s)][iter[s \ {Max(s)}]]
      BY <1>5, <2>1 DEF FoldSolved
    <3>4. g[Max(s)][iter[s \ {Max(s)}]] = GetChar(iter[s \ {Max(s)}], chars[Max(s)])
      BY <1>4, <3>1, <3>2
    <3> QED
      BY <3>3, <3>4
  <2>2. \A s \in SUBSET (1..n) :
           iter[s] = IF s = {} THEN Unscanned ELSE GetChar(iter[s \ {Max(s)}], chars[Max(s)])
    BY <1>5, <2>1 DEF FoldSolved
  <2>3. iter = [s \in SUBSET (1..n) |-> iter[s]]
    BY <1>5
  <2> QED
    BY <2>2, <2>3, Zenon
<1> HIDE DEF Solves
<1>7. Solves(It)
  BY <1>6
<1>8. It[{}] = Unscanned
  BY <1>7 DEF Solves
<1>9. ASSUME NEW k \in 1..n PROVE It[1..k] = GetChar(It[1..k-1], chars[k])
  <2>1. 1..k \in SUBSET (1..n) /\ 1..k # {} /\ Max(1..k) = k /\ (1..k) \ {k} = 1..k-1
    BY FoldLoop
  <2>2. It[1..k] = GetChar(It[(1..k) \ {Max(1..k)}], chars[Max(1..k)])
    BY <1>7, <2>1 DEF Solves
  <2> QED
    BY <2>1, <2>2
<1> HIDE DEF It
<1>10. st[0] = Unscanned
  BY <1>8, FoldLoop
<1>11. \A k \in 1..n : st[k] = GetChar(st[k - 1], chars[k])
  BY <1>9
<1>12. gettoken(chars) = st[n].tokens
  BY <1>2
<1> QED
  BY <1>10, <1>11, <1>12

\* Whether a position is in a word, from the position before.
LEMMA WordNext ==
    ASSUME NEW chars, NEW i \in Nat, i > 0
    PROVE  InWord(chars, i + 1) <=>
              chars[i] = "letter" \/ (chars[i] = "blank" /\ InWord(chars, i))
<1>1. (i + 1) - 1 = i /\ i \in 1..i /\ \A k : k \in i..i <=> k = i
  OBVIOUS
<1>2. ASSUME InWord(chars, i + 1)
      PROVE  chars[i] = "letter" \/ (chars[i] = "blank" /\ InWord(chars, i))
  <2>1. PICK h \in 1..i : chars[h] = "letter" /\ \A k \in h..i : chars[k] \in {"letter", "blank"}
    BY <1>1, <1>2 DEF InWord
  <2>2. chars[i] \in {"letter", "blank"}
    BY <2>1
  <2>3. CASE h = i
    BY <2>1, <2>3
  <2>4. CASE h # i
    <3>1. h \in 1..i - 1 /\ \A k \in h..i - 1 : k \in h..i
      BY <2>4
    <3>2. InWord(chars, i)
      BY <2>1, <3>1 DEF InWord
    <3> QED
      BY <2>2, <3>2
  <2> QED
    BY <2>3, <2>4
<1>3. ASSUME chars[i] = "letter" PROVE InWord(chars, i + 1)
  BY <1>1, <1>3 DEF InWord
<1>4. ASSUME chars[i] = "blank", InWord(chars, i) PROVE InWord(chars, i + 1)
  <2>1. PICK h \in 1..i - 1 :
            chars[h] = "letter" /\ \A k \in h..i - 1 : chars[k] \in {"letter", "blank"}
    BY <1>4 DEF InWord
  <2>2. h \in 1..i /\ \A k \in h..i : k = i \/ k \in h..i - 1
    OBVIOUS
  <2>3. \A k \in h..i : chars[k] \in {"letter", "blank"}
    BY <1>4, <2>1, <2>2
  <2> QED
    BY <1>1, <2>1, <2>2, <2>3 DEF InWord
<1> QED
  BY <1>2, <1>3, <1>4

\* Whether the number of equal characters before a position is odd.
Odd(chars, i) == Cardinality(Preceding(chars, i)) % 2 = 1

LEMMA OddFirst == ASSUME NEW chars PROVE ~Odd(chars, 1)
<1>1. Preceding(chars, 1) = {}
  BY DEF Preceding
<1> QED
  BY <1>1, FS_EmptySet DEF Odd

LEMMA OddNext ==
    ASSUME NEW chars, NEW i \in Nat, i > 0
    PROVE  Odd(chars, i + 1) <=> chars[i] = chars[i + 1] /\ ~Odd(chars, i)
<1> DEFINE p == Preceding(chars, i)
           c == Cardinality(p)
<1>1. (i + 1) - 1 = i /\ i \in 1..i
  OBVIOUS
<1>2. CASE chars[i] # chars[i + 1]
  <2>1. Preceding(chars, i + 1) = {}
    <3>1. \A h \in 1..i : i \in h..i
      OBVIOUS
    <3> QED
      BY <1>1, <1>2, <3>1 DEF Preceding
  <2>2. ~Odd(chars, i + 1)
    BY <2>1, FS_EmptySet DEF Odd
  <2> QED
    BY <1>2, <2>2
<1>3. CASE chars[i] = chars[i + 1]
  <2>1. Preceding(chars, i + 1) = p \cup {i}
    <3>1. \A h \in 1..i : h = i \/ h \in 1..i - 1
      OBVIOUS
    <3>2. \A h \in 1..i - 1 : h \in 1..i /\ \A k : k \in h..i <=> k \in h..i - 1 \/ k = i
      OBVIOUS
    <3>3. \A k \in i..i : k = i
      OBVIOUS
    <3> QED
      BY <1>1, <1>3, <3>1, <3>2, <3>3 DEF Preceding
  <2>2. IsFiniteSet(p) /\ i \notin p
    <3>1. p \in SUBSET (1..i - 1) /\ i \notin 1..i - 1 /\ i - 1 \in Int /\ 1 \in Int
      BY DEF Preceding
    <3>2. IsFiniteSet(1..i - 1)
      BY <3>1, FS_Interval
    <3> QED
      BY <3>1, <3>2, FS_Subset
  <2> HIDE DEF p
  <2>3. Cardinality(p \cup {i}) = c + 1 /\ c \in Nat
    BY <2>2, FS_AddElement, FS_CardinalityType
  <2> HIDE DEF c
  <2>4. c \in Nat
    BY <2>3
  <2>5. (c + 1) % 2 = 1 <=> ~(c % 2 = 1)
    BY <2>4
  <2>6. Odd(chars, i + 1) <=> (c + 1) % 2 = 1
    BY <2>1, <2>3 DEF Odd
  <2>7. Odd(chars, i) <=> c % 2 = 1
    BY DEF Odd, c, p
  <2> QED
    BY <1>3, <2>5, <2>6, <2>7
<1> QED
  BY <1>2, <1>3

(***************************************************************************)
(* The tokens that are seen in the first k characters, and what gettoken   *)
(* has of them: in a word, or after a >, it has not written the last one.  *)
(***************************************************************************)
Mark == Token \cup {"none"}
Marks(chars) == [i \in DOMAIN chars |-> TokenAt(chars, i)]
Seen(chars, k) == Without(Prefix(Marks(chars), k), "none")

LEMMA TokenAtIs ==
    ASSUME NEW chars, NEW i, chars[i] \in Char
    PROVE  /\ chars[i] = "blank" => TokenAt(chars, i) = "none"
           /\ chars[i] = "letter" =>
                 TokenAt(chars, i) = IF InWord(chars, i) THEN "none" ELSE "NORMAL"
           /\ chars[i] = ">" =>
                 TokenAt(chars, i) = IF Odd(chars, i) THEN "none"
                                     ELSE IF chars[i + 1] = ">" THEN "REDIR_APPEND"
                                     ELSE "REDIR_OUT"
           /\ chars[i] \notin {"blank", "letter", ">"} =>
                 TokenAt(chars, i) = tkn_tbl[chars[i]] /\ chars[i] \in DOMAIN tkn_tbl
           /\ TokenAt(chars, i) \in Mark
<1>1. CASE chars[i] = "blank"
  BY <1>1 DEF TokenAt, Mark
<1>2. CASE chars[i] = "letter"
  BY <1>2 DEF TokenAt, Mark, Token
<1>3. CASE chars[i] = ">"
  <2>1. TokenAt(chars, i) = IF Odd(chars, i) THEN "none"
                            ELSE IF chars[i + 1] = ">" THEN "REDIR_APPEND" ELSE "REDIR_OUT"
    BY <1>3 DEF TokenAt, Odd
  <2>2. TokenAt(chars, i) \in Mark
    BY <2>1 DEF Mark, Token, Redirections
  <2> QED
    BY <1>3, <2>1, <2>2
<1>4. CASE chars[i] \notin {"blank", "letter", ">"}
  <2>1. chars[i] \in DOMAIN tkn_tbl
    BY <1>4, TableType DEF Char
  <2>2. TokenAt(chars, i) = tkn_tbl[chars[i]]
    BY <1>4 DEF TokenAt
  <2>3. tkn_tbl[chars[i]] \in Mark
    BY <2>1, TableType DEF Mark
  <2> QED
    BY <1>4, <2>1, <2>2, <2>3
<1> QED
  BY <1>1, <1>2, <1>3, <1>4

LEMMA SeenNext ==
    ASSUME NEW chars \in Seq(Char), NEW n \in Nat, n = Len(chars)
    PROVE  /\ Seen(chars, 0) = <<>>
           /\ \A i \in 1..n : Seen(chars, i) = Kept("none", Seen(chars, i - 1), TokenAt(chars, i))
           /\ \A i \in 0..n : Seen(chars, i) \in Seq(Mark)
           /\ Seen(chars, n) = Tokens(chars)
<1> DEFINE m == Marks(chars)
<1>1. DOMAIN chars = 1..n /\ \A i \in 1..n : chars[i] \in Char
  OBVIOUS
<1>2. \A i \in 1..n : TokenAt(chars, i) \in Mark
  BY <1>1, TokenAtIs
<1>3. m = [i \in 1..n |-> TokenAt(chars, i)]
  BY <1>1 DEF Marks
<1>4. m \in Seq(Mark) /\ Len(m) = n
  BY <1>2, <1>3, IsASeq
<1>5. \A i \in 1..n : m[i] = TokenAt(chars, i)
  BY <1>3
<1>6. Tokens(chars) = Without(m, "none")
  BY DEF Tokens, Marks
<1> HIDE DEF m
<1>7. /\ Without(Prefix(m, 0), "none") = <<>>
      /\ \A i \in 1..Len(m) : Without(Prefix(m, i), "none")
                                 = Kept("none", Without(Prefix(m, i - 1), "none"), m[i])
      /\ Without(Prefix(m, Len(m)), "none") = Without(m, "none")
      /\ \A i \in 0..Len(m) : Without(Prefix(m, i), "none") \in Seq(Mark)
  BY <1>4, WithoutPrefix
<1>8. \A i : Seen(chars, i) = Without(Prefix(m, i), "none")
  BY DEF Seen, m
<1> QED
  BY <1>4, <1>5, <1>6, <1>7, <1>8

\* What gettoken has after k characters, by the state it is in.
Scanned(chars, k, s) ==
    /\ s \in Scan
    /\ s.at = "start" => /\ s.tokens = Seen(chars, k)
                         /\ ~InWord(chars, k + 1)
                         /\ k > 0 /\ chars[k] = ">" => Odd(chars, k)
    /\ s.at = "word" => /\ Seen(chars, k) = Append(s.tokens, "NORMAL")
                        /\ InWord(chars, k + 1)
                        /\ k > 0 /\ chars[k] \in {"letter", "blank"}
    /\ s.at = ">" => /\ Seen(chars, k) = Append(s.tokens, TokenAt(chars, k))
                     /\ k > 0 /\ chars[k] = ">" /\ ~Odd(chars, k)

LEMMA ScannedBegin ==
    ASSUME NEW chars \in Seq(Char), NEW i \in 1..Len(chars), Seen(chars, i - 1) \in Seq(Token),
           chars[i] \in {"blank", "letter"} => ~InWord(chars, i),
           chars[i] = ">" => ~Odd(chars, i)
    PROVE  Scanned(chars, i, Begin(Seen(chars, i - 1), chars[i]))
<1> DEFINE n == Len(chars)
           t == Seen(chars, i - 1)
           c == chars[i]
           new == Begin(t, c)
<1> SUFFICES Scanned(chars, i, new)
  OBVIOUS
<1>1. n \in Nat /\ n = Len(chars) /\ i \in Nat /\ i > 0 /\ c \in Char
  OBVIOUS
<1>2. Seen(chars, i) = Kept("none", t, TokenAt(chars, i))
  <2>1. \A h \in 1..n : Seen(chars, h) = Kept("none", Seen(chars, h - 1), TokenAt(chars, h))
    BY <1>1, SeenNext
  <2> QED
    BY <2>1
<1>3. InWord(chars, i + 1) <=> c = "letter" \/ (c = "blank" /\ InWord(chars, i))
  BY <1>1, WordNext
<1>4. new \in Scan
  BY <1>1, BeginType
<1> HIDE DEF n, t
<1>5. CASE c = "blank"
  <2>1. TokenAt(chars, i) = "none"
    BY <1>1, <1>5, TokenAtIs
  <2>2. new.at = "start" /\ new.tokens = t
    BY <1>5 DEF Begin
  <2>3. Seen(chars, i) = t
    BY <1>2, <2>1 DEF Kept
  <2> HIDE DEF new
  <2> QED
    BY <1>3, <1>4, <1>5, <2>2, <2>3 DEF Scanned
<1>6. CASE c = "letter"
  <2>1. TokenAt(chars, i) = "NORMAL"
    BY <1>1, <1>6, TokenAtIs
  <2>2. new.at = "word" /\ new.tokens = t
    BY <1>6 DEF Begin
  <2>3. Seen(chars, i) = Append(t, "NORMAL")
    BY <1>2, <2>1 DEF Kept
  <2> HIDE DEF new
  <2> QED
    BY <1>1, <1>3, <1>4, <1>6, <2>2, <2>3 DEF Scanned
<1>7. CASE c = ">"
  <2>1. TokenAt(chars, i) \in {"REDIR_APPEND", "REDIR_OUT"}
    BY <1>1, <1>7, TokenAtIs
  <2>2. new.at = ">" /\ new.tokens = t
    BY <1>7 DEF Begin
  <2>3. Seen(chars, i) = Append(t, TokenAt(chars, i))
    BY <1>2, <2>1 DEF Kept
  <2> HIDE DEF new
  <2> QED
    BY <1>1, <1>4, <1>7, <2>2, <2>3 DEF Scanned
<1>8. CASE c \notin {"blank", "letter", ">"}
  <2>1. TokenAt(chars, i) = tkn_tbl[c] /\ tkn_tbl[c] \in Token
    BY <1>1, <1>8, TokenAtIs, TableType
  <2>2. new.at = "start" /\ new.tokens = Append(t, tkn_tbl[c])
    BY <1>8 DEF Begin
  <2>3. tkn_tbl[c] # "none"
    BY <2>1 DEF Token, Redirections
  <2>4. Seen(chars, i) = Append(t, tkn_tbl[c])
    BY <1>2, <2>1, <2>3 DEF Kept
  <2> HIDE DEF new
  <2> QED
    BY <1>3, <1>4, <1>8, <2>2, <2>4 DEF Scanned
<1> QED
  BY <1>5, <1>6, <1>7, <1>8 DEF t

LEMMA ScannedNext ==
    ASSUME NEW chars \in Seq(Char), NEW k \in 0..Len(chars)-1, NEW s, Scanned(chars, k, s)
    PROVE  Scanned(chars, k + 1, GetChar(s, chars[k + 1]))
<1> DEFINE i == k + 1
           c == chars[i]
           new == GetChar(s, c)
<1> SUFFICES Scanned(chars, i, new)
  OBVIOUS
<1>1. k \in Nat /\ i \in 1..Len(chars) /\ i \in Nat /\ i > 0 /\ i - 1 = k /\ c \in Char
  OBVIOUS
<1>2. s.tokens \in Seq(Token) /\ s.at \in {"start", ">", "word"}
  BY DEF Scanned, Scan
<1>3. Odd(chars, i) <=> k > 0 /\ chars[k] = c /\ ~Odd(chars, k)
  <2>1. CASE k = 0
    BY <2>1, OddFirst
  <2>2. CASE k > 0
    BY <1>1, <2>2, OddNext
  <2> QED
    BY <1>1, <2>1, <2>2
<1> DEFINE seen == Seen(chars, k)
<1>4. ASSUME seen \in Seq(Token), new = Begin(seen, c),
             c \in {"blank", "letter"} => ~InWord(chars, i),
             c = ">" => ~Odd(chars, i)
      PROVE  Scanned(chars, i, new)
  BY <1>1, <1>4, ScannedBegin
<1>5. \A t \in {"NORMAL", "REDIR_OUT"} : Append(s.tokens, t) \in Seq(Token)
  BY <1>2 DEF Token, Redirections
<1>6. CASE s.at = "start"
  <2>1. seen = s.tokens /\ ~InWord(chars, i) /\ (k > 0 /\ chars[k] = ">" => Odd(chars, k))
    BY <1>6 DEF Scanned
  <2>2. new = Begin(s.tokens, c)
    BY <1>6 DEF GetChar
  <2>3. c = ">" => ~Odd(chars, i)
    BY <1>3, <2>1
  <2> HIDE DEF i, c, new, seen
  <2>4. seen \in Seq(Token) /\ new = Begin(seen, c)
    BY <1>2, <2>1, <2>2
  <2> QED
    BY <1>4, <2>1, <2>3, <2>4
<1>7. CASE s.at = ">"
  <2>1. seen = Append(s.tokens, TokenAt(chars, k)) /\ k > 0 /\ chars[k] = ">" /\ ~Odd(chars, k)
    BY <1>7 DEF Scanned
  <2>2. TokenAt(chars, k) = IF c = ">" THEN "REDIR_APPEND" ELSE "REDIR_OUT"
    BY <2>1, TokenAtIs DEF Char
  <2>3. ~InWord(chars, i)
    BY <1>1, <2>1, WordNext
  <2>4. CASE c = ">"
    <3>1. new = [tokens |-> Append(s.tokens, "REDIR_APPEND"), at |-> "start"]
      BY <1>7, <2>4 DEF GetChar
    <3>2. Odd(chars, i) /\ TokenAt(chars, i) = "none"
      BY <1>1, <1>3, <2>1, <2>4, TokenAtIs
    <3>3. Seen(chars, i) = seen
      <4>1. \A h \in 1..Len(chars) :
               Seen(chars, h) = Kept("none", Seen(chars, h - 1), TokenAt(chars, h))
        BY SeenNext
      <4> QED
        BY <1>1, <3>2, <4>1 DEF Kept
    <3>4. ~InWord(chars, i + 1)
      BY <1>1, <2>4, WordNext
    <3>5. new \in Scan
      BY <1>1, GetCharType DEF Scanned
    <3> HIDE DEF new, i, c
    <3>6. new.at = "start" /\ new.tokens = Seen(chars, i)
      BY <2>1, <2>2, <2>4, <3>1, <3>3
    <3> QED
      BY <3>2, <3>4, <3>5, <3>6 DEF Scanned
  <2>5. CASE c # ">"
    <3>1. new = Begin(seen, c)
      BY <1>7, <2>1, <2>2, <2>5 DEF GetChar
    <3>2. seen \in Seq(Token)
      BY <1>5, <2>1, <2>2, <2>5
    <3> QED
      BY <1>4, <2>3, <2>5, <3>1, <3>2
  <2> QED
    BY <2>4, <2>5
<1>8. CASE s.at = "word"
  <2>1. /\ seen = Append(s.tokens, "NORMAL") /\ InWord(chars, i)
        /\ k > 0 /\ chars[k] \in {"letter", "blank"}
    BY <1>8 DEF Scanned
  <2>2. CASE c \in DOMAIN tkn_tbl
    <3>1. new = Begin(seen, c)
      BY <1>8, <2>1, <2>2 DEF GetChar
    <3>2. seen \in Seq(Token)
      BY <1>5, <2>1
    <3>3. c \notin {"blank", "letter"} /\ chars[k] # ">"
      BY <2>1, <2>2, TableType
    <3> QED
      BY <1>3, <1>4, <3>1, <3>2, <3>3
  <2>3. CASE c \notin DOMAIN tkn_tbl
    <3>1. c \in {"letter", "blank"}
      BY <1>1, <2>3, TableType DEF Char
    <3>2. new = s
      BY <1>8, <2>3 DEF GetChar
    <3>3. TokenAt(chars, i) = "none"
      BY <1>1, <2>1, <3>1, TokenAtIs
    <3>4. Seen(chars, i) = seen
      <4>1. \A h \in 1..Len(chars) :
               Seen(chars, h) = Kept("none", Seen(chars, h - 1), TokenAt(chars, h))
        BY SeenNext
      <4> QED
        BY <1>1, <3>3, <4>1 DEF Kept
    <3>5. InWord(chars, i + 1)
      BY <1>1, <2>1, <3>1, WordNext
    <3>6. s \in Scan
      BY DEF Scanned
    <3> HIDE DEF new, seen
    <3>7. s.at = "word" /\ chars[i] \in {"letter", "blank"} /\ i > 0
      BY <1>1, <1>8, <3>1
    <3>8. Seen(chars, i) = Append(s.tokens, "NORMAL")
      BY <2>1, <3>4
    <3> HIDE DEF i
    <3> QED
      BY <3>2, <3>5, <3>6, <3>7, <3>8 DEF Scanned
  <2> QED
    BY <2>2, <2>3
<1> QED
  BY <1>2, <1>6, <1>7, <1>8

\* gettoken of parseline.c, for lines of any length: a token for each operator and
\* each run of words, and >> is one token, paired from the left.
THEOREM TokensGot ==
    \A line \in Seq(Char) : gettoken(Append(line, "eol")) = Tokens(Append(line, "eol"))
<1> SUFFICES ASSUME NEW line \in Seq(Char)
             PROVE  gettoken(Append(line, "eol")) = Tokens(Append(line, "eol"))
  OBVIOUS
<1> DEFINE chars == Append(line, "eol")
           n == Len(line) + 1
<1>1. chars \in Seq(Char) /\ n \in Nat /\ n = Len(chars) /\ n > 0 /\ chars[n] = "eol"
  BY DEF Char
<1> HIDE DEF chars, n
<1>2. PICK st : /\ st[0] = Unscanned
                /\ \A k \in 1..n : st[k] = GetChar(st[k - 1], chars[k])
                /\ gettoken(chars) = st[n].tokens
  BY <1>1, CharLoop
<1> DEFINE K == {k \in 0..n : Scanned(chars, k, st[k])}
<1>3. 0 \in K
  <2>1. Seen(chars, 0) = <<>>
    BY <1>1, SeenNext
  <2>2. ~InWord(chars, 0 + 1)
    BY DEF InWord
  <2>3. Unscanned \in Scan
    BY DEF Unscanned, Scan
  <2> QED
    BY <1>1, <1>2, <2>1, <2>2, <2>3 DEF Scanned, Unscanned
<1>4. ASSUME NEW k \in 0..n-1, k \in K PROVE k + 1 \in K
  <2>1. k + 1 \in 1..n /\ k + 1 \in 0..n /\ (k + 1) - 1 = k /\ k \in 0..Len(chars)-1
    BY <1>1
  <2>2. st[k + 1] = GetChar(st[k], chars[k + 1])
    BY <1>2, <2>1
  <2>3. Scanned(chars, k + 1, GetChar(st[k], chars[k + 1]))
    BY <1>1, <1>4, <2>1, ScannedNext
  <2> QED
    BY <2>1, <2>2, <2>3
<1> HIDE DEF K
<1>5. n \in K
  BY <1>1, <1>3, <1>4, NatSetInduction
<1>6. Scanned(chars, n, st[n])
  BY <1>5 DEF K
<1>7. st[n].at = "start"
  BY <1>1, <1>6 DEF Scanned, Scan
<1>8. st[n].tokens = Seen(chars, n)
  BY <1>6, <1>7 DEF Scanned
<1>9. Seen(chars, n) = Tokens(chars)
  BY <1>1, SeenNext
<1> QED
  BY <1>2, <1>8, <1>9 DEF chars

\* gettoken, read_command and parseline accept the lines of the grammar, and build
\* their tokens and blocks, for lines and input of any length (parseline.c).
THEOREM GrammarParsed == Spec => []ParsesGrammar
<1>1. ASSUME NEW chars \in Typing(MaxChars) PROVE gettoken(chars) = Tokens(chars)
  <2>1. PICK m \in 0..MaxChars : \E c \in [1..m -> Char] : chars = Append(c, "eol")
    BY DEF Typing
  <2>2. PICK c \in [1..m -> Char] : chars = Append(c, "eol")
    BY <2>1
  <2>3. c \in Seq(Char)
    <3>1. m \in Nat
      BY MaxAssumption
    <3> QED
      BY <3>1
  <2> QED
    BY <2>2, <2>3, TokensGot
<1>2. ASSUME NEW input \in Typed(MaxTokens) PROVE Reads(input)
  <2>1. PICK m \in 0..MaxTokens : input \in [1..m -> Token]
    BY DEF Typed
  <2>2. input \in Seq(Token)
    <3>1. m \in Nat
      BY MaxAssumption
    <3> QED
      BY <2>1, <3>1
  <2> QED
    BY <2>2, InputsRead
<1>3. /\ \A chars \in Typing(MaxChars) : gettoken(chars) = Tokens(chars)
      /\ \A input \in Typed(MaxTokens) : Reads(input)
  BY <1>1, <1>2, Zenon
<1>4. ParsesGrammar
  BY <1>3, Zenon DEF ParsesGrammar
<1> QED
  BY <1>4, PTL

-----------------------------------------------------------------------------
(***************************************************************************)
(* exec_recursive.  Commands i and k are neighbours when no command stands *)
(* between them; the pipe of k is what the leader gives to i.              *)
(***************************************************************************)
Neighbours(b, i, k) == /\ i < k
                       /\ b[k] = "NORMAL"
                       /\ Commands(b) \cap i+1..k-1 = {}
Target(b, i, k) == IF Redirected(b, i, k) THEN FILE ELSE k

(* Where the leader is: the commands to the right of pos have been started *)
(* with their pipes, and its standard output is the one for the next.      *)
Placed(j) ==
    /\ \A k \in DOMAIN j.stage : k \in 1..Len(j.blocks) /\ j.blocks[k] = "NORMAL"
    /\ j.at \in {"level", "fork"} => \A k \in DOMAIN j.stage : k > j.pos
    /\ j.at = "shift" => \A k \in DOMAIN j.stage : k >= j.pos
    /\ j.at \in {"level", "fork", "shift"} => j.pos \in 1..Len(j.blocks)
    /\ j.at = "level" /\ j.pos < Len(j.blocks) =>
          j.blocks[j.pos + 1] = "NORMAL" /\ j.out = j.pos + 1
    /\ j.at \in {"fork", "shift"} => j.blocks[j.pos] = "NORMAL" /\ j.pipe = j.pos
    /\ j.at = "fork" => \A k \in 1..Len(j.blocks) :
          Neighbours(j.blocks, j.pos, k) => j.out = Target(j.blocks, j.pos, k)

(* What has been started is connected, also when it has ended.             *)
Connected(j) ==
    \A k \in DOMAIN j.stage :
        /\ k # 1 => j.stage[k].in = k
        /\ \A i \in DOMAIN j.stage :
              Neighbours(j.blocks, i, k) => j.stage[i].out = Target(j.blocks, i, k)

JobInv(j) ==
    /\ ~Alive(j) \/ j.at = "setup" => DOMAIN j.stage = {}
    /\ Alive(j) => Len(j.blocks) > 0 /\ j.blocks[1] = "NORMAL"
    /\ Alive(j) /\ j.at # "setup" => Placed(j)
    /\ Connected(j)

Stage == [stat : {"run", "dead"}, in : Int, out : Int]
Stages == UNION {[D -> Stage] : D \in SUBSET Nat}
Job == [ stat : {"none", "run", "stopped", "zombie"}, bg : BOOLEAN,
         blocks : Seq(Token \cup {"DIR"}), at : Place, pos : Nat, pipe : Nat,
         in : Int, out : Int, waits : Seq(Nat),
         stage : Stages,
         failed : BOOLEAN, reported : BOOLEAN ]

LEMMA StageType ==
    \A f \in Stages :
       /\ DOMAIN f \subseteq Nat
       /\ f \in [DOMAIN f -> Stage]
       /\ \A k \in DOMAIN f : f[k] \in Stage
BY DEF Stages

LEMMA IsStageType ==
    ASSUME NEW D \in SUBSET Nat, NEW f \in [D -> Stage]
    PROVE  f \in Stages
BY DEF Stages

LEMMA NoStage == /\ <<>> \in Stages
                 /\ DOMAIN <<>> = {}
<1>1. <<>> \in [{} -> Stage]
  OBVIOUS
<1> QED
  BY <1>1, IsStageType

\* A process that has not begun, or has ended, has no commands.
LEMMA NoJobInv == NoJob \in Job /\ JobInv(NoJob)
<1>1. NoJob \in Job
  BY NoStage DEF NoJob, Job, Place, TTY
<1> QED
  BY <1>1, NoStage DEF NoJob, JobInv, Alive, Connected

LEMMA ZombieInv == ASSUME NEW j \in Job PROVE Zombie(j) \in Job /\ JobInv(Zombie(j))
<1>1. Zombie(j) \in Job /\ Zombie(j).stage = <<>> /\ Zombie(j).stat = "zombie"
  BY NoJobInv DEF Zombie, Job, NoJob, Place
<1> QED
  BY <1>1, NoStage DEF JobInv, Alive, Connected

\* Steps of a job that move none of its commands or descriptors.
LEMMA SameInv ==
    ASSUME NEW j, NEW new, JobInv(j),
           new.stage = j.stage, new.blocks = j.blocks, new.at = j.at, new.pos = j.pos,
           new.pipe = j.pipe, new.out = j.out, Alive(new) <=> Alive(j)
    PROVE  JobInv(new)
BY DEF JobInv, Placed, Connected, Commands, Redirected, Neighbours, Target

(***************************************************************************)
(* A leader, step by step.                                                 *)
(***************************************************************************)
LEMMA SetupJob ==
    ASSUME NEW j \in Job, JobInv(j), j.stat = "run", j.at = "setup",
           NEW new, new = [j EXCEPT !.at = "level", !.pos = Len(j.blocks)]
    PROVE  new \in Job /\ JobInv(new)
<1>1. new \in Job /\ new.stat = "run" /\ new.at = "level" /\ new.pos = Len(j.blocks)
      /\ new.blocks = j.blocks /\ new.stage = j.stage
  <2>1. Len(j.blocks) \in Nat
    BY DEF Job
  <2> QED
    BY <2>1 DEF Job, Place
<1>2. Len(j.blocks) \in Nat /\ Len(j.blocks) > 0 /\ j.blocks[1] = "NORMAL" /\ DOMAIN j.stage = {}
  BY DEF JobInv, Alive, Job
<1>3. Placed(new) /\ Connected(new)
  BY <1>1, <1>2 DEF Placed, Connected
<1> QED
  BY <1>1, <1>2, <1>3 DEF JobInv, Alive

\* There is a command at pos or to its left.
LEMMA CommandAtIs ==
    ASSUME NEW j \in Job, j.blocks[1] = "NORMAL", j.pos \in 1..Len(j.blocks)
    PROVE  /\ CommandAt(j) \in 1..j.pos /\ j.blocks[CommandAt(j)] = "NORMAL"
           /\ \A i \in CommandAt(j)+1..j.pos : j.blocks[i] # "NORMAL"
<1> DEFINE T == {k \in 1..j.pos : j.blocks[k] = "NORMAL"}
<1>1. j.pos \in Nat /\ T \in SUBSET (1..j.pos) /\ T # {}
  BY DEF Job
<1>2. Max(T) \in T /\ \A y \in T : y <= Max(T)
  BY <1>1, MaxIn
<1>3. \A i \in Max(T)+1..j.pos : j.blocks[i] # "NORMAL"
  BY <1>1, <1>2
<1> QED
  BY <1>2, <1>3 DEF CommandAt

\* Redirections change the descriptors of the leader and nothing else.
LEMMA OpenedIs ==
    ASSUME NEW j \in Job, NEW is
    PROVE  LET new == Opened(j, is)
           IN  /\ new \in Job
               /\ new.out = IF \E i \in is : j.blocks[i] # "REDIR_IN" THEN FILE ELSE j.out
               /\ new.stat = j.stat /\ new.bg = j.bg /\ new.blocks = j.blocks /\ new.at = j.at
               /\ new.pos = j.pos /\ new.pipe = j.pipe /\ new.waits = j.waits
               /\ new.stage = j.stage
<1>1. FILE \in Int
  BY DEF FILE
<1> QED
  BY <1>1 DEF Opened, Job

LEMMA LevelJob ==
    ASSUME NEW j \in Job, JobInv(j), j.stat = "run", j.at = "level",
           NEW new, new = [Opened(j, Passed(j)) EXCEPT !.at = "fork", !.pos = CommandAt(j),
                                                       !.pipe = CommandAt(j)]
    PROVE  new \in Job /\ JobInv(new)
<1> DEFINE c == CommandAt(j)
           b == j.blocks
<1>1. Placed(j) /\ Connected(j) /\ b[1] = "NORMAL" /\ j.pos \in 1..Len(b) /\ Len(b) > 0
  BY DEF JobInv, Alive, Placed
<1>2. c \in 1..j.pos /\ b[c] = "NORMAL" /\ \A i \in c+1..j.pos : b[i] # "NORMAL"
  BY <1>1, CommandAtIs
<1>3. j.pos \in Nat /\ Len(b) \in Nat /\ b \in Seq(Token \cup {"DIR"})
  BY DEF Job
<1> HIDE DEF c, b
<1>4. /\ new \in Job /\ new.stat = "run" /\ new.at = "fork" /\ new.pos = c /\ new.pipe = c
      /\ new.blocks = b /\ new.stage = j.stage
      /\ new.out = IF \E i \in Passed(j) : b[i] # "REDIR_IN" THEN FILE ELSE j.out
  <2> DEFINE o == Opened(j, Passed(j))
  <2>1. c \in Nat
    BY <1>2, <1>3
  <2>2. /\ o \in Job /\ o.stat = "run" /\ o.blocks = b /\ o.stage = j.stage
        /\ o.out = IF \E i \in Passed(j) : b[i] # "REDIR_IN" THEN FILE ELSE j.out
    BY OpenedIs DEF b
  <2>3. new = [o EXCEPT !.at = "fork", !.pos = c, !.pipe = c]
    BY DEF c
  <2> HIDE DEF o
  <2> QED
    BY <2>1, <2>2, <2>3 DEF Job, Place
<1>5. \A k \in DOMAIN j.stage : k \in 1..Len(b) /\ b[k] = "NORMAL" /\ k > j.pos
  BY <1>1 DEF Placed, b
<1>6. ASSUME NEW k \in 1..Len(b), Neighbours(b, c, k) PROVE new.out = Target(b, c, k)
  <2>1. k > j.pos
    BY <1>2, <1>3, <1>6 DEF Neighbours
  <2>2. j.pos < Len(b) /\ b[j.pos + 1] = "NORMAL" /\ j.out = j.pos + 1
    BY <1>1, <1>3, <2>1 DEF Placed, b
  <2>3. k = j.pos + 1
    <3>1. j.pos + 1 \in Commands(b)
      BY <1>3, <2>2 DEF Commands
    <3> QED
      BY <1>2, <1>3, <1>6, <2>1, <3>1 DEF Neighbours
  <2>4. Redirected(b, c, k) <=> \E i \in Passed(j) : b[i] # "REDIR_IN"
    <3>1. Passed(j) = {i \in c+1..k-1 : b[i] \in Redirections}
      BY <1>3, <2>3 DEF Passed, b, c
    <3> QED
      BY <3>1 DEF Redirected, Redirections
  <2> QED
    BY <1>4, <2>2, <2>3, <2>4 DEF Target
<1>7. Placed(new)
  <2>1. \A k \in DOMAIN j.stage : k > c
    BY <1>2, <1>3, <1>5
  <2>2. c \in 1..Len(b)
    BY <1>1, <1>2, <1>3
  <2> QED
    BY <1>2, <1>4, <1>5, <1>6, <2>1, <2>2 DEF Placed
<1>8. Connected(new)
  BY <1>1, <1>4 DEF Connected, b
<1> QED
  BY <1>1, <1>4, <1>7, <1>8 DEF JobInv, Alive

\* A command is started: it reads its pipe and writes where its neighbour reads.
LEMMA ForkJob ==
    ASSUME NEW j \in Job, JobInv(j), j.stat = "run", j.at = "fork",
           NEW f, f = [k \in DOMAIN j.stage \cup {j.pos} |->
                         IF k = j.pos THEN Started(j, k) ELSE j.stage[k]],
           NEW new, new = [j EXCEPT !.at = "shift", !.stage = f]
    PROVE  new \in Job /\ JobInv(new)
<1> DEFINE c == j.pos
           b == j.blocks
<1>1. /\ Placed(j) /\ Connected(j) /\ b[1] = "NORMAL" /\ c \in 1..Len(b) /\ Len(b) > 0
      /\ b[c] = "NORMAL" /\ j.pipe = c
  BY DEF JobInv, Alive, Placed
<1>2. c \in Nat /\ Len(b) \in Nat /\ j.in \in Int /\ j.out \in Int
  BY DEF Job
<1>3. /\ Started(j, c) \in Stage /\ Started(j, c).out = j.out
      /\ c # 1 => Started(j, c).in = c
  BY <1>1, <1>2 DEF Started, Stage, First
<1>4. /\ DOMAIN j.stage \subseteq Nat /\ \A k \in DOMAIN j.stage : j.stage[k] \in Stage
      /\ \A k \in DOMAIN j.stage : k \in 1..Len(b) /\ b[k] = "NORMAL" /\ k > c
  BY <1>1, StageType DEF Job, Placed
<1> HIDE DEF c, b
<1>5. /\ DOMAIN f = DOMAIN j.stage \cup {c} /\ f[c] = Started(j, c)
      /\ \A k \in DOMAIN j.stage : f[k] = j.stage[k]
  BY <1>2, <1>4 DEF c
<1>6. f \in Stages
  <2>1. f \in [DOMAIN j.stage \cup {c} -> Stage]
    BY <1>3, <1>4 DEF c
  <2> QED
    <3>1. DOMAIN j.stage \cup {c} \in SUBSET Nat
      BY <1>2, <1>4 DEF c
    <3> QED
      BY <2>1, <3>1, IsStageType
<1>7. /\ new \in Job /\ new.stat = "run" /\ new.at = "shift" /\ new.pos = c /\ new.pipe = c
      /\ new.blocks = b /\ new.stage = f
  BY <1>1, <1>6 DEF Job, Place, b, c
<1>8. Placed(new)
  <2>1. \A k \in DOMAIN f : k \in 1..Len(b) /\ b[k] = "NORMAL" /\ k >= c
    BY <1>1, <1>2, <1>4, <1>5
  <2> QED
    BY <1>1, <1>7, <2>1 DEF Placed
<1>9. Connected(new)
  <2>1. \A k \in DOMAIN f : k # 1 => f[k].in = k
    BY <1>1, <1>3, <1>5 DEF Connected
  <2>2. ASSUME NEW k \in DOMAIN f, NEW i \in DOMAIN f, Neighbours(b, i, k)
        PROVE  f[i].out = Target(b, i, k)
    <3>1. k \in DOMAIN j.stage /\ k \in 1..Len(b)
      BY <1>2, <1>4, <1>5, <2>2 DEF Neighbours
    <3>2. CASE i = c
      <4>1. j.out = Target(b, c, k)
        BY <1>1, <2>2, <3>1, <3>2 DEF Placed, b, c
      <4> QED
        BY <1>3, <1>5, <3>2, <4>1
    <3>3. CASE i # c
      <4>1. i \in DOMAIN j.stage /\ f[i] = j.stage[i]
        BY <1>5, <3>3
      <4>2. j.stage[i].out = Target(b, i, k)
        BY <1>1, <2>2, <3>1, <4>1 DEF Connected, b
      <4> QED
        BY <4>1, <4>2
    <3> QED
      BY <3>2, <3>3
  <2> QED
    BY <1>7, <2>1, <2>2 DEF Connected
<1> QED
  BY <1>1, <1>7, <1>8, <1>9 DEF JobInv, Alive

\* The leader's standard output becomes the pipe of the command at pos.
LEMMA ShiftJob ==
    ASSUME NEW j \in Job, JobInv(j), j.stat = "run", j.at = "shift",
           NEW new, new = [Shifted(j) EXCEPT !.waits = Append(@, j.pos), !.pos = @ - 1,
                                             !.at = IF j.pos = 1 THEN "wait" ELSE "level"]
    PROVE  new \in Job /\ JobInv(new)
<1>1. /\ Placed(j) /\ Connected(j) /\ j.blocks[1] = "NORMAL" /\ Len(j.blocks) > 0
      /\ j.pos \in 1..Len(j.blocks) /\ j.blocks[j.pos] = "NORMAL" /\ j.pipe = j.pos
  BY DEF JobInv, Alive, Placed
<1>2. j.pos \in Nat /\ j.pos - 1 \in Nat /\ Len(j.blocks) \in Nat
  BY <1>1 DEF Job
<1>3. /\ new \in Job /\ new.stat = "run" /\ new.pos = j.pos - 1 /\ new.out = j.pos
      /\ new.at = (IF j.pos = 1 THEN "wait" ELSE "level")
      /\ new.blocks = j.blocks /\ new.stage = j.stage
  <2>1. j.pipe \in Int /\ 0 \in Int
    BY <1>1, <1>2
  <2>2. Shifted(j) \in Job /\ Shifted(j).stat = "run" /\ Shifted(j).out = j.pos
        /\ Shifted(j).blocks = j.blocks /\ Shifted(j).stage = j.stage
        /\ Shifted(j).pos = j.pos /\ Shifted(j).waits = j.waits
    BY <1>1, <2>1 DEF Job, Shifted
  <2>3. Append(j.waits, j.pos) \in Seq(Nat)
    BY <1>2 DEF Job
  <2>4. new = [Shifted(j) EXCEPT !.waits = Append(j.waits, j.pos), !.pos = j.pos - 1,
                                 !.at = IF j.pos = 1 THEN "wait" ELSE "level"]
    BY <2>2
  <2> QED
    BY <1>2, <2>2, <2>3, <2>4 DEF Job, Place
<1>4. Placed(new)
  <2>1. \A k \in DOMAIN j.stage : /\ k \in 1..Len(j.blocks) /\ j.blocks[k] = "NORMAL"
                                 /\ k >= j.pos /\ k > j.pos - 1
    BY <1>1, <1>2 DEF Placed
  <2>2. j.pos # 1 => j.pos - 1 \in 1..Len(j.blocks)
    BY <1>1, <1>2
  <2>3. (j.pos - 1) + 1 = j.pos
    BY <1>2
  <2> QED
    BY <1>1, <1>3, <2>1, <2>2, <2>3 DEF Placed
<1>5. Connected(new)
  BY <1>1, <1>3 DEF Connected
<1> QED
  BY <1>1, <1>3, <1>4, <1>5 DEF JobInv, Alive

\* open or fork fails: what was started stays as it is.
LEMMA FailedJob ==
    ASSUME NEW j \in Job, JobInv(j), j.stat = "run", j.at # "setup",
           NEW new \in Job, new.stat = "run", new.at = "wait",
           new.blocks = j.blocks, new.stage = j.stage
    PROVE  JobInv(new)
<1>1. Placed(j) /\ Connected(j) /\ j.blocks[1] = "NORMAL" /\ Len(j.blocks) > 0
  BY DEF JobInv, Alive
<1>2. Placed(new) /\ Connected(new)
  BY <1>1 DEF Placed, Connected
<1> QED
  BY <1>1, <1>2 DEF JobInv, Alive

\* A command ends, or is waited for.
LEMMA StagesJob ==
    ASSUME NEW j \in Job, JobInv(j), j.stat = "run",
           NEW new \in Job, new.stat = "run", new.at = j.at, new.pos = j.pos,
           new.pipe = j.pipe, new.out = j.out, new.blocks = j.blocks,
           DOMAIN new.stage \subseteq DOMAIN j.stage,
           \A k \in DOMAIN new.stage : /\ new.stage[k].in = j.stage[k].in
                                       /\ new.stage[k].out = j.stage[k].out
    PROVE  JobInv(new)
<1>1. Connected(new)
  BY DEF JobInv, Connected
<1>2. Placed(j) => Placed(new)
  BY DEF Placed
<1> QED
  BY <1>1, <1>2 DEF JobInv, Alive

-----------------------------------------------------------------------------
(***************************************************************************)
(* The jobs of the shell.                                                  *)
(***************************************************************************)
JobsInv == job \in [Pid -> Job] /\ \A q \in Pid : JobInv(job[q])

LEMMA JobStep ==
    ASSUME JobsInv, NEW q, NEW j, Step(q, j), q \in Pid => j \in Job /\ JobInv(j)
    PROVE  JobsInv'
BY DEF JobsInv, Step

LEMMA JobSame == JobsInv /\ UNCHANGED job => JobsInv'
BY DEF JobsInv

\* What the shell does with a job it has waited for.
LEMMA CollectedJob ==
    ASSUME NEW j \in Job, JobInv(j)
    PROVE  Collected(j) \in Job /\ JobInv(Collected(j))
<1>1. CASE j.stat = "zombie"
  BY <1>1, NoJobInv DEF Collected
<1>2. CASE j.stat # "zombie"
  <2> DEFINE new == [j EXCEPT !.reported = TRUE]
  <2>1. /\ new \in Job /\ new.stage = j.stage /\ new.blocks = j.blocks /\ new.at = j.at
        /\ new.pos = j.pos /\ new.pipe = j.pipe /\ new.out = j.out /\ new.stat = j.stat
    BY DEF Job
  <2>2. Alive(new) <=> Alive(j)
    BY <2>1 DEF Alive
  <2> HIDE DEF new
  <2>3. JobInv(new)
    BY <2>1, <2>2, SameInv
  <2> QED
    BY <1>2, <2>1, <2>3 DEF Collected, new
<1> QED
  BY <1>1, <1>2

LEMMA LeaderSteps == ASSUME JobsInv, NEW q \in Pid, Leader(q) PROVE JobsInv'
<1> DEFINE j == job[q]
<1>1. j \in Job /\ JobInv(j)
  BY DEF JobsInv
<1>2. CASE Setup(q)
  <2> DEFINE new == [j EXCEPT !.at = "level", !.pos = Len(j.blocks)]
  <2>1. j.stat = "run" /\ j.at = "setup" /\ Step(q, new)
    BY <1>2 DEF Setup, Lead
  <2>2. new \in Job /\ JobInv(new)
    <3> HIDE DEF j
    <3> QED
      BY <1>1, <2>1, SetupJob
  <2> HIDE DEF new
  <2> QED
    BY <2>1, <2>2, JobStep
<1>3. CASE Level(q)
  <2> DEFINE new == [Opened(j, Passed(j)) EXCEPT !.at = "fork", !.pos = CommandAt(j),
                                                 !.pipe = CommandAt(j)]
  <2>1. j.stat = "run" /\ j.at = "level" /\ Step(q, new)
    BY <1>3 DEF Level, Lead
  <2>2. new \in Job /\ JobInv(new)
    <3> HIDE DEF j
    <3> QED
      BY <1>1, <2>1, LevelJob
  <2> HIDE DEF new
  <2> QED
    BY <2>1, <2>2, JobStep
<1>4. CASE Fork(q)
  <2> DEFINE f == [k \in DOMAIN j.stage \cup {j.pos} |->
                     IF k = j.pos THEN Started(j, k) ELSE j.stage[k]]
             new == [j EXCEPT !.at = "shift", !.stage = f]
  <2>1. j.stat = "run" /\ j.at = "fork" /\ Step(q, new)
    BY <1>4 DEF Fork, Lead
  <2>2. new \in Job /\ JobInv(new)
    <3> HIDE DEF j
    <3> QED
      BY <1>1, <2>1, ForkJob
  <2> HIDE DEF new
  <2> QED
    BY <2>1, <2>2, JobStep
<1>5. CASE Shift(q)
  <2> DEFINE new == [Shifted(j) EXCEPT !.waits = Append(@, j.pos), !.pos = @ - 1,
                                       !.at = IF j.pos = 1 THEN "wait" ELSE "level"]
  <2>1. j.stat = "run" /\ j.at = "shift" /\ Step(q, new)
    BY <1>5 DEF Shift, Lead
  <2>2. new \in Job /\ JobInv(new)
    <3> HIDE DEF j
    <3> QED
      BY <1>1, <2>1, ShiftJob
  <2> HIDE DEF new
  <2> QED
    BY <2>1, <2>2, JobStep
<1>6. CASE WaitStage(q)
  <2> DEFINE k == Last(j.waits)
             f == Restrict(j.stage, DOMAIN j.stage \ {k})
             new == [j EXCEPT !.waits = Front(j.waits), !.stage = f]
  <2>1. j.stat = "run" /\ j.at = "wait" /\ j.waits # <<>> /\ Step(q, new)
    BY <1>6 DEF WaitStage, Lead
  <2> HIDE DEF j
  <2>2. Front(j.waits) \in Seq(Nat)
    <3>1. j.waits \in Seq(Nat)
      BY <1>1 DEF Job
    <3> QED
      BY <2>1, <3>1 DEF Front
  <2>3. /\ DOMAIN f \subseteq DOMAIN j.stage
        /\ \A i \in DOMAIN f : f[i] = j.stage[i]
    BY DEF Restrict
  <2>4. f \in Stages
    <3>1. DOMAIN j.stage \subseteq Nat /\ \A i \in DOMAIN j.stage : j.stage[i] \in Stage
      BY <1>1, StageType DEF Job
    <3>2. DOMAIN j.stage \ {k} \in SUBSET Nat /\ f \in [DOMAIN j.stage \ {k} -> Stage]
      BY <3>1 DEF Restrict
    <3> HIDE DEF f, k
    <3> QED
      BY <3>2, IsStageType
  <2> HIDE DEF f
  <2>5. /\ new \in Job /\ new.stat = "run" /\ new.at = j.at /\ new.pos = j.pos
        /\ new.pipe = j.pipe /\ new.out = j.out /\ new.blocks = j.blocks /\ new.stage = f
    BY <1>1, <2>1, <2>2, <2>4 DEF Job
  <2> HIDE DEF new
  <2>6. JobInv(new)
    BY <1>1, <2>1, <2>3, <2>5, StagesJob
  <2> QED
    BY <2>1, <2>5, <2>6, JobStep
<1>7. CASE LeaderExits(q)
  <2>1. Step(q, Zombie(j))
    BY <1>7 DEF LeaderExits
  <2> HIDE DEF j
  <2> QED
    BY <1>1, <2>1, ZombieInv, JobStep
<1> QED
  BY <1>2, <1>3, <1>4, <1>5, <1>6, <1>7 DEF Leader

LEMMA TroubleSteps == ASSUME JobsInv, NEW q \in Pid, Trouble(q) PROVE JobsInv'
<1> DEFINE j == job[q]
<1>1. j \in Job /\ JobInv(j)
  BY DEF JobsInv
<1>2. CASE OpenFails(q)
  <2>1. PICK i \in Passed(j) :
          Step(q, [Opened(j, {h \in Passed(j) : h > i})
                       EXCEPT !.at = "wait", !.failed = TRUE])
    BY <1>2 DEF OpenFails
  <2> DEFINE o == Opened(j, {h \in Passed(j) : h > i})
             new == [o EXCEPT !.at = "wait", !.failed = TRUE]
  <2>2. j.stat = "run" /\ j.at = "level"
    BY <1>2 DEF OpenFails, Lead
  <2> HIDE DEF j
  <2>3. /\ o \in Job /\ o.stat = "run" /\ o.blocks = j.blocks /\ o.stage = j.stage
    BY <1>1, <2>2, OpenedIs
  <2> HIDE DEF o
  <2>4. /\ new \in Job /\ new.stat = "run" /\ new.at = "wait"
        /\ new.blocks = j.blocks /\ new.stage = j.stage
    BY <2>3 DEF Job, Place
  <2>5. Step(q, new)
    BY <2>1 DEF o
  <2> HIDE DEF new
  <2>6. JobInv(new)
    BY <1>1, <2>2, <2>4, FailedJob
  <2> QED
    BY <2>4, <2>5, <2>6, JobStep
<1>3. CASE ForkFails(q)
  <2> DEFINE new == [j EXCEPT !.pipe = 0, !.at = "wait", !.failed = TRUE]
  <2>1. j.stat = "run" /\ j.at = "fork" /\ Step(q, new)
    BY <1>3 DEF ForkFails, Lead
  <2> HIDE DEF j
  <2>2. /\ new \in Job /\ new.stat = "run" /\ new.at = "wait"
        /\ new.blocks = j.blocks /\ new.stage = j.stage
    BY <1>1, <2>1 DEF Job, Place
  <2> HIDE DEF new
  <2>3. JobInv(new)
    BY <1>1, <2>1, <2>2, FailedJob
  <2> QED
    BY <2>1, <2>2, <2>3, JobStep
<1>4. CASE Kill(q)
  <2>1. Step(q, Zombie(j))
    BY <1>4 DEF Kill
  <2> HIDE DEF j
  <2> QED
    BY <1>1, <2>1, ZombieInv, JobStep
<1>5. CASE Stop(q)
  <2> DEFINE new == [j EXCEPT !.stat = "stopped", !.reported = FALSE]
  <2>1. j.stat = "run" /\ Step(q, new)
    BY <1>5 DEF Stop
  <2> HIDE DEF j
  <2>2. /\ new \in Job /\ new.stage = j.stage /\ new.blocks = j.blocks /\ new.at = j.at
        /\ new.pos = j.pos /\ new.pipe = j.pipe /\ new.out = j.out /\ new.stat = "stopped"
    BY <1>1 DEF Job
  <2>3. Alive(new) <=> Alive(j)
    BY <2>1, <2>2 DEF Alive
  <2> HIDE DEF new
  <2>4. JobInv(new)
    BY <1>1, <2>2, <2>3, SameInv
  <2> QED
    BY <2>1, <2>2, <2>4, JobStep
<1> QED
  BY <1>2, <1>3, <1>4, <1>5 DEF Trouble

LEMMA CommandEnds == ASSUME JobsInv, NEW q \in Pid, NEW k, Die(q, k) PROVE JobsInv'
<1> DEFINE j == job[q]
           f == [j.stage EXCEPT ![k].stat = "dead"]
           new == [j EXCEPT !.stage = f]
<1>1. j \in Job /\ JobInv(j)
  BY DEF JobsInv
<1>2. j.stat = "run" /\ k \in DOMAIN j.stage /\ Step(q, new)
  BY DEF Die, Running
<1> HIDE DEF j
<1>3. /\ DOMAIN j.stage \subseteq Nat /\ j.stage \in [DOMAIN j.stage -> Stage]
      /\ \A i \in DOMAIN j.stage : j.stage[i] \in Stage
  BY <1>1, StageType DEF Job
<1>4. /\ DOMAIN f = DOMAIN j.stage
      /\ f[k] = [j.stage[k] EXCEPT !.stat = "dead"]
      /\ \A i \in DOMAIN f : i # k => f[i] = j.stage[i]
  BY <1>2, <1>3
<1>5. [j.stage[k] EXCEPT !.stat = "dead"] \in Stage
  BY <1>2, <1>3 DEF Stage
<1>6. \A i \in DOMAIN f : f[i].in = j.stage[i].in /\ f[i].out = j.stage[i].out
  BY <1>2, <1>3, <1>4 DEF Stage
<1>7. f \in Stages
  <2>1. f \in [DOMAIN j.stage -> Stage]
    BY <1>2, <1>3, <1>4, <1>5
  <2> HIDE DEF f
  <2> QED
    BY <1>3, <2>1, IsStageType
<1> HIDE DEF f
<1>8. /\ new \in Job /\ new.stat = "run" /\ new.at = j.at /\ new.pos = j.pos
      /\ new.pipe = j.pipe /\ new.out = j.out /\ new.blocks = j.blocks /\ new.stage = f
  BY <1>1, <1>2, <1>7 DEF Job
<1> HIDE DEF new
<1>9. JobInv(new)
  BY <1>1, <1>2, <1>4, <1>6, <1>8, StagesJob
<1> QED
  BY <1>2, <1>8, <1>9, JobStep

LEMMA ShellSteps ==
    ASSUME JobsInv, exec_extra \/ WaitFor(current) \/ sigchld_handler PROVE JobsInv'
<1>1. CASE exec_extra
  <2>1. PICK q \in Pid : \E input \in Input[q] :
          LET line == parseline(read_command(input))
          IN  /\ line.ok
              /\ job' = [job EXCEPT ![q] = [NoJob EXCEPT !.stat = "run", !.bg = line.bg,
                                                         !.blocks = line.blocks]]
    BY <1>1 DEF exec_extra
  <2>2. PICK input \in Input[q] :
          LET line == parseline(read_command(input))
          IN  /\ line.ok
              /\ job' = [job EXCEPT ![q] = [NoJob EXCEPT !.stat = "run", !.bg = line.bg,
                                                         !.blocks = line.blocks]]
    BY <2>1
  <2> DEFINE b == read_command(input)
             line == parseline(b)
             new == [NoJob EXCEPT !.stat = "run", !.bg = line.bg, !.blocks = line.blocks]
  <2>3. b \in Seq(Token) /\ Complete(b)
    BY InputAssumption, ReadIsSequence
  <2>4. Step(q, new) /\ line.ok
    BY <2>2 DEF Step
  <2> HIDE DEF b
  <2>5. /\ line.blocks \in Seq(Token \cup {"DIR"}) /\ Len(line.blocks) > 0
        /\ line.blocks[1] = "NORMAL" /\ line.bg \in BOOLEAN
    BY <2>3, <2>4, LineBegins
  <2> HIDE DEF line
  <2>6. /\ new \in Job /\ new.at = "setup" /\ new.blocks = line.blocks /\ new.stage = NoJob.stage
    BY <2>5, NoJobInv DEF NoJob, Job
  <2>7. JobInv(new)
    BY <2>5, <2>6, NoStage DEF JobInv, Connected, NoJob
  <2> HIDE DEF new
  <2> QED
    BY <2>4, <2>6, <2>7, JobStep
<1>2. CASE WaitFor(current)
  <2>1. current \in Pid => Collected(job[current]) \in Job /\ JobInv(Collected(job[current]))
    BY CollectedJob DEF JobsInv
  <2> QED
    BY <1>2, <2>1, JobStep DEF WaitFor
<1>3. CASE sigchld_handler
  <2>1. CASE \E q \in Pid : Step(q, Collected(job[q]))
    <3>1. PICK q \in Pid : Step(q, Collected(job[q]))
      BY <2>1
    <3>2. Collected(job[q]) \in Job /\ JobInv(Collected(job[q]))
      BY CollectedJob DEF JobsInv
    <3> QED
      BY <3>1, <3>2, JobStep
  <2> QED
    BY <1>3, <2>1, JobSame DEF sigchld_handler
<1> QED
  BY <1>1, <1>2, <1>3

LEMMA JobsAlways == Spec => []JobsInv
<1>1. Init => JobsInv
  BY NoJobInv DEF Init, JobsInv
<1>2. JobsInv /\ [Next]_vars => JobsInv'
  <2> SUFFICES ASSUME JobsInv, [Next]_vars PROVE JobsInv'
    OBVIOUS
  <2>1. CASE \E q \in Pid : Leader(q) \/ Trouble(q)
    BY <2>1, LeaderSteps, TroubleSteps
  <2>2. CASE \E q \in Pid : \E k \in Running(job[q]) : EndOfInput(q, k) \/ EndsEarly(q, k)
    BY <2>2, CommandEnds DEF EndOfInput, EndsEarly
  <2>3. CASE exec_extra \/ sigchld_handler \/ ForegroundEnds
    BY <2>3, ShellSteps DEF ForegroundEnds
  <2>4. CASE ExecFails \/ exit_mysh \/ SigTtin \/ NoChild \/ Retake \/ SetFpid \/ Discard
    BY <2>4, JobSame DEF ExecFails, exit_mysh, SigTtin, NoChild, Retake, SetFpid, Discard
  <2>5. CASE UNCHANGED vars
    BY <2>5, JobSame DEF vars
  <2> QED
    BY <2>1, <2>2, <2>3, <2>4, <2>5 DEF Next, Return
<1> QED
  BY <1>1, <1>2, PTL DEF Spec

\* However long the pipeline: a command that has another to its left reads the
\* pipe that was made for it, and the command to its left writes into it, or into
\* the file its output is redirected to (exec_recursive of execline.c).
THEOREM PipelineWired == Spec => []Wired
<1>1. JobsInv => Wired
  <2> SUFFICES ASSUME JobsInv, NEW q \in Pid, NEW k \in Running(job[q])
               PROVE  LET j == job[q] IN
                      /\ k # 1 => j.stage[k].in = k
                      /\ \A i \in Running(j) :
                            i < k /\ Commands(j.blocks) \cap i+1..k-1 = {} =>
                                j.stage[i].out = IF Redirected(j.blocks, i, k) THEN FILE ELSE k
    BY DEF Wired
  <2> DEFINE j == job[q]
  <2>1. JobInv(j) /\ k \in DOMAIN j.stage /\ \A i \in Running(j) : i \in DOMAIN j.stage
    BY DEF JobsInv, Running
  <2>2. Connected(j) /\ j.blocks[k] = "NORMAL"
    BY <2>1 DEF JobInv, Placed
  <2> HIDE DEF j
  <2>3. \A i \in Running(j) :
           i < k /\ Commands(j.blocks) \cap i+1..k-1 = {} => Neighbours(j.blocks, i, k)
    BY <2>2 DEF Neighbours
  <2> QED
    BY <2>1, <2>2, <2>3 DEF Connected, Target, j
<1> QED
  BY <1>1, JobsAlways, PTL

-----------------------------------------------------------------------------
(***************************************************************************)
(* The foreground.  A job that runs in it is the one the shell waits for,  *)
(* or one whose wait was interrupted; so is the group that has the         *)
(* terminal, when it is not the shell.                                     *)
(***************************************************************************)
Foreground(q) == job[q].stat = "run" /\ ~job[q].bg
WaitsFor == IF pc = "wait" THEN left \cup {current} ELSE left
FgInv ==
    /\ pc \in {"prompt", "background", "retake", "wait"} =>
          \A q \in Pid : Foreground(q) => q \in WaitsFor
    /\ pc \in {"prompt", "background", "wait"} => term \in WaitsFor \cup {Shell}

\* Steps of the jobs put no other job into the foreground.
NoneAdded == \A q \in Pid : Foreground(q)' => Foreground(q)
LEMMA StepAddsNone ==
    ASSUME job \in [Pid -> Job], NEW q, NEW j, Step(q, j),
           q \in Pid => (j.stat = "run" => job[q].stat = "run" /\ j.bg = job[q].bg)
    PROVE  NoneAdded
BY DEF NoneAdded, Foreground, Step

LEMMA CollectedRuns ==
    ASSUME NEW q, Event(q) PROVE Collected(job[q]).stat # "run"
<1>1. CASE job[q].stat = "zombie"
  BY <1>1 DEF Collected, NoJob
<1>2. CASE job[q].stat = "stopped"
  BY <1>2 DEF Collected
<1> QED
  BY <1>1, <1>2 DEF Event

LEMMA LeaderAddsNone ==
    ASSUME JobsInv, NEW q \in Pid, Leader(q) \/ Trouble(q) PROVE NoneAdded
<1>1. job \in [Pid -> Job] /\ job[q] \in Job
  BY DEF JobsInv, Job
<1>2. CASE Setup(q)
  BY <1>1, <1>2, StepAddsNone DEF Setup, Lead, Job
<1>3. CASE Level(q) \/ OpenFails(q)
  <2>1. \A is : Opened(job[q], is).bg = job[q].bg
    BY <1>1, OpenedIs
  <2>2. job[q].stat = "run"
    BY <1>3 DEF Level, OpenFails, Lead
  <2>3. PICK new : Step(q, new) /\ new.bg = job[q].bg
    <3>1. CASE Level(q)
      <4> DEFINE o == Opened(job[q], Passed(job[q]))
                 c == CommandAt(job[q])
                 n == [o EXCEPT !.at = "fork", !.pos = c, !.pipe = c]
      <4>1. Step(q, n)
        BY <3>1 DEF Level
      <4>2. n.bg = job[q].bg
        <5>1. o \in Job /\ o.bg = job[q].bg
          BY <1>1, OpenedIs
        <5> HIDE DEF o, c
        <5> QED
          BY <5>1 DEF Job
      <4> HIDE DEF n
      <4> QED
        BY <4>1, <4>2
    <3>2. CASE OpenFails(q)
      <4>1. PICK i \in Passed(job[q]) :
              Step(q, [Opened(job[q], {h \in Passed(job[q]) : h > i})
                           EXCEPT !.at = "wait", !.failed = TRUE])
        BY <3>2 DEF OpenFails
      <4> DEFINE o == Opened(job[q], {h \in Passed(job[q]) : h > i})
                 n == [o EXCEPT !.at = "wait", !.failed = TRUE]
      <4>2. o \in Job /\ o.bg = job[q].bg
        BY <1>1, OpenedIs
      <4>3. Step(q, n)
        BY <4>1
      <4> HIDE DEF o
      <4>4. n.bg = job[q].bg
        BY <4>2 DEF Job
      <4> QED
        BY <4>3, <4>4
    <3> QED
      BY <1>3, <3>1, <3>2
  <2> QED
    BY <1>1, <2>2, <2>3, StepAddsNone
<1>4. CASE Fork(q)
  BY <1>1, <1>4, StepAddsNone DEF Fork, Lead, Job
<1>5. CASE Shift(q)
  <2> DEFINE j == job[q]
             n == [Shifted(j) EXCEPT !.waits = Append(@, j.pos), !.pos = @ - 1,
                                     !.at = IF j.pos = 1 THEN "wait" ELSE "level"]
  <2>1. Step(q, n) /\ j.stat = "run"
    BY <1>5 DEF Shift, Lead
  <2> HIDE DEF j
  <2>2. j \in Job
    BY <1>1 DEF j
  <2>3. n.bg = j.bg
    BY <2>2 DEF Shifted, Job
  <2> HIDE DEF n
  <2> QED
    BY <1>1, <2>1, <2>3, StepAddsNone DEF j
<1>6. CASE WaitStage(q)
  BY <1>1, <1>6, StepAddsNone DEF WaitStage, Lead, Job
<1>7. CASE LeaderExits(q) \/ Kill(q)
  <2>1. Zombie(job[q]).stat = "zombie" /\ Step(q, Zombie(job[q]))
    BY <1>7 DEF LeaderExits, Kill, Zombie, NoJob
  <2> QED
    BY <1>1, <2>1, StepAddsNone
<1>8. CASE ForkFails(q)
  BY <1>1, <1>8, StepAddsNone DEF ForkFails, Lead, Job
<1>9. CASE Stop(q)
  BY <1>1, <1>9, StepAddsNone DEF Stop, Job
<1> QED
  BY <1>2, <1>3, <1>4, <1>5, <1>6, <1>7, <1>8, <1>9 DEF Leader, Trouble

LEMMA FgKept ==
    ASSUME FgInv, NoneAdded, UNCHANGED <<pc, current, left>>,
           term' = term \/ term' = Shell \/ \E q \in Pid : Foreground(q) /\ term' = q
    PROVE  FgInv'
BY DEF FgInv, NoneAdded, WaitsFor

LEMMA FgStep == JobsInv /\ FgInv /\ [Next]_vars => FgInv'
<1> SUFFICES ASSUME JobsInv, FgInv, [Next]_vars PROVE FgInv'
  OBVIOUS
<1>0. job \in [Pid -> Job] /\ \A q \in Pid : job[q].bg \in BOOLEAN
  BY DEF JobsInv, Job
<1>1. CASE \E q \in Pid : Leader(q) \/ Trouble(q)
  <2>1. PICK q \in Pid : Leader(q) \/ Trouble(q)
    BY <1>1
  <2>2. NoneAdded /\ UNCHANGED <<pc, current, left>>
    BY <2>1, LeaderAddsNone DEF Leader, Trouble, Setup, Level, Fork, Shift, WaitStage,
       LeaderExits, OpenFails, ForkFails, Kill, Stop, shell
  <2>3. term' = term \/ (Foreground(q) /\ term' = q)
    <3>1. CASE Setup(q)
      BY <3>1 DEF Setup, Foreground, Lead
    <3>2. CASE ~Setup(q)
      BY <2>1, <3>2 DEF Leader, Trouble, Level, Fork, Shift, WaitStage, LeaderExits,
         OpenFails, ForkFails, Kill, Stop, shell
    <3> QED
      BY <3>1, <3>2
  <2> QED
    BY <2>2, <2>3, FgKept
<1>2. CASE \E q \in Pid : \E k \in Running(job[q]) : EndOfInput(q, k) \/ EndsEarly(q, k)
  <2>1. PICK q \in Pid : \E k \in Running(job[q]) : Die(q, k)
    BY <1>2 DEF EndOfInput, EndsEarly
  <2>2. NoneAdded
    BY <1>0, <2>1, StepAddsNone DEF Die, Job
  <2> QED
    BY <2>1, <2>2, FgKept DEF Die, shell
<1>3. CASE exec_extra
  <2>1. PICK q \in Pid : \E input \in Input[q] :
          LET line == parseline(read_command(input))
          IN  /\ line.ok
              /\ job' = [job EXCEPT ![q] = [NoJob EXCEPT !.stat = "run", !.bg = line.bg,
                                                         !.blocks = line.blocks]]
              /\ current' = q
              /\ left' = left \ {q}
              /\ At(IF line.bg THEN "background" ELSE "wait")
    BY <1>3 DEF exec_extra
  <2>2. PICK new, bg :
          /\ Step(q, new) /\ new.bg = bg /\ current' = q /\ left' = left \ {q}
          /\ pc' = (IF bg THEN "background" ELSE "wait")
    <3>1. PICK input \in Input[q] :
          LET line == parseline(read_command(input))
          IN  /\ job' = [job EXCEPT ![q] = [NoJob EXCEPT !.stat = "run", !.bg = line.bg,
                                                         !.blocks = line.blocks]]
              /\ current' = q
              /\ left' = left \ {q}
              /\ At(IF line.bg THEN "background" ELSE "wait")
      BY <2>1
    <3> DEFINE line == parseline(read_command(input))
               n == [NoJob EXCEPT !.stat = "run", !.bg = line.bg, !.blocks = line.blocks]
    <3>2. /\ Step(q, n) /\ current' = q /\ left' = left \ {q}
          /\ pc' = (IF line.bg THEN "background" ELSE "wait")
      BY <3>1 DEF Step, At
    <3> HIDE DEF line
    <3>3. n.bg = line.bg
      BY DEF NoJob
    <3> HIDE DEF n
    <3> QED
      BY <3>2, <3>3
  <2>3. pc = "prompt" /\ term = Shell /\ term' = term
    BY <1>3 DEF exec_extra
  <2>4. \A p \in Pid : p # q => job'[p] = job[p]
    BY <1>0, <2>2 DEF Step
  <2>5. job'[q] = new
    BY <1>0, <2>2 DEF Step
  <2>6. \A p \in Pid : Foreground(p)' => p \in WaitsFor'
    <3>1. \A p \in Pid : p # q /\ Foreground(p)' => p \in left \ {q}
      BY <2>3, <2>4 DEF FgInv, WaitsFor, Foreground
    <3>2. Foreground(q)' => ~bg
      BY <2>2, <2>5 DEF Foreground
    <3> QED
      BY <2>2, <3>1, <3>2 DEF WaitsFor
  <2> QED
    BY <2>3, <2>6 DEF FgInv, WaitsFor
<1>4. CASE ForegroundEnds \/ NoChild
  <2>1. pc = "wait" /\ pc' = "retake" /\ left' = left /\ term' = term
    BY <1>4 DEF ForegroundEnds, NoChild, At
  <2>2. NoneAdded /\ (current \in Pid => job'[current].stat # "run")
    <3>1. CASE NoChild
      BY <3>1 DEF NoChild, NoneAdded, Foreground
    <3>2. CASE ForegroundEnds
      <4>1. Event(current) /\ Step(current, Collected(job[current]))
        BY <3>2 DEF ForegroundEnds, WaitFor
      <4>2. Collected(job[current]).stat # "run"
        BY <4>1, CollectedRuns
      <4> QED
        BY <1>0, <4>1, <4>2, StepAddsNone DEF Step
    <3> QED
      BY <1>4, <3>1, <3>2
  <2> QED
    BY <2>1, <2>2 DEF FgInv, WaitsFor, NoneAdded, Foreground
<1>5. CASE Retake \/ SetFpid
  <2>1. /\ pc \in {"retake", "background"} /\ pc' = "prompt" /\ left' = left /\ job' = job
        /\ term' = Shell \/ (pc = "background" /\ term' = term)
    BY <1>5 DEF Retake, SetFpid, At
  <2> QED
    BY <2>1 DEF FgInv, WaitsFor, Foreground
<1>6. CASE sigchld_handler
  <2>1. NoneAdded
    <3>1. CASE UNCHANGED job
      BY <3>1 DEF NoneAdded, Foreground
    <3>2. CASE \E q \in Pid : Waited(q) /\ Step(q, Collected(job[q]))
      <4>1. PICK q \in Pid : Waited(q) /\ Step(q, Collected(job[q]))
        BY <3>2
      <4>2. Collected(job[q]).stat # "run"
        BY <4>1, CollectedRuns DEF Waited
      <4> QED
        BY <1>0, <4>1, <4>2, StepAddsNone
    <3> QED
      BY <1>6, <3>1, <3>2 DEF sigchld_handler
  <2>2. current' = current /\ term' = term
    BY <1>6 DEF sigchld_handler
  <2>3. CASE UNCHANGED <<pc, left>>
    BY <2>1, <2>2, <2>3, FgKept
  <2>4. CASE pc = "wait" /\ pc' = "retake" /\ left' = left \cup {current}
    BY <2>1, <2>4 DEF FgInv, WaitsFor, NoneAdded
  <2> QED
    BY <1>6, <2>3, <2>4 DEF sigchld_handler, At
<1>7. CASE exit_mysh \/ SigTtin
  BY <1>7 DEF exit_mysh, SigTtin, At, FgInv
<1>8. CASE ExecFails \/ Discard \/ UNCHANGED vars
  <2>1. UNCHANGED <<pc, job, current, term, left>>
    BY <1>8 DEF ExecFails, Discard, vars
  <2> QED
    BY <2>1 DEF FgInv, WaitsFor, Foreground
<1> QED
  BY <1>1, <1>2, <1>3, <1>4, <1>5, <1>6, <1>7, <1>8 DEF Next, Return

\* At the prompt no foreground job runs and the terminal is the shell's, but for
\* jobs whose wait was interrupted: exec_extra waits and takes the terminal back
\* before main_loop reads again (execline.c), for any number of jobs.
THEOREM ShellInFront == Spec => []ForegroundFirst
<1>1. Init => FgInv
  BY DEF Init, FgInv, WaitsFor, Foreground, NoJob, Shell
<1>2. FgInv => ForegroundFirst
  BY DEF FgInv, WaitsFor, ForegroundFirst, Foreground
<1> QED
  BY <1>1, <1>2, FgStep, JobsAlways, PTL DEF Spec

-----------------------------------------------------------------------------
(***************************************************************************)
(* That no pipeline gets stuck.  A command writes to the left of nothing:  *)
(* into the terminal, a file or a pipe that a command further right reads. *)
(* The leader waits for every command it has started, once, and the pipe   *)
(* it still holds in the end is the one that nobody reads.                 *)
(***************************************************************************)
Flow(j) ==
    /\ j.in <= 0
    /\ j.at = "setup" => j.out <= 0 /\ j.waits = <<>>
    /\ j.at \in {"level", "fork"} => j.out <= 0 \/ j.out > j.pos
    /\ j.at = "shift" => j.pos \in DOMAIN j.stage
    /\ j.at = "wait" /\ ~j.failed => j.pipe = 0 /\ j.out = 1
    /\ \A k \in DOMAIN j.stage : /\ j.stage[k].out <= 0 \/ j.stage[k].out > k
                                 /\ k = 1 => j.stage[k].in <= 0
    /\ \A n \in 1..Len(j.waits) :
          /\ j.waits[n] \in DOMAIN j.stage
          /\ j.at \in {"level", "fork", "shift"} => j.waits[n] > j.pos
          /\ \A m \in 1..n - 1 : j.waits[m] # j.waits[n]
FlowInv == \A q \in Pid : Alive(job[q]) => Flow(job[q])

LEMMA FlowStep ==
    ASSUME JobsInv, FlowInv, NEW q, NEW j, Step(q, j), q \in Pid => (Alive(j) => Flow(j))
    PROVE  FlowInv'
BY DEF JobsInv, FlowInv, Step

LEMMA FlowSetup ==
    ASSUME NEW j \in Job, JobInv(j), Flow(j), j.at = "setup",
           NEW new, new = [j EXCEPT !.at = "level", !.pos = Len(j.blocks)]
    PROVE  Flow(new)
<1>1. /\ new.at = "level" /\ new.in = j.in /\ new.out = j.out /\ new.waits = j.waits
      /\ new.stage = j.stage
  BY DEF Job
<1>2. DOMAIN j.stage = {} /\ j.waits = <<>> /\ j.out <= 0 /\ j.in <= 0
  BY DEF JobInv, Flow
<1> QED
  BY <1>1, <1>2 DEF Flow

LEMMA OpenedFlow ==
    ASSUME NEW j \in Job, NEW is, j.in <= 0
    PROVE  Opened(j, is).in <= 0 /\ (Opened(j, is).out = j.out \/ Opened(j, is).out <= 0)
<1>1. Opened(j, is).in \in {FILE, j.in} /\ Opened(j, is).out \in {FILE, j.out}
  BY DEF Opened, Job
<1> QED
  BY <1>1 DEF FILE

LEMMA FlowLevel ==
    ASSUME NEW j \in Job, JobInv(j), Flow(j), j.stat = "run", j.at = "level",
           NEW new, new = [Opened(j, Passed(j)) EXCEPT !.at = "fork", !.pos = CommandAt(j),
                                                       !.pipe = CommandAt(j)]
    PROVE  Flow(new)
<1> DEFINE c == CommandAt(j)
           o == Opened(j, Passed(j))
<1>1. c \in 1..j.pos /\ j.pos \in Nat
  BY CommandAtIs DEF JobInv, Alive, Placed, Job
<1>2. /\ o \in Job /\ o.waits = j.waits /\ o.stage = j.stage
      /\ o.in <= 0 /\ (o.out = j.out \/ o.out <= 0)
  BY OpenedIs, OpenedFlow DEF Flow
<1> HIDE DEF c, o
<1>3. /\ new.at = "fork" /\ new.pos = c /\ new.in = o.in /\ new.out = o.out
      /\ new.waits = j.waits /\ new.stage = j.stage
  BY <1>2 DEF Job, c, o
<1>4. j.waits \in Seq(Nat) /\ j.out \in Int /\ o.out \in Int
  BY <1>2 DEF Job
<1>5. new.out <= 0 \/ new.out > c
  <2>1. j.out <= 0 \/ j.out > j.pos
    BY DEF Flow
  <2> QED
    BY <1>1, <1>2, <1>3, <1>4, <2>1
<1>6. \A n \in 1..Len(j.waits) : j.waits[n] > c
  <2>1. \A n \in 1..Len(j.waits) : j.waits[n] > j.pos /\ j.waits[n] \in Nat
    BY <1>4 DEF Flow
  <2> QED
    BY <1>1, <2>1
<1> QED
  BY <1>2, <1>3, <1>5, <1>6 DEF Flow

LEMMA FlowFork ==
    ASSUME NEW j \in Job, JobInv(j), Flow(j), j.stat = "run", j.at = "fork",
           NEW f, f = [k \in DOMAIN j.stage \cup {j.pos} |->
                         IF k = j.pos THEN Started(j, k) ELSE j.stage[k]],
           NEW new, new = [j EXCEPT !.at = "shift", !.stage = f]
    PROVE  Flow(new)
<1> DEFINE c == j.pos
<1>1. /\ new.at = "shift" /\ new.pos = c /\ new.in = j.in /\ new.waits = j.waits
      /\ new.stage = f
  BY DEF Job
<1>2. \A k \in DOMAIN j.stage : k # c
  BY DEF JobInv, Alive, Placed, Job
<1>3. /\ DOMAIN f = DOMAIN j.stage \cup {c} /\ f[c] = Started(j, c)
      /\ \A k \in DOMAIN j.stage : f[k] = j.stage[k]
  BY <1>2
<1>4. /\ f[c].out <= 0 \/ f[c].out > c
      /\ c = 1 => f[c].in <= 0
  BY <1>3 DEF Started, First, Flow
<1>5. \A k \in DOMAIN f : k = c \/ k \in DOMAIN j.stage
  BY <1>3
<1> HIDE DEF c
<1> QED
  BY <1>1, <1>3, <1>4, <1>5 DEF Flow, c

LEMMA FlowShift ==
    ASSUME NEW j \in Job, JobInv(j), Flow(j), j.stat = "run", j.at = "shift",
           NEW new, new = [Shifted(j) EXCEPT !.waits = Append(@, j.pos), !.pos = @ - 1,
                                             !.at = IF j.pos = 1 THEN "wait" ELSE "level"]
    PROVE  Flow(new)
<1> DEFINE c == j.pos
           w == j.waits
<1>1. c \in 1..Len(j.blocks) /\ j.pipe = c /\ c \in Nat /\ w \in Seq(Nat) /\ c - 1 \in Nat
  BY DEF JobInv, Alive, Placed, Job
<1>2. /\ new.at = (IF c = 1 THEN "wait" ELSE "level")
      /\ new.pos = c - 1 /\ new.in = j.in /\ new.out = c /\ new.pipe = 0
      /\ new.waits = Append(w, c) /\ new.stage = j.stage
  BY <1>1 DEF Job, Shifted
<1>3. c \in DOMAIN j.stage
  BY DEF Flow
<1>4. \A n \in 1..Len(w) : /\ w[n] \in DOMAIN j.stage /\ w[n] \in Nat /\ w[n] > c
                           /\ \A m \in 1..n - 1 : w[m] # w[n]
  BY <1>1 DEF Flow
<1>5. /\ Len(w) \in Nat /\ Len(new.waits) = Len(w) + 1 /\ new.waits[Len(w) + 1] = c
      /\ \A n \in 1..Len(w) : new.waits[n] = w[n]
  BY <1>1, <1>2
<1>6. ASSUME NEW n \in 1..Len(new.waits)
      PROVE  /\ new.waits[n] \in DOMAIN j.stage
             /\ new.waits[n] > c - 1
             /\ \A m \in 1..n - 1 : new.waits[m] # new.waits[n]
  <2>1. CASE n \in 1..Len(w)
    <3>1. \A m \in 1..n - 1 : m \in 1..Len(w)
      BY <1>5, <2>1
    <3>2. new.waits[n] = w[n] /\ w[n] \in DOMAIN j.stage /\ w[n] \in Nat /\ w[n] > c
      BY <1>4, <1>5, <2>1
    <3>3. \A m \in 1..n - 1 : new.waits[m] # new.waits[n]
      BY <1>4, <1>5, <2>1, <3>1, <3>2
    <3>4. w[n] > c - 1
      BY <1>1, <3>2
    <3> QED
      BY <3>2, <3>3, <3>4
  <2>2. CASE n = Len(w) + 1
    <3>1. \A m \in 1..n - 1 : m \in 1..Len(w)
      BY <1>5, <2>2
    <3>2. \A m \in 1..Len(w) : w[m] # c
      BY <1>1, <1>4
    <3>3. new.waits[n] = c
      BY <1>5, <2>2
    <3>4. \A m \in 1..n - 1 : new.waits[m] # new.waits[n]
      BY <1>5, <3>1, <3>2, <3>3
    <3>5. c > c - 1
      BY <1>1
    <3> QED
      BY <1>3, <3>3, <3>4, <3>5
  <2> QED
    BY <1>5, <2>1, <2>2
<1>7. new.in <= 0 /\ \A k \in DOMAIN j.stage : /\ j.stage[k].out <= 0 \/ j.stage[k].out > k
                                               /\ k = 1 => j.stage[k].in <= 0
  BY <1>2 DEF Flow
<1>8. new.out > new.pos /\ (c = 1 => new.out = 1)
  BY <1>1, <1>2
<1> HIDE DEF c, w
<1> QED
  BY <1>2, <1>6, <1>7, <1>8 DEF Flow

\* The leader has failed, or one of its commands has ended: nothing else changes.
LEMMA FlowSame ==
    ASSUME NEW j, Flow(j), NEW new,
           new.in = j.in, new.waits = j.waits, DOMAIN new.stage = DOMAIN j.stage,
           \A k \in DOMAIN new.stage : /\ new.stage[k].in = j.stage[k].in
                                       /\ new.stage[k].out = j.stage[k].out,
           \/ new.at = j.at /\ new.pos = j.pos /\ new.pipe = j.pipe /\ new.out = j.out
              /\ new.failed = j.failed
           \/ new.at = "wait" /\ new.failed
    PROVE  Flow(new)
BY DEF Flow

LEMMA FlowWait ==
    ASSUME NEW j \in Job, JobInv(j), Flow(j), j.stat = "run", j.at = "wait", j.waits # <<>>,
           NEW new, new = [j EXCEPT !.waits = Front(@),
                                    !.stage = Restrict(@, DOMAIN @ \ {Last(j.waits)})]
    PROVE  Flow(new)
<1> DEFINE w == j.waits
           n == Len(w)
           f == Restrict(j.stage, DOMAIN j.stage \ {w[n]})
<1>1. w \in Seq(Nat) /\ n \in Nat /\ n > 0 /\ Last(w) = w[n]
  BY DEF Job, Last
<1>2. /\ Len(Front(w)) = n - 1
      /\ \A m \in 1..n - 1 : Front(w)[m] = w[m]
  BY <1>1 DEF Front
<1>3. /\ DOMAIN f = DOMAIN j.stage \ {w[n]}
      /\ \A k \in DOMAIN f : f[k] = j.stage[k]
  BY DEF Restrict
<1>4. /\ new.at = j.at /\ new.pos = j.pos /\ new.in = j.in /\ new.out = j.out
      /\ new.pipe = j.pipe /\ new.failed = j.failed /\ new.waits = Front(w) /\ new.stage = f
  BY <1>1 DEF Job
<1>5. ASSUME NEW m \in 1..n - 1
      PROVE  w[m] \in DOMAIN f /\ \A h \in 1..m - 1 : Front(w)[h] # Front(w)[m]
  <2>1. m \in 1..n /\ n \in 1..n /\ \A h \in 1..m - 1 : h \in 1..n - 1
    BY <1>1
  <2>2. w[m] \in DOMAIN j.stage /\ w[m] # w[n] /\ \A h \in 1..m - 1 : w[h] # w[m]
    BY <2>1 DEF Flow
  <2> QED
    BY <1>2, <1>3, <2>1, <2>2
<1> HIDE DEF f, n, w
<1>6. j.in <= 0 /\ (~j.failed => j.pipe = 0 /\ j.out = 1)
      /\ \A k \in DOMAIN j.stage : /\ j.stage[k].out <= 0 \/ j.stage[k].out > k
                                   /\ k = 1 => j.stage[k].in <= 0
  BY DEF Flow
<1>7. \A m \in 1..Len(new.waits) : /\ new.waits[m] \in DOMAIN new.stage
                                   /\ \A h \in 1..m - 1 : new.waits[h] # new.waits[m]
  BY <1>2, <1>4, <1>5
<1>8. \A k \in DOMAIN new.stage : /\ new.stage[k].out <= 0 \/ new.stage[k].out > k
                                  /\ k = 1 => new.stage[k].in <= 0
  BY <1>3, <1>4, <1>6
<1>9. new.at = "wait" /\ new.in <= 0 /\ (~new.failed => new.pipe = 0 /\ new.out = 1)
  BY <1>4, <1>6
<1> QED
  BY <1>7, <1>8, <1>9 DEF Flow

LEMMA FlowLeader == ASSUME JobsInv, FlowInv, NEW q \in Pid, Leader(q) PROVE FlowInv'
<1> DEFINE j == job[q]
<1>1. j \in Job /\ JobInv(j)
  BY DEF JobsInv
<1>2. j.stat = "run" => Flow(j)
  BY DEF FlowInv, Alive
<1>3. CASE Setup(q)
  <2> DEFINE new == [j EXCEPT !.at = "level", !.pos = Len(j.blocks)]
  <2>1. j.stat = "run" /\ j.at = "setup" /\ Step(q, new)
    BY <1>3 DEF Setup, Lead
  <2>2. Flow(new)
    <3> HIDE DEF j
    <3> QED
      BY <1>1, <1>2, <2>1, FlowSetup
  <2> HIDE DEF new
  <2> QED
    BY <2>1, <2>2, FlowStep
<1>4. CASE Level(q)
  <2> DEFINE new == [Opened(j, Passed(j)) EXCEPT !.at = "fork", !.pos = CommandAt(j),
                                                 !.pipe = CommandAt(j)]
  <2>1. j.stat = "run" /\ j.at = "level" /\ Step(q, new)
    BY <1>4 DEF Level, Lead
  <2>2. Flow(new)
    <3> HIDE DEF j
    <3> QED
      BY <1>1, <1>2, <2>1, FlowLevel
  <2> HIDE DEF new
  <2> QED
    BY <2>1, <2>2, FlowStep
<1>5. CASE Fork(q)
  <2> DEFINE f == [k \in DOMAIN j.stage \cup {j.pos} |->
                     IF k = j.pos THEN Started(j, k) ELSE j.stage[k]]
             new == [j EXCEPT !.at = "shift", !.stage = f]
  <2>1. j.stat = "run" /\ j.at = "fork" /\ Step(q, new)
    BY <1>5 DEF Fork, Lead
  <2>2. Flow(new)
    <3> HIDE DEF j
    <3> QED
      BY <1>1, <1>2, <2>1, FlowFork
  <2> HIDE DEF new
  <2> QED
    BY <2>1, <2>2, FlowStep
<1>6. CASE Shift(q)
  <2> DEFINE new == [Shifted(j) EXCEPT !.waits = Append(@, j.pos), !.pos = @ - 1,
                                       !.at = IF j.pos = 1 THEN "wait" ELSE "level"]
  <2>1. j.stat = "run" /\ j.at = "shift" /\ Step(q, new)
    BY <1>6 DEF Shift, Lead
  <2>2. Flow(new)
    <3> HIDE DEF j
    <3> QED
      BY <1>1, <1>2, <2>1, FlowShift
  <2> HIDE DEF new
  <2> QED
    BY <2>1, <2>2, FlowStep
<1>7. CASE WaitStage(q)
  <2> DEFINE new == [j EXCEPT !.waits = Front(@),
                              !.stage = Restrict(@, DOMAIN @ \ {Last(j.waits)})]
  <2>1. j.stat = "run" /\ j.at = "wait" /\ j.waits # <<>> /\ Step(q, new)
    BY <1>7 DEF WaitStage, Lead
  <2>2. Flow(new)
    <3> HIDE DEF j
    <3> QED
      BY <1>1, <1>2, <2>1, FlowWait
  <2> HIDE DEF new
  <2> QED
    BY <2>1, <2>2, FlowStep
<1>8. CASE LeaderExits(q)
  <2>1. Step(q, Zombie(j)) /\ ~Alive(Zombie(j))
    BY <1>8 DEF LeaderExits, Zombie, NoJob, Alive
  <2> HIDE DEF j
  <2> QED
    BY <2>1, FlowStep
<1> QED
  BY <1>3, <1>4, <1>5, <1>6, <1>7, <1>8 DEF Leader

LEMMA FlowTrouble == ASSUME JobsInv, FlowInv, NEW q \in Pid, Trouble(q) PROVE FlowInv'
<1> DEFINE j == job[q]
<1>1. j \in Job
  BY DEF JobsInv
<1>2. Alive(j) => Flow(j)
  BY DEF FlowInv
<1> HIDE DEF j
<1>3. CASE OpenFails(q)
  <2>1. PICK i \in Passed(j) : Step(q, [Opened(j, {h \in Passed(j) : h > i})
                                           EXCEPT !.at = "wait", !.failed = TRUE])
    BY <1>3 DEF OpenFails, j
  <2>2. Flow(j)
    BY <1>2, <1>3 DEF OpenFails, Lead, Alive, j
  <2> DEFINE o == Opened(j, {h \in Passed(j) : h > i})
             new == [o EXCEPT !.at = "wait", !.failed = TRUE]
  <2>3. o \in Job /\ o.waits = j.waits /\ o.stage = j.stage /\ o.in <= 0
    BY <1>1, <2>2, OpenedIs, OpenedFlow DEF Flow
  <2>4. Step(q, new)
    BY <2>1
  <2> HIDE DEF o
  <2>5. /\ new.at = "wait" /\ new.failed /\ new.in = o.in /\ new.waits = j.waits
        /\ new.stage = j.stage
    BY <2>3 DEF Job
  <2> HIDE DEF new
  <2>6. Flow(new)
    BY <2>2, <2>3, <2>5 DEF Flow
  <2> QED
    BY <2>4, <2>6, FlowStep
<1>4. CASE ForkFails(q)
  <2> DEFINE new == [j EXCEPT !.pipe = 0, !.at = "wait", !.failed = TRUE]
  <2>1. Step(q, new) /\ Flow(j)
    BY <1>2, <1>4 DEF ForkFails, Lead, Alive, j
  <2>2. new.at = "wait" /\ new.failed /\ new.in = j.in /\ new.waits = j.waits /\ new.stage = j.stage
    BY <1>1 DEF Job
  <2> HIDE DEF new
  <2>3. Flow(new)
    BY <2>1, <2>2, FlowSame
  <2> QED
    BY <2>1, <2>3, FlowStep
<1>5. CASE Kill(q)
  <2>1. Step(q, Zombie(j)) /\ ~Alive(Zombie(j))
    BY <1>5 DEF Kill, Zombie, NoJob, Alive, j
  <2> QED
    BY <2>1, FlowStep
<1>6. CASE Stop(q)
  <2> DEFINE new == [j EXCEPT !.stat = "stopped", !.reported = FALSE]
  <2>1. Step(q, new) /\ Flow(j)
    BY <1>2, <1>6 DEF Stop, Alive, j
  <2>2. /\ new.at = j.at /\ new.pos = j.pos /\ new.pipe = j.pipe /\ new.in = j.in
        /\ new.out = j.out /\ new.failed = j.failed /\ new.waits = j.waits
        /\ new.stage = j.stage
    BY <1>1 DEF Job
  <2> HIDE DEF new
  <2>3. Flow(new)
    BY <2>1, <2>2, FlowSame
  <2> QED
    BY <2>1, <2>3, FlowStep
<1> QED
  BY <1>3, <1>4, <1>5, <1>6 DEF Trouble

LEMMA FlowDie == ASSUME JobsInv, FlowInv, NEW q \in Pid, NEW k, Die(q, k) PROVE FlowInv'
<1> DEFINE j == job[q]
           f == [j.stage EXCEPT ![k].stat = "dead"]
           new == [j EXCEPT !.stage = f]
<1>1. Step(q, new) /\ j.stat = "run" /\ k \in DOMAIN j.stage
  BY DEF Die, Running
<1>2. j \in Job /\ Flow(j)
  BY <1>1 DEF JobsInv, FlowInv, Alive
<1> HIDE DEF j
<1>3. j.stage \in [DOMAIN j.stage -> Stage]
  BY <1>2, StageType DEF Job
<1>4. DOMAIN f = DOMAIN j.stage /\ \A i \in DOMAIN f : /\ f[i].in = j.stage[i].in
                                                       /\ f[i].out = j.stage[i].out
  BY <1>1, <1>3 DEF Stage
<1> HIDE DEF f
<1>5. /\ new.at = j.at /\ new.pos = j.pos /\ new.pipe = j.pipe /\ new.in = j.in
      /\ new.out = j.out /\ new.failed = j.failed /\ new.waits = j.waits
      /\ new.stage = f
  BY <1>2 DEF Job
<1> HIDE DEF new
<1>6. Flow(new)
  BY <1>2, <1>4, <1>5, FlowSame
<1> QED
  BY <1>1, <1>6, FlowStep

LEMMA FlowCollected ==
    ASSUME NEW j \in Job, Alive(j) => Flow(j)
    PROVE  Alive(Collected(j)) => Flow(Collected(j))
<1>1. CASE j.stat = "zombie"
  BY <1>1 DEF Collected, NoJob, Alive
<1>2. CASE j.stat # "zombie"
  <2> DEFINE new == [j EXCEPT !.reported = TRUE]
  <2>1. /\ new.at = j.at /\ new.pos = j.pos /\ new.pipe = j.pipe /\ new.in = j.in
        /\ new.out = j.out /\ new.failed = j.failed /\ new.waits = j.waits
        /\ new.stage = j.stage /\ new.stat = j.stat
    BY DEF Job
  <2>2. Collected(j) = new
    BY <1>2 DEF Collected
  <2> HIDE DEF new
  <2>3. Alive(new) => Flow(new)
    BY <2>1, FlowSame DEF Alive
  <2> QED
    BY <2>2, <2>3
<1> QED
  BY <1>1, <1>2

LEMMA FlowShell ==
    ASSUME JobsInv, FlowInv, exec_extra \/ WaitFor(current) \/ sigchld_handler PROVE FlowInv'
<1>1. CASE exec_extra
  <2>1. PICK q, bg, blocks : Step(q, [NoJob EXCEPT !.stat = "run", !.bg = bg, !.blocks = blocks])
    <3>1. PICK q \in Pid : \E input \in Input[q] :
             LET line == parseline(read_command(input))
             IN  job' = [job EXCEPT ![q] = [NoJob EXCEPT !.stat = "run", !.bg = line.bg,
                                                         !.blocks = line.blocks]]
      BY <1>1 DEF exec_extra
    <3> QED
      BY <3>1 DEF Step
  <2> DEFINE new == [NoJob EXCEPT !.stat = "run", !.bg = bg, !.blocks = blocks]
  <2>2. /\ new.at = "setup" /\ new.in = TTY /\ new.out = TTY /\ new.waits = <<>>
        /\ new.stage = <<>>
    BY DEF NoJob
  <2>3. Step(q, new)
    BY <2>1
  <2> HIDE DEF new
  <2>4. Flow(new)
    BY <2>2, NoStage DEF Flow, TTY
  <2> QED
    BY <2>3, <2>4, FlowStep
<1>2. ASSUME NEW q, Step(q, Collected(job[q])) PROVE FlowInv'
  <2>1. q \in Pid => (Alive(Collected(job[q])) => Flow(Collected(job[q])))
    BY FlowCollected DEF JobsInv, FlowInv
  <2> QED
    BY <1>2, <2>1, FlowStep
<1>3. CASE WaitFor(current)
  BY <1>2, <1>3 DEF WaitFor
<1>4. CASE sigchld_handler
  <2>1. UNCHANGED job \/ \E q \in Pid : Step(q, Collected(job[q]))
    BY <1>4 DEF sigchld_handler
  <2>2. CASE UNCHANGED job
    BY <2>2 DEF FlowInv
  <2> QED
    BY <1>2, <2>1, <2>2
<1> QED
  BY <1>1, <1>3, <1>4

LEMMA FlowAlways == Spec => []FlowInv
<1>1. Init => FlowInv
  BY DEF Init, FlowInv, NoJob, Alive
<1>2. JobsInv /\ FlowInv /\ [Next]_vars => FlowInv'
  <2> SUFFICES ASSUME JobsInv, FlowInv, [Next]_vars PROVE FlowInv'
    OBVIOUS
  <2>1. CASE \E q \in Pid : Leader(q) \/ Trouble(q)
    BY <2>1, FlowLeader, FlowTrouble
  <2>2. CASE \E q \in Pid : \E k \in Running(job[q]) : EndOfInput(q, k) \/ EndsEarly(q, k)
    BY <2>2, FlowDie DEF EndOfInput, EndsEarly
  <2>3. CASE exec_extra \/ sigchld_handler \/ ForegroundEnds
    BY <2>3, FlowShell DEF ForegroundEnds
  <2>4. CASE \/ ExecFails \/ exit_mysh \/ SigTtin \/ NoChild \/ Retake \/ SetFpid \/ Discard
             \/ UNCHANGED vars
    <3>1. UNCHANGED job
      BY <2>4 DEF ExecFails, exit_mysh, SigTtin, NoChild, Retake, SetFpid, Discard, vars
    <3> QED
      BY <3>1 DEF FlowInv
  <2> QED
    BY <2>1, <2>2, <2>3, <2>4 DEF Next, Return
<1> QED
  BY <1>1, <1>2, JobsAlways, PTL DEF Spec

(* While its leader waits, something of a job can go on: the leader itself, *)
(* or a command whose input has come to its end.                           *)
NeverStuck ==
    \A q \in Pid : LET j == job[q] IN
        j.stat = "run" /\ j.at = "wait" /\ ~j.failed =>
            \/ j.waits = <<>>
            \/ j.stage[Last(j.waits)].stat = "dead"
            \/ \E k \in Running(j) : j.stage[k].in > 0 => ~Written(j, j.stage[k].in)

\* However long the pipeline, no process of it waits for a pipe whose other end is
\* held by one that waits for it, unless open or fork failed: exec_recursive and
\* its children (execline.c) close the ends they do not use, or keep only those
\* that nobody reads.  It is what is left of JobEnds without fairness.
THEOREM PipelineNeverStuck == Spec => []NeverStuck
<1>1. JobsInv /\ FlowInv => NeverStuck
  <2> SUFFICES ASSUME JobsInv, FlowInv, NEW q \in Pid,
                      job[q].stat = "run", job[q].at = "wait", ~job[q].failed,
                      job[q].waits # <<>>,
                      job[q].stage[Last(job[q].waits)].stat # "dead"
               PROVE  \E k \in Running(job[q]) :
                         job[q].stage[k].in > 0 => ~Written(job[q], job[q].stage[k].in)
    BY DEF NeverStuck
  <2> DEFINE j == job[q]
             T == Running(j)
             w == Last(j.waits)
  <2>1. j \in Job /\ JobInv(j) /\ Flow(j)
    BY DEF JobsInv, FlowInv, Alive
  <2> HIDE DEF j
  <2>2. j.pipe = 0 /\ j.out = 1 /\ Connected(j)
    BY <2>1 DEF JobInv, Flow, j
  <2>3. /\ DOMAIN j.stage \subseteq Nat
        /\ \A k \in DOMAIN j.stage : j.stage[k] \in Stage
    BY <2>1, StageType DEF Job
  <2>4. w \in DOMAIN j.stage
    <3>1. j.waits \in Seq(Nat) /\ j.waits # <<>>
      BY <2>1 DEF Job, j
    <3>2. Len(j.waits) \in 1..Len(j.waits) /\ w = j.waits[Len(j.waits)]
      BY <3>1 DEF Last
    <3> QED
      BY <2>1, <3>2 DEF Flow
  <2>5. w \in T
    BY <2>3, <2>4 DEF Running, Stage, j
  <2>6. T \in SUBSET Nat /\ T \subseteq DOMAIN j.stage
    BY <2>3 DEF Running
  <2>7. PICK k \in T : \A i \in T : k <= i
    BY <2>5, <2>6, NatSetMin
  <2>8. CASE k = 1
    <3>1. j.stage[k].in <= 0 /\ j.stage[k].in \in Int
      BY <2>1, <2>3, <2>6, <2>8 DEF Flow, Stage
    <3>2. ~(j.stage[k].in > 0)
      BY <3>1
    <3> QED
      BY <3>2 DEF j
  <2>9. CASE k # 1
    <3>1. j.stage[k].in = k
      BY <2>2, <2>6, <2>9 DEF Connected
    <3>2. ASSUME NEW i \in T, k > 0 PROVE j.stage[i].out # k
      <4>1. /\ i \in Nat /\ k \in Nat /\ k <= i /\ j.stage[i].out \in Int
            /\ j.stage[i].out <= 0 \/ j.stage[i].out > i
        BY <2>1, <2>3, <2>6, <2>7 DEF Flow, Stage
      <4> QED
        BY <3>2, <4>1
    <3>3. k > 0 => ~Written(j, k)
      BY <2>2, <2>9, <3>2 DEF Written
    <3> QED
      BY <3>1, <3>3 DEF j
  <2> QED
    BY <2>8, <2>9
<1> QED
  BY <1>1, JobsAlways, FlowAlways, PTL
=============================================================================
