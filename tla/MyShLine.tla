------------------------------ MODULE MyShLine ------------------------------
(***************************************************************************)
(* The command line of mysh, src/mysh/parseline.c: tokens to the blocks of *)
(* a struct line, and characters to tokens.  A token is its type; a word   *)
(* token, with the arguments that getargs splits it into, is NORMAL and    *)
(* never follows another.  The end of the input, tokens that are too long  *)
(* and lines of more than TOKEN_MAX tokens are left out.                   *)
(***************************************************************************)
EXTENDS Naturals, Sequences, FiniteSets, SequencesExt

Redirections == {"REDIR_IN", "REDIR_OUT", "REDIR_APPEND"}
Token == {"NORMAL", "PIPE", "BG", "EOL"} \cup Redirections

(* gettoken, one character more: it is at the start of a token, after a >, *)
(* or in a word.  A character that ends a token is put back, and begins    *)
(* the next one.                                                           *)
Char == {"<", ">", "|", "&", "eol", "blank", "letter"}
tkn_tbl == [c \in {"<", ">", "|", "&", "eol"} |->
    CASE c = "<" -> "REDIR_IN" [] c = ">" -> "REDIR_OUT" [] c = "|" -> "PIPE"
      [] c = "&" -> "BG" [] c = "eol" -> "EOL"]
Begin(tokens, c) ==
    CASE c = "blank" -> [tokens |-> tokens, at |-> "start"]
      [] c = "letter" -> [tokens |-> tokens, at |-> "word"]
      [] c = ">" -> [tokens |-> tokens, at |-> ">"]
      [] OTHER -> [tokens |-> Append(tokens, tkn_tbl[c]), at |-> "start"]
GetChar(s, c) ==
    CASE s.at = "start" -> Begin(s.tokens, c)
      [] s.at = ">" -> IF c = ">"
                       THEN [tokens |-> Append(s.tokens, "REDIR_APPEND"), at |-> "start"]
                       ELSE Begin(Append(s.tokens, "REDIR_OUT"), c)
      [] s.at = "word" -> IF c \in DOMAIN tkn_tbl
                          THEN Begin(Append(s.tokens, "NORMAL"), c) ELSE s
gettoken(chars) ==
    FoldLeft(GetChar, [tokens |-> <<>>, at |-> "start"], chars).tokens

(* read_command, one token more.  An empty line is passed over; after an   *)
(* operator that wants more, EOL is overwritten by the next token.         *)
Continues(type) == type \in Redirections \cup {"PIPE"}
Complete(blocks) == blocks # <<>> /\ Last(blocks) = "EOL"
(* Mutant of ReadToken: EOL ends the line after a pipe, too.               *)
ReadToken_short(blocks, type) ==
    IF Complete(blocks) \/ (blocks = <<>> /\ type = "EOL") THEN blocks
    ELSE Append(blocks, type)
ReadToken(blocks, type) ==
    IF \/ Complete(blocks)
       \/ type = "EOL" /\ (blocks = <<>> \/ Continues(Last(blocks)))
    THEN blocks
    ELSE Append(blocks, type)
read_command(input) == FoldLeft(ReadToken, <<>>, input)

(* parseline, the block i.  i runs over the blocks between the first and   *)
(* EOL; the word after a redirection becomes its target, of type DIR.      *)
Redirect(line, i) ==
    IF line.blocks[i - 1] \in {"NORMAL", "DIR"} /\ line.blocks[i + 1] = "NORMAL"
    THEN [line EXCEPT !.blocks[i + 1] = "DIR"]
    ELSE [line EXCEPT !.ok = FALSE]
ParseBlock(line, i) ==
    CASE ~line.ok -> line
      [] line.ok /\ line.blocks[i] \in Redirections -> Redirect(line, i)
      [] line.ok /\ line.blocks[i] = "BG"
            -> IF i = Len(line.blocks) - 1 THEN [line EXCEPT !.bg = TRUE]
               ELSE [line EXCEPT !.ok = FALSE]
      [] OTHER -> line
Middle(blocks) == [n \in 1..Len(blocks) - 2 |-> n + 1]
parseline(blocks) ==
    FoldLeft(ParseBlock, [blocks |-> blocks, bg |-> FALSE, ok |-> blocks[1] = "NORMAL"],
             Middle(blocks))

(***************************************************************************)
(* What the tokens are: two > next to each other are one, from the left;   *)
(* words with blanks between them are one.                                 *)
(***************************************************************************)
Preceding(chars, i) == {h \in 1..i - 1 : \A k \in h..i - 1 : chars[k] = chars[i]}
InWord(chars, i) ==
    \E h \in 1..i - 1 : /\ chars[h] = "letter"
                       /\ \A k \in h..i - 1 : chars[k] \in {"letter", "blank"}
TokenAt(chars, i) ==
    CASE chars[i] = "blank" -> "none"
      [] chars[i] = "letter" -> IF InWord(chars, i) THEN "none" ELSE "NORMAL"
      [] chars[i] = ">" -> CASE Cardinality(Preceding(chars, i)) % 2 = 1 -> "none"
                             [] OTHER -> IF chars[i + 1] = ">" THEN "REDIR_APPEND"
                                         ELSE "REDIR_OUT"
      [] OTHER -> tkn_tbl[chars[i]]
(* s without its elements e.                                               *)
Without(s, e) == FoldLeft(LAMBDA kept, x : IF x = e THEN kept ELSE Append(kept, x), <<>>, s)
Tokens(chars) == Without([i \in DOMAIN chars |-> TokenAt(chars, i)], "none")
Typing(n) == {Append(c, "eol") : c \in UNION {[1..m -> Char] : m \in 0..n}}

(***************************************************************************)
(* What a line may be: it begins with a command; a redirection stands      *)
(* between two words, the second of which is its target; & is the last.    *)
(***************************************************************************)
Targets(b) == {i \in 2..Len(b) : b[i] = "NORMAL" /\ b[i - 1] \in Redirections}
WellFormed(b) ==
    /\ b[1] = "NORMAL"
    /\ \A i \in DOMAIN b : b[i] \in Redirections =>
          b[i - 1] = "NORMAL" /\ b[i + 1] = "NORMAL"
    /\ \A i \in DOMAIN b : b[i] = "BG" => i = Len(b) - 1
Parsed(b) ==
    [ blocks |-> [i \in DOMAIN b |-> IF i \in Targets(b) THEN "DIR" ELSE b[i]],
      bg |-> \E i \in DOMAIN b : b[i] = "BG",
      ok |-> TRUE ]
(* The tokens of the first command of an input: no empty lines before it,  *)
(* no end of line after an operator that wants more, nothing after EOL.    *)
Command(input) ==
    LET Blank(i) == \A h \in 1..i : input[h] = "EOL"
        Before(i) == Without(SubSeq(input, 1, i - 1), "EOL")
        Ends(i) == input[i] = "EOL" /\ ~Blank(i) /\ ~Continues(Last(Before(i)))
        End == CHOOSE i \in DOMAIN input : Ends(i) /\ \A h \in 1..i - 1 : ~Ends(h)
    IN  IF \E i \in DOMAIN input : Ends(i) THEN Append(Before(End), "EOL")
        ELSE Without(input, "EOL")

(* Word tokens are separated by operators or ends of lines.                *)
Typed(n) == {t \in UNION {[1..m -> Token] : m \in 0..n} :
                \A i \in 2..Len(t) : ~(t[i] = "NORMAL" /\ t[i - 1] = "NORMAL")}
Reads(input) ==
    LET blocks == read_command(input)
    IN  /\ blocks = Command(input)
        /\ Complete(blocks) =>
              IF WellFormed(blocks) THEN parseline(blocks) = Parsed(blocks)
              ELSE ~parseline(blocks).ok
=============================================================================
