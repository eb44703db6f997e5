------------------------------- MODULE MCMySh -------------------------------
EXTENDS MySh
a == "NORMAL"
Simple == {<<a>>, <<a, "BG">>}
Lines == { <<a, "REDIR_OUT", a, "PIPE", a, "BG">>,
           <<a, "PIPE", "EOL", a, "PIPE", a, "REDIR_IN", a>> }
Ended(lines) == {Append(l, "EOL") : l \in lines}
(* One job may be any of the lines, the other one a single command: the    *)
(* commands of different jobs have nothing in common.                      *)
CONSTANT p1
MCInput == [q \in Pid |-> Ended(IF q = p1 THEN Lines ELSE Simple)]
=============================================================================
