--------------------------- MODULE MCMyDhcpServer ---------------------------
(***************************************************************************)
(* Finite instances of MyDhcpServer.                                       *)
(***************************************************************************)
EXTENDS MyDhcpServer, TLC

CONSTANTS a1, a2

TwoAddresses == <<a1, a2>>
OneAddress == <<a1>>

\* A ttl of the configuration; requests name it or one above it.
GoodTtl == {2}

\* The same, and one that its 16 bits cut to zero.
EdgeTtl == {2, 65536}

Requested == {2, 3}

\* One message for every path of the functions of pmsgtab.
Paths ==
    { Bare("DISCOVER", "OK"), Bare("DISCOVER", "ERR_REQ"),
      Bare("REQUEST", "OK"), Bare("RELEASE", "OK"), Bare("OFFER", "OK") }
    \cup {Grant("REQUEST", code, ttl, a, "mask") :
             code \in {"REQ_ALLOC", "REQ_EXT"}, ttl \in Requested, a \in Addr}
    \cup {Grant("REQUEST", "REQ_EXT", 1, a1, "other")}
    \cup {[Bare("RELEASE", "OK") EXCEPT !.ipaddr = a] : a \in Addr}

\* The messages of well-formed clients.
Polite ==
    {Bare("DISCOVER", "OK")}
    \cup {Grant("REQUEST", code, 2, a, "mask") : code \in {"REQ_ALLOC", "REQ_EXT"}, a \in Addr}
    \cup {[Bare("RELEASE", "OK") EXCEPT !.ipaddr = a] : a \in Addr}

Symmetry == Permutations(Endpoint)
=============================================================================
