--------------------------- MODULE MCMyDhcpClient ---------------------------
(***************************************************************************)
(* Finite instances of MyDhcpClient.  Clients do not share anything, so    *)
(* one is enough.                                                          *)
(***************************************************************************)
EXTENDS MyDhcpClient

CONSTANTS a1, a2

\* One message for every path of the functions of pmsgtab, and two addresses and
\* times to live, so that a stored field can be told from the one before.
Paths ==
    { Bare("OFFER", "ERR_NOIP"), Bare("ACK", "ERR_REQ"), Bare("RELEASE", "OK"),
      Grant("OFFER", "OK", 4, a1, "mask"), Grant("OFFER", "OK", 2, a2, "mask"),
      Grant("ACK", "OK", 4, a1, "mask"), Grant("ACK", "OK", 2, a2, "mask"),
      Grant("ACK", "OK", 0, a1, "mask") }
=============================================================================
