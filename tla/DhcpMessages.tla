---------------------------- MODULE DhcpMessages ----------------------------
(***************************************************************************)
(* The twelve-byte datagram mydhcp's server and client exchange            *)
(* (src/mydhcp/common.h).  Names stand for the numeric types and codes; a  *)
(* field is abstracted to the values the handlers tell apart.              *)
(***************************************************************************)
EXTENDS Integers

CONSTANTS
    Addr,       \* IPv4 addresses a field can carry
    NoAddr,     \* 0.0.0.0
    TtlModulus  \* number of values of the uint16_t ttl field: 65536 in the code

ASSUME AddrAssumption == NoAddr \notin Addr
ASSUME TtlModulusAssumption == TtlModulus \in Nat \ {0}

\* dhcp_type_t; "NONE" is any type no table of the code knows.
DhcpType == {"DISCOVER", "OFFER", "REQUEST", "ACK", "RELEASE", "NONE"}

\* dhcp_code_t.  OK is 0, the code DISCOVER and RELEASE carry as well.
DhcpCode == {"OK", "ERR_NOIP", "REQ_ALLOC", "REQ_EXT", "ERR_REQ"}

\* 0.0.0.0, the netmask the configuration gives its addresses, another one.
Netmask == {"zero", "mask", "other"}

Ttl == 0 .. TtlModulus - 1

Message == [type : DhcpType, code : DhcpCode, ttl : Ttl,
            ipaddr : Addr \cup {NoAddr}, netmask : Netmask]

\* memset(&msg, 0) followed by the assignments of type and code.
Bare(type, code) ==
    [type |-> type, code |-> code, ttl |-> 0, ipaddr |-> NoAddr, netmask |-> "zero"]

\* A message that names an address, its netmask and a time to live.
Grant(type, code, ttl, a, mask) ==
    [type |-> type, code |-> code, ttl |-> ttl, ipaddr |-> a, netmask |-> mask]
=============================================================================
