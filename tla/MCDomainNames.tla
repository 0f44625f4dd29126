---------------------------- MODULE MCDomainNames ----------------------------
(* A small instance for TLC. *)
EXTENDS DomainNames

CONSTANTS ip1, alias, host

Received(isUDP, from, to, isDNS, as) ==
    [inet |-> TRUE, fullsock |-> TRUE, udp |-> isUDP, sport |-> from, dport |-> to,
     dns |-> isDNS, answers |-> as]

HostIsIP == [type |-> "A", name |-> host, value |-> ip1]

Other == [type |-> "other", name |-> host]

AliasIsHost == [type |-> "CNAME", name |-> alias, value |-> host]

\* A response through an alias, a packet to port 53 that does not parse, and what
\* the filter rejects.
MCPackets ==
    {Received(TRUE, 53, 4000, TRUE, <<Other, AliasIsHost, HostIsIP>>),
     Received(TRUE, 4000, 53, FALSE, <<>>),
     Received(TRUE, 5353, 5353, TRUE, <<HostIsIP>>),
     Received(FALSE, 53, 4000, TRUE, <<HostIsIP>>)}
=============================================================================
