------------------------- MODULE MCEthernetPacket -------------------------
(* Instance of EthernetPacket for TLC: bytes of three bits, hardware       *)
(* addresses of two bytes, IPv4 addresses of one and IPv6 of two.          *)
EXTENDS EthernetPacket

\* 0 ends a string, and nothing is longer than MaxLength.
MCChunks == {<<1>>, <<0>>, <<2, 1>>}

\* Of width one and two.
MCNumbers == {2, 3}

MCIPv4 == <<0, 4>>
MCIPv6 == <<0, 5>>
MCARP == <<0, 6>>
MCBroadcast == <<7, 7>>
MCmac == <<2, 3>>
MClocal_ip == <<4>>
MCREQUEST == <<0, 1>>
MCREPLY == <<0, 2>>

\* The sender's address is not that of the Ethernet header, as with a proxy.
Ethernet(dst, ethertype) == dst \o <<1, 5>> \o ethertype

Zeros(n) == [i \in 1..n |-> 0]

Arp(dst, operation, hardware, protocol, target) ==
    Ethernet(dst, MCARP) \o <<0, 1, 0, 4, hardware, protocol>> \o operation
        \o [i \in 1..hardware |-> i] \o [i \in 1..protocol |-> 6]
        \o Zeros(hardware) \o [i \in 1..protocol |-> target]

ArpFrames ==
    {Arp(dst, operation, hardware, protocol, target) :
        dst \in {MCBroadcast, MCmac}, operation \in {MCREQUEST, MCREPLY},
        hardware \in 0..4, protocol \in 0..3, target \in {4, 6}}

IPv6Frame(length, payload) ==
    Ethernet(MCmac, MCIPv6) \o <<6, 0, 0, 0>> \o length \o <<1, 7>> \o <<1, 1, 4, 4>> \o Zeros(payload)

OtherFrames ==
    {IPv6Frame(<<0, n>>, m) : n \in 0..2, m \in 0..2} \cup {IPv6Frame(<<1, 0>>, 8)}
        \cup {Ethernet(MCmac, <<1, 0>>), Ethernet(MCmac, MCIPv4)}

CutShort ==
    {SubSeq(frame, 1, n) : frame \in {Arp(MCBroadcast, MCREQUEST, 2, 1, 4)}, n \in 0..20}
        \cup {SubSeq(frame, 1, n) : frame \in {IPv6Frame(<<0, 0>>, 0)}, n \in 0..18}

Padded == {Arp(MCBroadcast, MCREQUEST, 2, 1, 4) \o Zeros(n) : n \in 1..2}

MCReceived == ArpFrames \cup OtherFrames \cup CutShort \cup Padded
=============================================================================
