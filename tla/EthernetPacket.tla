--------------------------- MODULE EthernetPacket ---------------------------
(***************************************************************************)
(* How a Mayhem interface uses a buffer: read_packet walks through the     *)
(* headers of a frame with the read methods, and the setters turn a clone  *)
(* of an ARP request into the reply with seek and write calls at offsets   *)
(* of their own.  Each call of the buffer is a step and may throw; what it *)
(* throws ends the process.                                                *)
(*                                                                         *)
(* MayhemInterface models when an interface answers; this module models    *)
(* the bytes.  The lengths of addresses are parameters, so that offsets    *)
(* are formulas: with 6, 4 and 16 they are the numbers of the code.        *)
(***************************************************************************)
EXTENDS MemoryBuffer

CONSTANTS
    Received,   \* the frames read() may return
    Mtu,        \* ETHERNET_PACKET_MAX_SIZE
    MacLength,  \* MAC_ADDR_LEN
    IPv4Length, IPv6Length,
    IPv4, IPv6, ARP,    \* EthernetType: two bytes
    REQUEST, REPLY,     \* ARPOperationType, ArpOperations: two bytes
    Broadcast,  \* ff:ff:ff:ff:ff:ff
    mac,        \* of the interface
    local_ip

ASSUME ReceivedAssumption ==
    /\ Received \subseteq Seq(Bytes)
    /\ Mtu \in Nat /\ \A frame \in Received : Len(frame) <= Mtu
ASSUME LengthsAssumption == {MacLength, IPv4Length, IPv6Length} \subseteq Nat
ASSUME EtherTypesAssumption ==
    ARP # IPv4 /\ ARP # IPv6 /\ IPv4 # IPv6 /\ {IPv4, IPv6, ARP} \subseteq [1..2 -> Bytes]
ASSUME OwnAddressAssumption ==
    /\ mac \in [1..MacLength -> Bytes] /\ local_ip \in [1..IPv4Length -> Bytes]
    /\ {REQUEST, REPLY} \subseteq [1..2 -> Bytes]

VARIABLES
    pc,         \* where run() is; "library" when somebody else has the buffer
    received,   \* packet->parser: the frame that is handled
    header,     \* the fields of its headers that were parsed
    patches,    \* what the setters have still to write into the reply
    sent        \* what write_packet wrote for this frame

runVars == <<pc, received, header, patches, sent>>
packetVars == <<vars, runVars>>

Content == SubSeq(storage, 1, written)

PacketInit ==
    /\ Init
    /\ pc \in {"library", "poll"}
    /\ pc = "poll" => ~growing /\ storage = <<>>
    /\ received = <<>> /\ header = <<>> /\ patches = <<>> /\ sent = <<>>

\* Any other use of the two classes of buffers.
UseBuffer ==
    /\ pc = "library"
    /\ Next
    /\ UNCHANGED runVars

-----------------------------------------------------------------------------
(* from_file_descripto and read_packet *)

\* Without data, and after an error of read(), nothing changes.
ReadFrame ==
    /\ pc = "poll"
    /\ \E frame \in Received :
         /\ storage' = frame \o Space(Mtu - Len(frame))
         /\ written' = Len(frame)
         /\ received' = frame
    /\ position' = 0
    /\ Returns(<<>>)
    /\ header' = <<>> /\ patches' = <<>> /\ sent' = <<>>
    /\ pc' = "read"

Has(field, bytes) == field \in DOMAIN header /\ header[field] = bytes

EthernetHeader == << <<"dest_mac", MacLength>>, <<"src_mac", MacLength>>, <<"ethertype", 2>> >>

IPv6Header ==
    << <<"version_tc_flowlabel", 4>>, <<"payload_length", 2>>, <<"next_header", 1>>,
       <<"hop_limit", 1>>, <<"source_ip", IPv6Length>>, <<"dest_ip", IPv6Length>> >>

ARPHeader ==
    << <<"hardware_type", 2>>, <<"protocol_type", 2>>, <<"hardware_addr_len", 1>>,
       <<"protocol_addr_len", 1>>, <<"operation", 2>> >>

\* The lengths were read from the frame.
ARPAddresses ==
    LET hardware == header["hardware_addr_len"][1]
        protocol == header["protocol_addr_len"][1]
    IN << <<"sender_mac", hardware>>, <<"sender_ip", protocol>>,
          <<"target_mac", hardware>>, <<"target_ip", protocol>> >>

\* As far as the fields that were parsed tell.
Layout ==
    EthernetHeader
        \o (IF Has("ethertype", IPv6) THEN IPv6Header ELSE <<>>)
        \o (IF Has("ethertype", ARP) THEN ARPHeader ELSE <<>>)
        \o (IF "operation" \in DOMAIN header THEN ARPAddresses ELSE <<>>)

Unparsed == {i \in 1..Len(Layout) : Layout[i][1] \notin DOMAIN header}

Parsing(field, bytes) ==
    [f \in DOMAIN header \cup {field} |-> IF f = field THEN bytes ELSE header[f]]

ParseField ==
    /\ pc \in {"read", "reread"}
    /\ Unparsed # {}
    /\ LET field == Layout[CHOOSE i \in Unparsed : \A j \in Unparsed : i <= j]
       IN /\ Get(field[2])
          /\ IF thrown' THEN pc' = "ended" /\ UNCHANGED header
             ELSE header' = Parsing(field[1], read') /\ UNCHANGED pc
    /\ UNCHANGED <<received, patches, sent>>

\* Mutant: the length of the payload is compared with that of the frame.
AcceptedWithHeaders ==
    \/ Has("ethertype", IPv4)
    \/ Has("ethertype", IPv6) /\ Unsigned(header["payload_length"]) = written
    \/ Has("ethertype", ARP) /\ BytesLeft = 0

Accepted ==
    \/ Has("ethertype", IPv4)
    \/ Has("ethertype", IPv6) /\ Unsigned(header["payload_length"]) = BytesLeft
    \/ Has("ethertype", ARP) /\ BytesLeft = 0

Parsed(where) == pc = where /\ Unparsed = {}

Ends == pc' = "ended" /\ UNCHANGED <<vars, received, header, patches, sent>>

RejectFrame == (Parsed("read") \/ Parsed("reread")) /\ ~Accepted /\ Ends

-----------------------------------------------------------------------------
(* run *)

\* get_dst_ip knows the text of addresses of two lengths.
Printable ==
    Has("ethertype", ARP) =>
        header["protocol_addr_len"][1] \in {IPv4Length, IPv6Length}

\* What print() does with an IPv4 frame, whose pointers were not set, is undefined.
PrintFails ==
    /\ Parsed("read") /\ Accepted
    /\ ~Printable \/ Has("ethertype", IPv4)
    /\ Ends

Printed == Parsed("read") /\ Accepted /\ Printable

IsArpBroadcast == Has("ethertype", ARP) /\ Has("dest_mac", Broadcast)

IsForMachine ==
    IsArpBroadcast /\ Has("target_ip", local_ip) /\ Has("operation", REQUEST)

NextPacket == pc' = "poll" /\ UNCHANGED <<vars, received, header, patches>>

SkipPacket == Printed /\ ~IsArpBroadcast /\ NextPacket /\ UNCHANGED sent

\* Whether it does is up to the timetable.
Retransmit ==
    /\ Printed /\ IsArpBroadcast /\ ~IsForMachine
    /\ NextPacket
    /\ sent' \in {sent, Append(sent, Content)}

ClonePacket ==
    /\ Printed /\ IsForMachine
    /\ clone
    /\ header' = <<>>
    /\ pc' = "reread"
    /\ UNCHANGED <<received, patches, sent>>

-----------------------------------------------------------------------------
(* The setters of ARPHeader, on the clone *)

EthernetLength == 2 * MacLength + 2
OperationAt == EthernetLength + 6
AddressesAt == EthernetLength + 8

\* ... and the position is put back.
PutBack == [at |-> position, data |-> <<>>]

\* Mutant: the sender's IP is forgotten.
set_src_macAdjacent ==
    << [at |-> MacLength, data |-> mac], [at |-> AddressesAt + MacLength, data |-> mac], PutBack >>

\* The hardware addresses are assumed to have MacLength bytes, whatever
\* hardware_addr_len says.
set_src_mac ==
    << [at |-> MacLength, data |-> mac],
       [at |-> AddressesAt + MacLength + header["protocol_addr_len"][1], data |-> mac],
       PutBack >>

set_dest_mac(address) ==
    << [at |-> 0, data |-> address], [at |-> AddressesAt, data |-> address], PutBack >>

set_operation(value) == << [at |-> OperationAt, data |-> value], PutBack >>

\* packet->arp_header.sender_mac, a pointer into the frame.
SenderMac == SubSeq(received, AddressesAt + 1, AddressesAt + MacLength)

PatchSource ==
    /\ Parsed("reread") /\ Accepted
    /\ patches' = set_src_mac
    /\ pc' = "set_src_mac"
    /\ UNCHANGED <<vars, received, header, sent>>

PatchRest ==
    /\ pc = "set_src_mac" /\ patches = <<>>
    /\ patches' = set_dest_mac(SenderMac) \o set_operation(REPLY)
    /\ pc' = "set_dest_mac"
    /\ UNCHANGED <<vars, received, header, sent>>

Patch ==
    /\ pc \in {"set_src_mac", "set_dest_mac"} /\ patches # <<>>
    /\ \/ /\ position # Head(patches).at
          /\ seek(Head(patches).at)
          /\ UNCHANGED patches
       \/ /\ position = Head(patches).at
          /\ WriteFixed(Head(patches).data)
          /\ patches' = Tail(patches)
    /\ pc' = IF thrown' THEN "ended" ELSE pc
    /\ UNCHANGED <<received, header, sent>>

WriteResponse ==
    /\ pc = "set_dest_mac" /\ patches = <<>>
    /\ NextPacket
    /\ sent' = Append(sent, Content)

Terminated == pc = "ended" /\ UNCHANGED packetVars

-----------------------------------------------------------------------------
Run ==
    \/ ReadFrame \/ ParseField \/ RejectFrame \/ PrintFails
    \/ SkipPacket \/ Retransmit \/ ClonePacket
    \/ PatchSource \/ PatchRest \/ Patch \/ WriteResponse

PacketNext == UseBuffer \/ Run \/ Terminated

PacketSpec == PacketInit /\ [][PacketNext]_packetVars

-----------------------------------------------------------------------------
(* Properties. *)

FieldNames ==
    {"dest_mac", "src_mac", "ethertype", "version_tc_flowlabel", "payload_length",
     "next_header", "hop_limit", "source_ip", "dest_ip", "hardware_type", "protocol_type",
     "hardware_addr_len", "protocol_addr_len", "operation", "sender_mac", "sender_ip",
     "target_mac", "target_ip"}

\* What is written to the device was read from it or written by the setters:
\* storage nobody has written to is never part of a frame.
PacketTypeOK ==
    /\ TypeOK
    /\ pc \in {"library", "poll", "read", "reread", "set_src_mac", "set_dest_mac", "ended"}
    /\ pc # "library" => ~growing /\ ~Lost
    /\ DOMAIN header \subseteq FieldNames
    /\ \A field \in DOMAIN header : header[field] \in Seq(Bytes)
    /\ received \in Seq(Bytes)
    /\ patches \in Seq([at : Nat, data : Seq(Bytes)])
    /\ sent \in Seq(Seq(Bytes))

\* The fields of an ARP packet of Ethernet and IPv4, where the standard has them.
Part(frame, at, size) == SubSeq(frame, at + 1, at + size)

ArpFields(frame) ==
    [dst |-> Part(frame, 0, MacLength),
     src |-> Part(frame, MacLength, MacLength),
     ethertype |-> Part(frame, 2 * MacLength, 2),
     types |-> Part(frame, EthernetLength, 4),
     lengths |-> Part(frame, EthernetLength + 4, 2),
     operation |-> Part(frame, OperationAt, 2),
     sender_mac |-> Part(frame, AddressesAt, MacLength),
     sender_ip |-> Part(frame, AddressesAt + MacLength, IPv4Length),
     target_mac |-> Part(frame, AddressesAt + MacLength + IPv4Length, MacLength),
     target_ip |-> Part(frame, AddressesAt + 2 * MacLength + IPv4Length, IPv4Length)]

IsEthernetArp(frame) ==
    /\ Len(frame) = AddressesAt + 2 * (MacLength + IPv4Length)
    /\ ArpFields(frame).ethertype = ARP
    /\ ArpFields(frame).lengths = <<MacLength, IPv4Length>>

\* A request of Ethernet and IPv4 for this machine is answered once, with the
\* reply of MayhemInterface!ReplyTo: patching bytes at the offsets of the
\* setters changes the four fields named there and no other.  Every other such
\* frame goes to the bridge as it came, if at all.  (The setters assume the
\* length of hardware addresses: nothing is said of frames with another.)
ReplyIsExact ==
    IsEthernetArp(received) =>
        LET request == ArpFields(received)
            isForMachine == /\ request.dst = Broadcast /\ request.operation = REQUEST
                            /\ request.target_ip = local_ip
            reply == [request EXCEPT !.src = mac, !.target_mac = mac,
                                     !.dst = request.sender_mac, !.operation = REPLY]
        IN /\ isForMachine /\ pc = "poll" => Len(sent) = 1
           /\ \A i \in 1..Len(sent) :
                IF isForMachine
                THEN Len(sent[i]) = Len(received) /\ ArpFields(sent[i]) = reply
                ELSE sent[i] = received

IsIPv6(frame) ==
    LET length == EthernetLength + 8 + 2 * IPv6Length
    IN /\ Len(frame) >= length
       /\ Part(frame, 2 * MacLength, 2) = IPv6
       /\ Unsigned(Part(frame, EthernetLength + 4, 2)) = Len(frame) - length

\* A complete ARP packet of Ethernet and IPv4, or IPv6 packet, that ends where
\* its header says never ends the interface: it is read, printed, answered and
\* patched without an exception.
GoodFramesSurvive == pc = "ended" => ~IsEthernetArp(received) /\ ~IsIPv6(received)
=============================================================================
