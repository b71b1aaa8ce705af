--------------------------- MODULE PacketProcessor ---------------------------
(***************************************************************************)
(* The network monitor (tools/network_monitor): the capture thread of      *)
(* PacketProcessor, which accounts every IPv4 packet to a client, and the  *)
(* main thread, which prints the counters about once a second and starts a *)
(* new period.  Both hold dataMutex for that; the capture thread keeps it  *)
(* while the name of a new client is resolved.                             *)
(*                                                                         *)
(* Time matters where print() divides by it: an age is 0 within the        *)
(* millisecond in which it began, and 1 from then on.                      *)
(***************************************************************************)
EXTENDS Integers, FiniteSets, FiniteSetsExt

CONSTANTS
    IPs,            \* the addresses seen on the device
    Local,          \* local_ip_addresses
    Lengths,        \* values of the total length field of the packets
    HeaderLength,   \* ip_hl * 4
    MaxPackets,     \* bound on the packets captured
    None            \* no packet

Byte == 256     \* values of a byte

ASSUME LocalAssumption == Local \subseteq IPs
\* There are as many addresses as 32 bits can tell apart.
ASSUME IPsAssumption == IsFiniteSet(IPs)
ASSUME LengthsAssumption == Lengths \subseteq 0..(Byte * Byte - 1) /\ HeaderLength \in Nat
ASSUME NoneAssumption == None \notin [src : IPs, dst : IPs, ip_len : Lengths]

VARIABLES
    cpc,            \* where the capture thread is
    packet,         \* the packet it processes
    remote_clients, \* addresses with a NetworkClient
    age,            \* ... and the time since that was created
    received_bytes, sent_bytes,     \* per period, by client
    total_received, total_sent,     \* by client
    all_received_bytes, all_sent_bytes,     \* PacketProcessor's own, per period
    all_total_received, all_total_sent,
    period,         \* time since last_print
    uptime,         \* time since started
    mpc,            \* where the main thread is
    crashed,        \* the process was ended by SIGFPE or an exception
    counted,        \* history: packets of this period by direction, and the
                    \* payload bytes of all packets
    reported        \* history: bytes shown by the prints so far, by client

captureVars == <<cpc, packet>>
clientVars  == <<remote_clients, received_bytes, sent_bytes, total_received, total_sent>>
allVars     == <<all_received_bytes, all_sent_bytes, all_total_received, all_total_sent>>
timeVars    == <<age, period, uptime>>
vars == <<captureVars, clientVars, allVars, timeVars, mpc, crashed, counted, reported>>

Packets == [src : IPs, dst : IPs, ip_len : Lengths]

Init ==
    /\ cpc = "open"
    /\ packet = None
    /\ remote_clients = {}
    /\ age = [c \in IPs |-> 0]
    /\ received_bytes = [c \in IPs |-> 0]
    /\ sent_bytes = [c \in IPs |-> 0]
    /\ total_received = [c \in IPs |-> 0]
    /\ total_sent = [c \in IPs |-> 0]
    /\ all_received_bytes = 0
    /\ all_sent_bytes = 0
    /\ all_total_received = 0
    /\ all_total_sent = 0
    /\ period = 0
    /\ uptime = 0
    /\ mpc = "begin"
    /\ crashed = FALSE
    /\ counted = [in |-> 0, out |-> 0, all |-> 0, payload |-> 0]
    /\ reported = [c \in IPs |-> 0]

-----------------------------------------------------------------------------
(* The capture thread: monitor and processPacket. *)

OpenDevice ==
    /\ cpc = "open"
    /\ cpc' = "loop"
    /\ UNCHANGED <<packet, clientVars, allVars, timeVars, mpc, crashed, counted, reported>>

\* The device cannot be opened: the exception leaves the thread function.
OpenFails ==
    /\ cpc = "open"
    /\ crashed' = TRUE
    /\ UNCHANGED <<captureVars, clientVars, allVars, timeVars, mpc, counted, reported>>

\* Mutant: what carries no IPv4 header is processed as well.
CaptureAny ==
    /\ cpc = "loop"
    /\ counted.all < MaxPackets
    /\ packet' \in Packets \cup {None}
    /\ cpc' = "process"
    /\ UNCHANGED <<clientVars, allVars, timeVars, mpc, crashed, counted, reported>>

\* pcap_loop hands over a packet; other protocols and short packets change nothing.
Capture ==
    /\ cpc = "loop"
    /\ counted.all < MaxPackets
    /\ packet' \in Packets
    /\ cpc' = "process"
    /\ UNCHANGED <<clientVars, allVars, timeVars, mpc, crashed, counted, reported>>

\* pcap_loop returns with an error; isRunning() stays true all the same.
CaptureEnds ==
    /\ cpc = "loop"
    /\ cpc' = "ended"
    /\ UNCHANGED <<packet, clientVars, allVars, timeVars, mpc, crashed, counted, reported>>

Incoming(p) == p.dst \in Local

\* The client is looked up by the address that is local, or the sender's.
ClientIp(p) == IF Incoming(p) THEN p.dst ELSE p.src

\* ip_len is in network byte order and is used as it is on a little-endian host.
ByteSwapped(n) == (n % Byte) * Byte + n \div Byte
PayloadLength(p) == ByteSwapped(p.ip_len) - HeaderLength

\* Mutant: the direction is swapped between the client and the totals.
AccountToClientSwapped(p) ==
    IF ~Incoming(p)
      THEN /\ sent_bytes' = [sent_bytes EXCEPT ![ClientIp(p)] = @ + PayloadLength(p)]
           /\ total_sent' = [total_sent EXCEPT ![ClientIp(p)] = @ + PayloadLength(p)]
           /\ UNCHANGED <<received_bytes, total_received>>
      ELSE /\ received_bytes' = [received_bytes EXCEPT ![ClientIp(p)] = @ + PayloadLength(p)]
           /\ total_received' = [total_received EXCEPT ![ClientIp(p)] = @ + PayloadLength(p)]
           /\ UNCHANGED <<sent_bytes, total_sent>>

\* What this machine receives, the client sent.
AccountToClient(p) ==
    IF Incoming(p)
      THEN /\ sent_bytes' = [sent_bytes EXCEPT ![ClientIp(p)] = @ + PayloadLength(p)]
           /\ total_sent' = [total_sent EXCEPT ![ClientIp(p)] = @ + PayloadLength(p)]
           /\ UNCHANGED <<received_bytes, total_received>>
      ELSE /\ received_bytes' = [received_bytes EXCEPT ![ClientIp(p)] = @ + PayloadLength(p)]
           /\ total_received' = [total_received EXCEPT ![ClientIp(p)] = @ + PayloadLength(p)]
           /\ UNCHANGED <<sent_bytes, total_sent>>

\* The byte counters of a period also count one for each packet.
AccountToAll(p) ==
    IF Incoming(p)
      THEN /\ all_received_bytes' = all_received_bytes + 1 + PayloadLength(p)
           /\ all_total_received' = all_total_received + PayloadLength(p)
           /\ UNCHANGED <<all_sent_bytes, all_total_sent>>
      ELSE /\ all_sent_bytes' = all_sent_bytes + 1 + PayloadLength(p)
           /\ all_total_sent' = all_total_sent + PayloadLength(p)
           /\ UNCHANGED <<all_received_bytes, all_total_received>>

Account(p) ==
    /\ AccountToClient(p)
    /\ AccountToAll(p)
    /\ counted' = [in |-> IF Incoming(p) THEN counted.in + 1 ELSE counted.in,
                   out |-> IF Incoming(p) THEN counted.out ELSE counted.out + 1,
                   all |-> counted.all + 1,
                   payload |-> counted.payload + p.ip_len - HeaderLength]
    /\ packet' = None
    /\ cpc' = "loop"

\* dataMutex is free unless the capture thread waits for the resolver.
dataMutex == cpc = "resolve"

KnownClient ==
    /\ cpc = "process"
    /\ ClientIp(packet) \in remote_clients
    /\ Account(packet)
    /\ UNCHANGED <<remote_clients, timeVars, mpc, crashed, reported>>

\* The NetworkClient takes the time, then asks for its name, under the lock.
NewClient ==
    /\ cpc = "process"
    /\ ClientIp(packet) \notin remote_clients
    /\ age' = [age EXCEPT ![ClientIp(packet)] = 0]
    /\ cpc' = "resolve"
    /\ UNCHANGED <<packet, clientVars, allVars, period, uptime, mpc, crashed, counted, reported>>

\* Mutant: an address that cannot be resolved is asked for again.
NameResolvedRetry == cpc = "resolve" /\ UNCHANGED vars

\* A name or none, the client joins the list and the packet is accounted.
NameResolved ==
    /\ cpc = "resolve"
    /\ remote_clients' = remote_clients \cup {ClientIp(packet)}
    /\ Account(packet)
    /\ UNCHANGED <<timeVars, mpc, crashed, reported>>

CaptureStep == OpenDevice \/ Capture \/ CaptureEnds \/ KnownClient \/ NewClient

-----------------------------------------------------------------------------
(* The main thread. *)

\* Mutant: the first print comes before the first sleep.
SleepAfterPrint == mpc = "begin" \/ (mpc = "sleep" /\ period = 1)

\* One second went by since the loop went to sleep.
Slept == (mpc = "begin" /\ uptime = 1) \/ (mpc = "sleep" /\ period = 1)

WakeUp ==
    /\ Slept
    /\ mpc' = "print"
    /\ UNCHANGED <<captureVars, clientVars, allVars, timeVars, crashed, counted, reported>>

Active(c) ==
    c \in remote_clients /\ ~(sent_bytes[c] = 0 /\ received_bytes[c] = 0)

\* Mutant: one of the two counters is forgotten.
StartClientPeriodsHalf ==
    /\ sent_bytes' = [c \in IPs |-> IF Active(c) THEN 0 ELSE sent_bytes[c]]
    /\ UNCHANGED received_bytes

\* NetworkClient::print of each client.
StartClientPeriods ==
    /\ sent_bytes' = [c \in IPs |-> IF Active(c) THEN 0 ELSE sent_bytes[c]]
    /\ received_bytes' = [c \in IPs |-> IF Active(c) THEN 0 ELSE received_bytes[c]]

PrintStats ==
    /\ mpc = "print"
    /\ ~dataMutex
    /\ reported' = [c \in IPs |-> IF Active(c)
                                    THEN reported[c] + sent_bytes[c] + received_bytes[c]
                                    ELSE reported[c]]
    /\ StartClientPeriods
    /\ all_received_bytes' = 0
    /\ all_sent_bytes' = 0
    /\ period' = 0
    /\ counted' = [in |-> 0, out |-> 0, all |-> counted.all, payload |-> counted.payload]
    /\ mpc' = "sleep"
    /\ UNCHANGED <<captureVars, remote_clients, total_received, total_sent,
                   all_total_received, all_total_sent, age, uptime, crashed>>

\* An integer division by a time of zero milliseconds.  Whether the clock goes
\* on before an active client is reached is open.
DividesByZero ==
    period = 0 \/ uptime = 0 \/ \E c \in IPs : Active(c) /\ age[c] = 0

PrintCrashes ==
    /\ mpc = "print"
    /\ ~dataMutex
    /\ DividesByZero
    /\ crashed' = TRUE
    /\ UNCHANGED <<captureVars, clientVars, allVars, timeVars, mpc, counted, reported>>

-----------------------------------------------------------------------------
Tick ==
    /\ age' = [c \in IPs |-> 1]
    /\ period' = 1
    /\ uptime' = 1
    /\ UNCHANGED <<captureVars, clientVars, allVars, mpc, crashed, counted, reported>>

\* A process that was ended takes no step.
Ended == crashed /\ UNCHANGED vars

Next ==
    \/ ~crashed /\ (CaptureStep \/ NameResolved \/ OpenFails)
    \/ ~crashed /\ (WakeUp \/ PrintStats \/ PrintCrashes)
    \/ ~crashed /\ Tick
    \/ Ended

Spec == Init /\ [][Next]_vars

\* Both threads run, the resolver answers, and time goes on; whether packets
\* come is open.
FairSpec ==
    /\ Spec
    /\ WF_vars(~crashed /\ (KnownClient \/ NewClient))
    /\ WF_vars(~crashed /\ NameResolved)
    /\ WF_vars(~crashed /\ (WakeUp \/ PrintStats))
    /\ WF_vars(~crashed /\ Tick)

-----------------------------------------------------------------------------
(* Properties. *)

TypeOK ==
    /\ cpc \in {"open", "loop", "process", "resolve", "ended"}
    /\ packet \in Packets \cup {None}
    /\ cpc \in {"process", "resolve"} <=> packet # None
    /\ remote_clients \subseteq IPs
    /\ age \in [IPs -> {0, 1}]
    /\ received_bytes \in [IPs -> Int]
    /\ sent_bytes \in [IPs -> Int]
    /\ total_received \in [IPs -> Int]
    /\ total_sent \in [IPs -> Int]
    /\ {all_received_bytes, all_sent_bytes, all_total_received, all_total_sent} \subseteq Int
    /\ period \in {0, 1}
    /\ uptime \in {0, 1}
    /\ mpc \in {"begin", "sleep", "print"}
    /\ crashed \in BOOLEAN
    /\ counted \in [in : Nat, out : Nat, all : Nat, payload : Int]
    /\ reported \in [IPs -> Int]

SumOf(counter) == MapThenSumSet(LAMBDA c : counter[c], IPs)

\* The totals of the processor are the sums over its clients, in the opposite
\* direction, whichever packets come before, during and after a print; those of
\* a period exceed the sum by the number of packets.
TotalsAreClients ==
    /\ all_total_received = SumOf(total_sent)
    /\ all_total_sent = SumOf(total_received)
    /\ all_received_bytes = SumOf(sent_bytes) + counted.in
    /\ all_sent_bytes = SumOf(received_bytes) + counted.out

\* Every byte accounted to a client is shown in exactly one print, or is still
\* to be shown: a print loses no packet that the capture thread brings meanwhile.
BytesReportedOnce ==
    \A c \in IPs :
        total_sent[c] + total_received[c] = reported[c] + sent_bytes[c] + received_bytes[c]

\* The divisions for the totals never fail: the main loop sleeps before every
\* print, so a crash comes from a client created within this millisecond (or
\* from a device that cannot be opened).
CrashNeedsFreshClient ==
    /\ mpc = "print" => period = 1 /\ uptime = 1
    /\ crashed => cpc = "open" \/ \E c \in remote_clients : age[c] = 0

\* main gets to print again and again although names are resolved under the
\* lock it needs.
KeepsPrinting == []<>(mpc = "print" \/ crashed) /\ []<>(mpc = "sleep" \/ crashed)

\* basic_nnetwork.md: the total length is the size of the packet in bytes; what
\* is accounted is that size without the header.
AccountsTotalLength ==
    SumOf(total_sent) + SumOf(total_received) = counted.payload

\* The clients are printed under "Remote peers:": none is this machine.
ClientsAreRemote == remote_clients \cap Local = {}
=============================================================================
