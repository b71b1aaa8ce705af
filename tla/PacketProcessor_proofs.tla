----------------------- MODULE PacketProcessor_proofs -----------------------
(***************************************************************************)
(* Proofs about PacketProcessor for any addresses and packets: types, that *)
(* every byte is in exactly one print, where a division by zero can come   *)
(* from, that the totals are sums over the clients, and what is wrong with *)
(* the accounts of lengths and of peers and what is not.                   *)
(***************************************************************************)
EXTENDS PacketProcessor, ArithmeticLemmas, TLAPS

\* The first print comes when time has passed since the start, and a period
\* begins with it.
Clocks == IF mpc = "begin" THEN period = uptime ELSE uptime = 1

Inv == TypeOK /\ BytesReportedOnce /\ CrashNeedsFreshClient /\ Clocks

LEMMA PacketType ==
    ASSUME NEW p \in Packets
    PROVE  p.ip_len \in Nat /\ p.src \in IPs /\ p.dst \in IPs /\ HeaderLength \in Nat
<1>1. p.ip_len \in Lengths /\ p.src \in IPs /\ p.dst \in IPs
  BY DEF Packets
<1>2. Byte * Byte - 1 \in Int
  BY DEF Byte
<1>3. Lengths \subseteq Nat
  BY <1>2, LengthsAssumption
<1> QED BY <1>1, <1>3, LengthsAssumption

LEMMA PayloadType ==
    ASSUME NEW p \in Packets
    PROVE  /\ PayloadLength(p) \in Int
           /\ ClientIp(p) \in IPs
           /\ p.ip_len - HeaderLength \in Int
<1>1. p.ip_len \in Nat /\ p.src \in IPs /\ p.dst \in IPs /\ HeaderLength \in Nat
  BY PacketType
<1>2. ASSUME NEW n \in Nat
      PROVE  ByteSwapped(n) \in Int
  <2>1. n % Byte \in Int /\ n \div Byte \in Int /\ Byte \in Int
    BY DEF Byte
  <2> QED BY <2>1 DEF ByteSwapped
<1>3. PayloadLength(p) \in Int
  BY <1>1, <1>2 DEF PayloadLength
<1>4. ClientIp(p) \in IPs
  BY <1>1 DEF ClientIp
<1>5. p.ip_len - HeaderLength \in Int
  BY <1>1
<1> QED BY <1>3, <1>4, <1>5

LEMMA InitInv == Init => Inv
<1> SUFFICES ASSUME Init PROVE Inv
  OBVIOUS
<1>1. None \notin Packets
  BY NoneAssumption DEF Packets
<1>2. TypeOK
  <2>1. /\ cpc = "open" /\ packet = None /\ mpc = "begin" /\ crashed = FALSE
        /\ remote_clients = {}
    BY DEF Init
  <2>2. /\ cpc \in {"open", "loop", "process", "resolve", "ended"}
        /\ packet \in Packets \cup {None}
        /\ cpc \in {"process", "resolve"} <=> packet # None
        /\ remote_clients \subseteq IPs /\ crashed \in BOOLEAN
        /\ mpc \in {"begin", "sleep", "print"}
    BY <2>1
  <2>3. /\ age \in [IPs -> {0, 1}]
        /\ received_bytes \in [IPs -> Int] /\ sent_bytes \in [IPs -> Int]
        /\ total_received \in [IPs -> Int] /\ total_sent \in [IPs -> Int]
        /\ reported \in [IPs -> Int]
    BY DEF Init
  <2>4. /\ {all_received_bytes, all_sent_bytes, all_total_received, all_total_sent}
             \subseteq Int
        /\ period \in {0, 1} /\ uptime \in {0, 1}
    BY DEF Init
  <2>5. counted \in [in : Nat, out : Nat, all : Nat, payload : Int]
    BY DEF Init
  <2> QED BY <2>2, <2>3, <2>4, <2>5 DEF TypeOK
<1>3. BytesReportedOnce
  BY DEF Init, BytesReportedOnce
<1>4. CrashNeedsFreshClient
  BY DEF Init, CrashNeedsFreshClient
<1>5. Clocks
  BY DEF Init, Clocks
<1> QED BY <1>2, <1>3, <1>4, <1>5 DEF Inv

\* The counters of one client gain the payload of the packet, the others nothing.
LEMMA AccountType ==
    ASSUME TypeOK, NEW p \in Packets, Account(p)
    PROVE  /\ received_bytes' \in [IPs -> Int] /\ sent_bytes' \in [IPs -> Int]
           /\ total_received' \in [IPs -> Int] /\ total_sent' \in [IPs -> Int]
           /\ {all_received_bytes', all_sent_bytes',
               all_total_received', all_total_sent'} \subseteq Int
           /\ counted' \in [in : Nat, out : Nat, all : Nat, payload : Int]
<1> DEFINE c == ClientIp(p)
           n == PayloadLength(p)
<1>1. c \in IPs /\ n \in Int /\ p.ip_len - HeaderLength \in Int
  BY PayloadType
<1>2. /\ received_bytes' \in [IPs -> Int] /\ sent_bytes' \in [IPs -> Int]
      /\ total_received' \in [IPs -> Int] /\ total_sent' \in [IPs -> Int]
  <2>1. /\ received_bytes \in [IPs -> Int] /\ sent_bytes \in [IPs -> Int]
        /\ total_received \in [IPs -> Int] /\ total_sent \in [IPs -> Int]
    BY DEF TypeOK
  <2>2. AccountToClient(p)
    BY DEF Account
  <2>3. CASE Incoming(p)
    BY <1>1, <2>1, <2>2, <2>3 DEF AccountToClient
  <2>4. CASE ~Incoming(p)
    BY <1>1, <2>1, <2>2, <2>4 DEF AccountToClient
  <2> QED BY <2>3, <2>4
<1>3. {all_received_bytes', all_sent_bytes',
       all_total_received', all_total_sent'} \subseteq Int
  BY <1>1 DEF Account, AccountToAll, TypeOK
<1>4. counted' \in [in : Nat, out : Nat, all : Nat, payload : Int]
  <2>1. counted \in [in : Nat, out : Nat, all : Nat, payload : Int]
    BY DEF TypeOK
  <2>2. /\ p.ip_len \in Int /\ HeaderLength \in Int
    BY PacketType
  <2>3. counted' = [in |-> IF Incoming(p) THEN counted.in + 1 ELSE counted.in,
                    out |-> IF Incoming(p) THEN counted.out ELSE counted.out + 1,
                    all |-> counted.all + 1,
                    payload |-> counted.payload + p.ip_len - HeaderLength]
    BY DEF Account
  <2> QED BY <2>1, <2>2, <2>3
<1> QED BY <1>2, <1>3, <1>4

LEMMA AccountBalance ==
    ASSUME TypeOK, BytesReportedOnce, NEW p \in Packets, Account(p), reported' = reported
    PROVE  BytesReportedOnce'
<1> DEFINE n == PayloadLength(p)
<1>1. ClientIp(p) \in IPs /\ n \in Int
  BY PayloadType
<1>2. AccountToClient(p)
  BY DEF Account
<1> HIDE DEF n
<1>3. ASSUME NEW c \in IPs
      PROVE  total_sent'[c] + total_received'[c]
               = reported'[c] + sent_bytes'[c] + received_bytes'[c]
  <2>1. /\ total_sent[c] \in Int /\ total_received[c] \in Int /\ reported[c] \in Int
        /\ sent_bytes[c] \in Int /\ received_bytes[c] \in Int
    BY DEF TypeOK
  <2>2. total_sent[c] + total_received[c] = reported[c] + sent_bytes[c] + received_bytes[c]
    BY DEF BytesReportedOnce
  <2>3. \/ /\ total_sent'[c] = total_sent[c] + n /\ sent_bytes'[c] = sent_bytes[c] + n
           /\ total_received'[c] = total_received[c]
           /\ received_bytes'[c] = received_bytes[c]
        \/ /\ total_received'[c] = total_received[c] + n
           /\ received_bytes'[c] = received_bytes[c] + n
           /\ total_sent'[c] = total_sent[c] /\ sent_bytes'[c] = sent_bytes[c]
        \/ /\ total_sent'[c] = total_sent[c] /\ sent_bytes'[c] = sent_bytes[c]
           /\ total_received'[c] = total_received[c]
           /\ received_bytes'[c] = received_bytes[c]
    BY <1>1, <1>2 DEF AccountToClient, TypeOK, n
  <2> QED BY <1>1, <2>1, <2>2, <2>3
<1> QED BY <1>3 DEF BytesReportedOnce

LEMMA AccountInv ==
    ASSUME Inv, ~crashed, cpc \in {"process", "resolve"}, Account(packet),
           remote_clients' \subseteq IPs,
           UNCHANGED <<timeVars, mpc, crashed, reported>>
    PROVE  Inv'
<1>1. packet \in Packets
  BY DEF Inv, TypeOK
<1>2. TypeOK'
  <2>1. packet' = None /\ cpc' = "loop"
    BY DEF Account
  <2> QED BY <1>1, <2>1, AccountType DEF Inv, TypeOK, timeVars
<1>3. BytesReportedOnce'
  BY <1>1, AccountBalance DEF Inv
<1>4. CrashNeedsFreshClient'
  <2>1. cpc # "open"
    OBVIOUS
  <2> QED BY <2>1 DEF Inv, CrashNeedsFreshClient, timeVars
<1>5. Clocks'
  BY DEF Inv, Clocks, timeVars
<1> QED BY <1>2, <1>3, <1>4, <1>5 DEF Inv

LEMMA PrintInv ==
    ASSUME Inv, ~crashed, PrintStats
    PROVE  Inv'
<1>1. TypeOK'
  <2>1. /\ received_bytes \in [IPs -> Int] /\ sent_bytes \in [IPs -> Int]
        /\ reported \in [IPs -> Int]
        /\ counted \in [in : Nat, out : Nat, all : Nat, payload : Int]
    BY DEF Inv, TypeOK
  <2>2. /\ received_bytes' \in [IPs -> Int] /\ sent_bytes' \in [IPs -> Int]
        /\ reported' \in [IPs -> Int]
    BY <2>1 DEF PrintStats, StartClientPeriods
  <2>3. counted' \in [in : Nat, out : Nat, all : Nat, payload : Int]
    BY <2>1 DEF PrintStats
  <2> QED BY <2>2, <2>3 DEF Inv, TypeOK, PrintStats, captureVars
<1>2. BytesReportedOnce'
  <2>1. ASSUME NEW c \in IPs
        PROVE  total_sent'[c] + total_received'[c]
                 = reported'[c] + sent_bytes'[c] + received_bytes'[c]
    <3>1. /\ total_sent[c] \in Int /\ total_received[c] \in Int /\ reported[c] \in Int
          /\ sent_bytes[c] \in Int /\ received_bytes[c] \in Int
      BY DEF Inv, TypeOK
    <3>2. total_sent[c] + total_received[c]
            = reported[c] + sent_bytes[c] + received_bytes[c]
      BY DEF Inv, BytesReportedOnce
    <3>3. total_sent'[c] = total_sent[c] /\ total_received'[c] = total_received[c]
      BY DEF PrintStats
    <3>4. CASE Active(c)
      <4>1. /\ reported'[c] = reported[c] + sent_bytes[c] + received_bytes[c]
            /\ sent_bytes'[c] = 0 /\ received_bytes'[c] = 0
        BY <3>4 DEF PrintStats, StartClientPeriods
      <4> QED BY <3>1, <3>2, <3>3, <4>1
    <3>5. CASE ~Active(c)
      BY <3>1, <3>2, <3>3, <3>5 DEF PrintStats, StartClientPeriods
    <3> QED BY <3>4, <3>5
  <2> QED BY <2>1 DEF BytesReportedOnce
<1>3. CrashNeedsFreshClient'
  BY DEF PrintStats, CrashNeedsFreshClient
<1>4. Clocks'
  BY DEF Inv, PrintStats, Clocks, CrashNeedsFreshClient
<1> QED BY <1>1, <1>2, <1>3, <1>4 DEF Inv

LEMMA NextInv == Inv /\ [Next]_vars => Inv'
<1> SUFFICES ASSUME Inv, [Next]_vars PROVE Inv'
  OBVIOUS
<1> USE DEF Inv
<1>0. None \notin Packets
  BY NoneAssumption DEF Packets
<1>1. CASE ~crashed /\ (OpenDevice \/ Capture \/ CaptureEnds)
  <2>1. TypeOK'
    BY <1>0, <1>1 DEF OpenDevice, Capture, CaptureEnds, TypeOK, clientVars, allVars, timeVars
  <2>2. BytesReportedOnce'
    BY <1>1 DEF OpenDevice, Capture, CaptureEnds, BytesReportedOnce, clientVars
  <2>3. CrashNeedsFreshClient'
    BY <1>1 DEF OpenDevice, Capture, CaptureEnds, CrashNeedsFreshClient, timeVars
  <2>4. Clocks'
    BY <1>1 DEF OpenDevice, Capture, CaptureEnds, timeVars, Clocks
  <2> QED BY <2>1, <2>2, <2>3, <2>4
<1>2. CASE ~crashed /\ KnownClient
  BY <1>2, AccountInv DEF KnownClient, TypeOK
<1>3. CASE ~crashed /\ NewClient
  <2>1. TypeOK'
    BY <1>3 DEF NewClient, TypeOK, clientVars, allVars
  <2>2. BytesReportedOnce'
    BY <1>3 DEF NewClient, BytesReportedOnce, clientVars
  <2>3. CrashNeedsFreshClient'
    BY <1>3 DEF NewClient, CrashNeedsFreshClient
  <2>4. Clocks'
    BY <1>3 DEF NewClient, Clocks
  <2> QED BY <2>1, <2>2, <2>3, <2>4
<1>4. CASE ~crashed /\ NameResolved
  <2>1. packet \in Packets
    BY <1>4 DEF NameResolved, TypeOK
  <2>2. remote_clients' \subseteq IPs
    BY <1>4, <2>1, PayloadType DEF NameResolved, TypeOK
  <2> QED BY <1>4, <2>2, AccountInv DEF NameResolved
<1>5. CASE ~crashed /\ OpenFails
  <2>1. TypeOK'
    BY <1>5 DEF OpenFails, TypeOK, captureVars, clientVars, allVars, timeVars
  <2>2. BytesReportedOnce'
    BY <1>5 DEF OpenFails, BytesReportedOnce, clientVars
  <2>3. CrashNeedsFreshClient'
    BY <1>5 DEF OpenFails, CrashNeedsFreshClient, captureVars, timeVars
  <2>4. Clocks'
    BY <1>5 DEF OpenFails, timeVars, Clocks
  <2> QED BY <2>1, <2>2, <2>3, <2>4
<1>6. CASE ~crashed /\ WakeUp
  <2>1. TypeOK'
    BY <1>6 DEF WakeUp, TypeOK, captureVars, clientVars, allVars, timeVars
  <2>2. BytesReportedOnce'
    BY <1>6 DEF WakeUp, BytesReportedOnce, clientVars
  <2>3. CrashNeedsFreshClient'
    <3>1. period = 1 /\ uptime = 1
      BY <1>6 DEF WakeUp, Slept, Clocks
    <3> QED BY <1>6, <3>1 DEF WakeUp, CrashNeedsFreshClient, timeVars
  <2>4. Clocks'
    BY <1>6 DEF WakeUp, Slept, timeVars, Clocks
  <2> QED BY <2>1, <2>2, <2>3, <2>4
<1>7. CASE ~crashed /\ PrintStats
  BY <1>7, PrintInv
<1>8. CASE ~crashed /\ PrintCrashes
  <2>1. TypeOK'
    BY <1>8 DEF PrintCrashes, TypeOK, captureVars, clientVars, allVars, timeVars
  <2>2. BytesReportedOnce'
    BY <1>8 DEF PrintCrashes, BytesReportedOnce, clientVars
  <2>3. CrashNeedsFreshClient'
    BY <1>8 DEF PrintCrashes, DividesByZero, Active, CrashNeedsFreshClient,
                captureVars, clientVars, timeVars
  <2>4. Clocks'
    BY <1>8 DEF PrintCrashes, timeVars, Clocks
  <2> QED BY <2>1, <2>2, <2>3, <2>4
<1>9. CASE ~crashed /\ Tick
  <2>1. TypeOK'
    BY <1>9 DEF Tick, TypeOK, captureVars, clientVars, allVars
  <2>2. BytesReportedOnce'
    BY <1>9 DEF Tick, BytesReportedOnce, clientVars
  <2>3. CrashNeedsFreshClient'
    BY <1>9 DEF Tick, CrashNeedsFreshClient
  <2>4. Clocks'
    BY <1>9 DEF Tick, TypeOK, Clocks
  <2> QED BY <2>1, <2>2, <2>3, <2>4
<1>10. CASE UNCHANGED vars
  <2>1. TypeOK'
    BY <1>10 DEF vars, captureVars, clientVars, allVars, timeVars, TypeOK
  <2>2. BytesReportedOnce'
    BY <1>10 DEF vars, clientVars, BytesReportedOnce
  <2>3. CrashNeedsFreshClient'
    BY <1>10 DEF vars, captureVars, clientVars, timeVars, CrashNeedsFreshClient
  <2>4. Clocks'
    BY <1>10 DEF vars, timeVars, Clocks
  <2> QED BY <2>1, <2>2, <2>3, <2>4
<1> QED BY <1>1, <1>2, <1>3, <1>4, <1>5, <1>6, <1>7, <1>8, <1>9, <1>10
       DEF Next, CaptureStep, Ended

LEMMA Invariance == Spec => []Inv
BY InitInv, NextInv, PTL DEF Spec

\* Both threads keep the types of the state for any addresses and packets.
THEOREM TypeCorrect == Spec => []TypeOK
<1>1. Inv => TypeOK
  BY DEF Inv
<1> QED BY <1>1, Invariance, PTL

\* print() shows every byte processPacket accounted exactly once.
THEOREM ReportedOnce == Spec => []BytesReportedOnce
<1>1. Inv => BytesReportedOnce
  BY DEF Inv
<1> QED BY <1>1, Invariance, PTL

\* Only a client created within the millisecond makes print() divide by zero.
THEOREM CrashReason == Spec => []CrashNeedsFreshClient
<1>1. Inv => CrashNeedsFreshClient
  BY DEF Inv
<1> QED BY <1>1, Invariance, PTL

-----------------------------------------------------------------------------
(* The totals of the processor. *)

\* What is 0 in a period stays unprinted: clients that are not in the list have
\* no bytes.
NoBytesUnlisted ==
    \A c \in IPs \ remote_clients : sent_bytes[c] = 0 /\ received_bytes[c] = 0

TotalsInv == TotalsAreClients /\ NoBytesUnlisted

Counters(x) == SumOver(x, IPs)

LEMMA SumIsSumOver == \A counter : SumOf(counter) = SumOver(counter, IPs)
BY DEF SumOf, MapThenSumSet, MapThenFoldSet, SumOver, Sums

LEMMA TotalsSummed ==
    /\ TotalsAreClients <=>
         /\ all_total_received = Counters(total_sent)
         /\ all_total_sent = Counters(total_received)
         /\ all_received_bytes = Counters(sent_bytes) + counted.in
         /\ all_sent_bytes = Counters(received_bytes) + counted.out
    /\ TotalsAreClients' <=>
         /\ all_total_received' = Counters(total_sent')
         /\ all_total_sent' = Counters(total_received')
         /\ all_received_bytes' = Counters(sent_bytes') + counted'.in
         /\ all_sent_bytes' = Counters(received_bytes') + counted'.out
BY SumIsSumOver DEF TotalsAreClients, Counters

LEMMA CountersType == \A x \in [IPs -> Int] : Counters(x) \in Int
BY SumType, IPsAssumption DEF Counters

LEMMA CountersGrow ==
    ASSUME NEW x \in [IPs -> Int], NEW c \in IPs, NEW n \in Int
    PROVE  Counters([x EXCEPT ![c] = @ + n]) = Counters(x) + n
BY SumGrows, IPsAssumption DEF Counters

LEMMA InitTotals == Init => TotalsInv
<1> SUFFICES ASSUME Init PROVE TotalsInv
  OBVIOUS
<1>1. /\ \A c \in IPs : /\ total_sent[c] = 0 /\ total_received[c] = 0
                        /\ sent_bytes[c] = 0 /\ received_bytes[c] = 0
      /\ all_total_received = 0 /\ all_total_sent = 0
      /\ all_received_bytes = 0 /\ all_sent_bytes = 0
      /\ counted.in = 0 /\ counted.out = 0
  BY DEF Init
<1>2. \A x : (\A c \in IPs : x[c] = 0) => Counters(x) = 0
  BY SumOfZeros, IPsAssumption DEF Counters
<1>3. /\ Counters(total_sent) = 0 /\ Counters(total_received) = 0
      /\ Counters(sent_bytes) = 0 /\ Counters(received_bytes) = 0
  BY <1>1, <1>2
<1>4. TotalsAreClients
  BY <1>1, <1>3, TotalsSummed
<1> QED BY <1>1, <1>4 DEF TotalsInv, NoBytesUnlisted

LEMMA AccountTotals ==
    ASSUME TypeOK, TotalsInv, NEW p \in Packets, Account(p),
           remote_clients' = remote_clients \cup {ClientIp(p)}
    PROVE  TotalsInv'
<1> DEFINE c == ClientIp(p)
           n == PayloadLength(p)
<1>1. c \in IPs /\ n \in Int
  BY PayloadType
<1>2. /\ received_bytes \in [IPs -> Int] /\ sent_bytes \in [IPs -> Int]
      /\ total_received \in [IPs -> Int] /\ total_sent \in [IPs -> Int]
      /\ {all_received_bytes, all_sent_bytes, all_total_received, all_total_sent} \subseteq Int
      /\ counted.in \in Int /\ counted.out \in Int
  BY DEF TypeOK
<1>3. /\ counted'.in = IF Incoming(p) THEN counted.in + 1 ELSE counted.in
      /\ counted'.out = IF Incoming(p) THEN counted.out ELSE counted.out + 1
  BY DEF Account
<1>4. /\ Counters(total_sent) \in Int /\ Counters(total_received) \in Int
      /\ Counters(sent_bytes) \in Int /\ Counters(received_bytes) \in Int
  BY <1>2, CountersType
<1>5. TotalsAreClients'
  <2>1. CASE Incoming(p)
    <3>1. /\ sent_bytes' = [sent_bytes EXCEPT ![c] = @ + n]
          /\ total_sent' = [total_sent EXCEPT ![c] = @ + n]
          /\ received_bytes' = received_bytes /\ total_received' = total_received
          /\ all_received_bytes' = all_received_bytes + 1 + n
          /\ all_total_received' = all_total_received + n
          /\ all_sent_bytes' = all_sent_bytes /\ all_total_sent' = all_total_sent
      BY <2>1 DEF Account, AccountToClient, AccountToAll
    <3> HIDE DEF c, n
    <3>2. /\ Counters(sent_bytes') = Counters(sent_bytes) + n
          /\ Counters(total_sent') = Counters(total_sent) + n
          /\ Counters(received_bytes') = Counters(received_bytes)
          /\ Counters(total_received') = Counters(total_received)
      BY <1>1, <1>2, <3>1, CountersGrow
    <3> QED BY <1>1, <1>2, <1>3, <1>4, <2>1, <3>1, <3>2, TotalsSummed DEF TotalsInv
  <2>2. CASE ~Incoming(p)
    <3>1. /\ received_bytes' = [received_bytes EXCEPT ![c] = @ + n]
          /\ total_received' = [total_received EXCEPT ![c] = @ + n]
          /\ sent_bytes' = sent_bytes /\ total_sent' = total_sent
          /\ all_sent_bytes' = all_sent_bytes + 1 + n
          /\ all_total_sent' = all_total_sent + n
          /\ all_received_bytes' = all_received_bytes /\ all_total_received' = all_total_received
      BY <2>2 DEF Account, AccountToClient, AccountToAll
    <3> HIDE DEF c, n
    <3>2. /\ Counters(received_bytes') = Counters(received_bytes) + n
          /\ Counters(total_received') = Counters(total_received) + n
          /\ Counters(sent_bytes') = Counters(sent_bytes)
          /\ Counters(total_sent') = Counters(total_sent)
      BY <1>1, <1>2, <3>1, CountersGrow
    <3> QED BY <1>1, <1>2, <1>3, <1>4, <2>2, <3>1, <3>2, TotalsSummed DEF TotalsInv
  <2> QED BY <2>1, <2>2
<1>6. NoBytesUnlisted'
  BY <1>1, <1>2 DEF TotalsInv, NoBytesUnlisted, Account, AccountToClient
<1> QED BY <1>5, <1>6 DEF TotalsInv

LEMMA PrintTotals == ASSUME TypeOK, TotalsInv, PrintStats PROVE TotalsInv'
<1>1. \A c \in IPs : sent_bytes'[c] = 0 /\ received_bytes'[c] = 0
  BY DEF TotalsInv, NoBytesUnlisted, PrintStats, StartClientPeriods, Active
<1>2. /\ total_sent' = total_sent /\ total_received' = total_received
      /\ all_total_received' = all_total_received /\ all_total_sent' = all_total_sent
      /\ all_received_bytes' = 0 /\ all_sent_bytes' = 0
      /\ counted'.in = 0 /\ counted'.out = 0
  BY DEF PrintStats
<1>3. Counters(sent_bytes') = 0 /\ Counters(received_bytes') = 0
  BY <1>1, SumOfZeros, IPsAssumption DEF Counters
<1>4. TotalsAreClients'
  BY <1>2, <1>3, TotalsSummed DEF TotalsInv
<1> QED BY <1>1, <1>4 DEF TotalsInv, NoBytesUnlisted

LEMMA TotalsKept ==
    ASSUME TotalsInv, UNCHANGED <<clientVars, allVars, counted>> PROVE TotalsInv'
<1>1. TotalsAreClients'
  BY TotalsSummed DEF TotalsInv, clientVars, allVars
<1> QED BY <1>1 DEF TotalsInv, NoBytesUnlisted, clientVars

LEMMA NextTotals == TypeOK /\ TotalsInv /\ [Next]_vars => TotalsInv'
<1> SUFFICES ASSUME TypeOK, TotalsInv, [Next]_vars PROVE TotalsInv'
  OBVIOUS
<1>1. CASE KnownClient
  <2>1. packet \in Packets /\ remote_clients' = remote_clients \cup {ClientIp(packet)}
    BY <1>1 DEF KnownClient, TypeOK
  <2> QED BY <1>1, <2>1, AccountTotals DEF KnownClient
<1>2. CASE NameResolved
  <2>1. packet \in Packets /\ remote_clients' = remote_clients \cup {ClientIp(packet)}
    BY <1>2 DEF NameResolved, TypeOK
  <2> QED BY <1>2, <2>1, AccountTotals DEF NameResolved
<1>3. CASE PrintStats
  BY <1>3, PrintTotals
<1>4. CASE \/ OpenDevice \/ Capture \/ CaptureEnds \/ NewClient \/ OpenFails
           \/ WakeUp \/ PrintCrashes \/ Tick \/ UNCHANGED vars
  <2>1. UNCHANGED <<clientVars, allVars, counted>>
    BY <1>4 DEF OpenDevice, Capture, CaptureEnds, NewClient, OpenFails, WakeUp,
                PrintCrashes, Tick, vars
  <2> QED BY <2>1, TotalsKept
<1> QED BY <1>1, <1>2, <1>3, <1>4 DEF Next, CaptureStep, Ended

\* The totals the processor shows are the sums over its clients, for any number
\* of clients and any packets.
THEOREM TotalsHold == Spec => []TotalsAreClients
<1>1. Inv => TypeOK
  BY DEF Inv
<1>2. TotalsInv => TotalsAreClients
  BY DEF TotalsInv
<1> QED BY <1>1, <1>2, InitTotals, NextTotals, Invariance, PTL DEF Spec

-----------------------------------------------------------------------------
(* What is wrong with the accounts, and what is not. *)

LEMMA LengthsAccounted ==
    ASSUME \A n \in Lengths : ByteSwapped(n) = n, TypeOK,
           all_total_received + all_total_sent = counted.payload, [Next]_vars
    PROVE  all_total_received' + all_total_sent' = counted'.payload
<1>1. /\ all_total_received \in Int /\ all_total_sent \in Int /\ counted.payload \in Int
  BY DEF TypeOK
<1>2. ASSUME packet \in Packets, Account(packet)
      PROVE  all_total_received' + all_total_sent' = counted'.payload
  <2>1. /\ packet.ip_len \in Lengths /\ packet.ip_len \in Int /\ HeaderLength \in Int
    BY <1>2, PacketType DEF Packets
  <2>2. PayloadLength(packet) = packet.ip_len - HeaderLength
    BY <2>1 DEF PayloadLength
  <2>3. /\ counted'.payload = counted.payload + packet.ip_len - HeaderLength
        /\ \/ all_total_received' = all_total_received + PayloadLength(packet)
              /\ all_total_sent' = all_total_sent
           \/ all_total_sent' = all_total_sent + PayloadLength(packet)
              /\ all_total_received' = all_total_received
    BY <1>2 DEF Account, AccountToAll
  <2> QED BY <1>1, <2>1, <2>2, <2>3
<1>3. CASE KnownClient \/ NameResolved
  BY <1>2, <1>3 DEF KnownClient, NameResolved, TypeOK
<1>4. CASE PrintStats
  BY <1>4 DEF PrintStats
<1>5. CASE \/ OpenDevice \/ Capture \/ CaptureEnds \/ NewClient \/ OpenFails
           \/ WakeUp \/ PrintCrashes \/ Tick \/ UNCHANGED vars
  <2>1. UNCHANGED <<allVars, counted>>
    BY <1>5 DEF OpenDevice, Capture, CaptureEnds, NewClient, OpenFails, WakeUp,
                PrintCrashes, Tick, vars
  <2> QED BY <2>1 DEF allVars
<1> QED BY <1>3, <1>4, <1>5 DEF Next, CaptureStep, Ended

\* The order of its two bytes is all that is wrong with the length: where it
\* reads the same both ways, the clients' totals are the lengths of all packets
\* without their headers, as basic_nnetwork.md has it.
THEOREM OnlyTheByteOrder ==
    ASSUME \A n \in Lengths : ByteSwapped(n) = n
    PROVE  Spec => []AccountsTotalLength
<1> DEFINE Accounted == all_total_received + all_total_sent = counted.payload
<1>1. Init => Accounted
  BY DEF Init
<1>2. TypeOK /\ Accounted /\ [Next]_vars => Accounted'
  BY LengthsAccounted
<1>3. TypeOK /\ TotalsAreClients /\ Accounted => AccountsTotalLength
  <2> SUFFICES ASSUME TypeOK, TotalsAreClients, Accounted PROVE AccountsTotalLength
    OBVIOUS
  <2>1. all_total_received \in Int /\ all_total_sent \in Int
    BY DEF TypeOK
  <2>2. all_total_received = SumOf(total_sent) /\ all_total_sent = SumOf(total_received)
    BY DEF TotalsAreClients
  <2> QED BY <2>1, <2>2 DEF AccountsTotalLength
<1> HIDE DEF Accounted
<1> QED BY <1>1, <1>2, <1>3, TypeCorrect, TotalsHold, PTL DEF Spec

\* No remote address is ever seen to send: what it sends is accounted to the
\* local address that receives it.
NothingSentByPeers == \A c \in IPs \ Local : sent_bytes[c] = 0 /\ total_sent[c] = 0

LEMMA AccountedToLocal ==
    ASSUME TypeOK, NothingSentByPeers, NEW p \in Packets, Account(p) PROVE NothingSentByPeers'
<1>1. sent_bytes \in [IPs -> Int] /\ total_sent \in [IPs -> Int]
  BY DEF TypeOK
<1>2. CASE Incoming(p)
  <2>1. ClientIp(p) \in Local
    BY <1>2 DEF ClientIp, Incoming
  <2>2. \A c \in IPs \ Local : sent_bytes'[c] = sent_bytes[c] /\ total_sent'[c] = total_sent[c]
    BY <1>1, <1>2, <2>1 DEF Account, AccountToClient
  <2> QED BY <2>2 DEF NothingSentByPeers
<1>3. CASE ~Incoming(p)
  BY <1>3 DEF Account, AccountToClient, NothingSentByPeers
<1> QED BY <1>2, <1>3

\* Whatever packets come, no address but the machine's own ever shows bytes sent.
THEOREM PeersNeverSend == Spec => []NothingSentByPeers
<1>1. Init => NothingSentByPeers
  BY DEF Init, NothingSentByPeers
<1>2. TypeOK /\ NothingSentByPeers /\ [Next]_vars => NothingSentByPeers'
  <2> SUFFICES ASSUME TypeOK, NothingSentByPeers, [Next]_vars PROVE NothingSentByPeers'
    OBVIOUS
  <2>1. CASE KnownClient \/ NameResolved
    <3>1. packet \in Packets /\ Account(packet)
      BY <2>1 DEF KnownClient, NameResolved, TypeOK
    <3> QED BY <3>1, AccountedToLocal
  <2>2. CASE PrintStats
    BY <2>2 DEF PrintStats, StartClientPeriods, NothingSentByPeers
  <2>3. CASE \/ OpenDevice \/ Capture \/ CaptureEnds \/ NewClient \/ OpenFails
             \/ WakeUp \/ PrintCrashes \/ Tick \/ UNCHANGED vars
    <3>1. UNCHANGED clientVars
      BY <2>3 DEF OpenDevice, Capture, CaptureEnds, NewClient, OpenFails, WakeUp,
                  PrintCrashes, Tick, vars
    <3> QED BY <3>1 DEF clientVars, NothingSentByPeers
  <2> QED BY <2>1, <2>2, <2>3 DEF Next, CaptureStep, Ended
<1> QED BY <1>1, <1>2, TypeCorrect, PTL DEF Spec

=============================================================================
