------------------------ MODULE SegmentDecoder_proofs ------------------------
(***************************************************************************)
(* Proofs of the safety properties of SegmentDecoder, for segments of any  *)
(* length and content, any outcome of the codec and any failure limit, and *)
(* of the refinement of SegmentLifecycle.                                  *)
(***************************************************************************)
EXTENDS SegmentDecoder, FiniteSetTheorems, TLAPS

\* Packets are read once: what was given or sent lies behind the read position.
Behind == \A i \in given \cup sent : i < pos

\* Each frame pays with a packet that was given and lost.
Paired ==
    /\ given \cap sent = {}
    /\ num_frames = decoded_frames
    /\ num_frames <= received_packets
    /\ pc = "decode" => num_frames < received_packets

\* ... and with one that was sent.
Counted ==
    /\ given \cup sent \subseteq Videos
    /\ received_packets <= Cardinality(given)
    /\ num_frames <= Cardinality(sent)

Inv == TypeOK /\ Paired /\ EndsForAReason /\ Behind /\ Counted

LEMMA PacketsFinite ==
    ASSUME TypeOK
    PROVE  /\ IsFiniteSet(given) /\ IsFiniteSet(sent) /\ IsFiniteSet(Videos)
           /\ Cardinality(given) \in Nat /\ Cardinality(sent) \in Nat
           /\ Cardinality(Videos) \in Nat
<1>1. Len(content) \in Nat /\ IsFiniteSet(1..Len(content))
  BY FS_Interval DEF TypeOK
<1>2. Videos \subseteq 1..Len(content) /\ given \subseteq 1..Len(content)
      /\ sent \subseteq 1..Len(content)
  BY DEF TypeOK, Videos
<1>3. IsFiniteSet(given) /\ IsFiniteSet(sent) /\ IsFiniteSet(Videos)
  BY <1>1, <1>2, FS_Subset
<1> QED BY <1>3, FS_CardinalityType

LEMMA HalfAtMost == Inv => GivenPacketsAreLost
<1> SUFFICES ASSUME Inv PROVE 2 * num_frames <= Cardinality(Videos)
  BY DEF Inv, Paired, GivenPacketsAreLost
<1>1. /\ IsFiniteSet(given) /\ IsFiniteSet(sent) /\ IsFiniteSet(Videos)
      /\ Cardinality(given) \in Nat /\ Cardinality(sent) \in Nat
      /\ Cardinality(Videos) \in Nat /\ num_frames \in Nat /\ received_packets \in Nat
  BY PacketsFinite DEF Inv, TypeOK
<1>2. given \cap sent = {} /\ Cardinality(given \cap sent) = 0
  BY FS_EmptySet DEF Inv, Paired
<1>3. Cardinality(given \cup sent) = Cardinality(given) + Cardinality(sent)
  <2>1. Cardinality(given \cup sent)
          = Cardinality(given) + Cardinality(sent) - Cardinality(given \cap sent)
    BY <1>1, FS_Union
  <2> QED BY <1>1, <1>2, <2>1
<1>4. Cardinality(given \cup sent) <= Cardinality(Videos)
  BY <1>1, FS_Subset DEF Inv, Counted
<1>5. num_frames <= Cardinality(given) /\ num_frames <= Cardinality(sent)
  BY <1>1 DEF Inv, Counted, Paired
<1> QED BY <1>1, <1>3, <1>4, <1>5

LEMMA InvInit == Init => Inv
<1> SUFFICES ASSUME Init PROVE Inv
  OBVIOUS
<1>1. content \in Seq(Kinds)
  BY ContentsAssumption DEF Init
<1>2. TypeOK
  BY <1>1, MaxFailuresAssumption DEF Init, TypeOK
<1>3. Counted
  BY FS_EmptySet DEF Init, Counted
<1> QED
  BY <1>2, <1>3, MaxFailuresAssumption DEF Init, Inv, Paired, EndsForAReason, Behind

\* A packet that is read is a new one.
LEMMA ReadNew ==
    ASSUME Inv, NEW kind \in Kinds, Read(kind)
    PROVE  /\ content' = content /\ read_errors' = read_errors
           /\ pos \in 1..Len(content) /\ pos' = pos + 1
           /\ pos' \in 1..(Len(content') + 1)
           /\ pos \notin given /\ pos \notin sent
           /\ \A i \in given \cup sent \cup {pos} : i < pos'
<1>1. Len(content) \in Nat /\ pos \in 1..(Len(content) + 1)
  BY DEF Inv, TypeOK
<1>2. \A i \in given \cup sent : i \in Nat /\ i < pos
  BY DEF Inv, TypeOK, Behind
<1> QED BY <1>1, <1>2 DEF Read

\* The packet that is read is counted with the others that were given or sent.
LEMMA OneMorePacket ==
    ASSUME Inv, Read("video")
    PROVE  /\ Cardinality(given \cup {pos}) = Cardinality(given) + 1
           /\ Cardinality(sent \cup {pos}) = Cardinality(sent) + 1
           /\ pos \in Videos /\ Videos' = Videos
<1>1. "video" \in Kinds
  BY DEF Kinds
<1>2. pos \notin given /\ pos \notin sent /\ content' = content /\ pos \in 1..Len(content)
  BY <1>1, ReadNew
<1>3. IsFiniteSet(given) /\ IsFiniteSet(sent)
  BY PacketsFinite DEF Inv
<1>4. Cardinality(given \cup {pos}) = Cardinality(given) + 1
  BY <1>2, <1>3, FS_AddElement
<1>5. Cardinality(sent \cup {pos}) = Cardinality(sent) + 1
  BY <1>2, <1>3, FS_AddElement
<1> QED BY <1>2, <1>4, <1>5 DEF Read, Videos

LEMMA CountedNext == Inv /\ [Next]_vars => Counted'
<1> SUFFICES ASSUME Inv, [Next]_vars PROVE Counted'
  OBVIOUS
<1>1. /\ Cardinality(given) \in Nat /\ Cardinality(sent) \in Nat /\ num_frames \in Nat
      /\ given \cup sent \subseteq Videos
      /\ received_packets \in Nat /\ received_packets <= Cardinality(given)
      /\ num_frames <= Cardinality(sent)
  BY PacketsFinite DEF Inv, TypeOK, Counted
<1>2. CASE DemuxVideo \/ FrameNotAllocated
  <2>1. Read("video")
    BY <1>2 DEF DemuxVideo, FrameNotAllocated
  <2>2. /\ given' = given \cup {pos} /\ sent' = sent /\ num_frames' = num_frames
        /\ received_packets' \in {received_packets, received_packets + 1}
    BY <1>2 DEF DemuxVideo, FrameNotAllocated, segmentVars
  <2> QED BY <1>1, <2>1, <2>2, OneMorePacket DEF Counted
<1>3. CASE FrameDecoded \/ PacketBuffered \/ PacketRejected
  <2>1. Read("video")
    BY <1>3 DEF FrameDecoded, PacketBuffered, PacketRejected
  <2>2. /\ sent' = sent \cup {pos} /\ given' = given /\ received_packets' = received_packets
        /\ num_frames' \in {num_frames, num_frames + 1}
    BY <1>3 DEF FrameDecoded, PacketBuffered, PacketRejected, segmentVars
  <2> QED BY <1>1, <2>1, <2>2, OneMorePacket DEF Counted
<1>4. CASE \/ DemuxOther \/ DemuxError \/ EndOfSegment \/ SkipOther \/ ReadStops
           \/ UNCHANGED vars
  <2>1. UNCHANGED <<content, given, sent, received_packets, num_frames>>
    BY <1>4 DEF DemuxOther, DemuxError, EndOfSegment, SkipOther, ReadStops, Read, ReadError,
                codecVars, segmentVars, vars
  <2>2. Videos' = Videos
    BY <2>1 DEF Videos
  <2> QED BY <1>1, <2>1, <2>2 DEF Counted
<1> QED BY <1>2, <1>3, <1>4 DEF Next, WorkerStep, DecodeNextFrame, Over

LEMMA InvNext == Inv /\ [Next]_vars => Inv'
<1> SUFFICES ASSUME Inv, [Next]_vars
             PROVE  TypeOK' /\ Paired' /\ EndsForAReason' /\ Behind'
  BY CountedNext DEF Inv
<1>0. /\ MaxFailures \in Nat
      /\ num_frames \in Nat /\ received_packets \in Nat
      /\ num_of_failed_frames_in_arrow \in Nat
      /\ "video" \in Kinds /\ "other" \in Kinds
  BY MaxFailuresAssumption DEF Inv, TypeOK, Kinds
<1>1. CASE DemuxVideo
  <2>1. Read("video")
    BY <1>1 DEF DemuxVideo
  <2> QED BY <1>0, <1>1, <2>1, ReadNew DEF DemuxVideo, segmentVars, Inv, TypeOK,
          Paired, EndsForAReason, Behind
<1>11. CASE FrameNotAllocated
  <2>1. Read("video")
    BY <1>11 DEF FrameNotAllocated
  <2> QED BY <1>0, <1>11, <2>1, ReadNew DEF FrameNotAllocated, segmentVars, Inv, TypeOK,
          Paired, EndsForAReason, Behind
<1>2. CASE DemuxOther
  <2>1. Read("other")
    BY <1>2 DEF DemuxOther
  <2> QED BY <1>0, <1>2, <2>1, ReadNew DEF DemuxOther, codecVars, segmentVars, Inv,
          TypeOK, Paired, EndsForAReason, Behind
<1>3. CASE DemuxError
  BY <1>3 DEF DemuxError, ReadError, codecVars, segmentVars, Inv, TypeOK,
     Paired, EndsForAReason, Behind
<1>4. CASE EndOfSegment
  BY <1>4 DEF EndOfSegment, SettledStatus, codecVars, Inv, TypeOK,
     Paired, EndsForAReason, Behind
<1>5. CASE SkipOther
  <2>1. Read("other")
    BY <1>5 DEF SkipOther
  <2> QED BY <1>0, <1>5, <2>1, ReadNew DEF SkipOther, codecVars, segmentVars, Inv,
          TypeOK, Paired, EndsForAReason, Behind
<1>6. CASE FrameDecoded
  <2>1. Read("video")
    BY <1>6 DEF FrameDecoded
  <2> QED BY <1>0, <1>6, <2>1, ReadNew DEF FrameDecoded, Inv, TypeOK,
          Paired, EndsForAReason, Behind
<1>7. CASE PacketBuffered
  <2>1. Read("video")
    BY <1>7 DEF PacketBuffered
  <2> QED BY <1>0, <1>7, <2>1, ReadNew DEF PacketBuffered, segmentVars, Inv, TypeOK,
          Paired, EndsForAReason, Behind
<1>8. CASE PacketRejected
  <2>1. Read("video")
    BY <1>8 DEF PacketRejected
  <2>2. num_of_failed_frames_in_arrow <= MaxFailures
    BY <1>0, <1>8 DEF PacketRejected, Inv, EndsForAReason
  <2> QED BY <1>0, <1>8, <2>1, <2>2, ReadNew DEF PacketRejected, TooManyFailures,
          segmentVars, Inv, TypeOK, Paired, EndsForAReason, Behind
<1>9. CASE ReadStops
  BY <1>9 DEF ReadStops, ReadError, codecVars, segmentVars, Inv, TypeOK,
     Paired, EndsForAReason, Behind
<1>10. CASE UNCHANGED vars
  BY <1>10 DEF vars, codecVars, segmentVars, Inv, TypeOK, Paired,
     EndsForAReason, Behind
<1> QED
  BY <1>1, <1>2, <1>3, <1>4, <1>5, <1>6, <1>7, <1>8, <1>9, <1>10, <1>11
     DEF Next, WorkerStep, DecodeNextFrame, Over

LEMMA InvHolds == Spec => []Inv
BY InvInit, InvNext, PTL DEF Spec

\* The variables of a decoder stay in their types; in particular the failure
\* counter never passes MaxFailures + 1.
THEOREM TypeCorrect == Spec => []TypeOK
<1>1. Inv => TypeOK
  BY DEF Inv
<1> QED BY <1>1, InvHolds, PTL

\* The packet decodeNextFrame is given is always lost: at most half of the video
\* packets of a segment become frames.
THEOREM GivenPacketsLost == Spec => []GivenPacketsAreLost
BY HalfAtMost, InvHolds, PTL

\* The process dies of too many failures only, the thread ends at the end of the
\* segment only.
THEOREM EndsForAReasonHolds == Spec => []EndsForAReason
<1>1. Inv => EndsForAReason
  BY DEF Inv
<1> QED BY <1>1, InvHolds, PTL

\* What is left to do: packets to read, reads that may still fail, and a call of
\* decodeNextFrame to return from.
WorkLeft ==
    2 * (Len(content) + 1 - pos) + 2 * (MaxReadErrors - read_errors)
        + (IF pc = "decode" THEN 2 ELSE IF pc = "demux" THEN 1 ELSE 0)

ErrorsBounded == read_errors \in 0..MaxReadErrors

WorkStep == WorkLeft \in Nat /\ (WorkerStep => WorkLeft' < WorkLeft)

LEMMA WorkDone ==
    ASSUME TypeOK, ErrorsBounded, WorkerStep
    PROVE  WorkLeft' < WorkLeft
<1> DEFINE n == Len(content)
<1>1. n \in Nat /\ pos \in Nat /\ read_errors \in Nat /\ MaxReadErrors \in Nat
  BY MaxReadErrorsAssumption DEF TypeOK
<1>2. Len(content') = n
  BY DEF WorkerStep, DecodeNextFrame, DemuxVideo, FrameNotAllocated, DemuxOther, DemuxError, EndOfSegment,
         SkipOther, FrameDecoded, PacketBuffered, PacketRejected, ReadStops, Read, ReadError
<1>3. CASE \/ DemuxVideo \/ FrameNotAllocated \/ DemuxOther \/ SkipOther
           \/ FrameDecoded \/ PacketBuffered \/ PacketRejected
  <2>1. pos' = pos + 1 /\ read_errors' = read_errors
    BY <1>3 DEF DemuxVideo, FrameNotAllocated, DemuxOther, SkipOther, FrameDecoded, PacketBuffered,
                PacketRejected, Read
  <2>2. pc \in {"demux", "decode"}
    BY <1>3 DEF DemuxVideo, FrameNotAllocated, DemuxOther, SkipOther, FrameDecoded, PacketBuffered,
                PacketRejected
  <2> HIDE DEF n
  <2> QED BY <1>1, <1>2, <2>1, <2>2 DEF WorkLeft, n
<1>4. CASE DemuxError
  BY <1>1, <1>2, <1>4 DEF DemuxError, ReadError, WorkLeft
<1>5. CASE EndOfSegment
  BY <1>1, <1>2, <1>5 DEF EndOfSegment, WorkLeft
<1>6. CASE ReadStops
  BY <1>1, <1>2, <1>6 DEF ReadStops, ReadError, WorkLeft
<1> QED BY <1>3, <1>4, <1>5, <1>6 DEF WorkerStep, DecodeNextFrame

\* Whatever the packets are and whatever the codec makes of them, every step of
\* the thread leaves less to do: if only finitely many reads fail, it cannot go
\* round its two loops for ever.  Settles rests on this.
THEOREM WorkShrinks == Spec => [][WorkStep]_vars
<1>1. Init => ErrorsBounded
  BY MaxReadErrorsAssumption DEF Init, ErrorsBounded
<1>2. TypeOK /\ ErrorsBounded /\ [Next]_vars => ErrorsBounded'
  BY MaxReadErrorsAssumption
     DEF ErrorsBounded, Next, WorkerStep, DecodeNextFrame, Over, DemuxVideo, FrameNotAllocated, DemuxOther,
         DemuxError, EndOfSegment, SkipOther, FrameDecoded, PacketBuffered, PacketRejected,
         ReadStops, Read, ReadError, vars
<1>3. TypeOK /\ ErrorsBounded => WorkLeft \in Nat
  BY MaxReadErrorsAssumption DEF TypeOK, ErrorsBounded, WorkLeft
<1>4. TypeOK /\ ErrorsBounded /\ [Next]_vars => [WorkStep]_vars
  BY <1>3, WorkDone DEF WorkStep
<1> QED BY <1>1, <1>2, <1>4, TypeCorrect, PTL DEF Spec

\* Packet by packet, the decoder implements the life of a segment.
THEOREM LifecycleRefined == Spec => ImplementsLifecycle
<1>1. Init => Lifecycle!Init
  BY DEF Init, Lifecycle!Init
<1>2. Inv /\ [Next]_vars => [Lifecycle!Next]_(Lifecycle!vars)
  BY DEF Inv, EndsForAReason, Next, WorkerStep, DecodeNextFrame, Over, DemuxVideo,
     FrameNotAllocated, DemuxOther, DemuxError, EndOfSegment, SettledStatus, SkipOther, FrameDecoded,
     PacketBuffered, PacketRejected, ReadStops, vars, segmentVars,
     Lifecycle!Next, Lifecycle!AddFrame, Lifecycle!Settle, Lifecycle!vars
<1> QED BY <1>1, <1>2, InvHolds, PTL DEF Spec, ImplementsLifecycle, Lifecycle!Spec
=============================================================================
