------------------------- MODULE HlsPlayback_proofs -------------------------
(***************************************************************************)
(* Proofs of the safety properties of HlsPlayback, for every heap, every   *)
(* number of segments and all declared durations.  The invariants are      *)
(* proved in layers, each relative to the ones before it.                  *)
(***************************************************************************)
EXTENDS HlsPlayback, ArithmeticLemmas, TLAPS

-----------------------------------------------------------------------------
(* Types. *)

\* What the types of the steps rest on: parse() has a current segment exactly
\* while it runs, main prints a segment it still holds, and its loops over the
\* list start at the first segment.
ThreadInv ==
    /\ currentSegment = None <=> ppc = "fetch"
    /\ mpc = "print" => copied # <<>>
    /\ mpc \in {"running_time", "add_decoded"} => cursor # 0

TypeInv == TypeOK /\ ThreadInv

\* A playlist is a sequence of sequence numbers and malformed entries.
LEMMA PlaylistsType == Playlists \subseteq Seq(SeqNos \cup {Malformed})
<1> SUFFICES ASSUME NEW lo \in SeqNos, NEW hi \in -1..MaxSeq,
                    NEW tail \in {<<>>, <<Malformed>>}
             PROVE  Window(lo, hi) \o tail \in Seq(SeqNos \cup {Malformed})
  BY DEF Playlists
<1> DEFINE n == IF hi - lo + 1 > 0 THEN hi - lo + 1 ELSE 0
<1>1. /\ n \in Nat
      /\ 1..(hi - lo + 1) = 1..n
  BY MaxSeqAssumption DEF SeqNos
<1>2. \A i \in 1..n : lo + i - 1 \in SeqNos
  BY <1>1, MaxSeqAssumption DEF SeqNos
<1>3. Window(lo, hi) \in [1..n -> SeqNos \cup {Malformed}]
  BY <1>1, <1>2 DEF Window
<1>4. Window(lo, hi) \in Seq(SeqNos \cup {Malformed})
  BY <1>1, <1>3
<1>5. tail \in Seq(SeqNos \cup {Malformed})
  <2>1. CASE tail = <<>>
    BY <2>1
  <2>2. CASE tail = <<Malformed>>
    BY <2>2
  <2> QED BY <2>1, <2>2
<1> QED BY <1>4, <1>5

LEMMA TypeInvInit == Init => TypeInv
<1> SUFFICES ASSUME Init PROVE TypeInv
  OBVIOUS
<1> USE DEF Init
<1>1. /\ segments \in Seq(Handles)
      /\ segments_decoders \in Seq(Handles)
      /\ manifest \in Seq(SeqNos \cup {Malformed})
      /\ copied \in Seq(Handles)
  OBVIOUS
<1>2. /\ sequence_number \in [Handles -> SeqNos \cup {-1}]
      /\ declared_duration \in [Handles -> Int]
      /\ num_frames \in [Handles -> Nat]
      /\ decode_duration \in [Handles -> Int]
      /\ decode_time \in [Handles -> Int]
      /\ declared_time \in [Handles -> Int]
      /\ Len(segments) = 0 /\ cursor = 0 /\ runtime_base = 0
  OBVIOUS
<1>3. /\ status \in [Handles -> Statuses]
      /\ printed \in [Handles -> BOOLEAN]
      /\ worker \in [Handles -> {"none", "decoding", "ended"}]
  BY DEF Statuses
<1>4. /\ dataMutex = "free" /\ crashed \in BOOLEAN
      /\ ppc = "fetch" /\ mpc = "sleep" /\ currentSegment = None
  OBVIOUS
<1> QED BY <1>1, <1>2, <1>3, <1>4 DEF TypeInv, TypeOK, ThreadInv

\* A new segment is an object nobody holds, with the fields of the constructor.
LEMMA NewSegmentType ==
    ASSUME TypeInv, NewSegment
    PROVE  /\ currentSegment' \in Unused
           /\ currentSegment' \in Handles /\ currentSegment' # None
           /\ currentSegment' \notin Listed
           /\ sequence_number' \in [Handles -> SeqNos \cup {-1}]
           /\ declared_duration' \in [Handles -> Int]
           /\ status' \in [Handles -> Statuses]
           /\ num_frames' \in [Handles -> Nat]
           /\ decode_duration' \in [Handles -> Int]
           /\ printed' \in [Handles -> BOOLEAN]
<1> USE DEF TypeInv, TypeOK
<1>1. currentSegment' \in Unused
  BY DEF NewSegment
<1>2. /\ currentSegment' \in Handles /\ currentSegment' # None
      /\ currentSegment' \notin Listed
  BY <1>1, NoneAssumption DEF Unused
<1> QED BY <1>1, <1>2 DEF NewSegment, Statuses

LEMMA TypeInvNext == TypeInv /\ [Next]_vars => TypeInv'
<1> SUFFICES ASSUME TypeInv, [Next]_vars
             PROVE  TypeInv'
  OBVIOUS
<1>0. /\ segments \in Seq(Handles)
      /\ cursor \in 0..(Len(segments) + 1)
      /\ runtime_base \in 0..Len(segments)
  BY DEF TypeInv, TypeOK
<1>a. /\ Len(segments) \in Nat
      /\ \A i \in 1..Len(segments) : segments[i] \in Handles
      /\ cursor \in Nat /\ cursor <= Len(segments) + 1
      /\ runtime_base \in Nat /\ runtime_base <= Len(segments)
  BY <1>0
<1> USE DEF TypeInv, TypeOK, ThreadInv
<1>1. CASE FetchManifest
  <2>1. manifest' \in Seq(SeqNos \cup {Malformed})
    BY <1>1, PlaylistsType DEF FetchManifest
  <2>2. NewSegment
    BY <1>1 DEF FetchManifest
  <2> QED BY <1>1, <2>1, <2>2, NewSegmentType DEF FetchManifest, mainVars
<1>2. CASE ReadEntry
  <2>1. Head(manifest) \in SeqNos /\ Tail(manifest) \in Seq(SeqNos \cup {Malformed})
    BY <1>2 DEF ReadEntry
  <2>2. Declared[Head(manifest)] \in Int
    BY <2>1, DeclaredAssumption
  <2> QED BY <1>2, <2>1, <2>2 DEF ReadEntry, mainVars
<1>3. CASE ReadMalformedEntry
  <2>1. manifest' \in Seq(SeqNos \cup {Malformed})
    BY <1>3 DEF ReadMalformedEntry, LeaveParse
  <2>2. declared_duration' \in [Handles -> Int]
    <3>1. currentSegment \in Handles
      BY <1>3 DEF ReadMalformedEntry
    <3>2. \A n \in SeqNos : Declared[n] \in Int
      BY DeclaredAssumption
    <3> QED BY <1>3, <3>1, <3>2 DEF ReadMalformedEntry
  <2> QED BY <1>3, <2>1, <2>2 DEF ReadMalformedEntry, LeaveParse, mainVars
<1>4. CASE EndOfManifest
  <2>1. manifest' \in Seq(SeqNos \cup {Malformed})
    BY <1>4 DEF EndOfManifest, LeaveParse
  <2> QED BY <1>4, <2>1 DEF EndOfManifest, LeaveParse, segmentVars, mainVars
<1>5. CASE ListSegment
  <2>1. /\ currentSegment \in Handles
        /\ segments' = Append(segments, currentSegment)
        /\ dataMutex' = "parser" /\ ppc' = "open"
    BY <1>5 DEF ListSegment
  <2>2. /\ segments' \in Seq(Handles)
        /\ Len(segments) \in Nat /\ Len(segments') = Len(segments) + 1
    BY <2>1
  <2>3. UNCHANGED <<segments_decoders, manifest, currentSegment, segmentVars,
                    worker, mainVars, crashed>>
    BY <1>5 DEF ListSegment
  <2>6. /\ cursor \in 0..(Len(segments') + 1)
        /\ runtime_base \in 0..Len(segments')
    <3> HIDE DEF TypeInv
    <3> QED BY <1>a, <2>2
  <2>4. TypeOK'
    BY <2>1, <2>2, <2>3, <2>6 DEF segmentVars, mainVars
  <2>5. ThreadInv'
    BY <2>1, <2>3, NoneAssumption DEF mainVars
  <2> QED BY <2>4, <2>5
<1>6. CASE SkipSegment
  BY <1>6 DEF SkipSegment, segmentVars, mainVars
<1>7. CASE OpenDecoder
  BY <1>7 DEF OpenDecoder, segmentVars, mainVars
<1>8. CASE OpenFails
  <2>1. manifest' \in Seq(SeqNos \cup {Malformed})
    BY <1>8 DEF OpenFails, LeaveParse
  <2> QED BY <1>8, <2>1 DEF OpenFails, LeaveParse, segmentVars, mainVars
<1>9. CASE RegisterDecoder
  <2>1. NewSegment
    BY <1>9 DEF RegisterDecoder
  <2>2. segments_decoders' \in Seq(Handles)
    BY <1>9 DEF RegisterDecoder
  <2> QED BY <1>9, <2>1, <2>2, NewSegmentType DEF RegisterDecoder, mainVars
<1>10. ASSUME NEW h \in Handles, WorkerStep(h) \/ WorkerThrows(h)
       PROVE  TypeInv'
  <2>1. CASE DecodeFrame(h)
    <3>1. num_frames' \in [Handles -> Nat]
      <4>1. num_frames \in [Handles -> Nat]
        OBVIOUS
      <4>2. num_frames' = [num_frames EXCEPT ![h] = num_frames[h] + 1]
        BY <2>1 DEF DecodeFrame
      <4> HIDE DEF TypeInv
      <4>3. num_frames[h] + 1 \in Nat
        BY <4>1
      <4> QED BY <4>1, <4>2, <4>3
    <3>2. decode_duration' \in [Handles -> Int]
      <4>1. decode_duration[h] \in Int
        OBVIOUS
      <4>2. PICK d \in IF num_frames[h] = 0 THEN {0}
                       ELSE Durations \cup {decode_duration[h]} :
              decode_duration' = [decode_duration EXCEPT ![h] = d]
        BY <2>1 DEF DecodeFrame
      <4>3. d \in Int
        BY <4>1, <4>2, DurationsAssumption
      <4> QED BY <4>2, <4>3
    <3> QED BY <2>1, <3>1, <3>2 DEF DecodeFrame, parserVars, mainVars
  <2>2. CASE FinishSegment(h)
    BY <2>2 DEF FinishSegment, SettledStatus, Statuses, parserVars, mainVars
  <2>3. CASE WorkerThrows(h)
    BY <2>3 DEF WorkerThrows, parserVars, segmentVars, mainVars
  <2> QED BY <1>10, <2>1, <2>2, <2>3 DEF WorkerStep
<1>11. CASE GetSegments
  BY <1>11 DEF GetSegments, parserVars, segmentVars
<1>12. CASE InspectSegment
  <2>1. copied' \in Seq(Handles) /\ (mpc' = "print" => copied' # <<>>)
    <3>1. copied # <<>> /\ copied \in Seq(Handles) /\ Tail(copied) \in Seq(Handles)
      BY <1>12 DEF InspectSegment
    <3>2. \/ mpc' = "print" /\ copied' = copied
          \/ mpc' = "inspect" /\ copied' = Tail(copied)
      BY <1>12 DEF InspectSegment, Rest
    <3> QED BY <3>1, <3>2
  <2>2. mpc' \in {"inspect", "print"}
    BY <1>12 DEF InspectSegment
  <2> QED BY <1>12, <2>1, <2>2 DEF InspectSegment, parserVars, segmentVars
<1>13. CASE PrintSegment
  <2>1. copied' \in Seq(Handles) /\ mpc' = "inspect"
    BY <1>13 DEF PrintSegment
  <2>2. printed' \in [Handles -> BOOLEAN]
    BY <1>13 DEF PrintSegment
  <2> QED BY <1>13, <2>1, <2>2 DEF PrintSegment, parserVars
<1>14. CASE EnterRunningTime \/ EnterDecodeTime
  <2>1. /\ dataMutex' = "main" /\ cursor' = 1
        /\ mpc' \in {"running_time", "add_decoded"}
        /\ UNCHANGED <<segments, runtime_base>>
    BY <1>14 DEF EnterRunningTime, EnterDecodeTime, Lock
  <2>2. cursor' \in 0..(Len(segments') + 1) /\ runtime_base' \in 0..Len(segments')
    <3> HIDE DEF TypeInv
    <3> QED BY <1>a, <2>1
  <2>3. UNCHANGED <<segments, segments_decoders, ppc, manifest, currentSegment,
                    segmentVars, worker, copied, runtime_base, decode_time,
                    declared_time, crashed>>
    BY <1>14 DEF EnterRunningTime, EnterDecodeTime
  <2>4. TypeOK'
    BY <2>1, <2>2, <2>3 DEF segmentVars
  <2>5. ThreadInv'
    BY <2>1, <2>3
  <2> QED BY <2>4, <2>5
<1>15. CASE GetTotalRunningTime
  <2>1. /\ dataMutex' \in {dataMutex, "free"}
        /\ \/ cursor <= Len(segments) /\ cursor' = cursor + 1 /\ mpc' = mpc
           \/ cursor' = 0 /\ mpc' = "decode_time"
        /\ \/ runtime_base' = runtime_base
           \/ cursor <= Len(segments) /\ runtime_base' = cursor
           \/ runtime_base' = 0
        /\ segments' = segments
    BY <1>15 DEF GetTotalRunningTime, Unlock, NoRuntime
  <2>2. cursor' \in 0..(Len(segments') + 1) /\ runtime_base' \in 0..Len(segments')
    <3> HIDE DEF TypeInv
    <3> QED BY <1>a, <2>1
  <2>3. cursor' = cursor + 1 => cursor' # 0
    OBVIOUS
  <2> QED BY <1>15, <2>1, <2>2, <2>3 DEF GetTotalRunningTime, segmentVars
<1>16. CASE GetTotalDecodeTime
  <2>1. /\ dataMutex' \in {dataMutex, "free"} /\ mpc = "add_decoded"
        /\ \/ /\ cursor <= Len(segments) /\ cursor' = cursor + 1 /\ mpc' = mpc
              /\ decode_time' =
                   [decode_time EXCEPT ![Current] = decode_duration[Current]]
           \/ cursor' = 0 /\ mpc' = "declared_time" /\ decode_time' = decode_time
        /\ segments' = segments /\ runtime_base' = runtime_base
    BY <1>16 DEF GetTotalDecodeTime, Unlock
  <2>2. cursor' \in 0..(Len(segments') + 1) /\ (cursor' = cursor + 1 => cursor' # 0)
    <3> HIDE DEF TypeInv
    <3> QED BY <1>a, <2>1
  <2>3. decode_time' \in [Handles -> Int]
    <3>1. cursor <= Len(segments) => Current \in Handles
      <4>1. cursor \in Nat /\ cursor # 0
        BY <2>1, <1>a
      <4> QED BY <1>a, <4>1 DEF Current
    <3>2. cursor <= Len(segments) => decode_duration[Current] \in Int
      BY <3>1
    <3> HIDE DEF TypeInv
    <3>3. decode_time \in [Handles -> Int]
      BY DEF TypeInv
    <3> QED BY <2>1, <3>1, <3>2, <3>3
  <2> QED BY <1>16, <2>1, <2>2, <2>3 DEF GetTotalDecodeTime, segmentVars
<1>17. CASE GetTotalDeclaredTime
  BY <1>17 DEF GetTotalDeclaredTime, DeclaredTime, parserVars, segmentVars
<1>19. CASE WaitForSegments \/ LatencyCheck \/ WarnMismatch
  <2>1. /\ mpc' \in {"sleep", "warn"}
        /\ decode_time' \in [Handles -> Int] /\ declared_time' \in [Handles -> Int]
    <3>1. \/ NextIteration
          \/ mpc' = "warn" /\ decode_time' = decode_time /\ declared_time' = declared_time
      BY <1>19 DEF WaitForSegments, LatencyCheck, WarnMismatch
    <3>2. CASE NextIteration
      BY <3>2 DEF NextIteration
    <3>3. CASE mpc' = "warn" /\ decode_time' = decode_time /\ declared_time' = declared_time
      BY <3>3
    <3> QED BY <3>1, <3>2, <3>3
  <2>2. UNCHANGED <<parserVars, segmentVars, worker, copied, cursor, runtime_base, crashed>>
    BY <1>19 DEF WaitForSegments, LatencyCheck, WarnMismatch
  <2> QED BY <2>1, <2>2 DEF parserVars, segmentVars
<1>18. CASE UNCHANGED vars
  BY <1>18 DEF vars, parserVars, segmentVars, mainVars
<1> QED
  BY <1>1, <1>2, <1>3, <1>4, <1>5, <1>6, <1>7, <1>8, <1>9, <1>10, <1>11, <1>12,
     <1>13, <1>14, <1>15, <1>16, <1>17, <1>18, <1>19
     DEF Next, ParserStep, MainStep, Terminated

\* Every variable of the verifier stays in its type.
THEOREM TypeCorrect == Spec => []TypeOK
<1>1. TypeInv => TypeOK
  BY DEF TypeInv
<1> QED BY <1>1, TypeInvInit, TypeInvNext, PTL DEF Spec

-----------------------------------------------------------------------------
(* What parse() holds. *)

\* Where a thread is says whether it holds dataMutex.
MutexInv ==
    /\ dataMutex = "parser" <=> ppc \in {"open", "register"}
    /\ dataMutex = "main" <=> mpc \in {"running_time", "add_decoded"}

\* parse() writes only to an object it has not listed, and opens the decoder of
\* the segment it listed last, under dataMutex.
CurrentInv ==
    /\ MutexInv
    /\ ppc \in {"parse", "list"} => currentSegment \notin Listed
    /\ ppc \in {"open", "register"} =>
         segments # <<>> /\ currentSegment = Last(segments)

\* Only the parser thread changes the list and what parse() writes.
LEMMA OtherThreads ==
    ASSUME [Next]_vars, ~ParserStep
    PROVE  UNCHANGED <<segments, segments_decoders, ppc, manifest, currentSegment,
                       sequence_number, declared_duration>>
<1>1. ASSUME NEW h \in Handles, WorkerStep(h) \/ WorkerThrows(h)
      PROVE  UNCHANGED <<parserVars, sequence_number, declared_duration>>
  BY <1>1 DEF WorkerStep, DecodeFrame, FinishSegment, WorkerThrows, segmentVars
<1>2. CASE MainStep
  BY <1>2 DEF MainStep, GetSegments, InspectSegment, PrintSegment, EnterRunningTime,
     GetTotalRunningTime, EnterDecodeTime, GetTotalDecodeTime, GetTotalDeclaredTime,
     WaitForSegments, LatencyCheck, WarnMismatch, parserVars, segmentVars
<1>3. CASE UNCHANGED vars
  BY <1>3 DEF vars, parserVars, segmentVars
<1> QED BY <1>1, <1>2, <1>3 DEF Next, Terminated, parserVars

\* What main does to the segments: print() sets a flag.
LEMMA MainKeeps ==
    ASSUME MainStep \/ UNCHANGED vars
    PROVE  /\ UNCHANGED <<segments, segments_decoders, ppc, currentSegment, worker,
                          status, num_frames, decode_duration, declared_duration>>
           /\ ~PrintSegment => printed' = printed
<1>1. CASE MainStep
  BY <1>1 DEF MainStep, GetSegments, InspectSegment, PrintSegment, EnterRunningTime,
     GetTotalRunningTime, EnterDecodeTime, GetTotalDecodeTime, GetTotalDeclaredTime,
     WaitForSegments, LatencyCheck, WarnMismatch, parserVars, segmentVars
<1>2. CASE UNCHANGED vars
  BY <1>2 DEF vars, parserVars, segmentVars
<1> QED BY <1>1, <1>2

LEMMA MutexInvNext == MutexInv /\ [Next]_vars => MutexInv'
<1> SUFFICES ASSUME MutexInv, [Next]_vars
             PROVE  MutexInv'
  OBVIOUS
<1> USE DEF MutexInv
<1>1. CASE ParserStep
  <2>1. /\ mpc' = mpc
        /\ \/ /\ dataMutex' = dataMutex
              /\ ppc \in {"open", "register"} <=> ppc' \in {"open", "register"}
           \/ dataMutex = "free" /\ dataMutex' = "parser" /\ ppc' = "open"
           \/ ppc \in {"open", "register"} /\ dataMutex' = "free"
              /\ ppc' \in {"fetch", "parse"}
    <3>1. CASE FetchManifest \/ ReadEntry \/ ReadMalformedEntry \/ EndOfManifest
               \/ SkipSegment
      BY <3>1 DEF FetchManifest, ReadEntry, ReadMalformedEntry, EndOfManifest,
         SkipSegment, LeaveParse, mainVars
    <3>2. CASE ListSegment \/ OpenDecoder
      BY <3>2 DEF ListSegment, OpenDecoder, mainVars
    <3>3. CASE OpenFails \/ RegisterDecoder
      BY <3>3 DEF OpenFails, RegisterDecoder, LeaveParse, mainVars
    <3> QED BY <1>1, <3>1, <3>2, <3>3 DEF ParserStep
  <2>2. CASE /\ dataMutex' = dataMutex /\ mpc' = mpc
             /\ ppc \in {"open", "register"} <=> ppc' \in {"open", "register"}
    BY <2>2
  <2>3. CASE /\ dataMutex = "free" /\ dataMutex' = "parser" /\ ppc' = "open"
             /\ mpc' = mpc
    BY <2>3
  <2>4. CASE /\ ppc \in {"open", "register"} /\ dataMutex' = "free"
             /\ ppc' \in {"fetch", "parse"} /\ mpc' = mpc
    <3>1. dataMutex = "parser"
      BY <2>4
    <3> QED BY <2>4, <3>1
  <2> QED BY <2>1, <2>2, <2>3, <2>4
<1>2. ASSUME NEW h \in Handles, WorkerStep(h) \/ WorkerThrows(h)
      PROVE  MutexInv'
  BY <1>2 DEF WorkerStep, DecodeFrame, FinishSegment, WorkerThrows, parserVars, mainVars
<1>3. CASE MainStep
  <2>1. CASE GetSegments \/ InspectSegment \/ PrintSegment
    BY <2>1 DEF GetSegments, InspectSegment, PrintSegment, parserVars
  <2>2. CASE EnterRunningTime \/ EnterDecodeTime
    BY <2>2 DEF EnterRunningTime, EnterDecodeTime, Lock
  <2>3. CASE GetTotalRunningTime \/ GetTotalDecodeTime
    BY <2>3 DEF GetTotalRunningTime, GetTotalDecodeTime, Unlock
  <2>4. CASE GetTotalDeclaredTime \/ WaitForSegments \/ LatencyCheck \/ WarnMismatch
    BY <2>4 DEF GetTotalDeclaredTime, WaitForSegments, LatencyCheck, WarnMismatch,
       NextIteration, parserVars
  <2> QED BY <1>3, <2>1, <2>2, <2>3, <2>4 DEF MainStep
<1>4. CASE UNCHANGED vars
  BY <1>4 DEF vars, parserVars, mainVars
<1> QED BY <1>1, <1>2, <1>3, <1>4 DEF Next, Terminated

\* The positions and members of the list.
LEMMA ListedMembers ==
    ASSUME TypeInv
    PROVE  /\ Listed \subseteq Handles
           /\ \A i \in 1..Len(segments) : segments[i] \in Listed
           /\ segments # <<>> => Last(segments) \in Listed
<1>1. segments \in Seq(Handles)
  BY DEF TypeInv, TypeOK
<1>2. /\ \A i \in 1..Len(segments) : segments[i] \in Handles
      /\ DOMAIN segments = 1..Len(segments)
      /\ segments # <<>> => Len(segments) \in 1..Len(segments)
  BY <1>1
<1>3. Listed = {segments[i] : i \in 1..Len(segments)}
  BY <1>2 DEF Listed, Range
<1> QED BY <1>2, <1>3 DEF Last

LEMMA CurrentInvNext == TypeInv /\ CurrentInv /\ [Next]_vars => CurrentInv'
<1> SUFFICES ASSUME TypeInv, CurrentInv, [Next]_vars
             PROVE  CurrentInv'
  OBVIOUS
<1>0. MutexInv /\ MutexInv'
  BY MutexInvNext DEF CurrentInv
<1>1. CASE FetchManifest
  BY <1>0, <1>1, NewSegmentType DEF FetchManifest, CurrentInv, Listed
<1>2. CASE ReadEntry
  BY <1>0, <1>2 DEF ReadEntry, CurrentInv, Listed
<1>3. CASE ReadMalformedEntry \/ EndOfManifest
  BY <1>0, <1>3 DEF ReadMalformedEntry, EndOfManifest, LeaveParse, CurrentInv
<1>4. CASE ListSegment
  <2>1. segments' # <<>> /\ Last(segments') = currentSegment
    <3>1. segments \in Seq(Handles) /\ currentSegment \in Handles
      BY <1>0, <1>4 DEF ListSegment, TypeInv, TypeOK, ThreadInv
    <3>2. segments' = Append(segments, currentSegment)
      BY <1>0, <1>4 DEF ListSegment
    <3> QED BY <3>1, <3>2 DEF Last
  <2> QED BY <1>0, <1>4, <2>1 DEF ListSegment, CurrentInv
<1>5. CASE SkipSegment
  BY <1>0, <1>5 DEF SkipSegment, CurrentInv, Listed
<1>6. CASE OpenDecoder
  BY <1>0, <1>6 DEF OpenDecoder, CurrentInv
<1>7. CASE OpenFails
  BY <1>0, <1>7 DEF OpenFails, LeaveParse, CurrentInv
<1>8. CASE RegisterDecoder
  BY <1>0, <1>8, NewSegmentType DEF RegisterDecoder, CurrentInv, Listed
<1>9. CASE ~ParserStep
  BY <1>0, <1>9, OtherThreads DEF CurrentInv, Listed
<1> QED
  BY <1>1, <1>2, <1>3, <1>4, <1>5, <1>6, <1>7, <1>8, <1>9 DEF ParserStep

THEOREM CurrentSegment == Spec => [](TypeInv /\ CurrentInv)
<1>1. Init => CurrentInv
  BY DEF Init, CurrentInv, MutexInv
<1> QED BY <1>1, TypeInvInit, TypeInvNext, CurrentInvNext, PTL DEF Spec

-----------------------------------------------------------------------------
(* The list. *)

\* What a step does to the list and to the segments in it.
LEMMA ListedStep ==
    ASSUME TypeInv, CurrentInv, [Next]_vars
    PROVE  /\ \/ segments' = segments
              \/ ListSegment
           /\ \A h \in Listed : /\ sequence_number'[h] = sequence_number[h]
                               /\ declared_duration'[h] = declared_duration[h]
<1> USE ListedMembers
<1>1. ASSUME NewSegment
      PROVE  \A h \in Listed : /\ sequence_number'[h] = sequence_number[h]
                             /\ declared_duration'[h] = declared_duration[h]
  BY <1>1, NewSegmentType DEF NewSegment, TypeInv, TypeOK
<1>2. CASE FetchManifest
  BY <1>1, <1>2 DEF FetchManifest
<1>3. CASE ReadEntry
  BY <1>3 DEF ReadEntry, TypeInv, TypeOK, CurrentInv
<1>4. CASE ReadMalformedEntry \/ EndOfManifest
  BY <1>4 DEF ReadMalformedEntry, EndOfManifest, segmentVars, TypeInv, TypeOK,
     CurrentInv
<1>5. CASE ListSegment
  BY <1>5 DEF ListSegment, segmentVars
<1>6. CASE SkipSegment \/ OpenDecoder \/ OpenFails
  BY <1>6 DEF SkipSegment, OpenDecoder, OpenFails, segmentVars
<1>7. CASE RegisterDecoder
  BY <1>1, <1>7 DEF RegisterDecoder
<1>8. CASE ~ParserStep
  BY <1>8, OtherThreads
<1> QED BY <1>2, <1>3, <1>4, <1>5, <1>6, <1>7, <1>8 DEF ParserStep

\* A listed segment is never written by parse() again and the list only grows.
THEOREM ListedFrozen == Spec => ListedSegmentsAreFrozen
<1>1. TypeInv /\ CurrentInv /\ [Next]_vars => [ListedFrozenStep]_vars
  <2> SUFFICES ASSUME TypeInv, CurrentInv, [Next]_vars
               PROVE  ListedFrozenStep
    OBVIOUS
  <2>1. segments \in Seq(Handles) /\ (ppc = "list" => currentSegment \in Handles)
    BY DEF TypeInv, TypeOK, ThreadInv
  <2>2. segments' = segments \/ ListSegment
    BY ListedStep
  <2>3. \/ segments' = segments
        \/ currentSegment \in Handles /\ segments' = Append(segments, currentSegment)
    BY <2>1, <2>2 DEF ListSegment
  <2>4. IsPrefix(segments, segments')
    BY <2>1, <2>3 DEF IsPrefix
  <2> QED BY <2>4, ListedStep DEF ListedFrozenStep
<1> QED BY <1>1, CurrentSegment, PTL DEF Spec, ListedSegmentsAreFrozen

LEMMA SequenceOrderNext ==
    TypeInv /\ CurrentInv /\ SequenceOrder /\ [Next]_vars => SequenceOrder'
<1> SUFFICES ASSUME TypeInv, CurrentInv, SequenceOrder, [Next]_vars
             PROVE  SequenceOrder'
  OBVIOUS
<1>1. CASE segments' = segments
  BY <1>1, ListedStep, ListedMembers DEF SequenceOrder
<1>2. CASE ListSegment
  <2>0. \A h \in Handles : sequence_number[h] \in Int
    <3>1. \A x \in SeqNos \cup {-1} : x \in Int
      BY MaxSeqAssumption DEF SeqNos
    <3>2. \A h \in Handles : sequence_number[h] \in SeqNos \cup {-1}
      BY DEF TypeInv, TypeOK
    <3> QED BY <3>1, <3>2
  <2>1. /\ segments \in Seq(Handles) /\ currentSegment \in Handles
    BY <1>2 DEF ListSegment, TypeInv, TypeOK, ThreadInv
  <2>2. /\ segments' = Append(segments, currentSegment)
        /\ sequence_number' = sequence_number
        /\ LastSequenceNumber < sequence_number[currentSegment]
    BY <1>2 DEF ListSegment, segmentVars
  <2>3. ASSUME NEW i \in 1..Len(segments)
        PROVE  sequence_number[segments[i]] < sequence_number[currentSegment]
    <3>1. segments # <<>> /\ Len(segments) \in 1..Len(segments)
      BY <2>1
    <3>2. sequence_number[segments[Len(segments)]] < sequence_number[currentSegment]
      BY <2>2, <3>1 DEF LastSequenceNumber, Last
    <3>3. CASE i = Len(segments)
      BY <3>2, <3>3
    <3>4. CASE i < Len(segments)
      <4>1. sequence_number[segments[i]] < sequence_number[segments[Len(segments)]]
        BY <3>1, <3>4 DEF SequenceOrder
      <4>2. \A j \in 1..Len(segments) : sequence_number[segments[j]] \in Int
        <5>1. \A j \in 1..Len(segments) : segments[j] \in Handles
          BY <2>1
        <5> QED BY <5>1, <2>0
      <4>3. sequence_number[currentSegment] \in Int
        BY <2>0, <2>1
      <4> QED BY <3>1, <3>2, <4>1, <4>2, <4>3
    <3> QED BY <2>1, <3>3, <3>4
  <2> SUFFICES ASSUME NEW i \in 1..Len(segments'), NEW j \in 1..Len(segments'), i < j
               PROVE  sequence_number[segments'[i]] < sequence_number[segments'[j]]
    BY <2>2 DEF SequenceOrder
  <2>4. i \in 1..Len(segments) /\ segments'[i] = segments[i]
    BY <2>1, <2>2
  <2>5. CASE j \in 1..Len(segments)
    <3>1. segments'[j] = segments[j]
      BY <2>1, <2>2, <2>5
    <3> QED BY <2>4, <2>5, <3>1 DEF SequenceOrder
  <2>6. CASE j = Len(segments) + 1
    <3>1. segments'[j] = currentSegment
      BY <2>1, <2>2, <2>6
    <3> QED BY <2>3, <2>4, <3>1
  <2> QED BY <2>1, <2>2, <2>5, <2>6
<1> QED BY <1>1, <1>2, ListedStep

\* The listed segments have strictly increasing sequence numbers.
THEOREM SequenceOrderHolds == Spec => []SequenceOrder
<1>1. Init => SequenceOrder
  BY DEF Init, SequenceOrder
<1> QED BY <1>1, CurrentSegment, SequenceOrderNext, PTL DEF Spec

-----------------------------------------------------------------------------
(* Decoders and their segments. *)

\* The segment being opened has no decoder yet: without this the registration
\* could not be shown to keep the decoders distinct.
OwnershipInv ==
    /\ DecoderOwnership
    /\ ppc \in {"open", "register"} => currentSegment \notin Range(segments_decoders)

\* Appending to a sequence adds one element to its range.
LEMMA RangeAppend ==
    ASSUME NEW S, NEW s \in Seq(S), NEW x \in S
    PROVE  /\ Range(Append(s, x)) = Range(s) \cup {x}
           /\ IsInjective(s) /\ x \notin Range(s) => IsInjective(Append(s, x))
<1>1. /\ DOMAIN s = 1..Len(s) /\ Len(s) \in Nat
      /\ DOMAIN Append(s, x) = 1..(Len(s) + 1)
      /\ \A i \in 1..Len(s) : Append(s, x)[i] = s[i]
      /\ Append(s, x)[Len(s) + 1] = x
  OBVIOUS
<1>2. 1..(Len(s) + 1) = 1..Len(s) \cup {Len(s) + 1}
  BY <1>1
<1>3. Range(Append(s, x)) = Range(s) \cup {x}
  BY <1>1, <1>2 DEF Range
<1>4. ASSUME IsInjective(s), x \notin Range(s)
      PROVE  IsInjective(Append(s, x))
  <2>1. \A i \in 1..Len(s) : s[i] # x
    BY <1>1, <1>4 DEF Range
  <2>2. \A i, j \in 1..Len(s) : s[i] = s[j] => i = j
    BY <1>1, <1>4 DEF IsInjective
  <2> QED BY <1>1, <1>2, <2>1, <2>2 DEF IsInjective
<1> QED BY <1>3, <1>4

\* A segment object that is allocated was not held by any decoder.
LEMMA NewSegmentUnowned ==
    ASSUME TypeInv, CurrentInv, OwnershipInv, NewSegment
    PROVE  worker[currentSegment'] = "none"
<1>1. /\ currentSegment' \in Handles
      /\ currentSegment' \notin Listed
      /\ currentSegment' # currentSegment
  BY NewSegmentType DEF Unused
<1> QED BY <1>1 DEF OwnershipInv, DecoderOwnership

LEMMA OwnershipInvNext ==
    TypeInv /\ CurrentInv /\ OwnershipInv /\ [Next]_vars => OwnershipInv'
<1> SUFFICES ASSUME TypeInv, CurrentInv, OwnershipInv, [Next]_vars
             PROVE  OwnershipInv'
  OBVIOUS
<1>0. MutexInv'
  BY MutexInvNext DEF CurrentInv
<1>1. CASE FetchManifest
  <2>1. /\ currentSegment' \in Handles /\ worker[currentSegment'] = "none"
        /\ status' = [status EXCEPT ![currentSegment'] = "IN_PROGRESS"]
        /\ num_frames' = [num_frames EXCEPT ![currentSegment'] = 0]
        /\ status \in [Handles -> Statuses] /\ num_frames \in [Handles -> Nat]
    BY <1>1, NewSegmentType, NewSegmentUnowned DEF FetchManifest, NewSegment, TypeInv, TypeOK
  <2>2. /\ UNCHANGED <<segments, segments_decoders, worker>>
        /\ ppc = "fetch" /\ ppc' = "parse"
    BY <1>1 DEF FetchManifest
  <2> QED BY <1>0, <2>1, <2>2 DEF OwnershipInv, DecoderOwnership, MutexInv, Listed
<1>2. CASE ReadEntry
  BY <1>0, <1>2 DEF ReadEntry, OwnershipInv, DecoderOwnership, MutexInv, Listed
<1>3. CASE ReadMalformedEntry \/ EndOfManifest \/ SkipSegment
  BY <1>0, <1>3 DEF ReadMalformedEntry, EndOfManifest, SkipSegment, LeaveParse,
     segmentVars, OwnershipInv, DecoderOwnership, MutexInv, Listed
<1>4. CASE ListSegment
  <2>1. /\ ppc = "list" /\ ppc' = "open"
        /\ segments' = Append(segments, currentSegment)
        /\ UNCHANGED <<segments_decoders, currentSegment, worker, status, num_frames>>
    BY <1>4 DEF ListSegment, segmentVars
  <2>2. segments \in Seq(Handles) /\ currentSegment \in Handles
    BY <2>1 DEF TypeInv, TypeOK, ThreadInv
  <2>3. Listed' = Listed \cup {currentSegment}
    BY <2>1, <2>2, RangeAppend DEF Listed
  <2>4. currentSegment \notin Range(segments_decoders)
    BY <2>1 DEF CurrentInv, OwnershipInv, DecoderOwnership, MutexInv
  <2> QED BY <1>0, <2>1, <2>3, <2>4 DEF OwnershipInv, DecoderOwnership, MutexInv
<1>5. CASE OpenDecoder
  <2>1. currentSegment \in Handles
    BY <1>5 DEF OpenDecoder, TypeInv, TypeOK, ThreadInv
  <2>2. worker \in [Handles -> {"none", "decoding", "ended"}]
    BY DEF TypeInv, TypeOK
  <2> QED BY <1>0, <1>5, <2>1, <2>2 DEF OpenDecoder, segmentVars, OwnershipInv,
          DecoderOwnership, MutexInv, Listed
<1>6. CASE OpenFails
  BY <1>0, <1>6 DEF OpenFails, LeaveParse, segmentVars, OwnershipInv,
     DecoderOwnership, MutexInv, Listed
<1>7. CASE RegisterDecoder
  <2>1. /\ currentSegment' \in Handles /\ worker[currentSegment'] = "none"
        /\ status' = [status EXCEPT ![currentSegment'] = "IN_PROGRESS"]
        /\ num_frames' = [num_frames EXCEPT ![currentSegment'] = 0]
        /\ status \in [Handles -> Statuses] /\ num_frames \in [Handles -> Nat]
    BY <1>7, NewSegmentType, NewSegmentUnowned DEF RegisterDecoder, NewSegment,
       TypeInv, TypeOK
  <2>2. /\ UNCHANGED <<segments, worker>>
        /\ ppc = "register" /\ ppc' = "parse"
        /\ segments_decoders' = Append(segments_decoders, currentSegment)
    BY <1>7 DEF RegisterDecoder
  <2>3. /\ segments_decoders \in Seq(Handles) /\ currentSegment \in Handles
        /\ currentSegment \in Listed
        /\ currentSegment \notin Range(segments_decoders)
        /\ IsInjective(segments_decoders)
    BY <2>2, ListedMembers DEF TypeInv, TypeOK, ThreadInv, CurrentInv, OwnershipInv,
       DecoderOwnership, MutexInv
  <2>4. /\ Range(segments_decoders') = Range(segments_decoders) \cup {currentSegment}
        /\ IsInjective(segments_decoders')
    BY <2>2, <2>3, RangeAppend
  <2>5. Listed' = Listed
    BY <2>2 DEF Listed
  <2> QED BY <1>0, <2>1, <2>2, <2>3, <2>4, <2>5 DEF OwnershipInv, DecoderOwnership, MutexInv
<1>8. ASSUME NEW h \in Handles, WorkerStep(h) \/ WorkerThrows(h)
      PROVE  OwnershipInv'
  <2>1. /\ UNCHANGED parserVars
        /\ \A g \in Handles : worker[g] = "none" <=> worker'[g] = "none"
        /\ \A g \in Handles : worker[g] = "none" =>
             status'[g] = status[g] /\ num_frames'[g] = num_frames[g]
    BY <1>8 DEF WorkerStep, DecodeFrame, FinishSegment, WorkerThrows, segmentVars,
       TypeInv, TypeOK
  <2> QED BY <1>0, <2>1 DEF parserVars, OwnershipInv, DecoderOwnership, MutexInv, Listed
<1>9. CASE MainStep \/ UNCHANGED vars
  <2>1. UNCHANGED <<segments, segments_decoders, ppc, currentSegment, worker,
                    status, num_frames>>
    BY <1>9, MainKeeps
  <2> QED BY <1>0, <2>1 DEF OwnershipInv, DecoderOwnership, MutexInv, Listed
<1> QED
  BY <1>1, <1>2, <1>3, <1>4, <1>5, <1>6, <1>7, <1>8, <1>9
     DEF Next, ParserStep, Terminated

\* One decoder per segment, and none for a segment that is not listed.
THEOREM OwnershipHolds == Spec => []DecoderOwnership
<1>1. Init => OwnershipInv
  BY DEF Init, OwnershipInv, DecoderOwnership, Range, IsInjective
<1>2. OwnershipInv => DecoderOwnership
  BY DEF OwnershipInv
<1> QED BY <1>1, <1>2, CurrentSegment, OwnershipInvNext, PTL DEF Spec

-----------------------------------------------------------------------------
(* What the main thread reports: the statuses, the printed segments and the *)
(* totals, on top of the list and the ownership of decoders.               *)

Base == TypeInv /\ CurrentInv /\ OwnershipInv

LEMMA BaseHolds == Spec => []Base
<1>1. Init => OwnershipInv
  BY DEF Init, OwnershipInv, DecoderOwnership, Range, IsInjective
<1> QED BY <1>1, CurrentSegment, OwnershipInvNext, PTL DEF Spec, Base

\* A listed segment is not the object being allocated, a segment with a worker is
\* listed, and a worker's segment is never written by parse().
LEMMA NewSegmentFields ==
    ASSUME Base, NewSegment
    PROVE  /\ currentSegment' \in Handles \ Listed
           /\ worker[currentSegment'] = "none"
           /\ status' = [status EXCEPT ![currentSegment'] = "IN_PROGRESS"]
           /\ num_frames' = [num_frames EXCEPT ![currentSegment'] = 0]
           /\ printed' = [printed EXCEPT ![currentSegment'] = FALSE]
           /\ declared_duration' = [declared_duration EXCEPT ![currentSegment'] = 0]
BY NewSegmentType, NewSegmentUnowned DEF Base, NewSegment

LEMMA WorkersListed ==
    ASSUME Base, NEW h \in Handles, worker[h] # "none"
    PROVE  h \in Listed
BY ListedMembers DEF Base, OwnershipInv, DecoderOwnership, CurrentInv

-----------------------------------------------------------------------------
(* Statuses and reports. *)

\* The status says where the worker is; only a settled segment is printed, and the
\* one main is about to print is DOWNLOADED and was not printed.
ReportInv ==
    /\ \A h \in Handles :
         /\ worker[h] # "ended" <=> status[h] = "IN_PROGRESS"
         /\ status[h] = "DOWNLOADED" => num_frames[h] # 0
         /\ printed[h] => status[h] = "DOWNLOADED"
    /\ \A i \in 1..Len(copied) : copied[i] \in Listed
    /\ mpc = "print" => Reportable(Head(copied))

\* Dropping the first element keeps what holds of all.
LEMMA TailElements ==
    ASSUME NEW S, NEW s \in Seq(S), s # <<>>, NEW T, \A i \in 1..Len(s) : s[i] \in T
    PROVE  /\ Head(s) \in T
           /\ \A i \in 1..Len(Tail(s)) : Tail(s)[i] \in T
<1>1. Len(s) \in Nat /\ Len(s) # 0 /\ Len(Tail(s)) = Len(s) - 1
  OBVIOUS
<1>2. \A i \in 1..Len(Tail(s)) : i + 1 \in 1..Len(s) /\ Tail(s)[i] = s[i + 1]
  BY <1>1
<1>3. Head(s) = s[1] /\ 1 \in 1..Len(s)
  BY <1>1
<1> QED BY <1>2, <1>3

\* A step that allocates a segment leaves all that ReportInv says of the others.
LEMMA NewSegmentReport ==
    ASSUME Base, ReportInv, NewSegment,
           UNCHANGED <<segments, worker, mpc, copied>>
    PROVE  ReportInv'
<1> DEFINE new == currentSegment'
<1>1. /\ new \in Handles \ Listed /\ worker[new] = "none"
      /\ status' = [status EXCEPT ![new] = "IN_PROGRESS"]
      /\ num_frames' = [num_frames EXCEPT ![new] = 0]
      /\ printed' = [printed EXCEPT ![new] = FALSE]
      /\ Listed' = Listed
  BY NewSegmentFields DEF Listed
<1>2. /\ status \in [Handles -> Statuses] /\ num_frames \in [Handles -> Nat]
      /\ printed \in [Handles -> BOOLEAN] /\ copied \in Seq(Handles)
      /\ mpc = "print" => copied # <<>>
  BY DEF Base, TypeInv, TypeOK, ThreadInv
<1> HIDE DEF new
<1>3. \A h \in Handles :
         /\ worker'[h] # "ended" <=> status'[h] = "IN_PROGRESS"
         /\ status'[h] = "DOWNLOADED" => num_frames'[h] # 0
         /\ printed'[h] => status'[h] = "DOWNLOADED"
  BY <1>1, <1>2 DEF ReportInv
<1>4. mpc = "print" => Head(copied) \in Listed /\ Head(copied) # new
  BY <1>1, <1>2, TailElements DEF ReportInv
<1>5. mpc' = "print" => Reportable(Head(copied))'
  BY <1>1, <1>2, <1>4, ListedMembers DEF ReportInv, Reportable, Base
<1> QED BY <1>1, <1>3, <1>5 DEF ReportInv

LEMMA ReportInvNext == Base /\ ReportInv /\ [Next]_vars => ReportInv'
<1> SUFFICES ASSUME Base, ReportInv, [Next]_vars
             PROVE  ReportInv'
  OBVIOUS
<1>0. /\ worker \in [Handles -> {"none", "decoding", "ended"}]
      /\ status \in [Handles -> Statuses] /\ num_frames \in [Handles -> Nat]
      /\ printed \in [Handles -> BOOLEAN] /\ copied \in Seq(Handles)
      /\ mpc = "print" => copied # <<>>
      /\ segments \in Seq(Handles)
  BY DEF Base, TypeInv, TypeOK, ThreadInv
<1>1. CASE FetchManifest \/ RegisterDecoder
  BY <1>1, NewSegmentReport DEF FetchManifest, RegisterDecoder, mainVars
<1>2. CASE ReadEntry \/ ReadMalformedEntry \/ EndOfManifest \/ SkipSegment \/ OpenFails
  BY <1>2 DEF ReadEntry, ReadMalformedEntry, EndOfManifest, SkipSegment, OpenFails,
     segmentVars, mainVars, ReportInv, Reportable, Listed
<1>3. CASE ListSegment
  <2>1. Listed \subseteq Listed'
    <3>1. segments' = Append(segments, currentSegment) /\ currentSegment \in Handles
      BY <1>3 DEF ListSegment, Base, TypeInv, TypeOK, ThreadInv
    <3> QED BY <1>0, <3>1, RangeAppend DEF Listed
  <2> QED BY <1>3, <2>1 DEF ListSegment, segmentVars, mainVars, ReportInv, Reportable
<1>4. CASE OpenDecoder
  <2>1. currentSegment \in Handles /\ worker[currentSegment] = "none"
    BY <1>4 DEF OpenDecoder, Base, TypeInv, TypeOK, ThreadInv, OwnershipInv,
       DecoderOwnership
  <2> QED BY <1>0, <1>4, <2>1 DEF OpenDecoder, segmentVars, mainVars, ReportInv,
          Reportable, Listed
<1>5. ASSUME NEW h \in Handles, DecodeFrame(h)
      PROVE  ReportInv'
  BY <1>0, <1>5 DEF DecodeFrame, parserVars, mainVars, ReportInv, Reportable, Listed
<1>6. ASSUME NEW h \in Handles, FinishSegment(h)
      PROVE  ReportInv'
  <2>1. /\ worker[h] = "decoding" /\ status[h] = "IN_PROGRESS"
        /\ status' = [status EXCEPT ![h] = SettledStatus(num_frames[h])]
        /\ worker' = [worker EXCEPT ![h] = "ended"]
        /\ UNCHANGED <<segments, num_frames, printed, copied, mpc>>
    BY <1>6 DEF FinishSegment, parserVars, mainVars, ReportInv
  <2>2. \A g \in Handles :
         /\ worker'[g] # "ended" <=> status'[g] = "IN_PROGRESS"
         /\ status'[g] = "DOWNLOADED" => num_frames'[g] # 0
         /\ printed'[g] => status'[g] = "DOWNLOADED"
    BY <1>0, <2>1 DEF ReportInv, SettledStatus
  <2>3. mpc = "print" => Head(copied) # h /\ Head(copied) \in Handles
    BY <1>0, <2>1 DEF ReportInv, Reportable
  <2>4. mpc' = "print" => Reportable(Head(copied))'
    BY <1>0, <2>1, <2>3 DEF ReportInv, Reportable
  <2> QED BY <2>1, <2>2, <2>4 DEF ReportInv, Listed
<1>7. ASSUME NEW h \in Handles, WorkerThrows(h)
      PROVE  ReportInv'
  BY <1>7 DEF WorkerThrows, parserVars, segmentVars, mainVars, ReportInv, Reportable,
     Listed
<1>8. CASE GetSegments
  <2>1. \A i \in 1..Len(copied') : copied'[i] \in Listed
    BY <1>8, ListedMembers DEF GetSegments, Base
  <2> QED BY <1>8, <2>1 DEF GetSegments, parserVars, segmentVars, ReportInv, Listed
<1>9. CASE InspectSegment
  <2>1. copied # <<>> /\ mpc = "inspect"
    BY <1>9 DEF InspectSegment
  <2>2. /\ \/ mpc' = "print" /\ copied' = copied /\ Reportable(Head(copied))
           \/ mpc' = "inspect" /\ copied' = Tail(copied)
        /\ UNCHANGED <<segments, worker, status, num_frames, printed>>
    BY <1>9 DEF InspectSegment, Rest, parserVars, segmentVars
  <2>3. \A i \in 1..Len(copied') : copied'[i] \in Listed
    BY <1>0, <2>1, <2>2, TailElements DEF ReportInv
  <2> QED BY <2>2, <2>3 DEF ReportInv, Listed, Reportable
<1>10. CASE PrintSegment
  <2>1. /\ copied # <<>> /\ Reportable(Head(copied))
        /\ copied' = Tail(copied) /\ mpc' = "inspect"
        /\ printed' = [printed EXCEPT ![Head(copied)] = TRUE]
        /\ UNCHANGED <<segments, worker, status, num_frames>>
    BY <1>0, <1>10 DEF PrintSegment, parserVars, ReportInv
  <2>2. \A i \in 1..Len(copied') : copied'[i] \in Listed
    BY <1>0, <2>1, TailElements DEF ReportInv
  <2> QED BY <1>0, <2>1, <2>2 DEF ReportInv, Listed, Reportable
<1>11. CASE \/ EnterRunningTime \/ GetTotalRunningTime \/ EnterDecodeTime
            \/ GetTotalDecodeTime \/ GetTotalDeclaredTime \/ WaitForSegments
            \/ LatencyCheck \/ WarnMismatch
  BY <1>11 DEF EnterRunningTime, GetTotalRunningTime, EnterDecodeTime,
     GetTotalDecodeTime, GetTotalDeclaredTime, WaitForSegments, LatencyCheck,
     WarnMismatch, NextIteration, Lock, Unlock, parserVars, segmentVars, ReportInv, Listed
<1>12. CASE UNCHANGED vars
  BY <1>12 DEF vars, parserVars, segmentVars, mainVars, ReportInv, Reportable, Listed
<1> QED
  BY <1>1, <1>2, <1>3, <1>4, <1>5, <1>6, <1>7, <1>8, <1>9, <1>10, <1>11, <1>12
     DEF Next, ParserStep, WorkerStep, MainStep, Terminated

LEMMA ReportInvHolds == Spec => [](Base /\ ReportInv)
<1>1. Init => ReportInv
  BY DEF Init, ReportInv
<1> QED BY <1>1, BaseHolds, ReportInvNext, PTL DEF Spec

\* No segment is reported twice.
THEOREM ReportedOnceHolds == Spec => ReportedOnce
<1>1. Base /\ ReportInv /\ [Next]_vars => [ReportedOnceStep]_vars
  BY DEF ReportInv, Reportable, ReportedOnceStep
<1> QED BY <1>1, ReportInvHolds, PTL DEF Spec, ReportedOnce

-----------------------------------------------------------------------------
(* What happens to one segment object in a step. *)

\* Apart from the allocation of an object nobody holds, a segment only changes
\* as the worker that is decoding it, or main's print(), changes it.
LEMMA SegmentStep ==
    ASSUME Base, ReportInv, [Next]_vars, NEW h \in Handles
    PROVE  \/ /\ UNCHANGED <<status[h], num_frames[h]>>
              /\ printed[h] /\ h \in Listed => printed'[h]
           \/ /\ status[h] = "IN_PROGRESS" /\ status'[h] = "IN_PROGRESS"
              /\ num_frames'[h] = num_frames[h] + 1
           \/ /\ status[h] = "IN_PROGRESS" /\ UNCHANGED num_frames[h]
              /\ status'[h] = SettledStatus(num_frames[h])
<1>0. /\ status \in [Handles -> Statuses] /\ num_frames \in [Handles -> Nat]
      /\ printed \in [Handles -> BOOLEAN]
  BY DEF Base, TypeInv, TypeOK
<1>1. CASE FetchManifest \/ RegisterDecoder
  <2>1. NewSegment
    BY <1>1 DEF FetchManifest, RegisterDecoder
  <2>2. worker[h] = "none" => status[h] = "IN_PROGRESS" /\ num_frames[h] = 0
    BY DEF Base, OwnershipInv, DecoderOwnership
  <2> QED BY <1>0, <2>1, <2>2, NewSegmentFields
<1>2. CASE ReadEntry \/ ReadMalformedEntry \/ EndOfManifest \/ ListSegment
           \/ SkipSegment \/ OpenDecoder \/ OpenFails
  BY <1>2 DEF ReadEntry, ReadMalformedEntry, EndOfManifest, ListSegment, SkipSegment,
     OpenDecoder, OpenFails, segmentVars
<1>3. ASSUME NEW g \in Handles, DecodeFrame(g)
      PROVE  \/ UNCHANGED <<status[h], num_frames[h], printed[h]>>
             \/ /\ status[h] = "IN_PROGRESS" /\ status'[h] = "IN_PROGRESS"
                /\ num_frames'[h] = num_frames[h] + 1
  BY <1>0, <1>3 DEF DecodeFrame, ReportInv
<1>4. ASSUME NEW g \in Handles, FinishSegment(g)
      PROVE  \/ UNCHANGED <<status[h], num_frames[h], printed[h]>>
             \/ /\ status[h] = "IN_PROGRESS" /\ UNCHANGED num_frames[h]
                /\ status'[h] = SettledStatus(num_frames[h])
  BY <1>0, <1>4 DEF FinishSegment, ReportInv
<1>5. ASSUME NEW g \in Handles, WorkerThrows(g)
      PROVE  UNCHANGED <<status[h], num_frames[h], printed[h]>>
  BY <1>5 DEF WorkerThrows, segmentVars
<1>6. CASE PrintSegment
  BY <1>0, <1>6 DEF PrintSegment
<1>7. CASE MainStep /\ ~PrintSegment
  BY <1>7, MainKeeps
<1>8. CASE UNCHANGED vars
  BY <1>8 DEF vars, segmentVars
<1> QED
  BY <1>1, <1>2, <1>3, <1>4, <1>5, <1>6, <1>7, <1>8
     DEF Next, ParserStep, WorkerStep, Terminated

\* What was printed of a segment stays true of it.
THEOREM ReportedFinalHolds == Spec => ReportedIsFinal
<1>1. Base /\ ReportInv /\ [Next]_vars => [ReportedFinalStep]_vars
  <2> SUFFICES ASSUME Base, ReportInv, [Next]_vars,
                      NEW h \in Listed, printed[h]
               PROVE  printed'[h] /\ status'[h] = status[h]
                                  /\ num_frames'[h] = num_frames[h]
    BY DEF ReportedFinalStep
  <2>1. h \in Handles
    BY ListedMembers DEF Base
  <2>2. status[h] # "IN_PROGRESS"
    BY <2>1 DEF ReportInv
  <2> QED BY <2>1, <2>2, SegmentStep
<1> QED BY <1>1, ReportInvHolds, PTL DEF Spec, ReportedIsFinal

\* Every segment object, whoever holds it, implements SegmentLifecycle.
THEOREM LifecycleImplemented == Spec => SegmentsImplementLifecycle
<1>1. Init => LifecycleInit
  BY DEF Init, LifecycleInit, Lifecycle!Init
<1>2. Base /\ ReportInv /\ [Next]_vars => [LifecycleStep]_vars
  <2> SUFFICES ASSUME Base, ReportInv, [Next]_vars, NEW h \in Handles
               PROVE  [Lifecycle(h)!Next]_(Lifecycle(h)!vars)
    BY DEF LifecycleStep
  <2>1. \/ UNCHANGED <<status[h], num_frames[h]>>
        \/ /\ status[h] = "IN_PROGRESS" /\ status'[h] = "IN_PROGRESS"
           /\ num_frames'[h] = num_frames[h] + 1
        \/ /\ status[h] = "IN_PROGRESS" /\ UNCHANGED num_frames[h]
           /\ status'[h] = SettledStatus(num_frames[h])
    BY SegmentStep
  <2> QED BY <2>1 DEF SettledStatus, Lifecycle!Next, Lifecycle!AddFrame,
          Lifecycle!Settle, Lifecycle!vars
<1> QED BY <1>1, <1>2, ReportInvHolds, PTL DEF Spec, SegmentsImplementLifecycle

-----------------------------------------------------------------------------
(* Runtime. *)

Downloaded == {i \in 1..Len(segments) : status[segments[i]] = "DOWNLOADED"}

\* Runtime was last measured from a segment that is still DOWNLOADED, so the loop
\* that measures it again has not passed that segment.
RuntimeInv ==
    /\ runtime_base # 0 => runtime_base \in Downloaded
    /\ mpc = "running_time" /\ runtime_base # 0 => cursor <= runtime_base

\* A listed segment keeps its position, a DOWNLOADED one its status.
LEMMA DownloadedGrows ==
    ASSUME Base, ReportInv, [Next]_vars
    PROVE  /\ \A i \in 1..Len(segments) :
                i \in 1..Len(segments') /\ segments'[i] = segments[i]
           /\ Downloaded \subseteq Downloaded'
<1>1. segments \in Seq(Handles) /\ (ppc = "list" => currentSegment \in Handles)
  BY DEF Base, TypeInv, TypeOK, ThreadInv
<1>2. ASSUME NEW i \in 1..Len(segments)
      PROVE  i \in 1..Len(segments') /\ segments'[i] = segments[i]
  <2>1. CASE segments' = segments
    BY <2>1
  <2>2. CASE ListSegment
    <3>1. segments' = Append(segments, currentSegment) /\ currentSegment \in Handles
      BY <1>1, <2>2 DEF ListSegment
    <3>2. Len(segments) \in Nat /\ Len(segments') = Len(segments) + 1
      BY <1>1, <3>1
    <3>3. segments'[i] = segments[i]
      BY <1>1, <3>1
    <3> QED BY <3>2, <3>3
  <2> QED BY <2>1, <2>2, ListedStep DEF Base
<1>3. ASSUME NEW i \in 1..Len(segments), status[segments[i]] = "DOWNLOADED"
      PROVE  status'[segments[i]] = "DOWNLOADED"
  <2>1. segments[i] \in Handles
    BY <1>1
  <2> QED BY <1>3, <2>1, SegmentStep
<1>4. Downloaded' =
        {i \in 1..Len(segments') : status'[segments'[i]] = "DOWNLOADED"}
  BY DEF Downloaded
<1> QED BY <1>2, <1>3, <1>4 DEF Downloaded

LEMMA RuntimeStep ==
    ASSUME Base, ReportInv, RuntimeInv, [Next]_vars
    PROVE  RuntimeInv' /\ RuntimeNeverDropsStep
<1>1. /\ Len(segments) \in Nat /\ runtime_base \in 0..Len(segments)
      /\ cursor \in Nat
      /\ \A i \in Downloaded : i \in 1..Len(segments)
  BY DEF Base, TypeInv, TypeOK, Downloaded
<1>2. CASE GetTotalRunningTime
  <2>1. mpc = "running_time" /\ cursor # 0 /\ segments' = segments /\ status' = status
    BY <1>2 DEF GetTotalRunningTime, segmentVars, Base, TypeInv, ThreadInv
  <2>2. Downloaded' = Downloaded
    BY <2>1 DEF Downloaded
  <2>3. CASE /\ cursor <= Len(segments) /\ status[Current] # "DOWNLOADED"
             /\ cursor' = cursor + 1 /\ runtime_base' = runtime_base
    <3>1. cursor \notin Downloaded
      BY <2>3 DEF Downloaded, Current
    <3>2. runtime_base # 0 => cursor + 1 <= runtime_base
      BY <1>1, <2>1, <3>1 DEF RuntimeInv
    <3> QED BY <1>1, <2>2, <2>3, <3>2 DEF RuntimeInv, RuntimeNeverDropsStep
  <2>4. CASE /\ cursor <= Len(segments) /\ status[Current] = "DOWNLOADED"
             /\ runtime_base' = cursor /\ mpc' = "decode_time"
    <3>1. cursor \in 1..Len(segments)
      BY <1>1, <2>1, <2>4
    <3>2. cursor \in Downloaded
      BY <2>4, <3>1 DEF Downloaded, Current
    <3>3. runtime_base # 0 => cursor <= runtime_base
      BY <2>1 DEF RuntimeInv
    <3> QED BY <1>1, <2>2, <2>4, <3>1, <3>2, <3>3 DEF RuntimeInv, RuntimeNeverDropsStep
  <2>5. CASE cursor > Len(segments) /\ runtime_base' = 0 /\ mpc' = "decode_time"
    <3>1. runtime_base = 0
      BY <1>1, <2>1, <2>5 DEF RuntimeInv
    <3> QED BY <2>5, <3>1 DEF RuntimeInv, RuntimeNeverDropsStep
  <2> QED BY <1>2, <2>3, <2>4, <2>5 DEF GetTotalRunningTime, Unlock, NoRuntime
<1>3. CASE ~GetTotalRunningTime
  <2>1. /\ runtime_base' = runtime_base
        /\ mpc' = "running_time" =>
             \/ cursor' = 1
             \/ mpc = "running_time" /\ cursor' = cursor
    <3>1. CASE ParserStep
      BY <3>1 DEF ParserStep, FetchManifest, ReadEntry, ReadMalformedEntry,
         EndOfManifest, ListSegment, SkipSegment, OpenDecoder, OpenFails,
         RegisterDecoder, mainVars
    <3>2. ASSUME NEW h \in Handles, WorkerStep(h) \/ WorkerThrows(h)
          PROVE  UNCHANGED <<runtime_base, mpc, cursor>>
      BY <3>2 DEF WorkerStep, DecodeFrame, FinishSegment, WorkerThrows, mainVars
    <3>3. CASE MainStep
      BY <1>3, <3>3 DEF MainStep, GetSegments, InspectSegment, PrintSegment,
         EnterRunningTime, EnterDecodeTime, GetTotalDecodeTime, GetTotalDeclaredTime,
         WaitForSegments, LatencyCheck, WarnMismatch, NextIteration, Lock, Unlock
    <3>4. CASE UNCHANGED vars
      BY <3>4 DEF vars, mainVars
    <3> QED BY <3>1, <3>2, <3>3, <3>4 DEF Next, Terminated
  <2>2. Downloaded \subseteq Downloaded'
    BY DownloadedGrows
  <2>3. runtime_base # 0 => 1 <= runtime_base
    BY <1>1
  <2> QED BY <1>1, <2>1, <2>2, <2>3 DEF RuntimeInv, RuntimeNeverDropsStep
<1> QED BY <1>2, <1>3

LEMMA RuntimeInvHolds == Spec => [](Base /\ ReportInv /\ RuntimeInv)
<1>1. Init => RuntimeInv
  BY DEF Init, RuntimeInv
<1>2. Base /\ ReportInv /\ RuntimeInv /\ [Next]_vars => RuntimeInv'
  BY RuntimeStep
<1> QED BY <1>1, <1>2, ReportInvHolds, PTL DEF Spec

\* The start of runtime only moves to earlier segments.
THEOREM RuntimeNeverDropsHolds == Spec => RuntimeNeverDrops
<1>1. Base /\ ReportInv /\ RuntimeInv /\ [Next]_vars => [RuntimeNeverDropsStep]_vars
  BY RuntimeStep
<1> QED BY <1>1, RuntimeInvHolds, PTL DEF Spec, RuntimeNeverDrops

-----------------------------------------------------------------------------
(* The totals. *)

\* The segment runtime is measured from was added to the decoded total.
StartDecoded ==
    \/ mpc \in {"declared_time", "check"}
    \/ mpc = "add_decoded" /\ cursor > runtime_base

\* What the totals hold while they are read: only listed segments, whose declared
\* duration is final, and the final duration of the segment runtime starts at.
TotalsInv ==
    /\ \A h \in Handles : decode_time[h] # 0 => h \in Listed
    /\ runtime_base # 0 /\ StartDecoded =>
         decode_time[segments[runtime_base]] = decode_duration[segments[runtime_base]]
    /\ TotalsAgree

\* Only the worker that is decoding a segment changes its duration.
LEMMA SettledDuration ==
    ASSUME Base, ReportInv, [Next]_vars, NEW h \in Handles, status[h] = "DOWNLOADED"
    PROVE  decode_duration'[h] = decode_duration[h]
<1>1. CASE FetchManifest \/ RegisterDecoder
  <2>1. NewSegment
    BY <1>1 DEF FetchManifest, RegisterDecoder
  <2>2. worker[h] # "none"
    BY DEF Base, OwnershipInv, DecoderOwnership
  <2>3. /\ worker[currentSegment'] = "none"
        /\ decode_duration' = [decode_duration EXCEPT ![currentSegment'] = 0]
        /\ decode_duration \in [Handles -> Int]
    BY <2>1, NewSegmentFields DEF NewSegment, Base, TypeInv, TypeOK
  <2> QED BY <2>2, <2>3
<1>2. CASE ReadEntry \/ ReadMalformedEntry \/ EndOfManifest \/ ListSegment
           \/ SkipSegment \/ OpenDecoder \/ OpenFails
  BY <1>2 DEF ReadEntry, ReadMalformedEntry, EndOfManifest, ListSegment, SkipSegment,
     OpenDecoder, OpenFails, segmentVars
<1>3. ASSUME NEW g \in Handles, DecodeFrame(g)
      PROVE  decode_duration'[h] = decode_duration[h]
  <2>1. worker[g] = "decoding" /\ g # h
    BY <1>3 DEF DecodeFrame, ReportInv
  <2>2. decode_duration \in [Handles -> Int]
    BY DEF Base, TypeInv, TypeOK
  <2> QED BY <1>3, <2>1, <2>2 DEF DecodeFrame
<1>4. ASSUME NEW g \in Handles, FinishSegment(g) \/ WorkerThrows(g)
      PROVE  decode_duration'[h] = decode_duration[h]
  BY <1>4 DEF FinishSegment, WorkerThrows, segmentVars
<1>5. CASE MainStep \/ UNCHANGED vars
  BY <1>5, MainKeeps
<1> QED BY <1>1, <1>2, <1>3, <1>4, <1>5 DEF Next, ParserStep, WorkerStep, Terminated

\* What a step leaves to the totals: the list, its declared durations and the
\* duration of the segment runtime was measured from.
LEMMA TotalsBasis ==
    ASSUME Base, ReportInv, RuntimeInv, [Next]_vars
    PROVE  /\ \A h \in Listed : h \in Listed' /\ declared_duration'[h] = declared_duration[h]
           /\ runtime_base # 0 =>
                /\ segments[runtime_base] \in Listed
                /\ segments[runtime_base] \in Handles
                /\ segments'[runtime_base] = segments[runtime_base]
                /\ decode_duration'[segments[runtime_base]] =
                     decode_duration[segments[runtime_base]]
<1>1. Listed \subseteq Listed'
  <2>1. segments' = segments \/ ListSegment
    BY ListedStep DEF Base
  <2>2. segments \in Seq(Handles) /\ (ppc = "list" => currentSegment \in Handles)
    BY DEF Base, TypeInv, TypeOK, ThreadInv
  <2>3. CASE segments' = segments
    BY <2>3 DEF Listed
  <2>4. CASE ListSegment
    <3>1. segments' = Append(segments, currentSegment) /\ currentSegment \in Handles
      BY <2>2, <2>4 DEF ListSegment
    <3> QED BY <2>2, <3>1, RangeAppend DEF Listed
  <2> QED BY <2>1, <2>3, <2>4
<1>2. \A h \in Listed : declared_duration'[h] = declared_duration[h]
  BY ListedStep DEF Base
<1>3. ASSUME runtime_base # 0
      PROVE  /\ segments[runtime_base] \in Listed
             /\ segments[runtime_base] \in Handles
             /\ segments'[runtime_base] = segments[runtime_base]
             /\ decode_duration'[segments[runtime_base]] =
                  decode_duration[segments[runtime_base]]
  <2>1. runtime_base \in 1..Len(segments) /\ status[segments[runtime_base]] = "DOWNLOADED"
    BY <1>3 DEF RuntimeInv, Downloaded
  <2>2. segments[runtime_base] \in Listed /\ segments[runtime_base] \in Handles
    BY <2>1, ListedMembers DEF Base
  <2>3. segments'[runtime_base] = segments[runtime_base]
    BY <2>1, DownloadedGrows
  <2> QED BY <2>1, <2>2, <2>3, SettledDuration
<1> QED BY <1>1, <1>2, <1>3

LEMMA TotalsInvNext ==
    Base /\ ReportInv /\ RuntimeInv /\ TotalsInv /\ [Next]_vars => TotalsInv'
<1> SUFFICES ASSUME Base, ReportInv, RuntimeInv, TotalsInv, [Next]_vars
             PROVE  TotalsInv'
  OBVIOUS
<1> DEFINE first == segments[runtime_base]
<1>0. /\ \A h \in Listed : h \in Listed' /\ declared_duration'[h] = declared_duration[h]
      /\ Listed \subseteq Handles
      /\ runtime_base # 0 =>
           /\ first \in Listed /\ first \in Handles
           /\ segments'[runtime_base] = first
           /\ decode_duration'[first] = decode_duration[first]
  BY TotalsBasis, ListedMembers DEF Base
<1> HIDE DEF first
<1>a. /\ \A h \in Handles : decode_time[h] # 0 => h \in Listed
      /\ runtime_base # 0 /\ StartDecoded => decode_time[first] = decode_duration[first]
      /\ mpc = "check" => \A h \in Handles : decode_time[h] # 0 => CountsInFull(h)
      /\ mpc = "check" /\ runtime_base # 0 => CountsInFull(first)
  BY DEF TotalsInv, TotalsAgree, first
<1>b. ASSUME runtime_base' = runtime_base,
             \A h \in Handles : decode_time'[h] # 0 => h \in Listed',
             runtime_base # 0 /\ StartDecoded' => decode_time'[first] = decode_duration[first],
             mpc' = "check" =>
                 \A h \in Handles : decode_time'[h] # 0 => CountsInFull(h)',
             mpc' = "check" /\ runtime_base # 0 =>
                 declared_time'[first] = declared_duration'[first]
      PROVE  TotalsInv'
  <2>1. runtime_base # 0 /\ StartDecoded' =>
          decode_time'[segments'[runtime_base']] = decode_duration'[segments'[runtime_base']]
    BY <1>0, <1>b
  <2>2. TotalsAgree'
    <3>1. mpc' = "check" => StartDecoded'
      BY DEF StartDecoded
    <3>2. CASE runtime_base = 0
      BY <1>b, <3>2 DEF TotalsAgree
    <3>3. CASE runtime_base # 0
      <4>1. segments'[runtime_base'] = first
        BY <1>0, <1>b, <3>3
      <4>2. mpc' = "check" => decode_time'[first] = decode_duration'[first]
        BY <1>0, <1>b, <3>1, <3>3
      <4>3. mpc' = "check" => declared_time'[first] = declared_duration'[first]
        BY <1>b, <3>3
      <4>4. mpc' = "check" =>
              \A h \in Handles : decode_time'[h] # 0 => CountsInFull(h)'
        BY <1>b
      <4> QED BY <4>1, <4>2, <4>3, <4>4 DEF TotalsAgree, CountsInFull
    <3> QED BY <3>2, <3>3
  <2> QED BY <1>b, <2>1, <2>2 DEF TotalsInv
<1>1. CASE UNCHANGED <<mpc, cursor, runtime_base, decode_time, declared_time>>
  <2>1. \A h \in Listed : CountsInFull(h) => CountsInFull(h)'
    BY <1>0, <1>1 DEF CountsInFull
  <2>2. StartDecoded' <=> StartDecoded
    BY <1>1 DEF StartDecoded
  <2>3. mpc' = "check" /\ runtime_base # 0 =>
          declared_time'[first] = declared_duration'[first]
    BY <1>0, <1>1, <1>a DEF CountsInFull
  <2>4. mpc' = "check" => \A h \in Handles : decode_time'[h] # 0 => CountsInFull(h)'
    BY <1>1, <1>a, <2>1
  <2>5. \A h \in Handles : decode_time'[h] # 0 => h \in Listed'
    BY <1>0, <1>1, <1>a
  <2>6. runtime_base # 0 /\ StartDecoded' => decode_time'[first] = decode_duration[first]
    BY <1>1, <1>a, <2>2
  <2> QED BY <1>1, <1>b, <2>3, <2>4, <2>5, <2>6
<1>2. CASE GetTotalRunningTime
  <2>1. /\ decode_time' = decode_time /\ segments' = segments
        /\ mpc' \in {"running_time", "decode_time"}
    BY <1>2 DEF GetTotalRunningTime, Unlock
  <2> QED BY <1>a, <2>1 DEF TotalsInv, StartDecoded, TotalsAgree, Listed
<1>3. CASE EnterDecodeTime
  <2>1. /\ decode_time' = decode_time /\ mpc' = "add_decoded" /\ cursor' = 1
        /\ runtime_base' = runtime_base /\ segments' = segments
    BY <1>3 DEF EnterDecodeTime, Lock
  <2>2. runtime_base # 0 => ~(cursor' > runtime_base')
    <3>1. runtime_base \in 0..Len(segments) /\ Len(segments) \in Nat
      BY DEF Base, TypeInv, TypeOK
    <3> QED BY <2>1, <3>1
  <2> QED BY <1>a, <2>1, <2>2 DEF TotalsInv, StartDecoded, TotalsAgree, Listed
<1>4. CASE GetTotalDecodeTime /\ cursor <= Len(segments)
  <2>1. /\ mpc = "add_decoded" /\ mpc' = mpc /\ cursor' = cursor + 1
        /\ decode_time' = [decode_time EXCEPT ![Current] = decode_duration[Current]]
        /\ UNCHANGED <<segments, runtime_base>>
    BY <1>4 DEF GetTotalDecodeTime
  <2>2. /\ decode_time \in [Handles -> Int] /\ cursor \in 1..Len(segments)
        /\ runtime_base \in Nat
    <3>1. /\ Len(segments) \in Nat /\ cursor \in Nat /\ cursor # 0
          /\ runtime_base \in Nat /\ decode_time \in [Handles -> Int]
      BY <2>1 DEF Base, TypeInv, TypeOK, ThreadInv
    <3> QED BY <1>4, <3>1
  <2>3. Current \in Listed
    BY <2>2, ListedMembers DEF Current, Base
  <2>4. \A h \in Handles : decode_time'[h] # 0 => h \in Listed'
    BY <1>0, <1>a, <2>1, <2>2, <2>3
  <2>5. ASSUME runtime_base # 0, cursor' > runtime_base
        PROVE  decode_time'[first] = decode_duration[first]
    <3>1. CASE first = Current
      BY <1>0, <2>1, <2>2, <2>5, <3>1
    <3>2. CASE first # Current
      <4>1. cursor # runtime_base
        BY <3>2 DEF Current, first
      <4>2. cursor > runtime_base
        BY <2>1, <2>2, <2>5, <4>1
      <4>3. decode_time[first] = decode_duration[first]
        BY <1>a, <2>1, <2>5, <4>2 DEF StartDecoded
      <4> QED BY <1>0, <2>1, <2>2, <2>5, <3>2, <4>3
    <3> QED BY <3>1, <3>2
  <2>6. StartDecoded' => cursor' > runtime_base
    BY <2>1 DEF StartDecoded
  <2> QED BY <1>b, <2>1, <2>4, <2>5, <2>6
<1>5. CASE GetTotalDecodeTime /\ ~(cursor <= Len(segments))
  <2>1. /\ mpc = "add_decoded" /\ mpc' = "declared_time" /\ decode_time' = decode_time
        /\ UNCHANGED <<segments, runtime_base>>
    BY <1>5 DEF GetTotalDecodeTime, Unlock
  <2>2. cursor > runtime_base
    <3>1. /\ Len(segments) \in Nat /\ cursor \in Nat /\ runtime_base \in 0..Len(segments)
      BY DEF Base, TypeInv, TypeOK
    <3> QED BY <1>5, <3>1
  <2>3. StartDecoded
    BY <2>1, <2>2 DEF StartDecoded
  <2> QED BY <1>0, <1>a, <1>b, <2>1, <2>3
<1>6. CASE GetTotalDeclaredTime
  <2>1. /\ mpc = "declared_time" /\ mpc' = "check" /\ decode_time' = decode_time
        /\ \A h \in Handles : declared_time'[h] = DeclaredTime(h)
        /\ UNCHANGED <<segments, runtime_base, declared_duration>>
    BY <1>6 DEF GetTotalDeclaredTime, parserVars, segmentVars
  <2>2. \A h \in Listed : CountsInFull(h)'
    BY <1>0, <2>1 DEF CountsInFull, DeclaredTime
  <2>3. StartDecoded
    BY <2>1 DEF StartDecoded
  <2>4. runtime_base # 0 => declared_time'[first] = declared_duration'[first]
    BY <1>0, <2>1 DEF DeclaredTime
  <2>5. \A h \in Handles : decode_time'[h] # 0 => h \in Listed' /\ CountsInFull(h)'
    BY <1>0, <1>a, <2>1, <2>2
  <2> QED BY <1>a, <1>b, <2>1, <2>3, <2>4, <2>5
<1>7. CASE mpc' = "sleep" /\ \A h \in Handles : decode_time'[h] = 0
  BY <1>7 DEF TotalsInv, StartDecoded, TotalsAgree
<1>8. CASE /\ mpc' \in {"inspect", "print", "running_time", "warn"}
           /\ UNCHANGED <<segments, decode_time>>
  BY <1>8, <1>a DEF TotalsInv, StartDecoded, TotalsAgree, Listed
<1>9. \/ UNCHANGED <<mpc, cursor, runtime_base, decode_time, declared_time>>
      \/ GetTotalRunningTime \/ EnterDecodeTime \/ GetTotalDecodeTime
      \/ GetTotalDeclaredTime
      \/ mpc' = "sleep" /\ \A h \in Handles : decode_time'[h] = 0
      \/ /\ mpc' \in {"inspect", "print", "running_time", "warn"}
         /\ UNCHANGED <<segments, decode_time>>
  <2>1. CASE ParserStep
    BY <2>1 DEF ParserStep, FetchManifest, ReadEntry, ReadMalformedEntry,
       EndOfManifest, ListSegment, SkipSegment, OpenDecoder, OpenFails,
       RegisterDecoder, mainVars
  <2>2. ASSUME NEW h \in Handles, WorkerStep(h) \/ WorkerThrows(h)
        PROVE  UNCHANGED <<mpc, cursor, runtime_base, decode_time, declared_time>>
    BY <2>2 DEF WorkerStep, DecodeFrame, FinishSegment, WorkerThrows, mainVars
  <2>3. CASE GetSegments \/ InspectSegment \/ PrintSegment \/ EnterRunningTime
    BY <2>3 DEF GetSegments, InspectSegment, PrintSegment, EnterRunningTime, Lock,
       parserVars
  <2>4. CASE WaitForSegments \/ LatencyCheck \/ WarnMismatch
    BY <2>4 DEF WaitForSegments, LatencyCheck, WarnMismatch, NextIteration, parserVars
  <2>5. CASE UNCHANGED vars
    BY <2>5 DEF vars, mainVars
  <2> QED BY <2>1, <2>2, <2>3, <2>4, <2>5 DEF Next, MainStep, Terminated
<1> QED BY <1>1, <1>2, <1>3, <1>4, <1>5, <1>6, <1>7, <1>8, <1>9

\* The totals main compares speak of the same segments, although they are read
\* under three locks while the other threads go on.
THEOREM TotalsAgreeHolds == Spec => []TotalsAgree
<1>1. Init => TotalsInv
  BY DEF Init, TotalsInv, TotalsAgree, StartDecoded
<1>2. TotalsInv => TotalsAgree
  BY DEF TotalsInv
<1> QED BY <1>1, <1>2, RuntimeInvHolds, TotalsInvNext, PTL DEF Spec
=============================================================================
