----------------------------- MODULE HlsPlayback -----------------------------
(***************************************************************************)
(* The playback verifier (playback/playback_test): the parser thread of    *)
(* HLSManifestParser, which polls the manifest, lists the new segments and *)
(* opens a Decoder for each; the worker thread of every Decoder; and the   *)
(* main thread, which reports the segments and compares running, decoded   *)
(* and declared time.                                                      *)
(*                                                                         *)
(* Segments are objects shared through shared_ptr: `segments`, the         *)
(* decoders, the local `currentSegment` of parse() and the copy main took  *)
(* may all hold the same one.  The model therefore keeps a heap: the       *)
(* fields of an HLSSegment are functions of its handle, and a handle is    *)
(* used again only when nobody holds it.                                   *)
(*                                                                         *)
(* A critical section that reads nothing the workers write and does not    *)
(* block is one step.  dataMutex is a variable because parse() keeps it    *)
(* while it opens the decoder, which connects to the server, and main      *)
(* while it walks over segments that are still being decoded.  A worker    *)
(* that throws ends the process (std::terminate).                          *)
(***************************************************************************)
EXTENDS Integers, Sequences, SequencesExt

CONSTANTS
    Handles,    \* addresses of HLSSegment objects; bounds the heap
    MaxSeq,     \* the server publishes sequence numbers 0..MaxSeq
    Declared,   \* Declared[n]: EXTINF of segment n
    MaxFrames,  \* bound on the frames of a segment
    Durations,  \* what pts_list.back() - pts_list.front() may become
    Malformed,  \* an entry that makes parse() throw (no "-N.ts", no number)
    None        \* no segment

SeqNos == 0..MaxSeq

ASSUME MaxSeqAssumption == MaxSeq \in Nat
ASSUME DeclaredAssumption == Declared \in [SeqNos -> Int]
ASSUME MaxFramesAssumption == MaxFrames \in Nat
ASSUME DurationsAssumption == Durations \subseteq Int
ASSUME MalformedAssumption == Malformed \notin SeqNos
ASSUME NoneAssumption == None \notin Handles

VARIABLES
    segments,           \* HLSManifestParser::segments
    segments_decoders,  \* HLSManifestParser::segments_decoders, by their segment
    dataMutex,          \* the thread that holds it over several steps, or "free"
    ppc,                \* where the parser thread is
    manifest,           \* the entries parse() has still to read
    currentSegment,     \* the local of parse()
    sequence_number,    \* fields of HLSSegment, by handle
    declared_duration,
    status,
    num_frames,
    decode_duration,
    printed,
    worker,             \* the thread of the segment's Decoder
    mpc,                \* where the main thread is
    copied,             \* what main still has to inspect of its copy
    cursor,             \* position main's loop over `segments` looks at
    runtime_base,       \* position of the segment runtime was last measured from
    decode_time,        \* what each segment contributed to getTotalDecodeTime
    declared_time,      \* ... and to getTotalDeclaredTime
    crashed             \* std::terminate was called

parserVars  == <<segments, segments_decoders, dataMutex, ppc, manifest, currentSegment>>
segmentVars == <<sequence_number, declared_duration, status, num_frames,
                 decode_duration, printed>>
mainVars    == <<mpc, copied, cursor, runtime_base, decode_time, declared_time>>
vars == <<parserVars, segmentVars, worker, mainVars, crashed>>

Statuses == {"IN_PROGRESS", "DOWNLOADED", "DOWNLOAD_FAILED"}

Listed == Range(segments)

\* An entry sequence the server may send: a window of consecutive segments
\* (it slides, may be stale, may restart at 0), cut short by an entry that
\* throws or not.  No entry at all is a playlist without segments.
Window(lo, hi) == [i \in 1..(hi - lo + 1) |-> lo + i - 1]
Playlists ==
    {Window(lo, hi) \o tail : lo \in SeqNos, hi \in -1..MaxSeq,
                              tail \in {<<>>, <<Malformed>>}}

-----------------------------------------------------------------------------
Init ==
    /\ segments = <<>>
    /\ segments_decoders = <<>>
    /\ dataMutex = "free"
    /\ ppc = "fetch"
    /\ manifest = <<>>
    /\ currentSegment = None
    /\ sequence_number = [h \in Handles |-> -1]
    /\ declared_duration = [h \in Handles |-> 0]
    /\ status = [h \in Handles |-> "IN_PROGRESS"]
    /\ num_frames = [h \in Handles |-> 0]
    /\ decode_duration = [h \in Handles |-> 0]
    /\ printed = [h \in Handles |-> FALSE]
    /\ worker = [h \in Handles |-> "none"]
    /\ mpc = "sleep"
    /\ copied = <<>>
    /\ cursor = 0
    /\ runtime_base = 0
    /\ decode_time = [h \in Handles |-> 0]
    /\ declared_time = [h \in Handles |-> 0]
    /\ crashed = FALSE

-----------------------------------------------------------------------------
(* The parser thread. *)

Unused == Handles \ (Listed \cup {currentSegment})

\* make_shared<HLSSegment>(): blocked only by the bound on the heap.
NewSegment ==
    /\ Unused # {}
    /\ LET new == CHOOSE h \in Unused : TRUE
       IN /\ currentSegment' = new
          /\ sequence_number' = [sequence_number EXCEPT ![new] = -1]
          /\ declared_duration' = [declared_duration EXCEPT ![new] = 0]
          /\ status' = [status EXCEPT ![new] = "IN_PROGRESS"]
          /\ num_frames' = [num_frames EXCEPT ![new] = 0]
          /\ decode_duration' = [decode_duration EXCEPT ![new] = 0]
          /\ printed' = [printed EXCEPT ![new] = FALSE]

\* A manifest longer than 10 bytes arrived; parse() starts.  A failed or
\* shorter download changes nothing and the thread sleeps on.
FetchManifest ==
    /\ ppc = "fetch"
    /\ \E entries \in Playlists : manifest' = entries
    /\ NewSegment
    /\ ppc' = "parse"
    /\ UNCHANGED <<segments, segments_decoders, dataMutex, worker, mainVars, crashed>>

\* #EXTINF and its uri: the fields of currentSegment are written in place.
ReadEntry ==
    /\ ppc = "parse"
    /\ manifest # <<>>
    /\ Head(manifest) # Malformed
    /\ declared_duration' =
         [declared_duration EXCEPT ![currentSegment] = Declared[Head(manifest)]]
    /\ sequence_number' =
         [sequence_number EXCEPT ![currentSegment] = Head(manifest)]
    /\ manifest' = Tail(manifest)
    /\ ppc' = "list"
    /\ UNCHANGED <<segments, segments_decoders, dataMutex, currentSegment,
                   status, num_frames, decode_duration, printed, worker, mainVars,
                   crashed>>

\* parse() returns or throws: the rest of the manifest and the segment that
\* was not listed go away, and the thread sleeps until the next poll.
LeaveParse ==
    /\ ppc' = "fetch"
    /\ manifest' = <<>>
    /\ currentSegment' = None

\* The number, the uri or its "-N.ts" makes parse() throw: before or after the
\* declared duration was written.
ReadMalformedEntry ==
    /\ ppc = "parse"
    /\ manifest # <<>>
    /\ Head(manifest) = Malformed
    /\ \/ UNCHANGED declared_duration
       \/ \E n \in SeqNos :
            declared_duration' = [declared_duration EXCEPT ![currentSegment] = Declared[n]]
    /\ LeaveParse
    /\ UNCHANGED <<segments, segments_decoders, dataMutex, sequence_number, status,
                   num_frames, decode_duration, printed, worker, mainVars, crashed>>

EndOfManifest ==
    /\ ppc = "parse"
    /\ manifest = <<>>
    /\ LeaveParse
    /\ UNCHANGED <<segments, segments_decoders, dataMutex, segmentVars,
                   worker, mainVars, crashed>>

\* Mutant: the first listed segment is taken for the last.
FirstSequenceNumber ==
    IF segments = <<>> THEN -1 ELSE sequence_number[Head(segments)]

LastSequenceNumber ==
    IF segments = <<>> THEN -1 ELSE sequence_number[Last(segments)]

\* dataMutex is taken here and kept until the decoder is registered.
ListSegment ==
    /\ ppc = "list"
    /\ dataMutex = "free"
    /\ LastSequenceNumber < sequence_number[currentSegment]
    /\ segments' = Append(segments, currentSegment)
    /\ dataMutex' = "parser"
    /\ ppc' = "open"
    /\ UNCHANGED <<segments_decoders, manifest, currentSegment, segmentVars,
                   worker, mainVars, crashed>>

\* Already parsed: currentSegment is not replaced, the next entry overwrites it.
SkipSegment ==
    /\ ppc = "list"
    /\ dataMutex = "free"
    /\ ~(LastSequenceNumber < sequence_number[currentSegment])
    /\ ppc' = "parse"
    /\ UNCHANGED <<segments, segments_decoders, dataMutex, manifest,
                   currentSegment, segmentVars, worker, mainVars, crashed>>

\* The constructor of Decoder connected and started its worker thread.
OpenDecoder ==
    /\ ppc = "open"
    /\ worker' = [worker EXCEPT ![currentSegment] = "decoding"]
    /\ ppc' = "register"
    /\ UNCHANGED <<segments, segments_decoders, dataMutex, manifest,
                   currentSegment, segmentVars, mainVars, crashed>>

\* Mutant: lock() and unlock() calls in place of the lock_guard.
OpenFailsKeepingLock ==
    /\ ppc = "open"
    /\ LeaveParse
    /\ UNCHANGED <<segments, segments_decoders, dataMutex, segmentVars, worker,
                   mainVars, crashed>>

\* The constructor threw: the lock is released by the unwinding, the segment
\* stays in the list without a decoder.
OpenFails ==
    /\ ppc = "open"
    /\ dataMutex' = "free"
    /\ LeaveParse
    /\ UNCHANGED <<segments, segments_decoders, segmentVars, worker, mainVars, crashed>>

\* Mutant: currentSegment is not replaced after it was listed.
RegisterDecoderSharing ==
    /\ ppc = "register"
    /\ segments_decoders' = Append(segments_decoders, currentSegment)
    /\ dataMutex' = "free"
    /\ ppc' = "parse"
    /\ UNCHANGED <<segments, manifest, currentSegment, segmentVars, worker,
                   mainVars, crashed>>

RegisterDecoder ==
    /\ ppc = "register"
    /\ segments_decoders' = Append(segments_decoders, currentSegment)
    /\ NewSegment
    /\ dataMutex' = "free"
    /\ ppc' = "parse"
    /\ UNCHANGED <<segments, manifest, worker, mainVars, crashed>>

ParserStep ==
    \/ FetchManifest \/ ReadEntry \/ ReadMalformedEntry \/ EndOfManifest
    \/ ListSegment \/ SkipSegment \/ OpenDecoder \/ OpenFails \/ RegisterDecoder

-----------------------------------------------------------------------------
(* The worker thread of the decoder of segment h; SegmentDecoder models it *)
(* packet by packet.                                                       *)

\* Whatever is declared, any number of frames with any timestamps may come: the
\* difference of the last and the first one is 0, then grows, jumps, decreases
\* or, when the frame has no timestamp, stays.  (Without a timestamp in the first
\* frame back() reads an empty list, which ends the process: WorkerThrows.)
DecodeFrame(h) ==
    /\ worker[h] = "decoding"
    /\ num_frames[h] < MaxFrames
    /\ num_frames' = [num_frames EXCEPT ![h] = @ + 1]
    /\ \E d \in IF num_frames[h] = 0 THEN {0}
                ELSE Durations \cup {decode_duration[h]} :
         decode_duration' = [decode_duration EXCEPT ![h] = d]
    /\ UNCHANGED <<parserVars, sequence_number, declared_duration, status,
                   printed, worker, mainVars, crashed>>

\* Mutants: no check for an empty segment; download_failed() forgotten.
SettledStatusUnchecked(n) == "DOWNLOADED"
SettledStatusForgotten(n) == IF n = 0 THEN "IN_PROGRESS" ELSE "DOWNLOADED"

SettledStatus(n) == IF n = 0 THEN "DOWNLOAD_FAILED" ELSE "DOWNLOADED"

\* End of the segment: the thread settles it and ends.
FinishSegment(h) ==
    /\ worker[h] = "decoding"
    /\ status' = [status EXCEPT ![h] = SettledStatus(num_frames[h])]
    /\ worker' = [worker EXCEPT ![h] = "ended"]
    /\ UNCHANGED <<parserVars, sequence_number, declared_duration, num_frames,
                   decode_duration, printed, mainVars, crashed>>

\* Too many packets in a row failed or no frame could be allocated: the
\* exception leaves the thread function.
WorkerThrows(h) ==
    /\ worker[h] = "decoding"
    /\ crashed' = TRUE
    /\ UNCHANGED <<parserVars, segmentVars, worker, mainVars>>

WorkerStep(h) == DecodeFrame(h) \/ FinishSegment(h)

-----------------------------------------------------------------------------
(* The main thread. *)

GetSegments ==
    /\ mpc = "sleep"
    /\ dataMutex = "free"
    /\ copied' = segments
    /\ mpc' = "inspect"
    /\ UNCHANGED <<parserVars, segmentVars, worker, cursor, runtime_base,
                   decode_time, declared_time, crashed>>

\* Mutants: the status, or the printed flag, is not looked at.
ReportableTooEarly(h) == num_frames[h] > 0 /\ ~printed[h]
ReportableAgain(h) == status[h] = "DOWNLOADED"

Reportable(h) == status[h] = "DOWNLOADED" /\ ~printed[h]

\* Mutant: the loop stops at the first segment still in progress.
RestInOrder ==
    IF status[Head(copied)] = "IN_PROGRESS" THEN <<>> ELSE Tail(copied)

\* What is left to inspect after a segment that is not reported.
Rest == Tail(copied)

InspectSegment ==
    /\ mpc = "inspect"
    /\ copied # <<>>
    /\ IF Reportable(Head(copied))
         THEN mpc' = "print" /\ UNCHANGED copied
         ELSE copied' = Rest /\ UNCHANGED mpc
    /\ UNCHANGED <<parserVars, segmentVars, worker, cursor, runtime_base,
                   decode_time, declared_time, crashed>>

PrintSegment ==
    /\ mpc = "print"
    /\ printed' = [printed EXCEPT ![Head(copied)] = TRUE]
    /\ copied' = Tail(copied)
    /\ mpc' = "inspect"
    /\ UNCHANGED <<parserVars, sequence_number, declared_duration, status,
                   num_frames, decode_duration, worker, cursor, runtime_base,
                   decode_time, declared_time, crashed>>

\* A getter takes dataMutex and loops over the segments, which go on being
\* decoded and settled meanwhile: each one is read under its own lock.
Lock(loop) ==
    /\ dataMutex = "free"
    /\ dataMutex' = "main"
    /\ cursor' = 1
    /\ mpc' = loop

Unlock(then) ==
    /\ dataMutex' = "free"
    /\ cursor' = 0
    /\ mpc' = then

\* The segment the loop looks at.
Current == segments[cursor]

EnterRunningTime ==
    /\ mpc = "inspect"
    /\ copied = <<>>
    /\ Lock("running_time")
    /\ UNCHANGED <<segments, segments_decoders, ppc, manifest, currentSegment,
                   segmentVars, worker, copied, runtime_base, decode_time,
                   declared_time, crashed>>

\* Mutant: the end of the list is taken for a segment that was found.
EndOfList == cursor

\* total_runtime when no segment is DOWNLOADED.
NoRuntime == 0

\* Mutant: no break, the last DOWNLOADED segment wins.
GetTotalRunningTimeNoBreak ==
    /\ mpc = "running_time"
    /\ IF cursor <= Len(segments)
         THEN /\ runtime_base' = IF status[Current] = "DOWNLOADED" THEN cursor
                                 ELSE runtime_base
              /\ cursor' = cursor + 1
              /\ UNCHANGED <<mpc, dataMutex>>
         ELSE Unlock("decode_time") /\ UNCHANGED runtime_base
    /\ UNCHANGED <<segments, segments_decoders, ppc, manifest, currentSegment,
                   segmentVars, worker, copied, decode_time, declared_time, crashed>>

\* One round of the loop; it ends at the first DOWNLOADED segment, or at the
\* end of the list with runtime 0.
GetTotalRunningTime ==
    /\ mpc = "running_time"
    /\ \/ /\ cursor <= Len(segments)
          /\ status[Current] # "DOWNLOADED"
          /\ cursor' = cursor + 1
          /\ UNCHANGED <<runtime_base, mpc, dataMutex>>
       \/ /\ cursor <= Len(segments)
          /\ status[Current] = "DOWNLOADED"
          /\ runtime_base' = cursor
          /\ Unlock("decode_time")
       \/ /\ cursor > Len(segments)
          /\ runtime_base' = NoRuntime
          /\ Unlock("decode_time")
    /\ UNCHANGED <<segments, segments_decoders, ppc, manifest, currentSegment,
                   segmentVars, worker, copied, decode_time, declared_time, crashed>>

EnterDecodeTime ==
    /\ mpc = "decode_time"
    /\ Lock("add_decoded")
    /\ UNCHANGED <<segments, segments_decoders, ppc, manifest, currentSegment,
                   segmentVars, worker, copied, runtime_base, decode_time,
                   declared_time, crashed>>

GetTotalDecodeTime ==
    /\ mpc = "add_decoded"
    /\ IF cursor <= Len(segments)
         THEN /\ decode_time' = [decode_time EXCEPT ![Current] = decode_duration[Current]]
              /\ cursor' = cursor + 1
              /\ UNCHANGED <<mpc, dataMutex>>
         ELSE Unlock("declared_time") /\ UNCHANGED decode_time
    /\ UNCHANGED <<segments, segments_decoders, ppc, manifest, currentSegment,
                   segmentVars, worker, copied, runtime_base, declared_time, crashed>>

\* Mutant: only DOWNLOADED segments count as declared.
DeclaredTimeDownloaded(h) ==
    IF h \in Listed /\ status[h] = "DOWNLOADED" THEN declared_duration[h] ELSE 0

DeclaredTime(h) == IF h \in Listed THEN declared_duration[h] ELSE 0

\* Nobody writes the declared duration of a listed segment: one step.
GetTotalDeclaredTime ==
    /\ mpc = "declared_time"
    /\ dataMutex = "free"
    /\ declared_time' = [h \in Handles |-> DeclaredTime(h)]
    /\ mpc' = "check"
    /\ UNCHANGED <<parserVars, segmentVars, worker, copied, cursor, runtime_base,
                   decode_time, crashed>>

\* The totals are locals of an iteration.
NextIteration ==
    /\ decode_time' = [h \in Handles |-> 0]
    /\ declared_time' = [h \in Handles |-> 0]
    /\ mpc' = "sleep"

WaitForSegments ==
    /\ mpc = "check"
    /\ runtime_base = 0
    /\ NextIteration
    /\ UNCHANGED <<parserVars, segmentVars, worker, copied, cursor, runtime_base, crashed>>

\* The difference of the totals against getTargetDuration(), either way.
LatencyCheck ==
    /\ mpc = "check"
    /\ runtime_base # 0
    /\ dataMutex = "free"
    /\ \/ NextIteration
       \/ mpc' = "warn" /\ UNCHANGED <<decode_time, declared_time>>
    /\ UNCHANGED <<parserVars, segmentVars, worker, copied, cursor, runtime_base, crashed>>

\* The warning calls getTargetDuration() again.
WarnMismatch ==
    /\ mpc = "warn"
    /\ dataMutex = "free"
    /\ NextIteration
    /\ UNCHANGED <<parserVars, segmentVars, worker, copied, cursor, runtime_base, crashed>>

MainStep ==
    \/ GetSegments \/ InspectSegment \/ PrintSegment
    \/ EnterRunningTime \/ GetTotalRunningTime
    \/ EnterDecodeTime \/ GetTotalDecodeTime \/ GetTotalDeclaredTime
    \/ WaitForSegments \/ LatencyCheck \/ WarnMismatch

-----------------------------------------------------------------------------
\* A terminated process takes no step.
Terminated == crashed /\ UNCHANGED vars

Next ==
    \/ ~crashed /\ ParserStep
    \/ ~crashed /\ \E h \in Handles : WorkerStep(h) \/ WorkerThrows(h)
    \/ ~crashed /\ MainStep
    \/ Terminated

Spec == Init /\ [][Next]_vars

\* Every thread that can run does so eventually; connecting to the server and
\* reading from it ends, with data, at the end of the segment or with an error.
Fairness ==
    /\ WF_vars(~crashed /\ ParserStep)
    /\ WF_vars(~crashed /\ MainStep)
    /\ \A h \in Handles : WF_vars(~crashed /\ WorkerStep(h))

FairSpec == Spec /\ Fairness

-----------------------------------------------------------------------------
(* Properties. *)

TypeOK ==
    /\ segments \in Seq(Handles)
    /\ segments_decoders \in Seq(Handles)
    /\ dataMutex \in {"free", "parser", "main"}
    /\ ppc \in {"fetch", "parse", "list", "open", "register"}
    /\ manifest \in Seq(SeqNos \cup {Malformed})
    /\ currentSegment \in Handles \cup {None}
    /\ sequence_number \in [Handles -> SeqNos \cup {-1}]
    /\ declared_duration \in [Handles -> Int]
    /\ status \in [Handles -> Statuses]
    /\ num_frames \in [Handles -> Nat]
    /\ decode_duration \in [Handles -> Int]
    /\ printed \in [Handles -> BOOLEAN]
    /\ worker \in [Handles -> {"none", "decoding", "ended"}]
    /\ mpc \in {"sleep", "inspect", "print", "running_time", "decode_time",
               "add_decoded", "declared_time", "check", "warn"}
    /\ copied \in Seq(Handles)
    /\ cursor \in 0..(Len(segments) + 1)
    /\ runtime_base \in 0..Len(segments)
    /\ decode_time \in [Handles -> Int]
    /\ declared_time \in [Handles -> Int]
    /\ crashed \in BOOLEAN

\* However often a sliding, stale or restarted playlist is parsed again, the
\* listed segments have strictly increasing sequence numbers: none is listed,
\* decoded or reported twice (the check of parse() against segments.back()).
SequenceOrder ==
    \A i, j \in 1..Len(segments) :
        i < j => sequence_number[segments[i]] < sequence_number[segments[j]]

\* parse() writes currentSegment in place, without dataMutex, and uses it again
\* after a skip; that never reaches a segment already listed, because a listed
\* object is replaced before the lock is released.  The list only grows.
ListedFrozenStep ==
    /\ IsPrefix(segments, segments')
    /\ \A h \in Listed : /\ sequence_number'[h] = sequence_number[h]
                         /\ declared_duration'[h] = declared_duration[h]
ListedSegmentsAreFrozen == [][ListedFrozenStep]_vars

\* One decoder per segment, for listed segments only; a worker runs before its
\* decoder is registered only while the parser still holds dataMutex, and a
\* segment whose decoder could not be opened is never touched again.
DecoderOwnership ==
    /\ dataMutex = "parser" <=> ppc \in {"open", "register"}
    /\ dataMutex = "main" <=> mpc \in {"running_time", "add_decoded"}
    /\ IsInjective(segments_decoders)
    /\ Range(segments_decoders) \subseteq Listed
    /\ \A h \in Handles :
         worker[h] # "none" <=> \/ h \in Range(segments_decoders)
                               \/ (ppc = "register" /\ h = currentSegment)
    /\ \A h \in Handles :
         worker[h] = "none" => status[h] = "IN_PROGRESS" /\ num_frames[h] = 0

\* What print() logged of a segment stays true: no frame is added and the
\* status does not change after the report.
ReportedFinalStep ==
    \A h \in Listed : printed[h] => /\ printed'[h]
                                   /\ status'[h] = status[h]
                                   /\ num_frames'[h] = num_frames[h]
ReportedIsFinal == [][ReportedFinalStep]_vars

\* main reports a segment once, although every iteration copies the whole list.
ReportedOnceStep == mpc = "print" /\ mpc' # mpc => ~printed[Head(copied)]
ReportedOnce == [][ReportedOnceStep]_vars

\* Runtime, the decoded and the declared total are read one after the other,
\* each under a lock of its own, while segments are listed, decoded and settled.
\* What main then compares still speaks of the same segments: a segment that
\* counts as decoded counts as declared, in full, and the segment runtime is
\* measured from counts in both totals with its final values.
CountsInFull(h) == declared_time[h] = declared_duration[h]
TotalsAgree ==
    mpc = "check" =>
        /\ \A h \in Handles : decode_time[h] # 0 => CountsInFull(h)
        /\ runtime_base # 0 =>
             LET first == segments[runtime_base]
             IN  decode_time[first] = decode_duration[first] /\ CountsInFull(first)

\* getTotalRunningTime measures from the first DOWNLOADED segment; as segments
\* settle out of order that start moves to earlier ones only, so runtime never
\* drops between two reports, nor back to "Waiting for segments".
RuntimeNeverDropsStep == runtime_base # 0 => runtime_base' \in 1..runtime_base
RuntimeNeverDrops == [][RuntimeNeverDropsStep]_vars

\* Every segment object keeps the promise of SegmentLifecycle, whoever holds it.
Lifecycle(h) == INSTANCE SegmentLifecycle
                WITH status <- status[h], num_frames <- num_frames[h]
LifecycleInit == \A h \in Handles : Lifecycle(h)!Init
LifecycleStep == \A h \in Handles : [Lifecycle(h)!Next]_(Lifecycle(h)!vars)
SegmentsImplementLifecycle == LifecycleInit /\ [][LifecycleStep]_vars

\* A decoder that was started settles its segment.
DecoderSettles ==
    \A h \in Handles :
        worker[h] = "decoding" ~> status[h] # "IN_PROGRESS" \/ crashed

\* A downloaded segment is reported, even when it settles after later ones.
DownloadedIsReported ==
    \A h \in Handles : status[h] = "DOWNLOADED" ~> printed[h] \/ crashed

\* Whoever holds dataMutex over a connection to the server, an exception or a
\* loop lets go of it; the mutex is not fair, so who gets it next is open.
DataMutexIsReleased == dataMutex # "free" ~> dataMutex = "free" \/ crashed
=============================================================================
