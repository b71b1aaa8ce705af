--------------------------- MODULE SegmentDecoder ---------------------------
(***************************************************************************)
(* One Decoder and its segment, packet by packet: the worker thread        *)
(* decodingThread demuxes the segment and hands each video packet to       *)
(* decodeNextFrame, which reads on by itself until a packet yields a       *)
(* frame, and never decodes the packet it was given.  HlsPlayback keeps of *)
(* this thread what SegmentLifecycle says of it.                           *)
(*                                                                         *)
(* The owner never destroys a decoder (the parser thread does not end), so *)
(* stopDecoding stays false.                                               *)
(***************************************************************************)
EXTENDS Naturals, Sequences, FiniteSets

CONSTANTS
    Contents,       \* what the segments may hold: sequences of stream kinds
    MaxFailures,    \* 20: more rejected packets than this end the process
    MaxReadErrors   \* bound on the reads that fail before the end of the segment

Kinds == {"video", "other"}

ASSUME ContentsAssumption == Contents \subseteq Seq(Kinds)
ASSUME MaxFailuresAssumption == MaxFailures \in Nat
ASSUME MaxReadErrorsAssumption == MaxReadErrors \in Nat

VARIABLES
    content,        \* the packets of this segment
    pos,            \* the packet av_read_frame returns next
    pc,             \* decodingThread ("demux"), decodeNextFrame ("decode"), or over
    given,          \* packets handed to decodeNextFrame
    sent,           \* packets passed to avcodec_send_packet
    received_packets, decoded_frames,   \* Decoder's public counters
    num_of_failed_frames_in_arrow,
    status, num_frames,                 \* of the HLSSegment
    read_errors     \* reads that failed so far

codecVars   == <<given, sent, received_packets, decoded_frames,
                 num_of_failed_frames_in_arrow>>
segmentVars == <<status, num_frames>>
vars == <<content, pos, pc, codecVars, segmentVars, read_errors>>

Init ==
    /\ content \in Contents
    /\ pos = 1
    /\ pc = "demux"
    /\ given = {}
    /\ sent = {}
    /\ received_packets = 0
    /\ decoded_frames = 0
    /\ num_of_failed_frames_in_arrow = 0
    /\ status = "IN_PROGRESS"
    /\ num_frames = 0
    /\ read_errors = 0

\* av_read_frame returned a packet of this stream.
Read(kind) ==
    /\ pos <= Len(content)
    /\ content[pos] = kind
    /\ pos' = pos + 1
    /\ UNCHANGED <<content, read_errors>>

\* av_read_frame failed, but not with AVERROR_EOF.
ReadError ==
    /\ read_errors < MaxReadErrors
    /\ read_errors' = read_errors + 1
    /\ UNCHANGED <<content, pos>>

-----------------------------------------------------------------------------
(* decodingThread *)

DemuxVideo ==
    /\ pc = "demux"
    /\ Read("video")
    /\ given' = given \cup {pos}
    /\ received_packets' = received_packets + 1
    /\ pc' = "decode"
    /\ UNCHANGED <<sent, decoded_frames, num_of_failed_frames_in_arrow, segmentVars>>

\* av_frame_alloc failed before the packet was counted; nobody catches what
\* decodeNextFrame throws.
FrameNotAllocated ==
    /\ pc = "demux"
    /\ Read("video")
    /\ given' = given \cup {pos}
    /\ pc' = "out_of_memory"
    /\ UNCHANGED <<sent, received_packets, decoded_frames,
                   num_of_failed_frames_in_arrow, segmentVars>>

DemuxOther ==
    /\ pc = "demux"
    /\ Read("other")
    /\ UNCHANGED <<pc, codecVars, segmentVars>>

\* Sleeps 100 ms and tries again, for as long as the error lasts.
DemuxError ==
    /\ pc = "demux"
    /\ ReadError
    /\ UNCHANGED <<pc, codecVars, segmentVars>>

\* Mutants: no check for a segment without frames; AVERROR_EOF taken for one
\* more error to sleep over.
SettledStatusUnchecked(n) == "DOWNLOADED"
EndOfSegmentRetried == pc = "demux" /\ pos > Len(content) /\ UNCHANGED vars

SettledStatus(n) == IF n = 0 THEN "DOWNLOAD_FAILED" ELSE "DOWNLOADED"

EndOfSegment ==
    /\ pc = "demux"
    /\ pos > Len(content)
    /\ status' = SettledStatus(num_frames)
    /\ pc' = "ended"
    /\ UNCHANGED <<content, pos, codecVars, num_frames, read_errors>>

-----------------------------------------------------------------------------
(* decodeNextFrame: its loop reads into the packet it was given. *)

SkipOther ==
    /\ pc = "decode"
    /\ Read("other")
    /\ UNCHANGED <<pc, codecVars, segmentVars>>

\* Mutant: the loop goes on after a frame.
FrameDecodedReadsOn ==
    /\ pc = "decode"
    /\ Read("video")
    /\ sent' = sent \cup {pos}
    /\ decoded_frames' = decoded_frames + 1
    /\ num_of_failed_frames_in_arrow' = 0
    /\ num_frames' = num_frames + 1
    /\ UNCHANGED <<pc, given, received_packets, status>>

\* The codec accepted the packet and returned a frame.
FrameDecoded ==
    /\ pc = "decode"
    /\ Read("video")
    /\ sent' = sent \cup {pos}
    /\ decoded_frames' = decoded_frames + 1
    /\ num_of_failed_frames_in_arrow' = 0
    /\ num_frames' = num_frames + 1
    /\ pc' = "demux"
    /\ UNCHANGED <<given, received_packets, status>>

\* The codec accepted the packet but has no frame yet.
PacketBuffered ==
    /\ pc = "decode"
    /\ Read("video")
    /\ sent' = sent \cup {pos}
    /\ UNCHANGED <<pc, given, received_packets, decoded_frames,
                   num_of_failed_frames_in_arrow, segmentVars>>

\* Mutants: >= and a limit off by one.
TooManyFailuresAtLimit(n) == n >= MaxFailures
TooManyFailuresLate(n) == n > MaxFailures + 1

TooManyFailures(n) == n > MaxFailures

\* avcodec_send_packet failed; one failure too many is thrown, and nothing on
\* this thread catches it.
PacketRejected ==
    /\ pc = "decode"
    /\ Read("video")
    /\ sent' = sent \cup {pos}
    /\ num_of_failed_frames_in_arrow' = num_of_failed_frames_in_arrow + 1
    /\ pc' = IF TooManyFailures(num_of_failed_frames_in_arrow') THEN "terminated"
                                                                ELSE "decode"
    /\ UNCHANGED <<given, received_packets, decoded_frames, segmentVars>>

\* The end of the segment and a failed read leave the loop alike.
ReadStops ==
    /\ pc = "decode"
    /\ \/ ReadError
       \/ pos > Len(content) /\ UNCHANGED <<content, pos, read_errors>>
    /\ pc' = "demux"
    /\ UNCHANGED <<codecVars, segmentVars>>

DecodeNextFrame ==
    SkipOther \/ FrameDecoded \/ PacketBuffered \/ PacketRejected \/ ReadStops

-----------------------------------------------------------------------------
\* The thread ended, or the process did.
HasEnded == pc \in {"ended", "terminated", "out_of_memory"}
Over == HasEnded /\ UNCHANGED vars

WorkerStep == \/ DemuxVideo \/ FrameNotAllocated \/ DemuxOther \/ DemuxError
              \/ EndOfSegment \/ DecodeNextFrame

Next == WorkerStep \/ Over

\* Reads end: with a packet, an error or the end of the segment.
Spec == Init /\ [][Next]_vars /\ WF_vars(WorkerStep)

-----------------------------------------------------------------------------
(* Properties. *)

TypeOK ==
    /\ content \in Seq(Kinds)
    /\ pos \in 1..(Len(content) + 1)
    /\ pc \in {"demux", "decode", "ended", "terminated", "out_of_memory"}
    /\ given \in SUBSET (1..Len(content))
    /\ sent \in SUBSET (1..Len(content))
    /\ received_packets \in Nat
    /\ decoded_frames \in Nat
    /\ num_of_failed_frames_in_arrow \in 0..(MaxFailures + 1)
    /\ status \in {"IN_PROGRESS", "DOWNLOADED", "DOWNLOAD_FAILED"}
    /\ num_frames \in Nat
    /\ read_errors \in Nat

Videos == {i \in 1..Len(content) : content[i] = "video"}

\* Every call of decodeNextFrame throws away the packet it was given and returns
\* at most one frame: the given packets are never sent, and no more frames are
\* decoded than packets were lost that way, so at most half of a segment's
\* video packets become frames.  Decoder and segment count the same frames.
GivenPacketsAreLost ==
    /\ given \cap sent = {}
    /\ num_frames = decoded_frames
    /\ num_frames <= received_packets
    /\ pc = "decode" => num_frames < received_packets
    /\ 2 * num_frames <= Cardinality(Videos)

\* The process survives MaxFailures rejected packets since the last frame, not
\* one more, and a thread that ended has read its segment to the end.
EndsForAReason ==
    /\ pc = "terminated" <=> num_of_failed_frames_in_arrow > MaxFailures
    /\ pc = "ended" <=> status # "IN_PROGRESS"
    /\ pc = "ended" => pos > Len(content)

\* The segment keeps the promise of SegmentLifecycle.
Lifecycle == INSTANCE SegmentLifecycle
ImplementsLifecycle == Lifecycle!Spec

\* If only finitely many reads fail, the thread settles the segment or dies.
Settles == <>HasEnded

\* decoder.hpp documents the argument of decodeNextFrame as "The packet to
\* decode": when the call has returned, the packet has been sent to the codec.
GivenPacketIsDecoded == pc = "demux" => given \subseteq sent
=============================================================================
