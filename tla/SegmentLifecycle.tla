-------------------------- MODULE SegmentLifecycle --------------------------
(***************************************************************************)
(* What a segment of the playback verifier promises to whoever watches it  *)
(* (main.cpp prints it once it is DOWNLOADED): frames are only added while *)
(* it is IN_PROGRESS, and it is settled once and for all, as DOWNLOADED    *)
(* when at least one frame was decoded and as DOWNLOAD_FAILED when none    *)
(* was.  SegmentDecoder and HlsPlayback both implement this specification. *)
(***************************************************************************)
EXTENDS Naturals

VARIABLES
    status,         \* HLSSegment::status
    num_frames      \* HLSSegment::num_frames

vars == <<status, num_frames>>

Statuses == {"IN_PROGRESS", "DOWNLOADED", "DOWNLOAD_FAILED"}

Init == status = "IN_PROGRESS" /\ num_frames = 0

AddFrame ==
    /\ status = "IN_PROGRESS"
    /\ num_frames' = num_frames + 1
    /\ UNCHANGED status

Settle ==
    /\ status = "IN_PROGRESS"
    /\ status' = IF num_frames = 0 THEN "DOWNLOAD_FAILED" ELSE "DOWNLOADED"
    /\ UNCHANGED num_frames

Next == AddFrame \/ Settle

Spec == Init /\ [][Next]_vars
=============================================================================
