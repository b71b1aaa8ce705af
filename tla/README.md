# TLA+ verification of the low bandwidth test tools

The repository tests what happens to a live stream on a bad network. It holds three C++
programs that have state of their own, and the configuration of the servers they test:

| Program | Directory (under `src/`) | What it does |
|---|---|---|
| playback verifier | `playback/playback_test` | polls an HLS manifest, downloads and decodes each segment, reports it, and compares the time that went by with the media decoded |
| Mayhem interface | `tools/net_mhm_itf` | a TAP device that answers ARP requests, rebroadcasts the other ARP broadcasts, and sends frames typed on stdin |
| network monitor | `tools/network_monitor` | a pcap monitor that accounts the traffic of each client and prints it every second |

Paths below are relative to these directories.

## 1. Inventory

### Playback verifier

| Component | State | Operations | Interacts through |
|---|---|---|---|
| `HLSManifestParser` (`hls_parser.cpp`) | `segments`, `segments_decoders`, `dataMutex`, local `currentSegment` | parser thread: `fetchContentFromURI`, `parse` (lists a segment, opens its decoder), every poll again; getters: `getSegments`, three totals, `getTargetDuration` | `dataMutex`; `shared_ptr` to segments that decoders, the list and main hold at once |
| `HLSSegment` (`hls_segment.hpp`) | sequence number, declared duration, status, frames and their timestamps, `printed` | `calculateStatistics`, `download_complete`, `download_failed`, `print` | written by the parser and by one decoder, read by main |
| `Decoder` (`decoder.cpp`) | read position, counter of failures, the thread | constructor, `decodingThread`, `decodeNextFrame` | FFmpeg; an exception on its thread ends the process |
| `main` (`main.cpp`) | the list it copied | report DOWNLOADED segments, compare the totals | the getters |
| `playback::Queue` (`queue.hpp`) | `_queue`, mutex, one condition variable | `push`, `pop`, `empty`, `size` | owned by `Decoder`; nothing is pushed at this commit |

*Hard here:* three kinds of threads; the parser writes a shared segment without the lock and
keeps the lock while it connects to a server; segments settle out of order; exceptions leave
`parse` between two steps; totals are read under separate locks. *Correct means:* no segment
is listed, decoded or reported twice; a listed segment is not rewritten; every list entry has
at most one decoder; a report stays true; the totals main compares speak of the same segments; whoever
holds `dataMutex` lets go of it; a started decoder settles its segment. *For the queue:* bounded FIFO, no lost wakeup.

### Mayhem interface

| Component | State | Operations | Interacts through |
|---|---|---|---|
| `MayhemInterface::run` (`interface.cpp`) | `broadcast_timetable`, the current frame | read and parse a frame, answer ARP, rebroadcast, skip, die of a frame that does not parse | the TAP device, hence the bridge and the other interfaces on it |
| `process_stdin`, `hexStringToBytes` | `stdin_buffer`, `position` | read what is there, at the end of a line turn it into a packet | stdin, a terminal or a pipe |
| protocol views (`protocol.hpp`) | offsets into the frame | parse, `set_src_mac`, `set_dest_mac`, `set_operation` | the buffer of the frame |
| binary buffers (`binary_parser.cpp`) | storage, `_bytes_written`, `_position` | reads and writes of all widths, seek, reserve, compaction, copy, clone, load | owned by a frame; `MemoryBuffer` is built, but no caller uses it |

*Hard here:* a written broadcast comes back through the bridge and through every other
interface; only the age of a timetable entry ends the storm. A read cuts lines anywhere.
Cursors, capacity and data of a buffer change in any order. *Correct means:* storms end, no
frame is rebroadcast by an interface again, requests are answered all the same; a packet from
stdin is exactly one typed line and no index leaves its array; a buffer behaves as a file.

### Network monitor

`PacketProcessor` (`packet_processor.cpp`): the clients, period and total counters of each
client and of all, `last_print`, `dataMutex`. The capture thread accounts packets and resolves
names of new clients under the mutex; main (`monitor.cpp`) prints once a second and starts a
new period. *Hard here:* the counters are written by one thread and reset by another; printing
divides by elapsed milliseconds; resolving blocks the mutex. *Correct means:* totals are the sum
of the clients, a byte is shown in exactly one print, main keeps printing, no division by zero.

### Not modelled

The encoder and the log parser of the playback test and `main_libface.cpp` are not part of any
build. Loggers and exceptions only format text. nginx, FFmpeg scripts and docker files configure
third-party programs. All are listed in `PROJECT.json` with a reason.

## 2. Modules

`SegmentLifecycle`, `BoundedFifo` and `ByteFile` are abstract specifications; the others
describe the code. `MC…` modules give constants their values for TLC, `…_proofs` hold proofs, and
`ArithmeticLemmas` holds the lemmas on induction, sums, powers and division that several of them need.

| Module | Models | Correspondence |
|---|---|---|
| `SegmentLifecycle` | what a segment promises | frames are added while IN_PROGRESS; settled once; DOWNLOADED only with a frame |
| `SegmentDecoder` | one `Decoder` thread, packet by packet | `pc` is the place in `decodingThread`/`decodeNextFrame`; one disjunct per outcome of the demuxer and codec; `given`, `sent`, `received_packets` are histories |
| `HlsPlayback` | parser, all decoder threads and main, composed | see below |
| `BlockingQueue` | `Queue::push`/`pop` of any threads | `pc`: about to lock, asleep, about to notify; a critical section is one step, the notification after the unlock another; `SpuriousWakeup` |
| `BoundedFifo` | what the queue promises | |
| `MayhemInterface` | `run()` of several interfaces on a bridge | one step per frame (`ReplyArp`, `Rebroadcast`, `AlreadySent`, `SkipFrame`, `ReadFails`), `ProcessStdin` when there is none; the bridge, hosts and the clock are external |
| `StdinFramer` | `process_stdin`, `hexStringToBytes`, and the place of both in the loop of `run()` | `buffer` is `stdin_buffer[0..position)`; `pending` is what the kernel holds, `tap` the number of frames it holds; `pc` is what the loop reads next |
| `PacketProcessor` | monitor | capture thread (`cpc`), main (`mpc`), dataMutex held exactly while a name is resolved |
| `MkvUint` | the numbers a buffer reads and writes | `wmkvuint`, its limits and tables, `wu8`…`wu64`, `ru8`…`ru64`, `rs16`…`rs56`, with a byte of `Bits` bits |
| `MemoryBuffer` | `BufferMixin` (`growing = FALSE`) and `MemoryBuffer` (`growing = TRUE`) | one action per family of methods; `storage` has a marker for bytes nobody wrote |
| `ByteFile` | what both buffers promise, call by call | one operator with arguments per family of methods; `lost` after a caller overshot the storage |
| `EthernetPacket` | `read_packet`, the header views of `protocol.hpp`, the setters and the reply, byte by byte | a call of the buffer is a step; `header` holds the fields parsed so far, `patches` the writes a setter has still to do; `UseBuffer` is any other use of the two classes |

**HlsPlayback.** Segments are objects that several holders share, so the model has a heap: the
fields of `HLSSegment` are functions of a handle, and `NewSegment` takes a handle nobody holds.
`ppc` walks the parser through fetch, parse (entry by entry), list, open, register. `dataMutex` says
which thread holds it over several steps: the parser from listing to the end of registration, because `parse` holds it while
the decoder's constructor connects, and main in `getTotalRunningTime` and `getTotalDecodeTime`, whose loops look at
one segment after the other (`cursor`) while all of them go on being decoded and settled. Critical sections that read nothing a
worker writes and do not block are single steps guarded by it. The
worker of a segment adds frames and settles its segment (the packet level is `SegmentDecoder`;
both implement `SegmentLifecycle`, which is what links them). Nothing limits the frames or the time they span to what the
playlist declares: `decode_duration` is `back() - front()` of the list of timestamps, hence 0 with the first frame, and with each
further one it becomes any member of `Durations` (gaps, decreasing timestamps) or stays (no timestamp). `mpc` walks main through copying the
list, printing, reading the three totals under three locks, and the warning about their difference, which takes the
mutex for `getTargetDuration` once to decide and once more to print. `decode_time` and `declared_time` hold what each segment
contributed to its sum, so that the totals can be compared segment by segment. The playlists are all windows of
the published segments, stale, sliding or restarted, with or without an entry that throws, before or after it wrote a
declared duration.

**MemoryBuffer.** `ByteFile` is a contract per call: an operation has the effect its arguments determine (`Overwrite(data)`, `Extend(data)`,
`Load(input, size)`, `Get(n)`, `DropRead`, ...) or throws and has none. `CallsAreFileCalls` pairs each method with its operation and the same
arguments, so a compaction must leave exactly what was not read, and a load exactly what its input had. Two exceptions are part of the contract.
`consume_bytes` and `bytes_appended` move the cursor before they check it (`binary_parser.cpp:764-778`); a caller that announces more
than fits gets an exception and a buffer whose cursors point behind the storage. The model has this (`Lost`, which is `lost` in `ByteFile`, after `Overrun`).
Most methods would then touch foreign memory, which is undefined; modelled are `clear`, moving from it and `load_payload`, which set both cursors again. In the
program `wb` is the only caller of `consume_bytes` and passes at most `bytes_left`, `bytes_appended` has no caller, and nobody goes on with a
buffer that threw; `PacketTypeOK` says that the interface never loses its buffer. And `wmkvuint` is not
overridden in `MemoryBuffer`: it wants room for the widest number (`binary_parser.cpp:545`) and is refused where every other write of a
`MemoryBuffer` allocates. The comment at `binary_parser.hpp:215-216` says otherwise ("If overflow happens additional memory is
allocated."), so the contract names the refusal as the one exception to it; it changes nothing in the buffer, and no code of the program
writes such a number.

**EthernetPacket.** `read_packet` reads a frame field by field; which field comes next depends on the fields
before (`Layout`: an ARP header announces the lengths of its addresses). A frame that is answered is cloned, parsed
again (`pc = "reread"`) and patched by seeks and writes at the offsets the setters compute; every one of these
calls may throw, and what it throws ends the process (`pc = "ended"`). Lengths of addresses are parameters, so that
the offsets are formulas.

**Composition.** `HlsPlayback` composes parser, workers and main directly, since they share
memory. `MayhemInterface` composes interfaces over a bridge, a frame at a time. `EthernetPacket` composes the interface with its
buffer: it extends `MemoryBuffer`, which extends `MkvUint`, and opens up the steps that handle one frame in
`MayhemInterface`: `ReplyIsExact` is what `ReplyTo` takes for granted there. `StdinFramer` opens up the step
`ProcessStdin` and shares with the rest of `run()` only whose turn it is.

## 3. Runs

| Run | Question | Instance |
|---|---|---|
| `playback_safety` | do listing, ownership, reports and the start of runtime hold in every interleaving? | three published segments, four handles, up to 2 frames each, timestamps left out; 2.29M states |
| `playback_liveness` | do the totals main compares fit each other; do decoders settle, are segments reported, is `dataMutex` let go of? | two segments (declared 1 and 2), three handles, up to 2 frames, decoded 0 or 3; 159k states |
| `decoder` | does a decoder implement the lifecycle, for every reason to end? | every segment of up to 7 packets, failure limit 2, 2 read errors; 62k states |
| `decoder_given` *(violated)* | is the packet given to `decodeNextFrame` decoded, as `decoder.hpp` says? | same kind |
| `mayhem` | do storms end, without a rebroadcast of one's own frame, with requests answered? | 3 interfaces, 1 host, queues of 3, 2 frames sent, interval 3, delay 1; 247k states |
| `mayhem_reply` *(violated)* | does an ARP reply name its sender, as `basic_packet_routing.md` says? | same kind |
| `stdin` | is each packet one line, wherever reads cut; are indices in bounds; do lines get through between frames, and does reading go on when these stop? | buffer of 6, packet of 2, 6 kinds of lines, 3 lines typed, up to 2 frames in the device; 33k states |
| `monitor` | do totals, prints and clients agree, what crashes, does printing go on? | 3 addresses, 3 packets, lengths 60, 257, 512; 147k states |
| `monitor_length` *(violated)* | is the length of the packet accounted? | same kind |
| `monitor_clients` *(violated)* | are the "Remote peers" remote? | same kind |
| `queue` | is the queue a live FIFO without lost wakeups? | 3 producers, 2 consumers, size 2; 374k states |
| `buffer` | is a buffer a file, do numbers decode; is a reply exact, and does every good frame survive parsing, printing and patching? | data up to 3 bytes of 3 bits, chunks of 1 and 2, all numbers of up to 3 bytes; addresses of 2, 1 and 2 bytes, frames of up to 28 bytes; 116k states |

**Why these bounds are enough to see the interesting cases.** Three segments are the least with
which a playlist can slide, go back and restart, and a middle segment can settle last; one heap object
more than segments lets `parse` allocate while all are listed. A decoded duration of 3 is more than any segment declares, 0 is less, and
two frames reach both. Three bytes of data let two be read, one be left, and a compaction or an overwrite cut between them. Seven packets with limit two
let the failure limit be reached, just missed, and reset by a frame. Three interfaces allow a loop that does
not go straight back; `Interval = 3 = 3 · MaxDelay` is the boundary case of the assumption. A
buffer of 6 holds a line that exactly fits, one too long, and parts of two. Three
producers and two consumers on two places let notifications hit the wrong kind of thread. Length 60 grows
when its bytes are swapped, 512 becomes less than the header, 257 stays. Three bits to a byte keep every branch
of the width chain, including the last one that has no limit, and the numbers are exhaustive, those of fixed width up to two bytes with
and without sign. The frames of `buffer` are all ARP frames with hardware addresses of 0 to 4 and protocol addresses of 0 to 3
bytes, whether or not that is what the setters assume, requests and replies, to this machine and to others; IPv6 frames with right and wrong payload
lengths; unknown types; every way to cut an ARP or IPv6 frame short; and padded frames.

Deadlock is checked everywhere but in `stdin`, where the operator may stop typing for good.

**What the violated runs show.** `decodeNextFrame` reads over the packet it is given, so at most half of
the video packets become frames (`decoder`: `GivenPacketsAreLost` is the exact loss). The ARP reply
carries the requester's MAC as sender. The monitor uses `ip_len` in network byte order. For an
incoming packet the client it accounts to is the local address. Each finding is in `PROJECT.json` with the line of the
code and the quoted line of the documentation.

## 4. Fairness and other assumptions

* *Playback:* weak fairness of the parser, of main and of each worker: the OS runs threads, connecting and reading
  end somehow. `DataMutexIsReleased` says that whoever holds `dataMutex` lets go of it. That main then gets it is not claimed: a
  `std::mutex` promises nothing to a waiter against a thread that takes it again and again. In `DownloadedIsReported`, a liveness property of
  main, weak fairness suffices because a bounded number of segments is published, so that the parser holds the mutex only finitely often; in
  practice the pause between two polls gives main its turn. `DecoderSettles` assumes that reads do not fail for ever (`decoder.cpp:163` retries without a limit).
* *Playback data:* `DeclaredAssumption`, `MaxFramesAssumption` and `DurationsAssumption` only give types: declared durations, numbers of frames
  and timestamps are unrelated, as in the code. The proofs hold for any set of durations and any bound on the frames.
* *Decoder:* the worker takes steps; only finitely many reads fail with an error that is retried.
* *Queue:* every thread goes on and keeps calling. Spurious wakeups have no fairness; nothing counts on them.
* *Mayhem:* interfaces handle the frames they have (they poll every 30 ms), time goes on. Sending and stdin have no fairness.
  `MaxDelay` is an assumption about the environment: a frame is handled within it after it was written, and
  `|Nodes| · MaxDelay ≤ Interval` (1000 ms in the code). Without it a slow loop could rebroadcast for ever. Ages above the
  interval are treated alike, since the code only compares with it. One name stands for the MAC and the IP of an interface.
* *stdin:* weak fairness of the loop of `run()`, none of the operator or of the bridge. With steady traffic stdin is not served at all, so
  `LinesGetThrough` is stated for a device that is found empty again and again, and `ReadsOn` for one that stays empty; the latter
  admits the one way reading stops: the buffer is full without a newline. Neither says anything about a device that fails for ever.
* *Frames:* `EthernetPacket` has safety properties only; `read()` returns any of the frames, and what the timetable decides is left open (`MayhemInterface` has it).
* *Monitor:* capture thread and main run, the resolver answers (each resolution ends), time goes on; packets need not come.
* *Clock:* the system clock is never set back.

## 5. Proofs

TLAPS proves the safety properties below for all values of the constants (under the named `ASSUME`s).

* `HlsPlayback_proofs`: in layers. `TypeInv` (types and: there is a current segment exactly while
  parsing) is inductive; `CurrentInv` (the current segment is not listed until it is published
  under the lock) makes the in-place writes of `parse` harmless, which gives
  `ListedFrozen`; with it a step appends at most a larger number: `SequenceOrderHolds`;
  `OwnershipInv` gives `OwnershipHolds`.
  On top of these, `ReportInv` (status ⇔ worker, printed ⇒ DOWNLOADED, main's copy holds listed
  segments) gives `ReportedOnceHolds`, `ReportedFinalHolds`, and step by step `LifecycleImplemented`. `MutexInv` ties the holder of the mutex to the
  places of parser and main. DOWNLOADED is final and the list only grows; `RuntimeInv` adds that the segment runtime was measured from is still
  DOWNLOADED and not passed by the loop that looks for the first one again, so that it only moves forward: `RuntimeNeverDropsHolds`. `TotalsInv`
  carries what was read at the earlier locks to the later ones: what counts as decoded is listed, stays listed, and its declared duration is frozen, so it counts as
  declared in full when that total is read; and the segment runtime starts at is settled (`SettledDuration`: nobody changes its duration any
  more), so the decoded total has its final value although the loop runs beside the workers. Hence `TotalsAgreeHolds`.
* `SegmentDecoder_proofs`: the inductive invariant adds that packets given or sent lie behind the read position;
  `LifecycleRefined` is the refinement. For `GivenPacketsLost` each frame is paid for with a packet that was given and lost
  (`Paired`), so that twice the frames are at most the video packets. `WorkShrinks`
  is what `Settles` rests on: packets to read, reads that may still fail and the call to return from are a number that every step lowers.
* `BlockingQueue_proofs`: `NoLostWakeup` is inductive with the types: whoever makes a sleeper ready is itself about to
  notify, and notifying wakes everyone. `NeverAllAsleep` follows since the queue cannot be full and empty. `FifoImplemented` is the refinement.
* `MayhemInterface_proofs`: for any number of interfaces. `Young` bounds the age of every timetable entry on the way of a copy by
  the way itself, `age + MaxDelay ≤ |via| · MaxDelay + wait`; with `DelayAssumption` an interface a copy
  already passed has an entry that is not expired: `LoopBackIgnored`. Hence a copy has fewer interfaces left to pass at each
  rebroadcast. `StormWeakens` gives a copy that has passed `via` the energy `2 ^ (|Nodes| · |Nodes \ via|)`: a
  rebroadcast to all other interfaces is worth less than the copy it is made of (`n < 2^n`), so each handled frame lowers the sum over all queues, a natural
  number, and time keeps it. This is what `StormEnds` rests on; what TLC adds is that frames are handled at all. In the same way
  `RequestsWait` is what `RequestsAreAnswered` rests on: no step takes a request off its queue without its reply or the end of the process.
  `RepliesAnswer` traces every reply to a request of a host (`SentByHosts`: interfaces invent no frames), so
  `RepliesNameTheAsker` can say what the finding `ReplyNamesItsSender` is in general: no reply ever names its author, all name the asker.
  It assumes that no host has the address of an interface.
* `PacketProcessor_proofs`: `BytesReportedOnce` is inductive per client; `Clocks` (a print begins after time has passed)
  leaves only a fresh client as the reason of a division by zero. `TotalsHold` is inductive with `NoBytesUnlisted`: addresses that are not
  clients have no bytes in the running period, so that adding a client, which resets its counters, loses none, and an accounted packet changes one term of each sum. The finding on lengths
  is the order of two bytes and nothing else (`OnlyTheByteOrder`: where swapping them changes nothing, what the documentation says holds), and the
  one on peers is total (`PeersNeverSend`).
* `StdinFramer_proofs`: what is in `stdin_buffer` and in stdin together is one text, `Text`. `LinesAreTyped` says that every part of it
  between two newlines was typed. A read that does not complete a line leaves `Text` alone, one that does takes off its first line; hence
  `SentLineTyped`. `IndicesInBounds` needs only that the packet has half the room of the buffer.
* `EthernetPacket_proofs`: for any storage, chunks and sizes. `BufferInv` adds to the types that the data are bytes somebody wrote
  (`Clean`) and that the buffer is not lost; `AnyBuffer` is what holds of lost ones too. One lemma per method (`WriteGrowingStep`, `BytesAppendedStep`, `EliminateStep`, ...)
  shows that it keeps the invariant and is its call on the file; they rest on the ways an operation changes the buffer (`PutStep`, `ExtendStep`, `TakenStep`,
  `SeekStep`, `RefuseStep`, `OverrunStep`). Hence `FileImplemented`: every call is the call with the same arguments, and the buffer as a whole implements
  `ByteFile` (`File!Spec`). `NumbersAlwaysReadBack` is about numbers for bytes of any width. `BigEndian` has the digits of a number
  in base `2^Bits` and `Unsigned` adds them up again (`UnsignedReadsBack`, by induction over the bytes; `SignedReadsBack` with the sign). For
  a number of variable width, the first byte is the marker plus the leading digit, and lies in the range for which `byte_to_size_table` has
  the width (`WidthTold`); the limit chain leaves room for the marker.

  The same module proves the interface at work (`PacketSpec`), for any frames and any lengths of the addresses. `PacketInv` adds to `BufferInv`
  that the fields in `header` are, in the order of `Layout`, the parts of the frame at growing offsets (`HeaderInv`): hence
  `PacketTypeCorrect`, and every patch of a setter is at an offset of the frame. The buffer is never lost and its calls are those of a file: `FrameIsByteFile`. For the
  buffers of anybody else `LibraryInv` holds.
  `GoodInv` is about complete frames. While an ARP frame is answered, `Underway(result)` holds: there is a list of patches, of which those left in
  `patches` are the tail, and a list of contents, each the one before with one patch `Stored`, whose last is `result` and whose current one is
  `Content` (`Results`). Without the contents that are still to come the invariant would not be inductive: a patch lands on what the
  earlier ones left. A patch that is underway fits, so no step throws (`CompleteFramesSurvive`), and what `result` is, field by field, follows
  from where the fields lie: one that is stored is read back and leaves the others alone (`StoredThere`, `Elsewhere`), hence `RepliesAreExact`.

Only model-checked: all liveness (`DecoderSettles`, `DownloadedIsReported`, `DataMutexIsReleased`, `Settles`,
`StormEnds`, `RequestsAreAnswered`, `LinesGetThrough`, `ReadsOn`, `KeepsPrinting`, `ItemsFlow`), which the prover does not handle
under fairness (`StormWeakens`, `RequestsWait` and `WorkShrinks` prove the safety part of `StormEnds`, `RequestsAreAnswered` and `Settles`). Of the violated runs, the proofs say how far the violation goes.

The provers do not instantiate induction theorems, which take an operator. `ArithmeticLemmas` states induction over sets instead
(`SubsetInduction`, `NatInductive`, from the minimum of a set of naturals that the library's `WFMin` gives), and every use defines the set of the
numbers or subsets for which its fact is known. Sums over finite sets, `Unsigned` and the powers of two are handled that way.

Assumptions on constants beyond their types: `DelayAssumption` (section 4), and that interfaces and the monitor's addresses are finitely many.

## 6. Abstractions and what is left out

* *Playback:* the clock and the values of runtime and of the thresholds (`main.cpp:108`, `main.cpp:111`) are left out: main may warn or not. Of runtime the
  model keeps which segment it is measured from. Of the header tags `target_duration` is such a threshold, `refresh_interval` the length of a pause, and
  nothing reads the others. Of the timestamps only `back() - front()` is kept; sizes, frame rates and formatting are left out, as are destructors: the program
  never leaves its loop. A segment whose decoder could not be opened stays listed without one, as in the code.
* *Queue:* the contract of the class. In the built program `push` is commented out (`decoder.cpp:197`) and `getFrame` has no caller.
* *Mayhem:* a frame is read and handled in one step, since the thread shares nothing. What does not parse is one value, of which
  `ReadFails` is the effect; `EthernetPacket` parses the bytes. What `print()` does with an IPv4 frame, whose header pointers are not set, is undefined: both
  modules allow that it ends the process. Set-up calls of the constructor and command-line options are a sequence without concurrency, of which each failure ends the process.
* *stdin:* a packet byte stands for its two digits; NUL bytes are not typed. Several lines that arrive in one read of a pipe are rejected together,
  as in the code.
* *Monitor:* of time only "the same millisecond or later" matters to a division. `print()` does divide by zero for a client created in the millisecond
  of the print (`packet_processor.cpp:34`): this ends the process in the model too (`PrintCrashes`), and `CrashNeedsFreshClient` shows that it is the only way.
  It is a defect, stated as the exact condition under which it happens, since no document, comment or test speaks of it. The pcap loop and the resolver are external.
* *Buffers:* a write is a sequence of bytes; little-endian and floating-point numbers are not converted. Allocation does not fail; seek positions are not
  negative. What most methods do to a buffer whose cursors left the storage is undefined and left out (section 2). When the hardware addresses of an ARP frame do not
  have the length the setters assume (`protocol.hpp:158`), a write beyond the frame but within the bytes allocated for a read makes the frame longer without notice, and one beyond
  those throws; the model has both, `ReplyIsExact` is about the frames with the assumed length.

## 7. Plan

Order of work, most important first. Done: 1–8.

1. `SegmentLifecycle`, `SegmentDecoder`, `HlsPlayback`: the verifier, its refinement and proofs.
2. `BlockingQueue` / `BoundedFifo` with proofs.
3. `MayhemInterface`: storms, with the proof for any number of interfaces; `PacketProcessor`.
4. `StdinFramer` with proofs, within the loop of `run()`.
5. `MkvUint`, `MemoryBuffer`, `ByteFile`: the buffers, with the refinement proved.
6. Numbers of fixed width.
7. `EthernetPacket`: frames and the reply byte by byte, composed with the buffer.
8. Proofs of the sums, of the numbers and of how far the findings go; measures behind `StormEnds`, `RequestsAreAnswered`, `Settles`.
9. Measures of the same kind behind `DecoderSettles`, `LinesGetThrough` and `ItemsFlow`.
10. Header tags of a playlist in `HlsPlayback`.
