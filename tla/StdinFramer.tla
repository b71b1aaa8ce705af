----------------------------- MODULE StdinFramer -----------------------------
(***************************************************************************)
(* How a Mayhem interface turns what is typed on stdin into frames: when   *)
(* the TAP device has no data, process_stdin collects bytes in             *)
(* stdin_buffer until what it read ends in a newline, and                  *)
(* hexStringToBytes turns the line into a packet for the bridge.           *)
(* The bytes come from a terminal, which hands over one line at a time,    *)
(* or from a pipe, which hands over whatever was written so far.           *)
(*                                                                         *)
(* A byte of a packet stands for its two digits.                           *)
(***************************************************************************)
EXTENDS Integers, Sequences, FiniteSets, SequencesExt

CONSTANTS
    Digits,     \* hexadecimal digits
    Other,      \* any other character of a line
    NewLine,
    Lines,      \* what may be typed between two newlines
    BufferSize, \* sizeof(stdin_buffer)
    PacketSize, \* sizeof(packet)
    MaxLines,   \* bound on the lines typed
    TapQueue    \* frames the TAP device keeps, it drops more

Characters == Digits \cup {Other, NewLine}

ASSUME DigitsAssumption == Other \notin Digits /\ NewLine \notin Digits \cup {Other}
ASSUME LinesAssumption == Lines \subseteq Seq(Digits \cup {Other})
\* The packet has room for half a buffer without newline and terminator.
ASSUME SizesAssumption ==
    /\ BufferSize \in Nat \ {0}
    /\ PacketSize \in Nat
    /\ BufferSize <= 2 * PacketSize + 2
ASSUME BoundsAssumption == {MaxLines, TapQueue} \subseteq Nat

VARIABLES
    terminal,   \* stdin is a terminal, not a pipe
    pending,    \* bytes that wait in stdin
    buffer,     \* stdin_buffer[0] to stdin_buffer[position - 1]
    stored,     \* bytes the last call of hexStringToBytes stored
    written,    \* packets handed to write()
    typed,      \* history: the lines typed
    count,      \* ... and their number
    pc,         \* what run() does next: read the "tap" or "stdin"
    tap         \* number of frames that wait in the device

stdinVars == <<terminal, pending, buffer, stored, written, typed, count>>
vars == <<stdinVars, pc, tap>>

position == Len(buffer)

Init ==
    /\ terminal \in BOOLEAN
    /\ pending = <<>>
    /\ buffer = <<>>
    /\ stored = 0
    /\ written = {}
    /\ typed = {}
    /\ count = 0
    /\ pc = "tap"
    /\ tap = 0

Type ==
    /\ count < MaxLines
    /\ \E line \in Lines :
         /\ pending' = pending \o line \o <<NewLine>>
         /\ typed' = typed \cup {line}
    /\ count' = count + 1
    /\ UNCHANGED <<terminal, buffer, stored, written, pc, tap>>

-----------------------------------------------------------------------------
(* hexStringToBytes *)

\* Mutant: characters that are no digits count as zeros.
IsHexLenient(text) == Len(text) % 2 = 0

IsHex(text) == Len(text) % 2 = 0 /\ \A i \in 1..Len(text) : text[i] \in Digits

\* Bytes are stored up to the first pair that is not hexadecimal.
BytesStored(text) ==
    IF Len(text) % 2 # 0 THEN 0
    ELSE Cardinality({k \in 1..(Len(text) \div 2) : \A i \in 1..(2 * k) : text[i] \in Digits})

-----------------------------------------------------------------------------
(* process_stdin *)

\* Mutant: no place is left for the terminator.
RoomWithoutTerminator == BufferSize - position

\* Mutant: one place too many is kept free.
RoomTooSmall == BufferSize - (2 + position)

\* The size given to read().
Room == BufferSize - (1 + position)

\* A terminal hands over a line, or as much of it as there is room for.
LineOrRoom(n) ==
    /\ \A i \in 1..(n - 1) : pending[i] # NewLine
    /\ pending[n] = NewLine \/ n = Room

\* What read() may return.  Any part of what will be written may have arrived
\* in a pipe.
Sizes == {n \in 1..Len(pending) : n <= Room /\ (terminal => LineOrRoom(n))}

\* Mutant: the buffer is given up also when the line goes on.
KeptNever(text) == <<>>

\* The line goes on: position += bytesRead.
Kept(text) == text

\* Mutant: the exception skips position = 0.
ProcessValid(line) ==
    /\ stored' = BytesStored(line)
    /\ written' = IF IsHex(line) THEN written \cup {line} ELSE written
    /\ buffer' = IF IsHex(line) THEN <<>> ELSE line

\* An invalid line is logged and forgotten.
Process(line) ==
    /\ stored' = BytesStored(line)
    /\ written' = IF IsHex(line) THEN written \cup {line} ELSE written
    /\ buffer' = <<>>

Complete(text) == Last(text) = NewLine

ReadStdin ==
    \E n \in Sizes :
        LET text == buffer \o SubSeq(pending, 1, n)
        IN /\ IF Complete(text) THEN Process(Front(text))
              ELSE /\ buffer' = Kept(text)
                   /\ UNCHANGED <<stored, written>>
           /\ pending' = SubSeq(pending, n + 1, Len(pending))
           /\ UNCHANGED <<terminal, typed, count>>

\* Nothing is there, or read() was asked for no bytes.
NothingRead == Sizes = {} /\ UNCHANGED stdinVars

ProcessStdin ==
    /\ pc = "stdin"
    /\ ReadStdin \/ NothingRead
    /\ pc' = "tap"
    /\ UNCHANGED tap

-----------------------------------------------------------------------------
(* run *)

FrameArrives ==
    /\ tap < TapQueue
    /\ tap' = tap + 1
    /\ UNCHANGED <<stdinVars, pc>>

\* What the interface does with a frame is up to MayhemInterface, and it may
\* throw.
HandleFrame ==
    /\ pc = "tap" /\ tap > 0
    /\ tap' = tap - 1
    /\ pc' \in {"tap", "ended"}
    /\ UNCHANGED stdinVars

\* NoDataException, also when the device is down.
NoData ==
    /\ pc = "tap" /\ tap = 0
    /\ pc' = "stdin"
    /\ UNCHANGED <<stdinVars, tap>>

-----------------------------------------------------------------------------
Run == HandleFrame \/ NoData \/ ProcessStdin

Next == Type \/ FrameArrives \/ Run

Spec == Init /\ [][Next]_vars

\* The thread of the interface runs; nobody has to type, and frames may or may
\* not arrive.
FairSpec == Spec /\ WF_vars(Run)

-----------------------------------------------------------------------------
(* Properties. *)

TypeOK ==
    /\ terminal \in BOOLEAN
    /\ pending \in Seq(Characters)
    /\ buffer \in Seq(Characters)
    /\ stored \in Nat
    /\ written \subseteq Seq(Digits)
    /\ typed \subseteq Lines
    /\ count \in 0..MaxLines
    /\ pc \in {"tap", "stdin", "ended"}
    /\ tap \in 0..TapQueue

\* All indices are within their arrays: the terminator is written at index
\* position at most, and the bytes of the packet below PacketSize.
InBounds == position < BufferSize /\ stored <= PacketSize

\* However the bytes of stdin are cut into reads, what goes to the bridge is
\* exactly one of the lines that were typed, never a part or a concatenation.
SentIsALine == written \subseteq typed

Fits(line) == Len(line) + 1 < BufferSize

\* On a terminal every hexadecimal line that fits the buffer gets through,
\* unless a line was typed that does not fit, or frames arrive so steadily that
\* the device is never found empty any more, or one of them ends the interface.
LinesGetThrough ==
    []<>(pc = "stdin") =>
        \A line \in Lines :
            terminal /\ line \in typed /\ IsHex(line) /\ Fits(line)
                ~> (line \in written \/ \E l \in typed : ~Fits(l))

\* However many frames came before, once the last one is handled stdin is read
\* until nothing is left, or for ever not at all when the buffer is full and
\* does not end in a newline.
ReadsOn ==
    <>[](tap = 0) =>
        []<>(pending = <<>> \/ position = BufferSize - 1 \/ pc = "ended")
=============================================================================
