---------------------------- MODULE MemoryBuffer ----------------------------
(***************************************************************************)
(* The buffers of binary_parser.cpp: a storage with a write cursor         *)
(* (_bytes_written) and a cursor for reading and overwriting (_position).  *)
(* A MemoryBuffer allocates what a write needs, a BufferMixin refuses a    *)
(* write beyond its storage; both refuse to read what was not written.     *)
(*                                                                         *)
(* consume_bytes and bytes_appended move a cursor before they look whether *)
(* it leaves the storage.  The buffer is then lost: most methods would     *)
(* touch memory behind the storage, which is undefined, and no caller in   *)
(* the program goes on using a buffer that threw.  Modelled are the calls  *)
(* that set both cursors again.                                            *)
(***************************************************************************)
EXTENDS MkvUint

CONSTANTS
    Chunks,     \* sequences of bytes that are written at once
    Numbers,    \* ... and the numbers of variable width
    Sizes,      \* of reads
    ChunkSize,  \* _CHUNK_SIZE_
    Factor,     \* of parsed to unparsed data
    NotWritten, \* a byte of allocated storage
    MaxLength   \* bound on the length of the data

ASSUME ChunksAssumption == Chunks \subseteq Seq(Bytes)
ASSUME NumbersAssumption == Numbers \subseteq Int
ASSUME SizesAssumption == Sizes \subseteq Nat /\ {ChunkSize, Factor, MaxLength} \subseteq Nat
ASSUME NotWrittenAssumption == NotWritten \notin Bytes

VARIABLES
    growing,    \* a MemoryBuffer
    storage,    \* _storage[0] to _storage[_bytes_allocated - 1]
    written,    \* _bytes_written
    position,   \* _position
    read,       \* what the last operation returned
    thrown      \* it threw an exception

vars == <<growing, storage, written, position, read, thrown>>

Allocated == Len(storage)
BytesLeft == written - position

Lost == written > Allocated \/ position > Allocated

Space(n) == [i \in 1..n |-> NotWritten]

Init ==
    /\ growing \in BOOLEAN
    /\ \E data \in Chunks \cup {<<>>}, n \in Sizes :
         /\ growing => data = <<>> \/ n = 0
         /\ storage = data \o Space(n)
         /\ written = Len(data)
    /\ position = 0
    /\ read = <<>>
    /\ thrown = FALSE

Returns(bytes) == read' = bytes /\ thrown' = FALSE /\ UNCHANGED growing

Throws == read' = <<>> /\ thrown' = TRUE /\ UNCHANGED growing

Refuse == Throws /\ UNCHANGED <<storage, written, position>>

-----------------------------------------------------------------------------
(* Writing. *)

\* reserve_capacity_from_position, reserve_capacity_from_end
Reserved(size) ==
    IF Allocated >= size THEN storage ELSE storage \o Space(size + ChunkSize - Allocated)

Stored(cells, at, data) ==
    [i \in 1..Len(cells) |-> IF i \in (at + 1)..(at + Len(data)) THEN data[i - at] ELSE cells[i]]

WrittenUpTo(p) == IF p > written THEN p ELSE written

Put(cells, data) ==
    /\ storage' = Stored(cells, position, data)
    /\ position' = position + Len(data)
    /\ written' = WrittenUpTo(position + Len(data))
    /\ Returns(<<>>)

\* MemoryBuffer::wu8 to wfloat_le
WriteGrowing(data) ==
    /\ growing
    /\ position + Len(data) <= MaxLength
    /\ Put(Reserved(position + Len(data)), data)

\* BufferMixin::wu8 to wfloat_le
WriteFixed(data) ==
    /\ ~growing
    /\ IF position + Len(data) > Allocated THEN Refuse ELSE Put(storage, data)

\* The widest number must have space, also in a MemoryBuffer.
wmkvuint(number) ==
    IF position + Bits > Allocated THEN Refuse ELSE Put(storage, Encode(number))

write_to_end(data) ==
    /\ growing
    /\ written + Len(data) <= MaxLength
    /\ storage' = Stored(Reserved(written + Len(data)), written, data)
    /\ written' = written + Len(data)
    /\ UNCHANGED position
    /\ Returns(<<>>)

\* Written at the end, with a position that is put back.
append_buffer(data) == write_to_end(data)

\* The caller has stored data in the capacity left, at end_of_data(); the
\* cursor has moved when there was not as much.
bytes_appended(data) ==
    /\ written' = written + Len(data)
    /\ UNCHANGED position
    /\ IF written + Len(data) > Allocated THEN Throws /\ UNCHANGED storage
       ELSE storage' = Stored(storage, written, data) /\ Returns(<<>>)

\* The caller has stored data at start_of_data().
consume_bytes(data) ==
    IF position + Len(data) <= Allocated THEN Put(storage, data)
    ELSE position' = position + Len(data) /\ Throws /\ UNCHANGED <<storage, written>>

load_payload(input, size) ==
    /\ growing
    /\ size <= MaxLength
    /\ position' = 0
    /\ IF size <= Len(input)
       THEN /\ storage' = Stored(Reserved(size), 0, SubSeq(input, 1, size))
            /\ written' = size
            /\ Returns(<<>>)
       ELSE storage' = Reserved(size) /\ written' = 0 /\ Throws

-----------------------------------------------------------------------------
(* Reading. *)

Taken(n) ==
    /\ position' = position + n
    /\ Returns(SubSeq(storage, position + 1, position + n))
    /\ UNCHANGED <<storage, written>>

\* ru8 to rs64, rdouble, rfloat, rfloat_le, rbytes, rbytes_into and rstring
Get(n) == IF position + n > written THEN Refuse ELSE Taken(n)

AtMost(n) == IF n > BytesLeft THEN BytesLeft ELSE n

rbytes_at_most(n) == Taken(AtMost(n))

\* The terminator itself is not consumed.
rnullterminatedstring ==
    LET Ends == {n \in 0..(BytesLeft - 1) : storage[position + n + 1] = 0}
    IN IF Ends = {} THEN Taken(BytesLeft)
       ELSE Taken(CHOOSE n \in Ends : \A m \in Ends : n <= m)

\* WriteInterface::wb sends what was asked for and is there, and consumes it.
wb(n) == IF AtMost(n) = 0 THEN Refuse ELSE Taken(AtMost(n))

-----------------------------------------------------------------------------
(* The buffer as a whole. *)

\* Mutant: any position is accepted.
seekUnchecked(p) == position' = p /\ Returns(<<>>) /\ UNCHANGED <<storage, written>>

seek(p) ==
    IF p > written THEN Refuse
    ELSE position' = p /\ Returns(<<>>) /\ UNCHANGED <<storage, written>>

clear == written' = 0 /\ position' = 0 /\ Returns(<<>>) /\ UNCHANGED storage

\* Mutant: _bytes_written is not reduced.
eliminateKeepingLength(forced) ==
    /\ growing
    /\ IF position = written THEN clear
       ELSE /\ forced \/ position > Factor * BytesLeft
            /\ storage' = Stored(storage, 0, SubSeq(storage, position + 1, written))
            /\ position' = 0
            /\ UNCHANGED written
            /\ Returns(<<>>)

\* Nothing happens when too little was parsed.
eliminate_parsed_data(forced) ==
    /\ growing
    /\ IF position = written THEN clear
       ELSE /\ forced \/ position > Factor * BytesLeft
            /\ storage' = Stored(storage, 0, SubSeq(storage, position + 1, written))
            /\ written' = written - position
            /\ position' = 0
            /\ Returns(<<>>)

\* The copy of a MemoryBuffer has no capacity left, ...
Copy ==
    /\ growing
    /\ storage' = SubSeq(storage, 1, written)
    /\ Returns(<<>>)
    /\ UNCHANGED <<written, position>>

\* ... a clone has the same storage and begins at its start.
clone ==
    /\ storage' = SubSeq(storage, 1, written) \o Space(Allocated - written)
    /\ growing' = FALSE
    /\ position' = 0
    /\ read' = <<>> /\ thrown' = FALSE
    /\ UNCHANGED written

\* What is left of a MemoryBuffer that was moved from.
MovedFrom ==
    /\ growing
    /\ storage' = <<>> /\ written' = 0 /\ position' = 0
    /\ Returns(<<>>)

-----------------------------------------------------------------------------
Write ==
    \/ \E data \in Chunks :
         \/ WriteGrowing(data) \/ WriteFixed(data)
         \/ write_to_end(data) \/ append_buffer(data)
         \/ bytes_appended(data) \/ consume_bytes(data)
         \/ \E size \in Sizes : load_payload(data, size)
    \/ \E number \in Numbers : wmkvuint(number)

Read ==
    \/ \E n \in Sizes : Get(n) \/ rbytes_at_most(n) \/ wb(n)
    \/ rnullterminatedstring

Manage ==
    \/ \E p \in 0..MaxLength : seek(p)
    \/ \E forced \in BOOLEAN : eliminate_parsed_data(forced)
    \/ clear \/ Copy \/ clone \/ MovedFrom

\* What is called on a buffer that was lost.
Renew ==
    \/ clear \/ MovedFrom
    \/ \E data \in Chunks, size \in Sizes : load_payload(data, size)

Next ==
    \/ ~Lost /\ (Write \/ Read \/ Manage)
    \/ Lost /\ Renew

Spec == Init /\ [][Next]_vars

-----------------------------------------------------------------------------
(* Properties. *)

TypeOK ==
    /\ growing \in BOOLEAN /\ thrown \in BOOLEAN
    /\ storage \in Seq(Bytes \cup {NotWritten})
    /\ written \in Nat /\ position \in Nat
    /\ ~Lost => position <= written
    /\ read \in Seq(Bytes)

\* A number that wmkvuint writes at the position, over whatever the storage
\* holds there, reads back: its width can be told from the first byte, the bytes
\* stand for it, and they are not the reserved ones with all bits set.
ReadsBack(number) ==
    LET cells == Stored(storage, position, Encode(number))
        width == byte_to_size_table[cells[position + 1]]
        bytes == SubSeq(cells, position + 1, position + width)
    IN Value(bytes) = number /\ number # AllOnes(width)

\* A number of fixed width reads back as well, with its sign or without.
ReadsBackFixed(number, width) ==
    LET cells == Stored(storage, position, BigEndian(number, width))
        bytes == SubSeq(cells, position + 1, position + width)
    IN /\ number < 2^(Bits * width - 1) => Signed(bytes) = number
       /\ number >= 0 => Unsigned(bytes) = number

NumbersReadBack ==
    /\ position + Bits <= Allocated =>
         \A number \in 0..(AllOnes(Bits) - 1) : ReadsBack(number)
    /\ \A width \in 1..2 :
         position + width <= Allocated =>
           \A number \in -(2^(Bits * width - 1))..(2^(Bits * width) - 1) :
             ReadsBackFixed(number, width)

\* The data of a buffer are a file in memory.
FileContent == IF Lost THEN <<>> ELSE SubSeq(storage, 1, written)
FilePosition == IF Lost THEN 0 ELSE position

File == INSTANCE ByteFile WITH content <- FileContent, position <- FilePosition, lost <- Lost

WritesAreFileCalls ==
    /\ \A data \in Chunks :
         /\ WriteGrowing(data) => File!Overwrite(data)
         /\ WriteFixed(data) => File!Overwrite(data) \/ File!Refuse
         /\ write_to_end(data) \/ append_buffer(data) => File!Extend(data)
         /\ bytes_appended(data) => File!Extend(data) \/ File!Overrun
         /\ consume_bytes(data) => File!Overwrite(data) \/ File!Overrun
    /\ \A number \in Numbers :
         wmkvuint(number) => File!Overwrite(Encode(number)) \/ File!Refuse

ReadsAreFileCalls ==
    /\ \A n \in Sizes :
         /\ Get(n) => File!Get(n)
         /\ rbytes_at_most(n) => File!GetAtMost(n)
         /\ wb(n) => File!Send(n)
    /\ rnullterminatedstring => File!GetString

ManagementIsFileCalls ==
    /\ \A p \in 0..MaxLength : seek(p) => File!Seek(p)
    /\ \A forced \in BOOLEAN : eliminate_parsed_data(forced) => File!DropRead
    /\ Copy => File!Keep
    /\ clone => File!Rewind

RenewalsAreFileCalls ==
    /\ clear \/ MovedFrom => File!Clear
    /\ \A data \in Chunks, size \in Sizes : load_payload(data, size) => File!Load(data, size)

CallsAreFileCalls ==
    /\ ~Lost => WritesAreFileCalls /\ ReadsAreFileCalls /\ ManagementIsFileCalls
    /\ RenewalsAreFileCalls

\* However writes, reads, seeks, allocations, copies and the removal of parsed
\* data follow each other, every call is the call on a file in memory with the
\* same arguments: what is read is what was written, once; a write replaces or
\* adds exactly its bytes, and the compaction drops exactly what was read.
\* Of the writes of a MemoryBuffer only wmkvuint may be refused, an exception to
\* "Allocates needed memory for read & write operations" (binary_parser.hpp:215).
ImplementsByteFile == File!Init /\ [][CallsAreFileCalls]_vars
=============================================================================
