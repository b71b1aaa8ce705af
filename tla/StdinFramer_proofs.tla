------------------------- MODULE StdinFramer_proofs -------------------------
(***************************************************************************)
(* Proofs about StdinFramer for any buffer, any lines and any way the      *)
(* bytes are cut into reads: all indices are in bounds, and what is        *)
(* written is exactly a line that was typed.  For the latter, what is in   *)
(* the buffer and in stdin together is a text of which every complete line *)
(* was typed; a read that does not complete a line leaves this text alone. *)
(***************************************************************************)
EXTENDS StdinFramer, FiniteSetTheorems, SequenceTheorems, TLAPS

\* What was typed and not yet processed.
Text == buffer \o pending

\* Characters i to j of a text are a line and its newline.
IsLine(text, i, j) ==
    /\ text[j] = NewLine
    /\ i = 1 \/ text[i - 1] = NewLine
    /\ \A k \in i..(j - 1) : text[k] # NewLine

LinesAreTyped(text, lines) ==
    \A i \in 1..Len(text) : \A j \in i..Len(text) :
        IsLine(text, i, j) => SubSeq(text, i, j - 1) \in lines

EndsInNewLine(text) == text = <<>> \/ text[Len(text)] = NewLine

Inv ==
    /\ TypeOK
    /\ InBounds
    /\ LinesAreTyped(Text, typed)
    /\ EndsInNewLine(Text)
    /\ SentIsALine

-----------------------------------------------------------------------------
(* The operators. *)

\* hexStringToBytes stores a byte for two characters at most.
LEMMA StoredBytes ==
    ASSUME NEW text \in Seq(Characters)
    PROVE  BytesStored(text) \in Nat /\ 2 * BytesStored(text) <= Len(text)
<1> DEFINE Pairs == 1..(Len(text) \div 2)
           Good == {k \in Pairs : \A i \in 1..(2 * k) : text[i] \in Digits}
<1>1. Len(text) \in Nat /\ Len(text) \div 2 \in Nat /\ 2 * (Len(text) \div 2) <= Len(text)
  OBVIOUS
<1>2. IsFiniteSet(Pairs) /\ Cardinality(Pairs) = Len(text) \div 2
  BY <1>1, FS_Interval
<1>3. Good \subseteq Pairs
  OBVIOUS
<1>4. Cardinality(Good) \in Nat /\ Cardinality(Good) <= Len(text) \div 2
  BY <1>2, <1>3, FS_Subset, FS_CardinalityType
<1>5. BytesStored(text) = 0 \/ BytesStored(text) = Cardinality(Good)
  BY DEF BytesStored
<1> HIDE DEF Good, Pairs
<1> QED BY <1>1, <1>4, <1>5

\* A read of n bytes fits the buffer and splits the text at one place.
LEMMA ReadSplits ==
    ASSUME TypeOK, position < BufferSize, NEW n \in Sizes
    PROVE  LET text == buffer \o SubSeq(pending, 1, n)
               rest == SubSeq(pending, n + 1, Len(pending))
           IN /\ n \in 1..Len(pending) /\ text \in Seq(Characters) /\ rest \in Seq(Characters)
              /\ Len(text) = Len(buffer) + n /\ Len(text) < BufferSize
              /\ Text \in Seq(Characters) /\ text \o rest = Text
              /\ Len(Text) = Len(text) + Len(rest)
<1> DEFINE text == buffer \o SubSeq(pending, 1, n)
           rest == SubSeq(pending, n + 1, Len(pending))
<1>1. /\ pending \in Seq(Characters) /\ Len(pending) \in Nat
      /\ buffer \in Seq(Characters) /\ Len(buffer) \in Nat
      /\ \A i \in 1..Len(pending) : pending[i] \in Characters
  BY ElementOfSeq, LenProperties DEF TypeOK
<1>2. Room \in Nat /\ Room = BufferSize - (1 + Len(buffer))
  BY <1>1, SizesAssumption DEF Room, position
<1>3. n \in 1..Len(pending) /\ n <= Room
  BY DEF Sizes
<1>4. /\ SubSeq(pending, 1, n) \in Seq(Characters) /\ Len(SubSeq(pending, 1, n)) = n
      /\ rest \in Seq(Characters) /\ Len(rest) = Len(pending) - n
      /\ \A i \in 1..n : SubSeq(pending, 1, n)[i] = pending[i]
      /\ \A i \in 1..(Len(pending) - n) : rest[i] = pending[n + i]
  <2>1. \A i \in 1..n : pending[i] \in Characters
    BY <1>1, <1>3
  <2>2. \A i \in (n + 1)..Len(pending) : pending[i] \in Characters
    BY <1>1, <1>3
  <2>3. /\ SubSeq(pending, 1, n) \in Seq(Characters) /\ Len(SubSeq(pending, 1, n)) = n
        /\ \A i \in 1..n : SubSeq(pending, 1, n)[i] = pending[1 + i - 1]
    BY <1>1, <1>3, <2>1, SubSeqProperties
  <2>4. /\ rest \in Seq(Characters)
        /\ Len(rest) = IF n + 1 <= Len(pending) THEN Len(pending) - (n + 1) + 1 ELSE 0
        /\ \A i \in 1..(Len(pending) - (n + 1) + 1) : rest[i] = pending[n + 1 + i - 1]
    BY <1>1, <1>3, <2>2, SubSeqProperties
  <2> HIDE DEF rest
  <2> QED BY <1>1, <1>3, <2>3, <2>4
<1>5. /\ text \in Seq(Characters) /\ Len(text) = Len(buffer) + n
      /\ \A i \in 1..(Len(buffer) + n) : text[i] =
           IF i <= Len(buffer) THEN buffer[i] ELSE SubSeq(pending, 1, n)[i - Len(buffer)]
  BY <1>1, <1>4, ConcatProperties
<1>6. /\ Text \in Seq(Characters) /\ Len(Text) = Len(buffer) + Len(pending)
      /\ \A i \in 1..(Len(buffer) + Len(pending)) : Text[i] =
           IF i <= Len(buffer) THEN buffer[i] ELSE pending[i - Len(buffer)]
  BY <1>1, ConcatProperties DEF Text
<1> HIDE DEF text, rest
<1>7. SubSeq(pending, 1, n) \o rest = pending
  <2>1. SubSeq(pending, 1, n) \o SubSeq(pending, n + 1, Len(pending))
          = SubSeq(pending, 1, Len(pending))
    BY <1>1, <1>3, ConcatAdjacentSubSeq
  <2> QED BY <1>1, <2>1, SubSeqFull DEF rest
<1>8. text \o rest = Text
  <2> DEFINE read == SubSeq(pending, 1, n)
  <2>0. read \in Seq(Characters) /\ rest \in Seq(Characters) /\ buffer \in Seq(Characters)
    BY <1>1, <1>4
  <2> HIDE DEF read
  <2>1. (buffer \o read) \o rest = buffer \o (read \o rest)
    BY <2>0
  <2> QED BY <1>7, <2>1 DEF text, Text, read
<1>9. Len(text) < BufferSize
  BY <1>1, <1>2, <1>3, <1>5, SizesAssumption
<1>10. Len(Text) = Len(text) + Len(rest)
  BY <1>1, <1>3, <1>4, <1>5, <1>6
<1> QED BY <1>3, <1>4, <1>5, <1>6, <1>8, <1>9, <1>10 DEF text, rest

-----------------------------------------------------------------------------
(* Parts of texts, possibly empty. *)

LEMMA PartOf ==
    ASSUME NEW s \in Seq(Characters), NEW i \in 1..(Len(s) + 1), NEW j \in (i - 1)..Len(s)
    PROVE  /\ SubSeq(s, i, j) \in Seq(Characters)
           /\ Len(SubSeq(s, i, j)) = j - i + 1
           /\ \A k \in 1..(j - i + 1) : SubSeq(s, i, j)[k] = s[i + k - 1]
<1>1. Len(s) \in Nat /\ i \in Int /\ j \in Int
  BY LenProperties
<1>2. \A k \in i..j : s[k] \in Characters
  BY <1>1, ElementOfSeq
<1>3. /\ SubSeq(s, i, j) \in Seq(Characters)
      /\ Len(SubSeq(s, i, j)) = IF i <= j THEN j - i + 1 ELSE 0
      /\ \A k \in 1..(j - i + 1) : SubSeq(s, i, j)[k] = s[i + k - 1]
  BY <1>1, <1>2, SubSeqProperties
<1> QED BY <1>1, <1>3

LEMMA PartOfFirst ==
    ASSUME NEW s \in Seq(Characters), NEW t \in Seq(Characters),
           NEW i \in 1..(Len(s) + 1), NEW j \in (i - 1)..Len(s)
    PROVE  SubSeq(s \o t, i, j) = SubSeq(s, i, j)
<1>1. /\ s \o t \in Seq(Characters) /\ Len(s \o t) = Len(s) + Len(t)
      /\ Len(s) \in Nat /\ Len(t) \in Nat
      /\ \A k \in 1..Len(s) : (s \o t)[k] = s[k]
  BY ConcatProperties, LenProperties
<1> DEFINE st == s \o t
<1> HIDE DEF st
<1>2. /\ st \in Seq(Characters) /\ i \in 1..(Len(st) + 1) /\ j \in (i - 1)..Len(st)
  BY <1>1 DEF st
<1>3. /\ SubSeq(st, i, j) \in Seq(Characters) /\ Len(SubSeq(st, i, j)) = j - i + 1
      /\ \A k \in 1..(j - i + 1) : SubSeq(st, i, j)[k] = st[i + k - 1]
  BY <1>2, PartOf
<1>4. /\ SubSeq(s, i, j) \in Seq(Characters) /\ Len(SubSeq(s, i, j)) = j - i + 1
      /\ \A k \in 1..(j - i + 1) : SubSeq(s, i, j)[k] = s[i + k - 1]
  BY PartOf
<1>5. \A k \in 1..(j - i + 1) : st[i + k - 1] = s[i + k - 1]
  BY <1>1 DEF st
<1>6. SubSeq(st, i, j) = SubSeq(s, i, j)
  BY <1>3, <1>4, <1>5, SeqEqual
<1> QED BY <1>6 DEF st

LEMMA PartOfSecond ==
    ASSUME NEW s \in Seq(Characters), NEW t \in Seq(Characters),
           NEW i \in 1..(Len(t) + 1), NEW j \in (i - 1)..Len(t)
    PROVE  SubSeq(s \o t, Len(s) + i, Len(s) + j) = SubSeq(t, i, j)
<1>1. /\ s \o t \in Seq(Characters) /\ Len(s \o t) = Len(s) + Len(t)
      /\ Len(s) \in Nat /\ Len(t) \in Nat
      /\ \A k \in 1..Len(t) : (s \o t)[Len(s) + k] = t[k]
  BY ConcatProperties, LenProperties
<1> DEFINE st == s \o t
<1> HIDE DEF st
<1>2. /\ st \in Seq(Characters) /\ Len(s) + i \in 1..(Len(st) + 1)
      /\ Len(s) + j \in (Len(s) + i - 1)..Len(st)
      /\ (Len(s) + j) - (Len(s) + i) + 1 = j - i + 1
  BY <1>1 DEF st
<1>3. /\ SubSeq(st, Len(s) + i, Len(s) + j) \in Seq(Characters)
      /\ Len(SubSeq(st, Len(s) + i, Len(s) + j)) = j - i + 1
      /\ \A k \in 1..(j - i + 1) :
           SubSeq(st, Len(s) + i, Len(s) + j)[k] = st[Len(s) + i + k - 1]
  BY <1>2, PartOf
<1>4. /\ SubSeq(t, i, j) \in Seq(Characters) /\ Len(SubSeq(t, i, j)) = j - i + 1
      /\ \A k \in 1..(j - i + 1) : SubSeq(t, i, j)[k] = t[i + k - 1]
  BY PartOf
<1>5. ASSUME NEW k \in 1..(j - i + 1)
      PROVE  st[Len(s) + i + k - 1] = t[i + k - 1]
  <2>1. i + k - 1 \in 1..Len(t) /\ Len(s) + i + k - 1 = Len(s) + (i + k - 1)
    BY <1>1
  <2> QED BY <1>1, <2>1 DEF st
<1>6. SubSeq(st, Len(s) + i, Len(s) + j) = SubSeq(t, i, j)
  <2> DEFINE left == SubSeq(st, Len(s) + i, Len(s) + j)
             right == SubSeq(t, i, j)
  <2>1. /\ left \in Seq(Characters) /\ right \in Seq(Characters)
        /\ Len(left) = j - i + 1 /\ Len(right) = j - i + 1
        /\ \A k \in 1..(j - i + 1) : left[k] = right[k]
    BY <1>3, <1>4, <1>5
  <2> HIDE DEF left, right
  <2>2. left = right
    BY <2>1, SeqEqual
  <2> QED BY <2>2 DEF left, right
<1> QED BY <1>6 DEF st

-----------------------------------------------------------------------------
(* What typing and reading do to the text. *)

LEMMA LineTyped ==
    ASSUME NEW text \in Seq(Characters), NEW line \in Seq(Digits \cup {Other}), NEW lines,
           EndsInNewLine(text), LinesAreTyped(text, lines)
    PROVE  LET more == text \o (line \o <<NewLine>>)
           IN /\ EndsInNewLine(more)
              /\ LinesAreTyped(more, lines \cup {line})
<1> DEFINE new == line \o <<NewLine>>
           more == text \o new
<1>1. line \in Seq(Characters) /\ <<NewLine>> \in Seq(Characters)
  BY SeqMonotonic DEF Characters
<1>2. /\ Len(line) \in Nat /\ Len(text) \in Nat
      /\ \A k \in 1..Len(line) : line[k] # NewLine
  <2>1. \A k \in 1..Len(line) : line[k] \in Digits \cup {Other}
    BY ElementOfSeq
  <2> QED BY <2>1, LenProperties, DigitsAssumption
<1>3. /\ new \in Seq(Characters) /\ Len(new) = Len(line) + 1
      /\ new[Len(line) + 1] = NewLine
      /\ \A k \in 1..Len(line) : new[k] = line[k]
      /\ \A k \in 1..Len(line) : new[k] # NewLine
  BY <1>1, <1>2
<1>4. SubSeq(new, 1, Len(line)) = line
  <2>1. SubSeq(new, 1, Len(line)) = SubSeq(line, 1, Len(line))
    BY <1>1, <1>2, PartOfFirst
  <2> QED BY <1>1, <2>1, SubSeqFull
<1> HIDE DEF new
<1>5. /\ more \in Seq(Characters) /\ Len(more) = Len(text) + Len(new)
      /\ \A k \in 1..Len(text) : more[k] = text[k]
      /\ \A k \in 1..Len(new) : more[Len(text) + k] = new[k]
  BY <1>2, <1>3
<1>6. EndsInNewLine(more)
  <2>1. more[Len(text) + (Len(line) + 1)] = new[Len(line) + 1]
    BY <1>2, <1>3, <1>5
  <2> QED BY <1>3, <1>5, <2>1 DEF EndsInNewLine
<1>7. ASSUME NEW i \in 1..Len(more), NEW j \in i..Len(more), IsLine(more, i, j)
      PROVE  SubSeq(more, i, j - 1) \in lines \cup {line}
  <2>1. CASE j <= Len(text)
    <3>1. i \in 1..Len(text) /\ j \in i..Len(text)
      BY <1>2, <1>3, <1>5, <2>1
    <3>2. IsLine(text, i, j)
      BY <1>2, <1>5, <1>7, <3>1 DEF IsLine
    <3>3. SubSeq(text, i, j - 1) \in lines
      BY <3>1, <3>2 DEF LinesAreTyped
    <3>4. SubSeq(more, i, j - 1) = SubSeq(text, i, j - 1)
      BY <1>2, <1>3, <3>1, PartOfFirst
    <3> QED BY <3>3, <3>4
  <2>2. CASE j > Len(text)
    <3>1. j - Len(text) \in 1..Len(new) /\ more[Len(text) + (j - Len(text))] = new[j - Len(text)]
      BY <1>2, <1>3, <1>5, <2>2
    <3>2. new[j - Len(text)] = NewLine
      BY <1>2, <1>7, <3>1 DEF IsLine
    <3>3. j = Len(text) + Len(line) + 1
      <4> DEFINE k == j - Len(text)
      <4>1. ~(k \in 1..Len(line))
        BY <1>3, <3>2
      <4>2. k \in 1..(Len(line) + 1)
        BY <1>3, <3>1
      <4> HIDE DEF k
      <4>3. k = Len(line) + 1
        BY <1>2, <4>1, <4>2
      <4>4. j \in Int
        BY <1>2, <1>3, <1>5, <1>7
      <4> QED BY <1>2, <4>3, <4>4 DEF k
    <3>4. i = Len(text) + 1
      <4>1. CASE i <= Len(text)
        <5>1. i \in Nat \ {0} /\ Len(text) \in Nat /\ j \in Nat
          BY <1>2, <1>3, <1>7
        <5>2. Len(text) \in i..(j - 1) /\ Len(text) # 0
          BY <2>2, <4>1, <5>1
        <5>3. text # <<>> /\ more[Len(text)] = text[Len(text)]
          BY <1>2, <1>5, <5>1, <5>2
        <5> QED BY <1>7, <5>2, <5>3 DEF IsLine, EndsInNewLine
      <4>2. CASE i > Len(text) + 1
        <5>1. /\ i - 1 = Len(text) + (i - 1 - Len(text))
              /\ i - 1 - Len(text) \in 1..Len(line)
          BY <1>2, <1>3, <1>5, <3>3, <4>2
        <5>2. more[i - 1] = new[i - 1 - Len(text)]
          BY <1>2, <1>3, <1>5, <5>1
        <5>3. more[i - 1] # NewLine
          BY <1>2, <1>3, <5>1, <5>2
        <5> QED BY <1>2, <1>7, <4>2, <5>3 DEF IsLine
      <4> QED BY <1>2, <1>3, <1>5, <4>1, <4>2
    <3>5. SubSeq(more, i, j - 1) = SubSeq(new, 1, Len(line))
      BY <1>2, <1>3, <3>3, <3>4, PartOfSecond
    <3> QED BY <1>4, <3>5
  <2> QED BY <1>2, <1>3, <1>5, <2>1, <2>2
<1> QED BY <1>6, <1>7 DEF LinesAreTyped, new

LEMMA LineRead ==
    ASSUME NEW text \in Seq(Characters), NEW rest \in Seq(Characters), NEW lines,
           text # <<>>, text[Len(text)] = NewLine,
           EndsInNewLine(text \o rest), LinesAreTyped(text \o rest, lines)
    PROVE  /\ EndsInNewLine(rest)
           /\ LinesAreTyped(rest, lines)
           /\ Front(text) \in Seq(Characters) /\ Len(Front(text)) < Len(text)
           /\ IsHex(Front(text)) => Front(text) \in lines /\ Front(text) \in Seq(Digits)
<1> DEFINE all == text \o rest
<1>1. /\ Len(text) \in Nat \ {0} /\ Len(rest) \in Nat
      /\ all \in Seq(Characters) /\ Len(all) = Len(text) + Len(rest)
      /\ \A k \in 1..Len(text) : all[k] = text[k]
      /\ \A k \in 1..Len(rest) : all[Len(text) + k] = rest[k]
  BY ConcatProperties, LenProperties
<1>2. EndsInNewLine(rest)
  BY <1>1 DEF EndsInNewLine
<1>3. ASSUME NEW i \in 1..Len(rest), NEW j \in i..Len(rest), IsLine(rest, i, j)
      PROVE  SubSeq(rest, i, j - 1) \in lines
  <2>1. /\ Len(text) + i \in 1..Len(all) /\ Len(text) + j \in (Len(text) + i)..Len(all)
        /\ j \in 1..Len(rest)
    BY <1>1
  <2>2. IsLine(all, Len(text) + i, Len(text) + j)
    <3>1. all[Len(text) + j] = NewLine
      BY <1>1, <1>3, <2>1 DEF IsLine
    <3>2. all[Len(text) + i - 1] = NewLine
      <4>1. CASE i = 1
        BY <1>1, <4>1
      <4>2. CASE i # 1
        <5>1. i - 1 \in 1..Len(rest) /\ Len(text) + i - 1 = Len(text) + (i - 1)
          BY <1>1, <4>2
        <5>2. rest[i - 1] = NewLine
          BY <1>3, <4>2 DEF IsLine
        <5> QED BY <1>1, <5>1, <5>2
      <4> QED BY <4>1, <4>2
    <3>3. ASSUME NEW k \in (Len(text) + i)..(Len(text) + j - 1)
          PROVE  all[k] # NewLine
      <4>1. /\ k - Len(text) \in i..(j - 1) /\ k - Len(text) \in 1..Len(rest)
            /\ k = Len(text) + (k - Len(text))
        BY <1>1, <2>1
      <4>2. all[k] = rest[k - Len(text)]
        BY <1>1, <4>1
      <4> QED BY <1>3, <4>1, <4>2 DEF IsLine
    <3> HIDE DEF all
    <3> QED BY <3>1, <3>2, <3>3 DEF IsLine
  <2>3. SubSeq(all, Len(text) + i, Len(text) + j - 1) \in lines
    BY <2>1, <2>2 DEF LinesAreTyped
  <2>4. SubSeq(all, Len(text) + i, Len(text) + (j - 1)) = SubSeq(rest, i, j - 1)
    BY <1>1, <2>1, PartOfSecond
  <2>5. Len(text) + j - 1 = Len(text) + (j - 1)
    BY <1>1, <2>1
  <2> QED BY <2>3, <2>4, <2>5
<1>4. /\ Front(text) = SubSeq(text, 1, Len(text) - 1)
      /\ Front(text) \in Seq(Characters) /\ Len(Front(text)) = Len(text) - 1
      /\ \A k \in 1..(Len(text) - 1) : Front(text)[k] = text[k]
  <2>0. 1 \in 1..(Len(text) + 1) /\ Len(text) - 1 \in (1 - 1)..Len(text)
    BY <1>1
  <2>1. /\ SubSeq(text, 1, Len(text) - 1) \in Seq(Characters)
        /\ Len(SubSeq(text, 1, Len(text) - 1)) = (Len(text) - 1) - 1 + 1
        /\ \A k \in 1..((Len(text) - 1) - 1 + 1) :
             SubSeq(text, 1, Len(text) - 1)[k] = text[1 + k - 1]
    BY <2>0, PartOf
  <2> QED BY <1>1, <2>1 DEF Front
<1>5. ASSUME IsHex(Front(text))
      PROVE  Front(text) \in lines /\ Front(text) \in Seq(Digits)
  <2>1. \A k \in 1..(Len(text) - 1) : text[k] \in Digits
    BY <1>4, <1>5 DEF IsHex
  <2>2. IsLine(all, 1, Len(text))
    BY <1>1, <2>1, DigitsAssumption DEF IsLine
  <2>3. SubSeq(all, 1, Len(text) - 1) \in lines
    BY <1>1, <2>2 DEF LinesAreTyped
  <2>4. SubSeq(all, 1, Len(text) - 1) = Front(text)
    BY <1>1, <1>4, PartOfFirst
  <2>5. Front(text) \in Seq(Digits)
    <3>1. /\ Front(text) = [k \in 1..(Len(text) - 1) |-> Front(text)[k]]
          /\ \A k \in 1..(Len(text) - 1) : Front(text)[k] \in Digits
      BY <1>1, <1>4, <2>1, LenProperties
    <3>2. Front(text) \in [1..(Len(text) - 1) -> Digits] /\ Len(text) - 1 \in Nat
      BY <1>1, <3>1
    <3> QED BY <3>2
  <2> QED BY <2>3, <2>4, <2>5
<1> QED BY <1>1, <1>2, <1>3, <1>4, <1>5 DEF LinesAreTyped

-----------------------------------------------------------------------------
(* The invariant. *)

LEMMA InitInv == Init => Inv
<1> SUFFICES ASSUME Init
             PROVE  Inv
  OBVIOUS
<1>1. TypeOK
  BY BoundsAssumption DEF Init, TypeOK
<1>2. InBounds
  BY SizesAssumption DEF Init, InBounds, position
<1>3. Text = <<>>
  BY DEF Init, Text
<1>4. LinesAreTyped(Text, typed) /\ EndsInNewLine(Text)
  BY <1>3 DEF LinesAreTyped, EndsInNewLine
<1> QED BY <1>1, <1>2, <1>4 DEF Inv, Init, SentIsALine

\* Typing a line puts it behind the text.
LEMMA TypeInv == Inv /\ Type => Inv'
<1> SUFFICES ASSUME Inv, Type
             PROVE  Inv'
  OBVIOUS
<1>1. PICK line \in Lines :
        /\ pending' = pending \o line \o <<NewLine>>
        /\ typed' = typed \cup {line}
  BY DEF Type
<1>2. /\ UNCHANGED <<terminal, buffer, stored, written, pc, tap>>
      /\ count' = count + 1 /\ count < MaxLines
  BY DEF Type
<1>3. line \in Seq(Digits \cup {Other})
  BY LinesAssumption
<1>4. /\ line \in Seq(Characters) /\ <<NewLine>> \in Seq(Characters)
      /\ pending \in Seq(Characters) /\ buffer \in Seq(Characters)
  BY <1>3, SeqMonotonic DEF Inv, TypeOK, Characters
<1>5. pending' \in Seq(Characters)
  BY <1>1, <1>4
<1>6. TypeOK'
  BY <1>1, <1>2, <1>5, BoundsAssumption DEF Inv, TypeOK
<1>7. Text \in Seq(Characters) /\ Text' = Text \o (line \o <<NewLine>>)
  <2> DEFINE end == <<NewLine>>
  <2>1. end \in Seq(Characters)
    BY <1>4
  <2>2. pending' = (pending \o line) \o end
    BY <1>1
  <2> HIDE DEF end
  <2>3. buffer \o ((pending \o line) \o end) = (buffer \o pending) \o (line \o end)
    <3>1. (pending \o line) \o end = pending \o (line \o end)
      BY <1>4, <2>1
    <3> DEFINE new == line \o end
    <3>2. new \in Seq(Characters)
      BY <1>4, <2>1
    <3> HIDE DEF new
    <3>3. buffer \o (pending \o new) = (buffer \o pending) \o new
      BY <1>4, <3>2
    <3> QED BY <3>1, <3>3 DEF new
  <2>4. Text = buffer \o pending /\ Text' = buffer \o ((pending \o line) \o end)
    BY <1>2, <2>2 DEF Text
  <2>5. Text \in Seq(Characters)
    BY <1>4, <2>4
  <2> QED BY <2>3, <2>4, <2>5 DEF end
<1>8. LinesAreTyped(Text', typed') /\ EndsInNewLine(Text')
  BY <1>1, <1>3, <1>7, LineTyped DEF Inv
<1>9. InBounds' /\ SentIsALine'
  BY <1>1, <1>2 DEF Inv, InBounds, position, SentIsALine
<1> QED BY <1>6, <1>8, <1>9 DEF Inv

\* A read that completes a line takes this line off the text; any other read
\* only moves bytes of the text into the buffer.
LEMMA ReadInv == Inv /\ ReadStdin /\ pc' = "tap" /\ UNCHANGED tap => Inv'
<1> SUFFICES ASSUME Inv, ReadStdin, pc' = "tap", UNCHANGED tap
             PROVE  Inv'
  OBVIOUS
<1>1. PICK n \in Sizes :
        LET text == buffer \o SubSeq(pending, 1, n)
        IN /\ IF Complete(text) THEN Process(Front(text))
              ELSE /\ buffer' = Kept(text)
                   /\ UNCHANGED <<stored, written>>
           /\ pending' = SubSeq(pending, n + 1, Len(pending))
           /\ UNCHANGED <<terminal, typed, count>>
  BY DEF ReadStdin
<1> DEFINE text == buffer \o SubSeq(pending, 1, n)
           rest == SubSeq(pending, n + 1, Len(pending))
<1>2. /\ n \in 1..Len(pending) /\ text \in Seq(Characters) /\ rest \in Seq(Characters)
      /\ Len(text) = Len(buffer) + n /\ Len(text) < BufferSize
      /\ text \o rest = Text
  BY ReadSplits DEF Inv, InBounds, position
<1>3. Len(buffer) \in Nat /\ text # <<>> /\ Len(text) \in Nat \ {0}
  BY <1>2, LenProperties DEF Inv, TypeOK
<1>4. pending' = rest /\ UNCHANGED <<terminal, typed, count>>
  BY <1>1
<1>5. \/ Complete(text) /\ Process(Front(text))
      \/ ~Complete(text) /\ buffer' = text /\ UNCHANGED <<stored, written>>
  BY <1>1 DEF Kept
<1>6. Complete(text) <=> text[Len(text)] = NewLine
  BY DEF Complete, Last
<1> HIDE DEF text, rest
<1>7. CASE Complete(text) /\ Process(Front(text))
  <2>1. /\ EndsInNewLine(rest) /\ LinesAreTyped(rest, typed)
        /\ Front(text) \in Seq(Characters) /\ Len(Front(text)) < Len(text)
        /\ IsHex(Front(text)) => Front(text) \in typed /\ Front(text) \in Seq(Digits)
    BY <1>2, <1>3, <1>6, <1>7, LineRead DEF Inv
  <2>2. /\ stored' = BytesStored(Front(text)) /\ buffer' = <<>>
        /\ written' = IF IsHex(Front(text)) THEN written \cup {Front(text)} ELSE written
    BY <1>7 DEF Process
  <2>3. TypeOK'
    <3>1. stored' \in Nat
      BY <2>1, <2>2, StoredBytes
    <3>2. written' \subseteq Seq(Digits)
      BY <2>1, <2>2 DEF Inv, TypeOK
    <3>3. buffer' \in Seq(Characters) /\ pending' \in Seq(Characters)
      BY <1>2, <1>4, <2>2
    <3> QED BY <1>4, <3>1, <3>2, <3>3 DEF Inv, TypeOK
  <2>4. InBounds'
    <3>1. stored' \in Nat /\ 2 * stored' <= Len(Front(text)) /\ Len(Front(text)) \in Nat
      BY <2>1, <2>2, StoredBytes, LenProperties
    <3> DEFINE bytes == stored'
               length == Len(Front(text))
               all == Len(text)
    <3>2. /\ bytes \in Nat /\ length \in Nat /\ all \in Nat
          /\ 2 * bytes <= length /\ length < all /\ all < BufferSize
      BY <1>2, <1>3, <2>1, <3>1
    <3> HIDE DEF bytes, length, all
    <3>3. bytes <= PacketSize
      BY <3>2, SizesAssumption
    <3> QED BY <2>2, <3>3, SizesAssumption DEF InBounds, position, bytes
  <2>5. Text' = rest
    BY <1>2, <1>4, <2>2 DEF Text
  <2>6. SentIsALine'
    BY <1>4, <2>1, <2>2 DEF Inv, SentIsALine
  <2> QED BY <1>4, <2>1, <2>3, <2>4, <2>5, <2>6 DEF Inv
<1>8. CASE ~Complete(text) /\ buffer' = text /\ UNCHANGED <<stored, written>>
  <2>1. TypeOK'
    BY <1>2, <1>4, <1>8 DEF Inv, TypeOK
  <2>2. InBounds'
    BY <1>2, <1>8 DEF Inv, InBounds, position
  <2>3. Text' = Text
    BY <1>2, <1>4, <1>8 DEF Text
  <2> QED BY <1>4, <1>8, <2>1, <2>2, <2>3 DEF Inv, SentIsALine
<1> QED BY <1>5, <1>7, <1>8

\* What happens at the TAP device leaves stdin alone.
LEMMA TapInv ==
    ASSUME Inv, UNCHANGED stdinVars, pc' \in {"tap", "stdin", "ended"}, tap' \in 0..TapQueue
    PROVE  Inv'
BY DEF stdinVars, Inv, TypeOK, InBounds, position, Text, SentIsALine

LEMMA NextInv == Inv /\ [Next]_vars => Inv'
<1> SUFFICES ASSUME Inv, [Next]_vars
             PROVE  Inv'
  OBVIOUS
<1>1. pc \in {"tap", "stdin", "ended"} /\ tap \in 0..TapQueue /\ TapQueue \in Nat
  BY BoundsAssumption DEF Inv, TypeOK
<1>2. CASE Type
  BY <1>2, TypeInv
<1>3. CASE FrameArrives
  BY <1>1, <1>3, TapInv DEF FrameArrives
<1>4. CASE HandleFrame
  BY <1>1, <1>4, TapInv DEF HandleFrame
<1>5. CASE NoData
  BY <1>1, <1>5, TapInv DEF NoData
<1>6. CASE ProcessStdin
  <2>1. CASE ReadStdin
    BY <1>6, <2>1, ReadInv DEF ProcessStdin
  <2>2. CASE NothingRead
    BY <1>1, <1>6, <2>2, TapInv DEF ProcessStdin, NothingRead
  <2> QED BY <1>6, <2>1, <2>2 DEF ProcessStdin
<1>7. CASE UNCHANGED vars
  BY <1>1, <1>7, TapInv DEF vars
<1> QED BY <1>2, <1>3, <1>4, <1>5, <1>6, <1>7 DEF Next, Run

LEMMA SpecInv == Spec => []Inv
BY InitInv, NextInv, PTL DEF Spec

-----------------------------------------------------------------------------
\* Type correctness for any buffer and any lines: in particular a packet that
\* is written consists of digits only.
THEOREM TypeCorrect == Spec => []TypeOK
<1>1. Inv => TypeOK
  BY DEF Inv
<1> QED BY <1>1, SpecInv, PTL

\* Neither the terminating zero nor the bytes of the packet are ever stored
\* beyond stdin_buffer and packet, whatever is typed and however it is read.
THEOREM IndicesInBounds == Spec => []InBounds
<1>1. Inv => InBounds
  BY DEF Inv
<1> QED BY <1>1, SpecInv, PTL

\* A packet that is written to the device is one typed line, never a part of a
\* line or the concatenation of two, wherever read() cuts the bytes.
THEOREM SentLineTyped == Spec => []SentIsALine
<1>1. Inv => SentIsALine
  BY DEF Inv
<1> QED BY <1>1, SpecInv, PTL
=============================================================================
