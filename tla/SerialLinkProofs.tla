--------------------------- MODULE SerialLinkProofs ---------------------------
(***************************************************************************)
(* Theorems about SerialLink, for any packets and log message, and any     *)
(* number of packets and of lost bytes.                                    *)
(*                                                                         *)
(* What the host has not dropped or taken yet, inbuf followed by what is   *)
(* on the line, is one stream.  Bytes enter it at the end, leave it at the *)
(* front, or are lost on the way; the bytes of a sound packet stay next to *)
(* each other in it.  The host drops no "@" and takes a packet as long as  *)
(* its second byte says: if a sound packet is at the front it is taken     *)
(* whole, and then the first byte of the next one is at the front.         *)
(***************************************************************************)
EXTENDS SerialLink, SequenceTheorems, WellFoundedInduction, TLAPS

-----------------------------------------------------------------------------
(***************************************************************************)
(* The parts of the invariant.                                             *)
(***************************************************************************)
Bytes == [v : Nat, p : Nat, k : Nat]

Records == [len : Nat, inside : BOOLEAN]

Stream == inbuf \o line

\* Byte b is one of a packet that has begun, and says what its place asks for.
OfPacket(b) ==
  /\ b.p \in 1 .. Len(sent) /\ b.k \in 1 .. sent[b.p].len
  /\ b.k = 1 => b.v = At
  /\ b.k = 2 => b.v = sent[b.p].len - 2

SerialTypes ==
  /\ writing \in Seq(Seq(Bytes)) /\ line \in Seq(Bytes) /\ inbuf \in Seq(Bytes)
  /\ state \in {"sync", "go"}
  /\ taken \in Seq(Seq(Bytes)) /\ sent \in Seq(Records)

Formed ==
  /\ \A p \in 1 .. Len(sent) : sent[p].len >= 3
  /\ \A i \in 1 .. Len(Stream) : OfPacket(Stream[i])
  /\ \A i \in 1 .. Len(taken) : \A k \in 1 .. Len(taken[i]) : taken[i][k].p <= Len(sent)

\* The chunk of a packet that is to be written next.
Place == 5 - Len(writing)

\* send is at work on packet h.
Writes(h) ==
  /\ h \in 1 .. Len(sent) /\ Len(writing) \in 1 .. 3
  /\ \A j \in 1 .. Len(writing) :
       /\ Len(writing[j]) = IF j < Len(writing) THEN 1 ELSE sent[h].len - 3
       /\ \A m \in 1 .. Len(writing[j]) :
            /\ OfPacket(writing[j][m])
            /\ writing[j][m].p = h /\ writing[j][m].k = Place + j + m - 2

Unfinished(h) == Writes(h) /\ Place <= sent[h].len

\* What is still to be written of a packet has not been written, and packets written
\* meanwhile are inside it.
Writing ==
  /\ writing = <<>> \/ \E h \in 1 .. Len(sent) : Writes(h)
  /\ \A h \in 1 .. Len(sent) : Unfinished(h) =>
       /\ \A i \in 1 .. Len(Stream) : Stream[i].p = h => Stream[i].k < Place
       /\ \A r \in h + 1 .. Len(sent) : sent[r].inside
       /\ ~Whole(h)

\* From byte i on, the rest of its packet follows, as far as it has been written.
Continues(i) ==
  LET p == Stream[i].p
      k == Stream[i].k IN
  /\ \A j \in i .. Len(Stream) :
       k + (j - i) <= sent[p].len => Stream[j].p = p /\ Stream[j].k = k + (j - i)
  /\ k + (Len(Stream) - i) < sent[p].len =>
       Unfinished(p) /\ Place = k + (Len(Stream) - i) + 1

Contiguous == \A i \in 1 .. Len(Stream) : Stream[i].p \notin hurt => Continues(i)

Starting(i, p) == i \in 1 .. Len(Stream) /\ Stream[i].p = p /\ Stream[i].k = 1

Ending(i, p) == i \in 1 .. Len(Stream) /\ Stream[i].p = p /\ Stream[i].k = sent[p].len

Swallowed(p) ==
  \E i \in 1 .. Len(taken) : \E k \in 2 .. Len(taken[i]) :
    taken[i][k].p = p /\ taken[i][k].k = 1

\* The first byte of a sound packet is not dropped.
Kept ==
  \A p \in 1 .. Len(sent) : p \notin hurt =>
    (\E i \in 1 .. Len(Stream) : Starting(i, p)) \/ Whole(p) \/ Swallowed(p)

\* After the last byte of a packet comes the first one of the next.
Adjacent ==
  \A p \in 1 .. Len(sent) : \A i \in 1 .. Len(Stream) : Ending(i, p) /\ ~sent[p].inside =>
    /\ p = Len(sent) => i = Len(Stream)
    /\ p < Len(sent) /\ p + 1 \notin hurt /\ ~sent[p + 1].inside => Starting(i + 1, p + 1)

\* A sound packet is inside another one, before its last byte.
Nested ==
  \A p \in 1 .. Len(sent) - 1 : p + 1 \notin hurt /\ sent[p + 1].inside /\ ~sent[p].inside =>
    \A i \in 1 .. Len(Stream) : Starting(i, p) =>
      \E j \in i + 1 .. Len(Stream) : /\ Stream[j].p = p + 1
                                      /\ \A m \in 1 .. j : ~Ending(m, p)

\* The packet before p was taken as it was sent, on its own.
AfterWhole(p) == p = 1 \/ (Whole(p - 1) /\ ~sent[p - 1].inside)

InStep ==
  /\ \A p \in 1 .. Len(sent) : p \notin hurt /\ AfterWhole(p) => Whole(p) \/ Starting(1, p)
  /\ AfterWhole(Len(sent) + 1) => Stream = <<>>

\* A packet that is complete does not stay in inbuf.
Receiving ==
  /\ state = "go" => Short(inbuf)
  /\ state = "sync" => \/ Starts(inbuf) = {} \/ Len(inbuf) <= 1
                       \/ Len(inbuf) <= 3 /\ inbuf[1].v # At

Order == Writing /\ Contiguous /\ Kept /\ Adjacent /\ Nested /\ InStep

SerialInv == SerialTypes /\ Formed /\ Order /\ Receiving

-----------------------------------------------------------------------------
(***************************************************************************)
(* The stream.                                                             *)
(***************************************************************************)
LEMMA Typing ==
  ASSUME SerialTypes, Formed
  PROVE  /\ Stream \in Seq(Bytes) /\ Len(Stream) \in Nat /\ Len(sent) \in Nat
         /\ \A p \in 1 .. Len(sent) :
              sent[p].len \in Nat /\ sent[p].len >= 3 /\ sent[p].inside \in BOOLEAN
         /\ \A i \in 1 .. Len(Stream) :
              /\ Stream[i].p \in 1 .. Len(sent) /\ Stream[i].k \in 1 .. sent[Stream[i].p].len
              /\ Stream[i].p \in Nat /\ Stream[i].k \in Nat /\ Stream[i].v \in Nat
<1>1. Stream \in Seq(Bytes) /\ Len(Stream) \in Nat /\ Len(sent) \in Nat
  <2>1. Stream \in Seq(Bytes)
        BY ConcatProperties DEF SerialTypes, Stream
  <2>2. sent \in Seq(Records)
        BY DEF SerialTypes
  <2>. QED  BY <2>1, <2>2, LenProperties
<1>2. \A p \in 1 .. Len(sent) : sent[p].len \in Nat /\ sent[p].inside \in BOOLEAN
  <2>1. \A p \in 1 .. Len(sent) : sent[p] \in Records
        BY ElementOfSeq DEF SerialTypes
  <2>. QED  BY <2>1 DEF Records
<1>3. \A i \in 1 .. Len(Stream) : Stream[i] \in Bytes
      BY <1>1, ElementOfSeq
<1>4. \A i \in 1 .. Len(Stream) :
        Stream[i].p \in Nat /\ Stream[i].k \in Nat /\ Stream[i].v \in Nat
      BY <1>3 DEF Bytes
<1>. QED  BY <1>1, <1>2, <1>4 DEF Formed, OfPacket

LEMMA ConcatParts ==
  ASSUME NEW S, NEW s \in Seq(S), NEW t \in Seq(S)
  PROVE  /\ s \o t \in Seq(S) /\ Len(s) \in Nat /\ Len(t) \in Nat
         /\ Len(s \o t) = Len(s) + Len(t)
         /\ \A i \in 1 .. Len(s) : (s \o t)[i] = s[i]
         /\ \A m \in 1 .. Len(t) : (s \o t)[Len(s) + m] = t[m]
         /\ \A i \in 1 .. Len(s) + Len(t) :
              i \in 1 .. Len(s) \/ \E m \in 1 .. Len(t) : i = Len(s) + m
<1>1. PICK a \in Nat, b \in Nat : a = Len(s) /\ b = Len(t)
      BY LenProperties
<1> DEFINE c == s \o t
<1>2. /\ c \in Seq(S) /\ Len(c) = a + b
      /\ \A i \in 1 .. a + b : c[i] = IF i <= a THEN s[i] ELSE t[i - a]
      BY <1>1, ConcatProperties
<1> HIDE DEF c
<1>3. \A i \in 1 .. a : c[i] = s[i]
  <2>1. \A i \in 1 .. a : i \in 1 .. a + b /\ i <= a
        OBVIOUS
  <2>. QED  BY <1>2, <2>1
<1>4. \A m \in 1 .. b : c[a + m] = t[m]
  <2>1. \A m \in 1 .. b : a + m \in 1 .. a + b /\ ~(a + m <= a) /\ (a + m) - a = m
        OBVIOUS
  <2>. QED  BY <1>2, <2>1
<1>5. ASSUME NEW i \in 1 .. a + b, i \notin 1 .. a PROVE \E m \in 1 .. b : i = a + m
  <2>1. i - a \in 1 .. b /\ i = a + (i - a)
        BY <1>5
  <2>. QED  BY <2>1
<1>. QED  BY <1>1, <1>2, <1>3, <1>4, <1>5 DEF c

\* Bytes are written at the end.
LEMMA StreamGrows ==
  ASSUME SerialTypes, NEW bytes \in Seq(Bytes), line' = line \o bytes, inbuf' = inbuf
  PROVE  /\ Len(bytes) \in Nat /\ Len(Stream) \in Nat
         /\ Len(Stream') = Len(Stream) + Len(bytes)
         /\ \A i \in 1 .. Len(Stream) : Stream'[i] = Stream[i]
         /\ \A m \in 1 .. Len(bytes) : Stream'[Len(Stream) + m] = bytes[m]
         /\ \A i \in 1 .. Len(Stream') :
              i \in 1 .. Len(Stream) \/ \E m \in 1 .. Len(bytes) : i = Len(Stream) + m
<1>1. Stream \in Seq(Bytes)
      BY ConcatProperties DEF SerialTypes, Stream
<1>2. Stream' = Stream \o bytes
  <2>1. line \in Seq(Bytes) /\ inbuf \in Seq(Bytes)
        BY DEF SerialTypes
  <2>2. inbuf \o (line \o bytes) = (inbuf \o line) \o bytes
        BY <2>1, ConcatAssociative
  <2>. QED  BY <2>2 DEF Stream
<1>. QED  BY <1>1, <1>2, ConcatParts

\* A byte is lost where the line begins.
LEMMA StreamLoses ==
  ASSUME SerialTypes, line # <<>>, line' = Tail(line), inbuf' = inbuf
  PROVE  LET c == Len(inbuf) + 1 IN
         /\ c \in 1 .. Len(Stream) /\ Stream[c] = Head(line) /\ c \in Nat
         /\ Len(Stream) \in Nat /\ Len(Stream') = Len(Stream) - 1
         /\ \A i \in 1 .. Len(Stream') :
              Stream'[i] = IF i < c THEN Stream[i] ELSE Stream[i + 1]
<1>1. line \in Seq(Bytes) /\ inbuf \in Seq(Bytes)
      BY DEF SerialTypes
<1>2. PICK a \in Nat, b \in Nat : a = Len(inbuf) /\ b = Len(line) /\ b >= 1
      BY <1>1, LenProperties, EmptySeq
<1>3. /\ Tail(line) \in Seq(Bytes) /\ Len(Tail(line)) = b - 1
      /\ \A m \in 1 .. b - 1 : Tail(line)[m] = line[m + 1]
      /\ Head(line) = line[1]
      BY <1>1, <1>2, HeadTailProperties
<1>4. /\ Len(Stream) = a + b
      /\ \A i \in 1 .. a : Stream[i] = inbuf[i]
      /\ \A m \in 1 .. b : Stream[a + m] = line[m]
      BY <1>1, <1>2, ConcatParts DEF Stream
<1>5. /\ Len(Stream') = a + (b - 1)
      /\ \A i \in 1 .. a : Stream'[i] = inbuf[i]
      /\ \A m \in 1 .. b - 1 : Stream'[a + m] = Tail(line)[m]
      /\ \A i \in 1 .. a + (b - 1) : i \in 1 .. a \/ \E m \in 1 .. b - 1 : i = a + m
  <2>1. PICK e \in Nat : e = b - 1
        BY <1>2
  <2>2. PICK t \in Seq(Bytes) : t = Tail(line)
        BY <1>3
  <2>3. e = Len(t) /\ \A m \in 1 .. e : t[m] = Tail(line)[m]
        BY <1>3, <2>1, <2>2
  <2>4. Stream' = inbuf \o t
        BY <2>2 DEF Stream
  <2>5. inbuf \in Seq(Bytes) /\ a = Len(inbuf)
        BY <1>1, <1>2
  <2>6. /\ Len(Stream') = a + e
        /\ \A i \in 1 .. a : Stream'[i] = inbuf[i]
        /\ \A m \in 1 .. e : Stream'[a + m] = t[m]
        /\ \A i \in 1 .. a + e : i \in 1 .. a \/ \E m \in 1 .. e : i = a + m
    <3>1. Len(inbuf \o t) = Len(inbuf) + Len(t)
          BY <2>5, ConcatParts
    <3>2. \A i \in 1 .. Len(inbuf) : (inbuf \o t)[i] = inbuf[i]
          BY <2>5, ConcatParts
    <3>3. \A m \in 1 .. Len(t) : (inbuf \o t)[Len(inbuf) + m] = t[m]
          BY <2>5, ConcatParts
    <3>4. \A i \in 1 .. Len(inbuf) + Len(t) :
            i \in 1 .. Len(inbuf) \/ \E m \in 1 .. Len(t) : i = Len(inbuf) + m
          BY <2>5, ConcatParts
    <3>. QED  BY <2>3, <2>4, <2>5, <3>1, <3>2, <3>3, <3>4
  <2>. QED  BY <2>1, <2>3, <2>6
<1>6. ASSUME NEW m \in 1 .. b - 1 PROVE Stream'[a + m] = Stream[(a + m) + 1]
  <2>1. m + 1 \in 1 .. b /\ a + (m + 1) = (a + m) + 1
        OBVIOUS
  <2>2. Stream[a + (m + 1)] = line[m + 1]
        BY <1>4, <2>1
  <2>. QED  BY <1>3, <1>5, <2>1, <2>2
<1>7. ASSUME NEW i \in 1 .. a + (b - 1)
      PROVE  Stream'[i] = IF i < a + 1 THEN Stream[i] ELSE Stream[i + 1]
  <2>1. CASE i \in 1 .. a
        BY <1>4, <1>5, <2>1
  <2>2. ASSUME NEW m \in 1 .. b - 1, i = a + m
        PROVE  Stream'[i] = IF i < a + 1 THEN Stream[i] ELSE Stream[i + 1]
    <3>1. ~(i < a + 1)
          BY <2>2
    <3>. QED  BY <1>6, <2>2, <3>1
  <2>. QED  BY <1>5, <2>1, <2>2
<1>8. 1 \in 1 .. b /\ Stream[a + 1] = Head(line)
      BY <1>3, <1>4
<1>9. a + (b - 1) = (a + b) - 1 /\ a + 1 \in 1 .. a + b /\ a + 1 \in Nat /\ a + b \in Nat
      BY <1>2
<1>. QED  BY <1>2, <1>4, <1>5, <1>7, <1>8, <1>9

-----------------------------------------------------------------------------
(***************************************************************************)
(* What the histories say stays true.                                      *)
(***************************************************************************)
\* The records of the packets that have begun.
SentKept ==
  Len(sent') >= Len(sent) /\ Len(sent') \in Nat /\ \A p \in 1 .. Len(sent) : sent'[p] = sent[p]

LEMMA WholeKept ==
  ASSUME SerialTypes, SentKept, UNCHANGED taken, NEW p \in 1 .. Len(sent)
  PROVE  (Whole(p)' <=> Whole(p)) /\ (Swallowed(p)' <=> Swallowed(p))
BY DEF SentKept, Whole, Swallowed

LEMMA WholeStays ==
  ASSUME SerialTypes, UNCHANGED sent, NEW packet \in Seq(Bytes), taken' = Append(taken, packet),
         NEW p
  PROVE  /\ Whole(p) => Whole(p)'
         /\ Swallowed(p) => Swallowed(p)'
         /\ Whole(p)' => \/ Whole(p)
                         \/ /\ Len(packet) = sent[p].len
                            /\ \A k \in 1 .. sent[p].len : packet[k].p = p /\ packet[k].k = k
         /\ Len(packet) = sent[p].len
              /\ (\A k \in 1 .. sent[p].len : packet[k].p = p /\ packet[k].k = k) => Whole(p)'
         /\ (\E k \in 2 .. Len(packet) : packet[k].p = p /\ packet[k].k = 1) => Swallowed(p)'
<1>1. taken \in Seq(Seq(Bytes))
      BY DEF SerialTypes
<1>2. /\ Len(taken) \in Nat /\ Len(taken') = Len(taken) + 1 /\ taken'[Len(taken) + 1] = packet
      /\ \A i \in 1 .. Len(taken) : taken'[i] = taken[i]
      BY <1>1, AppendProperties, LenProperties
<1>3. /\ \A i \in 1 .. Len(taken) : i \in 1 .. Len(taken')
      /\ Len(taken) + 1 \in 1 .. Len(taken')
      /\ \A i \in 1 .. Len(taken') : i \in 1 .. Len(taken) \/ i = Len(taken) + 1
      BY <1>2
<1> DEFINE IsWhole(q) == /\ Len(q) = sent[p].len
                         /\ \A k \in 1 .. sent[p].len : q[k].p = p /\ q[k].k = k
           Swallows(q) == \E k \in 2 .. Len(q) : q[k].p = p /\ q[k].k = 1
<1>4. Whole(p) <=> \E i \in 1 .. Len(taken) : IsWhole(taken[i])
      BY DEF Whole
<1>5. Whole(p)' <=> \E i \in 1 .. Len(taken') : IsWhole(taken'[i])
      BY DEF Whole
<1>6. Swallowed(p) <=> \E i \in 1 .. Len(taken) : Swallows(taken[i])
      BY DEF Swallowed
<1>7. Swallowed(p)' <=> \E i \in 1 .. Len(taken') : Swallows(taken'[i])
      BY DEF Swallowed
<1> HIDE DEF IsWhole, Swallows
<1>8. /\ Whole(p) => Whole(p)'
      /\ Swallowed(p) => Swallowed(p)'
      /\ Whole(p)' => Whole(p) \/ IsWhole(packet)
      /\ IsWhole(packet) => Whole(p)'
      /\ Swallows(packet) => Swallowed(p)'
      BY <1>2, <1>3, <1>4, <1>5, <1>6, <1>7
<1>. QED  BY <1>8 DEF IsWhole, Swallows

\* No byte of a packet is taken before the packet begins.
LEMMA NotYetTaken ==
  ASSUME SerialTypes, Formed, UNCHANGED taken, NEW entry \in Records, entry.len >= 3,
         sent' = Append(sent, entry), NEW p \in Nat, p = Len(sent) + 1
  PROVE  ~Whole(p)'
<1>1. sent \in Seq(Records) /\ Len(sent) \in Nat
      BY LenProperties DEF SerialTypes
<1>2. sent'[p] = entry
      BY <1>1, AppendProperties
<1>3. ASSUME NEW i \in 1 .. Len(taken), Len(taken[i]) = entry.len, taken[i][1].p = p
      PROVE  FALSE
  <2>1. entry.len \in Nat
        BY DEF Records
  <2>2. 1 \in 1 .. Len(taken[i])
        BY <1>3, <2>1
  <2>3. taken[i][1].p <= Len(sent)
        BY <2>2 DEF Formed
  <2>. QED  BY <1>1, <1>3, <2>3
<1>4. 1 \in 1 .. entry.len
      BY DEF Records
<1>. QED  BY <1>2, <1>3, <1>4 DEF Whole

-----------------------------------------------------------------------------
(***************************************************************************)
(* What send has still to write.                                           *)
(***************************************************************************)
LEMMA WritingTyped ==
  ASSUME SerialTypes, Formed, NEW h, Writes(h)
  PROVE  /\ h \in 1 .. Len(sent) /\ h \in Nat /\ sent[h].len \in Nat /\ sent[h].len >= 3
         /\ Len(writing) \in 1 .. 3 /\ Len(writing) \in Nat /\ Place \in 2 .. 4
         /\ Place = 5 - Len(writing)
         /\ writing[1] \in Seq(Bytes) /\ Len(writing[1]) \in Nat
         /\ Len(writing[1]) = IF Place < 4 THEN 1 ELSE sent[h].len - 3
         /\ \A m \in 1 .. Len(writing[1]) :
              /\ OfPacket(writing[1][m]) /\ writing[1][m].p = h
              /\ writing[1][m].k = Place + m - 1
<1>1. h \in 1 .. Len(sent) /\ Len(writing) \in 1 .. 3
      BY DEF Writes
<1>2. h \in Nat /\ sent[h].len \in Nat /\ sent[h].len >= 3
      BY <1>1, Typing
<1>3. Len(writing) \in Nat /\ Place \in 2 .. 4 /\ Place = 5 - Len(writing) /\ Place \in Nat
  <2>1. PICK n \in 1 .. 3 : n = Len(writing)
        BY <1>1
  <2>2. Place = 5 - n
        BY <2>1 DEF Place
  <2>3. n \in Nat /\ 5 - n \in 2 .. 4 /\ 5 - n \in Nat
        OBVIOUS
  <2>. QED  BY <2>1, <2>2, <2>3
<1>4. 1 \in 1 .. Len(writing)
      BY <1>1
<1>5. writing[1] \in Seq(Bytes) /\ Len(writing[1]) \in Nat
  <2>1. writing \in Seq(Seq(Bytes))
        BY DEF SerialTypes
  <2>2. writing[1] \in Seq(Bytes)
        BY <1>4, <2>1, ElementOfSeq
  <2>. QED  BY <2>2, LenProperties
<1>6. Len(writing[1]) = IF 1 < Len(writing) THEN 1 ELSE sent[h].len - 3
      BY <1>4 DEF Writes
<1>7. 1 < Len(writing) <=> Place < 4
      BY <1>1, <1>3
<1>8. \A m \in 1 .. Len(writing[1]) :
        /\ OfPacket(writing[1][m]) /\ writing[1][m].p = h
        /\ writing[1][m].k = Place + 1 + m - 2
      BY <1>4 DEF Writes
<1>9. \A m \in 1 .. Len(writing[1]) : Place + 1 + m - 2 = Place + m - 1
      BY <1>3, <1>5
<1>. QED  BY <1>1, <1>2, <1>3, <1>5, <1>6, <1>7, <1>8, <1>9

LEMMA OneUnfinished ==
  ASSUME SerialTypes, Formed, NEW h, Writes(h), NEW g, Unfinished(g)
  PROVE  g = h
<1>1. Writes(g) /\ Place <= sent[g].len
      BY DEF Unfinished
<1>2. 1 \in 1 .. Len(writing[1])
      BY <1>1, WritingTyped
<1>. QED  BY <1>1, <1>2, WritingTyped

\* The packets that log finds half written.
LEMMA HalfWrittenIs ==
  ASSUME SerialTypes, Formed, Writing
  PROVE  /\ \A h : Unfinished(h) => h \in HalfWritten
         /\ \A r \in HalfWritten : Unfinished(r)
<1>1. ASSUME NEW h, Unfinished(h) PROVE h \in HalfWritten
  <2>1. Writes(h) /\ Place <= sent[h].len
        BY <1>1 DEF Unfinished
  <2>2. 1 \in 1 .. Len(writing) /\ 1 \in 1 .. Len(writing[1]) /\ writing[1] \in Seq(Bytes)
        BY <2>1, WritingTyped
  <2>3. writing[1] # <<>> /\ writing[1][1].p = h
        BY <2>1, <2>2, WritingTyped
  <2>. QED  BY <2>2, <2>3 DEF HalfWritten
<1>2. ASSUME NEW r \in HalfWritten PROVE Unfinished(r)
  <2>1. PICK i \in 1 .. Len(writing) : writing[i] # <<>> /\ r = writing[i][1].p
        BY DEF HalfWritten
  <2>2. PICK h \in 1 .. Len(sent) : Writes(h)
    <3>1. writing # <<>>
          BY <2>1
    <3>. QED  BY <3>1 DEF Writing
  <2>3. 1 \in 1 .. Len(writing[i]) /\ Len(writing[i]) \in Nat
    <3>1. writing[i] \in Seq(Bytes)
          BY <2>1, ElementOfSeq DEF SerialTypes
    <3>. QED  BY <2>1, <3>1, EmptySeq, LenProperties
  <2>4. r = h
        BY <2>1, <2>2, <2>3 DEF Writes
  <2>5. Len(writing) \in 1 .. 3 /\ Place \in 2 .. 4 /\ sent[h].len \in Nat /\ sent[h].len >= 3
        /\ Place = 5 - Len(writing)
        BY <2>2, WritingTyped
  <2>6. Len(writing[i]) = IF i < Len(writing) THEN 1 ELSE sent[h].len - 3
        BY <2>1, <2>2 DEF Writes
  <2>7. Place <= sent[h].len
    <3>1. PICK n \in 1 .. 3, l \in Nat : n = Len(writing) /\ l = sent[h].len
          BY <2>5
    <3>2. Place = 5 - n /\ l >= 3 /\ i \in 1 .. n
          BY <2>1, <2>5, <3>1
    <3>3. CASE n > 1
          BY <3>1, <3>2, <3>3
    <3>4. CASE n = 1
      <4>1. i = 1 /\ ~(i < n)
            BY <3>2, <3>4
      <4>2. Len(writing[i]) = l - 3
            BY <2>6, <3>1, <4>1
      <4>3. l - 3 >= 1
            BY <2>3, <4>2
      <4>. QED  BY <3>1, <3>2, <3>4, <4>3
    <3>. QED  BY <3>3, <3>4
  <2>. QED  BY <2>2, <2>4, <2>7 DEF Unfinished
<1>. QED  BY <1>1, <1>2

\* The next chunk is written, and the others remain.
LEMMA WriteLeaves ==
  ASSUME SerialTypes, Formed, Write, NEW h, Writes(h)
  PROVE  /\ Place < 4 => Writes(h)' /\ Place' = Place + 1
         /\ Place = 4 => writing' = <<>>
         /\ \A g : Unfinished(g)' => g = h /\ Unfinished(h) /\ Place < 4
<1>1. writing # <<>> /\ writing' = Tail(writing) /\ UNCHANGED sent
      BY DEF Write
<1>2. PICK n \in 1 .. 3 : n = Len(writing)
      BY WritingTyped
<1>3. writing \in Seq(Seq(Bytes))
      BY DEF SerialTypes
<1>4. /\ writing' \in Seq(Seq(Bytes)) /\ Len(writing') = n - 1
      /\ \A j \in 1 .. n - 1 : writing'[j] = writing[j + 1]
      BY <1>1, <1>2, <1>3, HeadTailProperties
<1>5. /\ h \in 1 .. Len(sent) /\ Place = 5 - n /\ Place \in 2 .. 4
      /\ sent[h].len \in Nat /\ sent[h].len >= 3
      BY <1>2, WritingTyped
<1>6. Place' = 5 - (n - 1)
      BY <1>4 DEF Place
<1>7. ASSUME NEW j \in 1 .. n - 1
      PROVE  /\ Len(writing'[j]) = IF j < n - 1 THEN 1 ELSE sent[h].len - 3
             /\ \A m \in 1 .. Len(writing'[j]) :
                  /\ OfPacket(writing'[j][m]) /\ writing'[j][m].p = h
                  /\ writing'[j][m].k = (Place + 1) + j + m - 2
  <2>1. j + 1 \in 1 .. n /\ (j + 1 < n <=> j < n - 1)
        OBVIOUS
  <2>2. writing'[j] = writing[j + 1]
        BY <1>4
  <2>3. /\ Len(writing[j + 1]) = IF j + 1 < n THEN 1 ELSE sent[h].len - 3
        /\ \A m \in 1 .. Len(writing[j + 1]) :
             /\ OfPacket(writing[j + 1][m]) /\ writing[j + 1][m].p = h
             /\ writing[j + 1][m].k = Place + (j + 1) + m - 2
        BY <1>2, <2>1 DEF Writes
  <2>4. \A m \in Nat : Place + (j + 1) + m - 2 = (Place + 1) + j + m - 2
        BY <1>5
  <2>. QED  BY <2>1, <2>2, <2>3, <2>4
<1>8. CASE n > 1
  <2>1. n - 1 \in 1 .. 3 /\ Place < 4 /\ Place + 1 = 5 - (n - 1)
        BY <1>2, <1>5, <1>8
  <2>2. \A j \in 1 .. n - 1 : \A m \in 1 .. Len(writing'[j]) : OfPacket(writing[j][m])'
    <3> SUFFICES ASSUME NEW j \in 1 .. n - 1, NEW m \in 1 .. Len(writing'[j])
                 PROVE  OfPacket(writing[j][m])'
        OBVIOUS
    <3>1. OfPacket(writing'[j][m])
          BY <1>7
    <3>. QED  BY <1>1, <3>1 DEF OfPacket
  <2>3. h \in 1 .. Len(sent') /\ Len(writing') \in 1 .. 3 /\ sent' = sent /\ Len(writing') = n - 1
        BY <1>1, <1>4, <1>5, <2>1
  <2>4. Place' = Place + 1
        BY <1>6, <2>1
  <2>5. Writes(h)'
        BY <1>7, <2>2, <2>3, <2>4 DEF Writes
  <2>6. ASSUME NEW g, Unfinished(g)' PROVE g = h /\ Unfinished(h)
    <3>1. /\ g \in 1 .. Len(sent') /\ Place' <= sent'[g].len /\ 1 \in 1 .. n - 1
          /\ Len(writing'[1]) = IF 1 < n - 1 THEN 1 ELSE sent'[g].len - 3
          /\ \A m \in 1 .. Len(writing'[1]) : writing'[1][m].p = g
          BY <2>1, <2>3, <2>6 DEF Unfinished, Writes
    <3>2. 1 \in 1 .. Len(writing'[1])
      <4>1. PICK l \in Nat : l = sent'[g].len
            BY <1>1, <3>1, Typing
      <4>2. n = 2 \/ n = 3
            BY <1>8
      <4>3. CASE n = 3
        <5>1. Len(writing'[1]) = 1
              BY <3>1, <4>3
        <5>. QED  BY <5>1
      <4>4. CASE n = 2
        <5>1. Place' = 4 /\ Len(writing'[1]) = l - 3
              BY <1>6, <3>1, <4>1, <4>4
        <5>2. 1 \in 1 .. l - 3
              BY <3>1, <4>1, <5>1
        <5>. QED  BY <5>1, <5>2
      <4>. QED  BY <4>2, <4>3, <4>4
    <3>3. g = h
          BY <1>7, <3>1, <3>2
    <3>. QED  BY <1>1, <1>5, <2>4, <3>1, <3>3 DEF Unfinished
  <2>. QED  BY <2>1, <2>4, <2>5, <2>6
<1>9. CASE n = 1
  <2>1. Place = 4 /\ writing' = <<>>
        BY <1>4, <1>5, <1>9, EmptySeq
  <2>2. \A g : ~Unfinished(g)'
        BY <2>1 DEF Unfinished, Writes
  <2>. QED  BY <2>1, <2>2
<1>. QED  BY <1>2, <1>8, <1>9

-----------------------------------------------------------------------------
(***************************************************************************)
(* A turn of the receive thread.                                           *)
(***************************************************************************)
\* rest is what is left of s without its first f bytes.
Drops(rest, s, f) ==
  /\ rest \in Seq(Bytes) /\ f \in 0 .. Len(s) /\ Len(rest) = Len(s) - f
  /\ \A i \in 1 .. Len(rest) : rest[i] = s[i + f]

\* The host takes the first n bytes of buf as a packet, or none.
Takes(buf, n) ==
  \/ n = 0 /\ UNCHANGED taken
  \/ /\ n >= 2 /\ Len(buf) >= 3 /\ buf[1].v = At /\ n = buf[2].v + 2
     /\ \E packet \in Seq(Bytes) :
          /\ taken' = Append(taken, packet)
          /\ Len(packet) = n /\ \A k \in 1 .. n : packet[k] = buf[k]

LEMMA SubSeqDrops ==
  ASSUME NEW s \in Seq(Bytes), NEW f \in 0 .. Len(s)
  PROVE  Drops(SubSeq(s, f + 1, Len(s)), s, f)
<1>1. PICK n \in Nat : n = Len(s)
      BY LenProperties
<1>2. \A i \in f + 1 .. n : s[i] \in Bytes
  <2>1. \A i \in f + 1 .. n : i \in 1 .. Len(s)
        BY <1>1
  <2>. QED  BY <2>1, ElementOfSeq
<1>3. f \in 0 .. n /\ f + 1 \in Int /\ n \in Int
      BY <1>1
<1> DEFINE q == SubSeq(s, f + 1, n)
<1>4. /\ q \in Seq(Bytes) /\ Len(q) = IF f + 1 <= n THEN n - (f + 1) + 1 ELSE 0
      /\ \A i \in 1 .. n - (f + 1) + 1 : q[i] = s[(f + 1) + i - 1]
      BY <1>2, <1>3, SubSeqProperties
<1> HIDE DEF q
<1>5. Len(q) = n - f
      BY <1>3, <1>4
<1>6. \A i \in 1 .. n - f : i \in 1 .. n - (f + 1) + 1 /\ (f + 1) + i - 1 = i + f
      BY <1>3
<1>7. Drops(q, s, f)
      BY <1>1, <1>3, <1>4, <1>5, <1>6 DEF Drops
<1>. QED  BY <1>1, <1>7 DEF q

LEMMA DropsTwice ==
  ASSUME NEW s \in Seq(Bytes), NEW f, NEW q, Drops(q, s, f), NEW e, NEW r, Drops(r, q, e)
  PROVE  Drops(r, s, f + e)
<1>1. PICK n \in Nat : n = Len(s)
      BY LenProperties
<1>2. /\ f \in 0 .. n /\ Len(q) = n - f /\ e \in 0 .. n - f /\ Len(r) = (n - f) - e
      /\ \A i \in 1 .. n - f : q[i] = s[i + f]
      /\ \A i \in 1 .. (n - f) - e : r[i] = q[i + e]
      /\ r \in Seq(Bytes)
      BY <1>1 DEF Drops
<1>3. f + e \in 0 .. n /\ (n - f) - e = n - (f + e)
      BY <1>2
<1>4. \A i \in 1 .. (n - f) - e : i + e \in 1 .. n - f /\ (i + e) + f = i + (f + e)
      BY <1>2
<1>. QED  BY <1>1, <1>2, <1>3, <1>4 DEF Drops

\* What is behind stays behind.
LEMMA DropsBefore ==
  ASSUME NEW s \in Seq(Bytes), NEW f, NEW q, Drops(q, s, f), NEW t \in Seq(Bytes)
  PROVE  Drops(q \o t, s \o t, f)
<1>1. PICK n \in Nat, b \in Nat : n = Len(s) /\ b = Len(t)
      BY LenProperties
<1>2. /\ f \in 0 .. n /\ Len(q) = n - f /\ q \in Seq(Bytes)
      /\ \A i \in 1 .. n - f : q[i] = s[i + f]
      BY <1>1 DEF Drops
<1>3. PICK a \in Nat : a = n - f
      BY <1>2
<1> DEFINE u == q \o t
           w == s \o t
<1>4. /\ u \in Seq(Bytes) /\ Len(u) = a + b
      /\ \A i \in 1 .. a : u[i] = q[i]
      /\ \A m \in 1 .. b : u[a + m] = t[m]
      /\ \A i \in 1 .. a + b : i \in 1 .. a \/ \E m \in 1 .. b : i = a + m
  <2>1. q \in Seq(Bytes) /\ t \in Seq(Bytes) /\ Len(q) = a /\ Len(t) = b
        BY <1>1, <1>2, <1>3
  <2>2. u \in Seq(Bytes) /\ Len(u) = Len(q) + Len(t)
        BY <2>1, ConcatParts
  <2>3. \A i \in 1 .. Len(q) : u[i] = q[i]
        BY <2>1, ConcatParts
  <2>4. \A m \in 1 .. Len(t) : u[Len(q) + m] = t[m]
        BY <2>1, ConcatParts
  <2>5. \A i \in 1 .. Len(q) + Len(t) :
          i \in 1 .. Len(q) \/ \E m \in 1 .. Len(t) : i = Len(q) + m
        BY <2>1, ConcatParts
  <2>. QED  BY <2>1, <2>2, <2>3, <2>4, <2>5
<1>5. /\ Len(w) = n + b
      /\ \A i \in 1 .. n : w[i] = s[i]
      /\ \A m \in 1 .. b : w[n + m] = t[m]
      BY <1>1, <1>2, <1>3, ConcatParts
<1> HIDE DEF u, w
<1>6. f \in 0 .. n + b /\ a + b = (n + b) - f
      BY <1>2, <1>3
<1>7. ASSUME NEW i \in 1 .. a + b PROVE u[i] = w[i + f]
  <2>1. CASE i \in 1 .. a
    <3>1. i + f \in 1 .. n
          BY <1>2, <1>3, <2>1
    <3>. QED  BY <1>2, <1>3, <1>4, <1>5, <2>1, <3>1
  <2>2. ASSUME NEW m \in 1 .. b, i = a + m PROVE u[i] = w[i + f]
    <3>1. i + f = n + m
          BY <1>2, <1>3, <2>2
    <3>. QED  BY <1>4, <1>5, <2>2, <3>1
  <2>. QED  BY <1>4, <2>1, <2>2
<1>8. Drops(u, w, f)
      BY <1>4, <1>5, <1>6, <1>7 DEF Drops
<1>. QED  BY <1>8 DEF u, w

LEMMA FirstStartIs ==
  ASSUME NEW buf \in Seq(Bytes), Starts(buf) # {}
  PROVE  /\ FirstStart(buf) \in 1 .. Len(buf) /\ buf[FirstStart(buf)].v = At
         /\ \A j \in 1 .. Len(buf) : buf[j].v = At => FirstStart(buf) <= j
<1>1. Len(buf) \in Nat /\ Starts(buf) \subseteq Nat
      BY LenProperties DEF Starts
<1>2. \E i \in Starts(buf) : \A j \in Starts(buf) : ~(<<j, i>> \in OpToRel(<, Nat))
      BY <1>1, NatLessThanWellFounded, WFMin
<1>3. \A i, j \in Nat : j < i => <<j, i>> \in OpToRel(<, Nat)
      BY DEF OpToRel
<1>4. \E i \in Starts(buf) : \A j \in Starts(buf) : i <= j
  <2>1. \A i, j \in Nat : ~(j < i) => i <= j
        OBVIOUS
  <2>. QED  BY <1>1, <1>2, <1>3, <2>1
<1>5. FirstStart(buf) \in Starts(buf) /\ \A j \in Starts(buf) : FirstStart(buf) <= j
      BY <1>4 DEF FirstStart
<1>. QED  BY <1>5 DEF Starts

\* The state of the receiver between two turns, with b before it in inbuf.
LEMMA GoTakes ==
  ASSUME NEW b \in Seq(Bytes), Len(b) >= 1, Go(b),
         Len(b) <= 3 \/ (b[1].v = At /\ Len(b) <= PacketLength(b))
  PROVE  /\ \E n : Takes(b, n) /\ Drops(inbuf', b, n)
         /\ state' \in {"sync", "go"} /\ Receiving'
<1>1. PICK n \in Nat : n = Len(b)
      BY LenProperties
<1>2. \A i \in 1 .. n : b[i].v \in Nat
  <2>1. \A i \in 1 .. n : b[i] \in Bytes
        BY <1>1, ElementOfSeq
  <2>. QED  BY <2>1 DEF Bytes
<1>3. Drops(b, b, 0)
  <2>1. \A i \in 1 .. n : i + 0 = i
        OBVIOUS
  <2>. QED  BY <1>1, <2>1 DEF Drops
<1>4. CASE Short(b) /\ inbuf' = b /\ state' = "go" /\ UNCHANGED taken
  <2>1. Takes(b, 0)
        BY <1>4 DEF Takes
  <2>2. Short(inbuf)'
        BY <1>4 DEF Short, PacketLength
  <2>3. Receiving'
        BY <1>4, <2>2 DEF Receiving
  <2>. QED  BY <1>3, <1>4, <2>1, <2>3
<1>5. CASE ~Short(b) /\ b[1].v # At /\ inbuf' = b /\ state' = "sync" /\ UNCHANGED taken
  <2>1. Takes(b, 0)
        BY <1>5 DEF Takes
  <2>2. Len(inbuf') <= 3 /\ inbuf'[1].v # At
        BY <1>5
  <2>3. Receiving'
        BY <1>5, <2>2 DEF Receiving
  <2>. QED  BY <1>3, <1>5, <2>1, <2>3
<1>6. CASE /\ ~Short(b) /\ b[1].v = At
           /\ inbuf' = SubSeq(b, PacketLength(b) + 1, Len(b))
           /\ taken' = Append(taken, SubSeq(b, 1, PacketLength(b)))
           /\ state' \in AfterPacket
  <2>1. n >= 3 /\ n >= PacketLength(b)
        BY <1>1, <1>2, <1>6 DEF Short, PacketLength
  <2>2. PICK l \in Nat : l = PacketLength(b) /\ l >= 2 /\ l = b[2].v + 2
        BY <1>2, <2>1 DEF PacketLength
  <2>3. Drops(inbuf', b, l)
        BY <1>1, <1>6, <2>1, <2>2, SubSeqDrops
  <2>4. PICK packet : packet = SubSeq(b, 1, l)
        OBVIOUS
  <2>5. /\ packet \in Seq(Bytes) /\ Len(packet) = l
        /\ \A k \in 1 .. l : packet[k] = b[k]
    <3>1. \A i \in 1 .. l : i \in 1 .. Len(b)
          BY <1>1, <2>1, <2>2
    <3>2. \A i \in 1 .. l : b[i] \in Bytes
          BY <3>1, ElementOfSeq
    <3>3. /\ packet \in Seq(Bytes) /\ Len(packet) = IF 1 <= l THEN l - 1 + 1 ELSE 0
          /\ \A k \in 1 .. l - 1 + 1 : packet[k] = b[1 + k - 1]
          BY <2>2, <2>4, <3>2, SubSeqProperties
    <3>4. (1 <= l) /\ l - 1 + 1 = l /\ \A k \in 1 .. l : 1 + k - 1 = k
          BY <2>2
    <3>. QED  BY <3>3, <3>4
  <2>6. Takes(b, l)
        BY <1>1, <1>6, <2>1, <2>2, <2>4, <2>5 DEF Takes
  <2>7. Len(inbuf') <= 1 /\ Len(inbuf') \in Nat
    <3>1. Len(inbuf') = n - l
          BY <1>1, <2>3 DEF Drops
    <3>2. n <= 3 \/ n <= l
          BY <1>1, <2>2
    <3>. QED  BY <2>1, <2>2, <3>1, <3>2
  <2>8. Short(inbuf)'
        BY <2>7 DEF Short
  <2>9. Receiving' /\ state' \in {"sync", "go"}
        BY <1>6, <2>7, <2>8 DEF Receiving, AfterPacket
  <2>. QED  BY <2>3, <2>6, <2>9
<1>. QED  BY <1>4, <1>5, <1>6 DEF Go

\* A turn drops g bytes from the front of the stream, none of them an "@", and takes the next n,
\* as many as the second of them says, or none.
Consumes(g, n) ==
  /\ g \in Nat /\ n \in Nat /\ Drops(Stream', Stream, g + n)
  /\ \A i \in 1 .. g : Stream[i].v # At
  /\ \/ n = 0 /\ UNCHANGED taken
     \/ /\ n >= 2 /\ Stream[g + 1].v = At /\ n = Stream[g + 2].v + 2
        /\ \E packet \in Seq(Bytes) :
             /\ taken' = Append(taken, packet)
             /\ Len(packet) = n /\ \A k \in 1 .. n : packet[k] = Stream[g + k]

LEMMA ReadConsumes ==
  ASSUME SerialTypes, Receiving, Read
  PROVE  SerialTypes' /\ Receiving' /\ \E g, n : Consumes(g, n)
<1>1. /\ inbuf \in Seq(Bytes) /\ line \in Seq(Bytes) /\ line # <<>>
      /\ Head(line) \in Bytes /\ Tail(line) \in Seq(Bytes) /\ Head(line) = line[1]
  <2>1. inbuf \in Seq(Bytes) /\ line \in Seq(Bytes) /\ line # <<>>
        BY DEF SerialTypes, Read
  <2>. QED  BY <2>1, HeadTailProperties
<1>2. PICK buf : buf = Append(inbuf, Head(line))
      OBVIOUS
<1>3. PICK t \in Seq(Bytes) : t = Tail(line)
      BY <1>1
<1>4. PICK c \in Nat : c = Len(inbuf)
      BY <1>1, LenProperties
<1>5. /\ buf \in Seq(Bytes) /\ Len(buf) = c + 1 /\ \A i \in 1 .. c : buf[i] = inbuf[i]
      BY <1>1, <1>2, <1>4, AppendProperties
<1>6. line = <<Head(line)>> \o t
  <2>1. PICK d \in Nat : d = Len(line) /\ d >= 1
        BY <1>1, LenProperties, EmptySeq
  <2>2. Len(t) = d - 1 /\ \A m \in 1 .. d - 1 : t[m] = line[m + 1]
        BY <1>1, <1>3, <2>1, HeadTailProperties
  <2>3. PICK one : one = <<Head(line)>>
        OBVIOUS
  <2>4. one \in Seq(Bytes) /\ Len(one) = 1 /\ one[1] = line[1]
        BY <1>1, <2>3
  <2>5. PICK u : u = one \o t
        OBVIOUS
  <2>6. u \in Seq(Bytes) /\ Len(u) = Len(one) + Len(t)
        BY <2>4, <2>5, ConcatParts
  <2>7. \A i \in 1 .. Len(one) : u[i] = one[i]
        BY <2>4, <2>5, ConcatParts
  <2>8. \A m \in 1 .. d - 1 : u[1 + m] = t[m]
    <3>1. one \in Seq(Bytes) /\ t \in Seq(Bytes)
          BY <2>4
    <3>2. \A m \in 1 .. Len(t) : (one \o t)[Len(one) + m] = t[m]
          BY ONLY <3>1, ConcatParts
    <3>. QED  BY <2>2, <2>4, <2>5, <3>2
  <2>9. Len(u) = d
        BY <2>1, <2>2, <2>4, <2>6
  <2>10. ASSUME NEW i \in 1 .. d PROVE line[i] = u[i]
    <3>1. CASE i = 1
          BY <2>4, <2>7, <3>1
    <3>2. CASE i # 1
      <4>1. i - 1 \in 1 .. d - 1 /\ (i - 1) + 1 = i /\ 1 + (i - 1) = i
            BY <3>2
      <4>2. t[i - 1] = line[(i - 1) + 1]
            BY <2>2, <4>1
      <4>3. u[1 + (i - 1)] = t[i - 1]
            BY <2>8, <4>1
      <4>. QED  BY <4>1, <4>2, <4>3
    <3>. QED  BY <3>1, <3>2
  <2>11. line = u
        BY <1>1, <2>1, <2>6, <2>9, <2>10, SeqEqual
  <2>. QED  BY <2>3, <2>5, <2>11
<1>7. Stream = buf \o t
  <2>1. PICK one : one = <<Head(line)>>
        OBVIOUS
  <2>2. one \in Seq(Bytes)
        BY <1>1, <2>1
  <2>3. inbuf \o (one \o t) = (inbuf \o one) \o t
        BY <1>1, <2>2, ConcatAssociative
  <2>4. buf = inbuf \o one
        BY <1>1, <1>2, <2>1, AppendIsConcat
  <2>. QED  BY <1>6, <2>1, <2>3, <2>4 DEF Stream
<1>8. Stream' = inbuf' \o t
      BY <1>3 DEF Stream, Read
<1>9. ASSUME NEW b \in Seq(Bytes), NEW g, NEW n, Drops(b, buf, g), Takes(b, n),
             Drops(inbuf', b, n), \A i \in 1 .. g : buf[i].v # At, state' \in {"sync", "go"}
      PROVE  SerialTypes' /\ Consumes(g, n)
  <2>1. inbuf' \in Seq(Bytes)
        BY <1>9 DEF Drops
  <2>2. taken' \in Seq(Seq(Bytes))
    <3>1. taken \in Seq(Seq(Bytes))
          BY DEF SerialTypes
    <3>. QED  BY <1>9, <3>1, AppendProperties DEF Takes
  <2>3. SerialTypes'
        BY <1>3, <1>9, <2>1, <2>2 DEF SerialTypes, Read
  <2>4. Drops(inbuf', buf, g + n)
        BY <1>5, <1>9, DropsTwice
  <2>5. Drops(Stream', Stream, g + n)
        BY <1>5, <1>7, <1>8, <2>4, DropsBefore
  <2>6. /\ g \in 0 .. c + 1 /\ n \in 0 .. Len(b) /\ Len(b) = (c + 1) - g
        /\ \A i \in 1 .. (c + 1) - g : b[i] = buf[i + g]
        BY <1>5, <1>9 DEF Drops
  <2>7. \A i \in 1 .. c + 1 : Stream[i] = buf[i]
        BY <1>5, <1>7, ConcatParts
  <2>8. ASSUME NEW k \in 1 .. Len(b) PROVE b[k] = Stream[g + k]
    <3>1. k \in 1 .. (c + 1) - g /\ k + g \in 1 .. c + 1 /\ k + g = g + k
          BY <2>6
    <3>. QED  BY <2>6, <2>7, <3>1
  <2>9. \A i \in 1 .. g : Stream[i].v # At
    <3>1. \A i \in 1 .. g : i \in 1 .. c + 1
          BY <2>6
    <3>. QED  BY <1>9, <2>7, <3>1
  <2>10. g \in Nat /\ n \in Nat
        BY <2>6
  <2>11. CASE n = 0 /\ UNCHANGED taken
        BY <2>3, <2>5, <2>9, <2>10, <2>11 DEF Consumes
  <2>12. ASSUME n >= 2, Len(b) >= 3, b[1].v = At, n = b[2].v + 2,
                NEW packet \in Seq(Bytes), taken' = Append(taken, packet),
                Len(packet) = n, \A k \in 1 .. n : packet[k] = b[k]
         PROVE  Consumes(g, n)
    <3>1. 1 \in 1 .. Len(b) /\ 2 \in 1 .. Len(b) /\ \A k \in 1 .. n : k \in 1 .. Len(b)
          BY <2>6, <2>12
    <3>2. Stream[g + 1].v = At /\ n = Stream[g + 2].v + 2
          BY <2>8, <2>12, <3>1
    <3>3. \A k \in 1 .. n : packet[k] = Stream[g + k]
          BY <2>8, <2>12, <3>1
    <3>. QED  BY <2>5, <2>9, <2>10, <2>12, <3>2, <3>3 DEF Consumes
  <2>13. CASE \E packet \in Seq(Bytes) :
                /\ n >= 2 /\ Len(b) >= 3 /\ b[1].v = At /\ n = b[2].v + 2
                /\ taken' = Append(taken, packet)
                /\ Len(packet) = n /\ \A k \in 1 .. n : packet[k] = b[k]
        BY <2>3, <2>12, <2>13
  <2>. QED  BY <1>9, <2>11, <2>13 DEF Takes
<1>10. \A i \in 1 .. 0 : buf[i].v # At
      OBVIOUS
<1>11. Drops(buf, buf, 0)
  <2>1. \A i \in 1 .. c + 1 : i + 0 = i
        OBVIOUS
  <2>. QED  BY <1>5, <2>1 DEF Drops
<1>12. CASE state = "go"
  <2>1. Go(buf) /\ Short(inbuf)
        BY <1>2, <1>12 DEF Read, Receiving
  <2>2. Len(buf) >= 1 /\ (Len(buf) <= 3 \/ (buf[1].v = At /\ Len(buf) <= PacketLength(buf)))
    <3>1. CASE c < 3
          BY <1>5, <3>1
    <3>2. CASE ~(c < 3)
      <4>1. 1 \in 1 .. c /\ 2 \in 1 .. c
            BY <3>2
      <4>2. inbuf[1].v = At /\ c < inbuf[2].v + 2
            BY <1>4, <2>1, <3>2 DEF Short, PacketLength
      <4>3. buf[1].v = At /\ c < buf[2].v + 2
            BY <1>5, <4>1, <4>2
      <4>4. buf[2].v \in Nat
        <5>1. buf[2] \in Bytes
              BY <1>5, <4>1, ElementOfSeq
        <5>. QED  BY <5>1 DEF Bytes
      <4>5. c + 1 <= buf[2].v + 2
            BY <4>3, <4>4
      <4>. QED  BY <1>5, <4>3, <4>5 DEF PacketLength
    <3>. QED  BY <3>1, <3>2
  <2>3. PICK n : Takes(buf, n) /\ Drops(inbuf', buf, n)
        BY <1>5, <2>1, <2>2, GoTakes
  <2>4. state' \in {"sync", "go"} /\ Receiving'
        BY <1>5, <2>1, <2>2, GoTakes
  <2>. QED  BY <1>5, <1>9, <1>10, <1>11, <2>3, <2>4
<1>13. CASE state # "go" /\ Starts(buf) # {} /\ Go(FromStart(buf))
  <2>1. PICK f : f = FirstStart(buf)
        OBVIOUS
  <2>2. /\ f \in 1 .. c + 1 /\ buf[f].v = At
        /\ \A j \in 1 .. c + 1 : buf[j].v = At => f <= j
        BY <1>5, <1>13, <2>1, FirstStartIs
  <2>3. PICK b : b = FromStart(buf)
        OBVIOUS
  <2>4. Drops(b, buf, f - 1)
    <3>1. f - 1 \in 0 .. Len(buf) /\ (f - 1) + 1 = f
          BY <1>5, <2>2
    <3>2. Drops(SubSeq(buf, (f - 1) + 1, Len(buf)), buf, f - 1)
          BY <1>5, <3>1, SubSeqDrops
    <3>. QED  BY <2>1, <2>3, <3>1, <3>2 DEF FromStart
  <2>5. b \in Seq(Bytes) /\ Len(b) = (c + 1) - (f - 1) /\ b[1].v = At
    <3>1. b \in Seq(Bytes) /\ Len(b) = (c + 1) - (f - 1)
          /\ \A i \in 1 .. Len(b) : b[i] = buf[i + (f - 1)]
          BY <1>5, <2>4 DEF Drops
    <3>2. 1 \in 1 .. Len(b) /\ 1 + (f - 1) = f
          BY <2>2, <3>1
    <3>. QED  BY <2>2, <3>1, <3>2
  <2>6. \A i \in 1 .. f - 1 : buf[i].v # At
    <3>1. \A i \in 1 .. f - 1 : i \in 1 .. c + 1 /\ ~(f <= i)
          BY <2>2
    <3>. QED  BY <2>2, <3>1
  <2>7. Len(b) <= 3
    <3>1. \/ Starts(inbuf) = {} \/ c <= 1
          \/ c <= 3 /\ inbuf[1].v # At
          BY <1>4, <1>13 DEF Receiving, SerialTypes
    <3>2. CASE Starts(inbuf) = {}
      <4>1. \A i \in 1 .. c : buf[i].v # At
            BY <1>4, <1>5, <3>2 DEF Starts
      <4>2. f = c + 1
            BY <2>2, <4>1
      <4>. QED  BY <2>5, <4>2
    <3>3. CASE c <= 1
          BY <2>2, <2>5, <3>3
    <3>4. CASE c <= 3 /\ inbuf[1].v # At /\ c > 1
      <4>1. f # 1
            BY <1>5, <2>2, <3>4
      <4>. QED  BY <2>2, <2>5, <3>4, <4>1
    <3>. QED  BY <3>1, <3>2, <3>3, <3>4
  <2>8. Go(b) /\ Len(b) >= 1
        BY <1>13, <2>2, <2>3, <2>5
  <2>9. PICK n : Takes(b, n) /\ Drops(inbuf', b, n)
        BY <2>5, <2>7, <2>8, GoTakes
  <2>10. state' \in {"sync", "go"} /\ Receiving'
        BY <2>5, <2>7, <2>8, GoTakes
  <2>. QED  BY <1>9, <2>4, <2>5, <2>6, <2>9, <2>10
<1>14. CASE state # "go" /\ Starts(buf) = {} /\ inbuf' = buf /\ UNCHANGED <<state, taken>>
  <2>1. state' = "sync"
        BY <1>14 DEF SerialTypes
  <2>2. Receiving'
    <3>1. Starts(inbuf)' = {}
          BY <1>14 DEF Starts
    <3>. QED  BY <2>1, <3>1 DEF Receiving
  <2>3. Takes(buf, 0)
        BY <1>14 DEF Takes
  <2>. QED  BY <1>5, <1>9, <1>10, <1>11, <1>14, <2>1, <2>2, <2>3
<1>. QED  BY <1>2, <1>12, <1>13, <1>14 DEF Read, Sync

-----------------------------------------------------------------------------
(***************************************************************************)
(* What is written: the beginning of a packet, by send or log, and the     *)
(* chunks of send that follow.                                             *)
(***************************************************************************)
Packet(q) == q \in Seq(0 .. 255) /\ Len(q) \in 1 .. 255

LEMMA PacketHasLength ==
  ASSUME NEW q, Packet(q)
  PROVE  \E l \in Nat : l = Len(q) /\ l >= 1 /\ l \in 0 .. 255
<1>1. \A l \in 1 .. 255 : l \in Nat /\ l >= 1 /\ l \in 0 .. 255
      OBVIOUS
<1>2. Len(q) \in 1 .. 255
      BY DEF Packet
<1>. QED  BY <1>1, <1>2, Zenon

LEMMA FramedIs ==
  ASSUME NEW p \in Nat, NEW packet, Packet(packet)
  PROVE  /\ Framed(p, packet) \in Seq(Bytes) /\ Len(packet) \in Nat
         /\ Len(Framed(p, packet)) = Len(packet) + 2
         /\ \A k \in 1 .. Len(packet) + 2 :
              /\ Framed(p, packet)[k].p = p /\ Framed(p, packet)[k].k = k
              /\ k = 1 => Framed(p, packet)[k].v = At
              /\ k = 2 => Framed(p, packet)[k].v = Len(packet)
<1>1. PICK l \in Nat : l = Len(packet) /\ l \in 0 .. 255
      BY PacketHasLength
<1>2. PICK two : two = <<At, Len(packet)>>
      OBVIOUS
<1>3. two \in Seq(0 .. 255) /\ Len(two) = 2 /\ two[1] = At /\ two[2] = l
  <2>1. two = <<At, l>>
        BY <1>1, <1>2
  <2>2. At \in 0 .. 255
        BY SerialAssumption
  <2>3. l \in 0 .. 255
        BY <1>1
  <2>. QED  BY <2>1, <2>2, <2>3
<1>4. packet \in Seq(0 .. 255)
      BY DEF Packet
<1>5. PICK all : all = two \o packet
      OBVIOUS
<1>6. all \in Seq(0 .. 255)
      BY <1>3, <1>4, <1>5, ConcatParts
<1>7. Len(all) = l + 2
  <2>1. Len(all) = Len(two) + Len(packet)
        BY <1>3, <1>4, <1>5, ConcatParts
  <2>. QED  BY <1>1, <1>3, <2>1
<1>8. \A i \in 1 .. Len(two) : all[i] = two[i]
      BY <1>3, <1>4, <1>5, ConcatParts
<1>9. \A k \in 1 .. l + 2 : all[k] \in Nat
  <2>1. \A k \in 1 .. l + 2 : all[k] \in 0 .. 255
        BY <1>6, <1>7, ElementOfSeq
  <2>. QED  BY <2>1
<1>10. all[1] = At /\ all[2] = l
      BY <1>3, <1>8
<1>11. PICK bytes : bytes = Framed(p, packet)
      OBVIOUS
<1>12. bytes = [k \in 1 .. l + 2 |-> Byte(all[k], p, k)]
      BY <1>1, <1>2, <1>5, <1>11 DEF Framed
<1>13. \A k \in 1 .. l + 2 : Byte(all[k], p, k) \in Bytes
      BY <1>9 DEF Byte, Bytes
<1>14. bytes \in Seq(Bytes) /\ Len(bytes) = l + 2
  <2>1. l + 2 \in Nat
        BY <1>1
  <2>2. bytes \in [1 .. l + 2 -> Bytes]
        BY <1>12, <1>13
  <2>. QED  BY <2>1, <2>2, IsASeq, LenProperties
<1>15. \A k \in 1 .. l + 2 :
         bytes[k].p = p /\ bytes[k].k = k /\ bytes[k].v = all[k]
      BY <1>12 DEF Byte
<1>. QED  BY <1>1, <1>10, <1>11, <1>14, <1>15

\* The stream gets n bytes more.
Grows(n) ==
  /\ n \in Nat /\ Len(Stream') = Len(Stream) + n
  /\ \A i \in 1 .. Len(Stream) : Stream'[i] = Stream[i]
  /\ \A i \in 1 .. Len(Stream') : i \in 1 .. Len(Stream) \/ \E m \in 1 .. n : i = Len(Stream) + m

\* Packet p begins, and its first n bytes are written: the first one or all of them.
Begins(p, n) ==
  /\ p \in Nat /\ p = Len(sent) + 1 /\ n >= 1
  /\ \E entry \in Records :
       /\ sent' = Append(sent, entry) /\ entry.len >= 3 /\ n <= entry.len
       /\ entry.inside <=> HalfWritten # {}
       /\ \A m \in 1 .. n :
            /\ m = 1 => Stream'[Len(Stream) + m].v = At
            /\ m = 2 => Stream'[Len(Stream) + m].v = entry.len - 2
       /\ n < entry.len => Unfinished(p)' /\ Place' = n + 1
  /\ Grows(n)
  /\ \A m \in 1 .. n : Stream'[Len(Stream) + m].p = p /\ Stream'[Len(Stream) + m].k = m
  /\ hurt' = hurt \cup HalfWritten
  /\ UNCHANGED <<inbuf, taken, state>>
  /\ writing' = <<>> \/ \E h \in 1 .. Len(sent') : Writes(h)'
  /\ \A g : Unfinished(g)' => (g = p /\ Place' = n + 1) \/ (Unfinished(g) /\ Place' = Place)

LEMMA LogBegins ==
  ASSUME SerialTypes, Formed, Writing, Log
  PROVE  SerialTypes' /\ \E p, n : Begins(p, n)
<1>1. Packet(LogPacket)
      BY SerialAssumption DEF Packet
<1>2. PICK p : p = NewPacket
      OBVIOUS
<1>3. sent \in Seq(Records) /\ Len(sent) \in Nat /\ p = Len(sent) + 1 /\ p \in Nat
      BY <1>2, LenProperties DEF SerialTypes, NewPacket
<1>4. PICK bytes : bytes = Framed(p, LogPacket)
      OBVIOUS
<1>5. PICK l \in Nat : l = Len(LogPacket) /\ l >= 1
      BY <1>1, PacketHasLength
<1>6. /\ bytes \in Seq(Bytes) /\ Len(bytes) = l + 2
      /\ \A k \in 1 .. l + 2 :
           /\ bytes[k].p = p /\ bytes[k].k = k
           /\ k = 1 => bytes[k].v = At
           /\ k = 2 => bytes[k].v = l
      BY <1>1, <1>3, <1>4, <1>5, FramedIs
<1>7. line' = line \o bytes /\ inbuf' = inbuf
      BY <1>2, <1>4 DEF Log
<1>8. PICK entry : entry = [len |-> Len(LogPacket) + 2, inside |-> HalfWritten # {}]
      OBVIOUS
<1>9. entry \in Records /\ entry.len = l + 2
      BY <1>5, <1>8 DEF Records
<1>19. entry.inside <=> HalfWritten # {}
      BY <1>8
<1>10. sent' = Append(sent, entry)
      BY <1>8 DEF Log
<1>11. Len(sent') = Len(sent) + 1 /\ sent' \in Seq(Records)
       /\ \A q \in 1 .. Len(sent) : sent'[q] = sent[q]
      BY <1>3, <1>9, <1>10, AppendProperties
<1>12. Grows(l + 2)
  <2>1. l + 2 \in Nat
        BY <1>5
  <2>2. Len(Stream') = Len(Stream) + Len(bytes)
        BY <1>6, <1>7, StreamGrows
  <2>3. \A i \in 1 .. Len(Stream) : Stream'[i] = Stream[i]
        BY <1>6, <1>7, StreamGrows
  <2>4. \A i \in 1 .. Len(Stream') :
          i \in 1 .. Len(Stream) \/ \E m \in 1 .. Len(bytes) : i = Len(Stream) + m
        BY <1>6, <1>7, StreamGrows
  <2>. QED  BY <1>6, <2>1, <2>2, <2>3, <2>4 DEF Grows
<1>13. \A m \in 1 .. l + 2 : Stream'[Len(Stream) + m] = bytes[m]
  <2>1. \A m \in 1 .. Len(bytes) : Stream'[Len(Stream) + m] = bytes[m]
        BY <1>6, <1>7, StreamGrows
  <2>. QED  BY <1>6, <2>1
<1>14. UNCHANGED <<writing, inbuf, state, taken>> /\ hurt' = hurt \cup HalfWritten
      BY DEF Log
<1>15. \A g : Unfinished(g)' => Unfinished(g) /\ Place' = Place
  <2> SUFFICES ASSUME NEW g, Unfinished(g)' PROVE Unfinished(g) /\ Place' = Place
        OBVIOUS
  <2>1. PICK h \in 1 .. Len(sent) : Writes(h)
    <3>1. Len(writing) \in 1 .. 3
          BY <1>14 DEF Unfinished, Writes
    <3>2. writing # <<>>
          BY <3>1
    <3>. QED  BY <3>2 DEF Writing
  <2>2. 1 \in 1 .. Len(writing)
    <3>1. Len(writing) \in 1 .. 3
          BY <2>1 DEF Writes
    <3>. QED  BY <3>1
  <2>3. /\ g \in 1 .. Len(sent') /\ Place' <= sent'[g].len /\ writing' = writing
        /\ Len(writing[1]) = IF 1 < Len(writing) THEN 1 ELSE sent'[g].len - 3
        /\ \A m \in 1 .. Len(writing[1]) : writing[1][m].p = g
        BY <1>14, <2>2 DEF Unfinished, Writes
  <2>4. Place' = Place /\ Place \in 2 .. 4 /\ Place = 5 - Len(writing) /\ Len(writing) \in Nat
        BY <1>14, <2>1, WritingTyped DEF Place
  <2>5. 1 \in 1 .. Len(writing[1])
    <3>1. sent'[g].len \in Nat
      <4>1. sent'[g] \in Records
            BY <1>11, <2>3, ElementOfSeq
      <4>. QED  BY <4>1 DEF Records
    <3>2. CASE 1 < Len(writing)
          BY <2>3, <3>2
    <3>3. CASE ~(1 < Len(writing))
      <4>1. Place = 4 /\ Len(writing[1]) = sent'[g].len - 3
            BY <2>2, <2>3, <2>4, <3>3
      <4>. QED  BY <2>3, <2>4, <3>1, <4>1
    <3>. QED  BY <3>2, <3>3
  <2>6. g = h
    <3>1. writing[1][1].p = h
          BY <2>1, <2>5, WritingTyped
    <3>. QED  BY <2>3, <2>5, <3>1
  <2>. QED  BY <1>11, <2>1, <2>3, <2>4, <2>6 DEF Unfinished
<1>16. writing' = <<>> \/ \E h \in 1 .. Len(sent') : Writes(h)'
  <2>1. CASE writing = <<>>
        BY <1>14, <2>1
  <2>2. ASSUME NEW h \in 1 .. Len(sent), Writes(h) PROVE h \in 1 .. Len(sent') /\ Writes(h)'
    <3>1. h \in 1 .. Len(sent')
          BY <1>3, <1>11
    <3>2. ASSUME NEW j \in 1 .. Len(writing), NEW m \in 1 .. Len(writing[j])
          PROVE  OfPacket(writing[j][m])'
      <4>1. OfPacket(writing[j][m]) /\ writing[j][m].p = h
            BY <2>2 DEF Writes
      <4>. QED  BY <1>11, <1>14, <3>1, <4>1 DEF OfPacket
    <3>. QED  BY <1>11, <1>14, <2>2, <3>1, <3>2 DEF Writes, Place
  <2>. QED  BY <2>1, <2>2 DEF Writing
<1>17. SerialTypes'
  <2>1. line' \in Seq(Bytes)
        BY <1>6, <1>7, ConcatProperties DEF SerialTypes
  <2>. QED  BY <1>11, <1>14, <2>1 DEF SerialTypes
<1>18. Begins(p, l + 2)
  <2>1. l + 2 >= 1 /\ entry.len >= 3 /\ l + 2 <= entry.len /\ ~(l + 2 < entry.len)
        /\ entry.len - 2 = l
        BY <1>5, <1>9
  <2>2. \A m \in 1 .. l + 2 :
          /\ Stream'[Len(Stream) + m].p = p /\ Stream'[Len(Stream) + m].k = m
          /\ m = 1 => Stream'[Len(Stream) + m].v = At
          /\ m = 2 => Stream'[Len(Stream) + m].v = entry.len - 2
    <3> SUFFICES ASSUME NEW m \in 1 .. l + 2
                 PROVE  /\ Stream'[Len(Stream) + m].p = p /\ Stream'[Len(Stream) + m].k = m
                        /\ m = 1 => Stream'[Len(Stream) + m].v = At
                        /\ m = 2 => Stream'[Len(Stream) + m].v = entry.len - 2
        OBVIOUS
    <3>1. Stream'[Len(Stream) + m] = bytes[m]
          BY <1>13
    <3>2. /\ bytes[m].p = p /\ bytes[m].k = m
          /\ m = 1 => bytes[m].v = At
          /\ m = 2 => bytes[m].v = l
          BY <1>6
    <3>3. entry.len - 2 = l
          BY <2>1
    <3>. QED  BY <3>1, <3>2, <3>3, Zenon
  <2>3. UNCHANGED <<inbuf, taken, state>>
        BY <1>14
  <2>4. /\ entry \in Records
        /\ sent' = Append(sent, entry) /\ entry.len >= 3 /\ l + 2 <= entry.len
        /\ entry.inside <=> HalfWritten # {}
        /\ \A m \in 1 .. l + 2 :
             /\ m = 1 => Stream'[Len(Stream) + m].v = At
             /\ m = 2 => Stream'[Len(Stream) + m].v = entry.len - 2
        /\ l + 2 < entry.len => Unfinished(p)' /\ Place' = (l + 2) + 1
        BY <1>9, <1>10, <1>19, <2>1, <2>2, Zenon
  <2>. QED  BY <1>3, <1>12, <1>14, <1>15, <1>16, <2>1, <2>2, <2>3, <2>4, Zenon DEF Begins
<1>. QED  BY <1>17, <1>18


LEMMA SendBegins ==
  ASSUME SerialTypes, Formed, NEW packet \in Packets, Send(packet)
  PROVE  SerialTypes' /\ \E p, n : Begins(p, n)
<1>1. Packet(packet)
      BY SerialAssumption DEF Packet
<1>2. PICK p : p = NewPacket
      OBVIOUS
<1>3. sent \in Seq(Records) /\ Len(sent) \in Nat /\ p = Len(sent) + 1 /\ p \in Nat
      BY <1>2, LenProperties DEF SerialTypes, NewPacket
<1>4. PICK bytes : bytes = Framed(p, packet)
      OBVIOUS
<1>5. PICK l \in Nat : l = Len(packet) /\ l >= 1
      BY <1>1, PacketHasLength
<1>6. /\ bytes \in Seq(Bytes) /\ Len(bytes) = l + 2
      /\ \A k \in 1 .. l + 2 :
           /\ bytes[k].p = p /\ bytes[k].k = k
           /\ k = 1 => bytes[k].v = At
           /\ k = 2 => bytes[k].v = l
      BY <1>1, <1>3, <1>4, <1>5, FramedIs
<1>7. PICK c1, c2, c3, c4 : /\ c1 = SubSeq(bytes, 1, 1) /\ c2 = SubSeq(bytes, 2, 2)
                            /\ c3 = SubSeq(bytes, 3, 3) /\ c4 = SubSeq(bytes, 4, l + 2)
      OBVIOUS
<1>8. ASSUME NEW a \in 1 .. 4, NEW b \in 1 .. l + 2, a <= b + 1
      PROVE  /\ SubSeq(bytes, a, b) \in Seq(Bytes) /\ Len(SubSeq(bytes, a, b)) = b - a + 1
             /\ \A m \in 1 .. b - a + 1 : SubSeq(bytes, a, b)[m] = bytes[a + m - 1]
  <2>1. \A i \in a .. b : bytes[i] \in Bytes
    <3>1. \A i \in a .. b : i \in 1 .. Len(bytes)
          BY <1>6
    <3>. QED  BY <1>6, <3>1, ElementOfSeq
  <2>2. a \in Int /\ b \in Int
        OBVIOUS
  <2>3. /\ SubSeq(bytes, a, b) \in Seq(Bytes)
        /\ Len(SubSeq(bytes, a, b)) = IF a <= b THEN b - a + 1 ELSE 0
        /\ \A m \in 1 .. b - a + 1 : SubSeq(bytes, a, b)[m] = bytes[a + m - 1]
        BY <2>1, <2>2, SubSeqProperties
  <2>4. a <= b \/ b - a + 1 = 0
        BY <1>8
  <2>. QED  BY <2>3, <2>4
<1>9. /\ c1 \in Seq(Bytes) /\ Len(c1) = 1 /\ c1[1] = bytes[1]
      /\ c2 \in Seq(Bytes) /\ Len(c2) = 1 /\ c2[1] = bytes[2]
      /\ c3 \in Seq(Bytes) /\ Len(c3) = 1 /\ c3[1] = bytes[3]
  <2>1. 1 \in 1 .. l + 2 /\ 2 \in 1 .. l + 2 /\ 3 \in 1 .. l + 2
        BY <1>5
  <2>2. c1 \in Seq(Bytes) /\ Len(c1) = 1 /\ c1[1] = bytes[1]
        BY <1>7, <1>8, <2>1
  <2>3. c2 \in Seq(Bytes) /\ Len(c2) = 1 /\ c2[1] = bytes[2]
        BY <1>7, <1>8, <2>1
  <2>4. c3 \in Seq(Bytes) /\ Len(c3) = 1 /\ c3[1] = bytes[3]
        BY <1>7, <1>8, <2>1
  <2>. QED  BY <2>2, <2>3, <2>4
<1>10. c4 \in Seq(Bytes) /\ Len(c4) = l - 1 /\ \A m \in 1 .. l - 1 : c4[m] = bytes[m + 3]
  <2>1. l + 2 \in 1 .. l + 2 /\ 4 <= (l + 2) + 1 /\ (l + 2) - 4 + 1 = l - 1
        BY <1>5
  <2>2. /\ c4 \in Seq(Bytes) /\ Len(c4) = (l + 2) - 4 + 1
        /\ \A m \in 1 .. (l + 2) - 4 + 1 : c4[m] = bytes[4 + m - 1]
        BY <1>7, <1>8, <2>1
  <2>3. \A m \in 1 .. l - 1 : 4 + m - 1 = m + 3
        OBVIOUS
  <2>. QED  BY <2>1, <2>2, <2>3
<1>11. Chunks(p, packet) = <<c1, c2, c3, c4>>
      BY <1>4, <1>6, <1>7 DEF Chunks
<1>12. line' = line \o c1 /\ inbuf' = inbuf /\ writing' = <<c2, c3, c4>>
  <2>1. Head(<<c1, c2, c3, c4>>) = c1 /\ Tail(<<c1, c2, c3, c4>>) = <<c2, c3, c4>>
        OBVIOUS
  <2>. QED  BY <1>2, <1>11, <2>1 DEF Send
<1>13. PICK entry : entry = [len |-> Len(packet) + 2, inside |-> FALSE]
      OBVIOUS
<1>14. entry \in Records /\ entry.len = l + 2
      BY <1>5, <1>13 DEF Records
<1>15. HalfWritten = {} /\ writing = <<>>
      BY DEF HalfWritten, Send
<1>16. entry.inside <=> HalfWritten # {}
      BY <1>13, <1>15
<1>17. sent' = Append(sent, entry)
      BY <1>13 DEF Send
<1>18. Len(sent') = p /\ sent' \in Seq(Records) /\ sent'[p] = entry
      BY <1>3, <1>14, <1>17, AppendProperties
<1>19. Grows(1)
  <2>1. Len(Stream') = Len(Stream) + Len(c1)
        BY <1>9, <1>12, StreamGrows
  <2>2. \A i \in 1 .. Len(Stream) : Stream'[i] = Stream[i]
        BY <1>9, <1>12, StreamGrows
  <2>3. \A i \in 1 .. Len(Stream') :
          i \in 1 .. Len(Stream) \/ \E m \in 1 .. Len(c1) : i = Len(Stream) + m
        BY <1>9, <1>12, StreamGrows
  <2>. QED  BY <1>9, <2>1, <2>2, <2>3 DEF Grows
<1>20. \A m \in 1 .. 1 : /\ m = 1 /\ Stream'[Len(Stream) + m].p = p
                         /\ Stream'[Len(Stream) + m].k = m /\ Stream'[Len(Stream) + m].v = At
  <2>1. \A m \in 1 .. Len(c1) : Stream'[Len(Stream) + m] = c1[m]
        BY <1>9, <1>12, StreamGrows
  <2>2. 1 \in 1 .. l + 2
        BY <1>5
  <2>3. c1[1].p = p /\ c1[1].k = 1 /\ c1[1].v = At
        BY <1>6, <1>9, <2>2
  <2>4. \A m \in 1 .. 1 : m = 1
        OBVIOUS
  <2>5. \A m \in 1 .. 1 : Stream'[Len(Stream) + m] = c1[m]
        BY <1>9, <2>1
  <2>. QED  BY <2>3, <2>4, <2>5, Zenon
<1>21. UNCHANGED <<inbuf, taken, state>> /\ hurt' = hurt \cup HalfWritten
      BY <1>15 DEF Send
<1>22. Len(writing') = 3 /\ writing'[1] = c2 /\ writing'[2] = c3 /\ writing'[3] = c4
      BY <1>12
<1>23. Place' = 2
      BY <1>22 DEF Place
<1>24. Unfinished(p)'
  <2>1. /\ p \in 1 .. Len(sent') /\ Len(writing') \in 1 .. 3 /\ Place' <= sent'[p].len
        /\ sent'[p].len = l + 2
        BY <1>3, <1>5, <1>14, <1>18, <1>22, <1>23
  <2>2. ASSUME NEW k \in 1 .. l + 2 PROVE OfPacket(bytes[k])'
    <3>1. /\ bytes[k].p = p /\ bytes[k].k = k
          /\ k = 1 => bytes[k].v = At
          /\ k = 2 => bytes[k].v = l
          BY <1>6
    <3>2. l = sent'[p].len - 2
          BY <2>1
    <3>. QED  BY <2>1, <3>1, <3>2 DEF OfPacket
  <2>3. ASSUME NEW j \in 1 .. 3
        PROVE  /\ Len(writing'[j]) = IF j < 3 THEN 1 ELSE l - 1
               /\ \A m \in 1 .. Len(writing'[j]) :
                    1 + j + m - 1 \in 1 .. l + 2 /\ writing'[j][m] = bytes[1 + j + m - 1]
    <3>1. j = 1 \/ j = 2 \/ j = 3
          OBVIOUS
    <3>2. CASE j = 1
          BY <1>5, <1>9, <1>22, <3>2
    <3>3. CASE j = 2
          BY <1>5, <1>9, <1>22, <3>3
    <3>4. CASE j = 3
      <4>1. Len(writing'[3]) = l - 1 /\ \A m \in 1 .. l - 1 : writing'[3][m] = bytes[m + 3]
            BY <1>10, <1>22
      <4>2. \A m \in 1 .. l - 1 : 1 + 3 + m - 1 = m + 3 /\ m + 3 \in 1 .. l + 2
            BY <1>5
      <4>. QED  BY <3>4, <4>1, <4>2
    <3>. QED  BY <3>1, <3>2, <3>3, <3>4
  <2>4. ASSUME NEW j \in 1 .. 3, NEW m \in 1 .. Len(writing'[j])
        PROVE  /\ OfPacket(writing[j][m])' /\ writing'[j][m].p = p
               /\ writing'[j][m].k = Place' + j + m - 2
    <3>1. PICK k \in 1 .. l + 2 : k = 1 + j + m - 1 /\ writing'[j][m] = bytes[k]
          BY <2>3
    <3>2. OfPacket(writing[j][m])'
          BY <2>2, <3>1 DEF OfPacket
    <3>3. writing'[j][m].p = p /\ writing'[j][m].k = k
          BY <1>6, <3>1
    <3>4. m \in Nat
      <4>1. Len(writing'[j]) \in Nat
        <5>1. writing'[j] \in Seq(Bytes)
              BY <1>9, <1>10, <1>22
        <5>. QED  BY <5>1, LenProperties
      <4>. QED  BY <4>1
    <3>5. k = Place' + j + m - 2
          BY <1>23, <3>1, <3>4
    <3>. QED  BY <3>2, <3>3, <3>5
  <2>5. l - 1 = sent'[p].len - 3
        BY <2>1
  <2>6. Writes(p)'
        BY <1>22, <2>1, <2>3, <2>4, <2>5 DEF Writes
  <2>. QED  BY <2>1, <2>6 DEF Unfinished
<1>25. \A g : Unfinished(g)' => g = p
  <2> SUFFICES ASSUME NEW g, Unfinished(g)' PROVE g = p
      OBVIOUS
  <2>1. \A m \in 1 .. Len(writing'[1]) : writing'[1][m].p = g
        BY <1>22 DEF Unfinished, Writes
  <2>2. writing'[1][1].p = g
        BY <1>9, <1>22, <2>1
  <2>3. writing'[1][1].p = p
        BY <1>5, <1>6, <1>9, <1>22
  <2>. QED  BY <2>2, <2>3
<1>26. SerialTypes'
  <2>1. line' \in Seq(Bytes)
        BY <1>9, <1>12, ConcatProperties DEF SerialTypes
  <2>2. writing' \in Seq(Seq(Bytes))
        BY <1>9, <1>10, <1>12
  <2>. QED  BY <1>18, <1>21, <2>1, <2>2 DEF SerialTypes
<1>27. Begins(p, 1)
  <2>1. 1 >= 1 /\ entry.len >= 3 /\ 1 <= entry.len /\ Place' = 1 + 1
        BY <1>5, <1>14, <1>23
  <2>2. /\ entry \in Records
        /\ sent' = Append(sent, entry) /\ entry.len >= 3 /\ 1 <= entry.len
        /\ entry.inside <=> HalfWritten # {}
        /\ \A m \in 1 .. 1 :
             /\ m = 1 => Stream'[Len(Stream) + m].v = At
             /\ m = 2 => Stream'[Len(Stream) + m].v = entry.len - 2
        /\ 1 < entry.len => Unfinished(p)' /\ Place' = 1 + 1
    <3>1. \A m \in 1 .. 1 : m # 2
          OBVIOUS
    <3>. QED  BY <1>14, <1>16, <1>17, <1>20, <1>24, <2>1, <3>1, Zenon
  <2>3. writing' = <<>> \/ \E h \in 1 .. Len(sent') : Writes(h)'
        BY <1>24 DEF Unfinished, Writes
  <2>. QED  BY <1>3, <1>19, <1>20, <1>21, <1>24, <1>25, <2>1, <2>2, <2>3, Zenon DEF Begins
<1>. QED  BY <1>26, <1>27

\* What Begins says of the stream and of the records.
LEMMA BeginsFacts ==
  ASSUME SerialTypes, Formed, NEW p, NEW n, Begins(p, n)
  PROVE  /\ SentKept /\ Len(sent') = p /\ Len(sent) = p - 1 /\ p \in Nat /\ p >= 1
         /\ Len(Stream) \in Nat /\ Len(Stream') = Len(Stream) + n
         /\ n \in Nat /\ n >= 1 /\ sent'[p].len \in Nat /\ sent'[p].len >= 3 /\ n <= sent'[p].len
         /\ \A i \in 1 .. Len(Stream) :
              /\ i \in 1 .. Len(Stream') /\ Stream'[i] = Stream[i]
              /\ Stream[i].p \in 1 .. p - 1 /\ Stream[i].p # p
         /\ \A i \in 1 .. Len(Stream') : i \notin 1 .. Len(Stream) =>
              /\ i > Len(Stream) /\ Stream'[i].p = p /\ Stream'[i].k = i - Len(Stream)
              /\ i - Len(Stream) \in 1 .. n
         /\ n < sent'[p].len => Unfinished(p)' /\ Place' = n + 1
<1>1. sent \in Seq(Records) /\ Len(sent) \in Nat /\ p = Len(sent) + 1 /\ p \in Nat
      BY LenProperties DEF SerialTypes, Begins
<1>2. PICK entry \in Records :
        /\ sent' = Append(sent, entry) /\ entry.len >= 3 /\ n <= entry.len
        /\ n < entry.len => Unfinished(p)' /\ Place' = n + 1
      BY DEF Begins
<1>3. /\ Len(sent') = Len(sent) + 1 /\ sent'[p] = entry
      /\ \A q \in 1 .. Len(sent) : sent'[q] = sent[q]
      BY <1>1, <1>2, AppendProperties
<1>4. SentKept
  <2>1. Len(sent') \in Nat /\ Len(sent') >= Len(sent)
        BY <1>1, <1>3
  <2>. QED  BY <1>3, <2>1 DEF SentKept
<1>5. entry.len \in Nat
      BY <1>2 DEF Records
<1>6. Grows(n) /\ n >= 1 /\ n \in Nat
      BY DEF Begins, Grows
<1>7. Len(Stream) \in Nat /\ \A i \in 1 .. Len(Stream) : Stream[i].p \in 1 .. Len(sent)
      BY Typing
<1>8. ASSUME NEW i \in 1 .. Len(Stream)
      PROVE  /\ i \in 1 .. Len(Stream') /\ Stream'[i] = Stream[i]
             /\ Stream[i].p \in 1 .. p - 1 /\ Stream[i].p # p
  <2>1. i \in 1 .. Len(Stream') /\ Stream'[i] = Stream[i]
        BY <1>6, <1>7 DEF Grows
  <2>2. Stream[i].p \in 1 .. Len(sent)
        BY <1>7
  <2>. QED  BY <1>1, <2>1, <2>2
<1>9. ASSUME NEW i \in 1 .. Len(Stream'), i \notin 1 .. Len(Stream)
      PROVE  /\ i > Len(Stream) /\ Stream'[i].p = p /\ Stream'[i].k = i - Len(Stream)
             /\ i - Len(Stream) \in 1 .. n
  <2>1. PICK m \in 1 .. n : i = Len(Stream) + m
        BY <1>9, <1>6 DEF Grows
  <2>2. i > Len(Stream) /\ i - Len(Stream) = m
        BY <1>6, <1>7, <2>1
  <2>3. Stream'[i].p = p /\ Stream'[i].k = m
        BY <2>1 DEF Begins
  <2>. QED  BY <2>2, <2>3
<1>10. Len(sent) = p - 1 /\ Len(sent') = p /\ p >= 1
      BY <1>1, <1>3
<1>11. Len(Stream') = Len(Stream) + n
      BY <1>6 DEF Grows
<1>. QED  BY <1>1, <1>2, <1>3, <1>4, <1>5, <1>6, <1>7, <1>8, <1>9, <1>10, <1>11

LEMMA BeginsInside ==
  ASSUME SerialTypes, Formed, NEW p, NEW n, Begins(p, n)
  PROVE  sent'[p].inside <=> HalfWritten # {}
<1>1. PICK entry \in Records :
        sent' = Append(sent, entry) /\ (entry.inside <=> HalfWritten # {})
      BY DEF Begins
<1>2. sent'[p] = entry
  <2>1. sent \in Seq(Records) /\ p = Len(sent) + 1
        BY DEF SerialTypes, Begins
  <2>. QED  BY <1>1, <2>1, AppendProperties
<1>. QED  BY <1>1, <1>2

LEMMA BeginsFormed ==
  ASSUME SerialTypes, Formed, NEW p, NEW n, Begins(p, n)
  PROVE  Formed'
<1>1. /\ SentKept /\ Len(sent') = p /\ Len(sent) = p - 1 /\ p \in Nat /\ p >= 1
      /\ sent'[p].len \in Nat /\ sent'[p].len >= 3 /\ n <= sent'[p].len /\ n \in Nat
      BY BeginsFacts
<1>2. ASSUME NEW q \in 1 .. Len(sent') PROVE sent'[q].len >= 3
  <2>1. CASE q \in 1 .. Len(sent)
        BY <2>1 DEF SentKept, Formed, Begins
  <2>2. CASE q \notin 1 .. Len(sent)
    <3>1. q = p
          BY <1>1, <2>2
    <3>. QED  BY <1>1, <3>1
  <2>. QED  BY <2>1, <2>2
<1>3. ASSUME NEW i \in 1 .. Len(Stream') PROVE OfPacket(Stream[i])'
  <2>1. CASE i \in 1 .. Len(Stream)
    <3>1. OfPacket(Stream[i]) /\ Stream'[i] = Stream[i]
          BY <2>1, BeginsFacts DEF Formed
    <3>2. Stream[i].p \in 1 .. Len(sent) /\ Stream[i].p \in 1 .. Len(sent')
      <4>1. Stream[i].p \in 1 .. Len(sent)
            BY <3>1 DEF OfPacket
      <4>. QED  BY <1>1, <4>1
    <3>3. sent'[Stream[i].p] = sent[Stream[i].p]
          BY <1>1, <3>2 DEF SentKept
    <3>. QED  BY <3>1, <3>2, <3>3 DEF OfPacket
  <2>2. CASE i \notin 1 .. Len(Stream)
    <3>1. PICK m \in 1 .. n : m = i - Len(Stream) /\ Stream'[i].p = p /\ Stream'[i].k = m
          BY <2>2, BeginsFacts
    <3>2. i = Len(Stream) + m
      <4>1. Len(Stream) \in Nat /\ Len(Stream') \in Nat
            BY <1>1, BeginsFacts
      <4>. QED  BY <3>1, <4>1
    <3>3. PICK entry \in Records :
            /\ sent' = Append(sent, entry)
            /\ m = 1 => Stream'[Len(Stream) + m].v = At
            /\ m = 2 => Stream'[Len(Stream) + m].v = entry.len - 2
          BY DEF Begins
    <3>4. sent'[p] = entry
      <4>1. sent \in Seq(Records) /\ p = Len(sent) + 1
            BY DEF SerialTypes, Begins
      <4>. QED  BY <3>3, <4>1, AppendProperties
    <3>5. p \in 1 .. Len(sent') /\ m \in 1 .. sent'[p].len
          BY <1>1
    <3>. QED  BY <3>1, <3>2, <3>3, <3>4, <3>5 DEF OfPacket
  <2>. QED  BY <2>1, <2>2
<1>4. ASSUME NEW i \in 1 .. Len(taken'), NEW k \in 1 .. Len(taken'[i])
      PROVE  taken'[i][k].p <= Len(sent')
  <2>1. taken' = taken
        BY DEF Begins
  <2>2. taken \in Seq(Seq(Bytes))
        BY DEF SerialTypes
  <2>3. taken[i][k] \in Bytes
        BY <2>1, <2>2, ElementOfSeq
  <2>4. taken[i][k].p \in Nat
        BY <2>3 DEF Bytes
  <2>5. taken[i][k].p <= Len(sent)
        BY <2>1 DEF Formed
  <2>. QED  BY <1>1, <2>1, <2>4, <2>5
<1>. QED  BY <1>2, <1>3, <1>4 DEF Formed

\* The next chunk, n bytes of packet h.
Extends(h, n) ==
  /\ Writes(h) /\ n = Len(writing[1]) /\ Grows(n)
  /\ \A m \in 1 .. n :
       /\ OfPacket(Stream'[Len(Stream) + m])
       /\ Stream'[Len(Stream) + m].p = h /\ Stream'[Len(Stream) + m].k = Place + m - 1
  /\ UNCHANGED <<inbuf, taken, state, sent, hurt>>
  /\ Place < 4 => Writes(h)' /\ Place' = Place + 1
  /\ Place = 4 => writing' = <<>>
  /\ \A g : Unfinished(g)' => g = h /\ Unfinished(h) /\ Place < 4

LEMMA WriteExtends ==
  ASSUME SerialTypes, Formed, Writing, Write
  PROVE  SerialTypes' /\ \E h, n : Extends(h, n)
<1>1. writing # <<>> /\ writing \in Seq(Seq(Bytes))
      BY DEF Write, SerialTypes
<1>2. PICK h \in 1 .. Len(sent) : Writes(h)
      BY <1>1 DEF Writing
<1>3. PICK bytes \in Seq(Bytes) : bytes = writing[1]
      BY <1>2, WritingTyped
<1>4. Head(writing) = bytes
      BY <1>1, <1>3
<1>5. line' = line \o bytes /\ inbuf' = inbuf
      BY <1>4 DEF Write
<1>6. PICK n : n = Len(writing[1])
      OBVIOUS
<1>7. Grows(n)
  <2>1. n \in Nat /\ n = Len(bytes)
        BY <1>3, <1>6, LenProperties
  <2>2. Len(Stream') = Len(Stream) + Len(bytes)
        BY <1>5, StreamGrows
  <2>3. \A i \in 1 .. Len(Stream) : Stream'[i] = Stream[i]
        BY <1>5, StreamGrows
  <2>4. \A i \in 1 .. Len(Stream') :
          i \in 1 .. Len(Stream) \/ \E m \in 1 .. Len(bytes) : i = Len(Stream) + m
        BY <1>5, StreamGrows
  <2>. QED  BY <2>1, <2>2, <2>3, <2>4 DEF Grows
<1>8. ASSUME NEW m \in 1 .. n
      PROVE  /\ OfPacket(Stream'[Len(Stream) + m])
             /\ Stream'[Len(Stream) + m].p = h /\ Stream'[Len(Stream) + m].k = Place + m - 1
  <2>1. m \in 1 .. Len(bytes) /\ m \in 1 .. Len(writing[1])
        BY <1>3, <1>6
  <2>2. Stream'[Len(Stream) + m] = bytes[m]
        BY <1>5, <2>1, StreamGrows
  <2>3. OfPacket(writing[1][m]) /\ writing[1][m].p = h /\ writing[1][m].k = Place + m - 1
        BY <1>2, <2>1, WritingTyped
  <2>. QED  BY <1>3, <2>2, <2>3
<1>9. UNCHANGED <<inbuf, taken, state, sent, hurt>>
      BY DEF Write
<1>10. /\ Place < 4 => Writes(h)' /\ Place' = Place + 1
       /\ Place = 4 => writing' = <<>>
       /\ \A g : Unfinished(g)' => g = h /\ Unfinished(h) /\ Place < 4
      BY <1>2, WriteLeaves
<1>11. SerialTypes'
  <2>1. line' \in Seq(Bytes)
        BY <1>5, ConcatProperties DEF SerialTypes
  <2>2. writing' \in Seq(Seq(Bytes))
        BY <1>1, HeadTailProperties DEF Write
  <2>. QED  BY <1>9, <2>1, <2>2 DEF SerialTypes
<1>. QED  BY <1>2, <1>6, <1>7, <1>8, <1>9, <1>10, <1>11 DEF Extends

LEMMA ExtendsFacts ==
  ASSUME SerialTypes, Formed, NEW h, NEW n, Extends(h, n)
  PROVE  /\ h \in 1 .. Len(sent) /\ h \in Nat /\ Len(sent) \in Nat
         /\ sent[h].len \in Nat /\ sent[h].len >= 3 /\ Place \in 2 .. 4
         /\ n \in Nat /\ (Place < 4 => n = 1) /\ (Place = 4 => n = sent[h].len - 3)
         /\ n >= 1 => Unfinished(h)
         /\ Len(Stream) \in Nat /\ Len(Stream') = Len(Stream) + n
         /\ \A i \in 1 .. Len(Stream) : i \in 1 .. Len(Stream') /\ Stream'[i] = Stream[i]
         /\ \A i \in 1 .. Len(Stream') : i \notin 1 .. Len(Stream) =>
              /\ i > Len(Stream) /\ i - Len(Stream) \in 1 .. n /\ Stream'[i].p = h
              /\ Stream'[i].k = Place + (i - Len(Stream)) - 1 /\ OfPacket(Stream'[i])
<1>1. Writes(h) /\ Grows(n) /\ n = Len(writing[1])
      BY DEF Extends
<1>2. /\ h \in 1 .. Len(sent) /\ h \in Nat /\ sent[h].len \in Nat /\ sent[h].len >= 3
      /\ Place \in 2 .. 4
      BY <1>1, WritingTyped
<1>3. n \in Nat /\ n = IF Place < 4 THEN 1 ELSE sent[h].len - 3
      BY <1>1, WritingTyped
<1>4. (Place < 4 => n = 1) /\ (Place = 4 => n = sent[h].len - 3)
      BY <1>2, <1>3
<1>5. ASSUME n >= 1 PROVE Unfinished(h)
  <2>1. Place <= sent[h].len
    <3>1. CASE Place < 4
          BY <1>2, <3>1
    <3>2. CASE Place = 4
          BY <1>2, <1>4, <1>5, <3>2
    <3>. QED  BY <1>2, <3>1, <3>2
  <2>. QED  BY <1>1, <2>1 DEF Unfinished
<1>6. Len(Stream) \in Nat /\ Len(sent) \in Nat
      BY Typing
<1>7. Len(Stream') = Len(Stream) + n
      BY <1>1 DEF Grows
<1>8. ASSUME NEW i \in 1 .. Len(Stream) PROVE i \in 1 .. Len(Stream') /\ Stream'[i] = Stream[i]
      BY <1>1, <1>3, <1>6, <1>7 DEF Grows
<1>9. ASSUME NEW i \in 1 .. Len(Stream'), i \notin 1 .. Len(Stream)
      PROVE  /\ i > Len(Stream) /\ i - Len(Stream) \in 1 .. n /\ Stream'[i].p = h
             /\ Stream'[i].k = Place + (i - Len(Stream)) - 1 /\ OfPacket(Stream'[i])
  <2>1. PICK m \in 1 .. n : i = Len(Stream) + m
        BY <1>1, <1>9 DEF Grows
  <2>2. i > Len(Stream) /\ i - Len(Stream) = m
        BY <1>3, <1>6, <2>1
  <2>3. /\ OfPacket(Stream'[i])
        /\ Stream'[i].p = h /\ Stream'[i].k = Place + m - 1
        BY <2>1 DEF Extends
  <2>. QED  BY <2>2, <2>3
<1>. QED  BY <1>2, <1>3, <1>4, <1>5, <1>6, <1>7, <1>8, <1>9

LEMMA ExtendsFormed ==
  ASSUME SerialTypes, Formed, NEW h, NEW n, Extends(h, n)
  PROVE  Formed'
<1>1. UNCHANGED <<taken, sent>>
      BY DEF Extends
<1>2. ASSUME NEW i \in 1 .. Len(Stream') PROVE OfPacket(Stream[i])'
  <2>1. OfPacket(Stream'[i])
    <3>1. CASE i \in 1 .. Len(Stream)
          BY <3>1, ExtendsFacts DEF Formed
    <3>2. CASE i \notin 1 .. Len(Stream)
          BY <3>2, ExtendsFacts
    <3>. QED  BY <3>1, <3>2
  <2>. QED  BY <1>1, <2>1 DEF OfPacket
<1>. QED  BY <1>1, <1>2 DEF Formed

-----------------------------------------------------------------------------
(***************************************************************************)
(* What is lost and what is read.                                          *)
(***************************************************************************)
\* The byte at c is lost.
Loses(c) ==
  /\ c \in 1 .. Len(Stream) /\ Len(Stream') = Len(Stream) - 1
  /\ \A i \in 1 .. Len(Stream') : Stream'[i] = IF i < c THEN Stream[i] ELSE Stream[i + 1]
  /\ hurt' = hurt \cup {Stream[c].p}
  /\ UNCHANGED <<writing, inbuf, state, taken, sent>>

LEMMA LoseByteLoses ==
  ASSUME SerialTypes, LoseByte
  PROVE  SerialTypes' /\ \E c : Loses(c)
<1>1. line # <<>> /\ line' = Tail(line) /\ inbuf' = inbuf
      BY DEF LoseByte
<1>2. PICK c : c = Len(inbuf) + 1
      OBVIOUS
<1>3. /\ c \in 1 .. Len(Stream) /\ Stream[c] = Head(line)
      /\ Len(Stream') = Len(Stream) - 1
      /\ \A i \in 1 .. Len(Stream') : Stream'[i] = IF i < c THEN Stream[i] ELSE Stream[i + 1]
      BY <1>1, <1>2, StreamLoses
<1>4. UNCHANGED <<writing, inbuf, state, taken, sent>> /\ hurt' = hurt \cup {Stream[c].p}
      BY <1>3 DEF LoseByte
<1>5. SerialTypes'
  <2>1. line' \in Seq(Bytes)
        BY <1>1, HeadTailProperties DEF SerialTypes
  <2>. QED  BY <1>4, <2>1 DEF SerialTypes
<1>. QED  BY <1>3, <1>4, <1>5 DEF Loses

\* Where the bytes have been that are left.
LEMMA LosesFacts ==
  ASSUME SerialTypes, NEW c, Loses(c)
  PROVE  /\ Len(Stream) \in Nat /\ c \in Nat /\ c >= 1 /\ c <= Len(Stream)
         /\ Len(Stream') = Len(Stream) - 1
         /\ \A i \in 1 .. Len(Stream') :
              /\ i < c => i \in 1 .. Len(Stream) /\ Stream'[i] = Stream[i]
              /\ i >= c => i + 1 \in 1 .. Len(Stream) /\ Stream'[i] = Stream[i + 1]
         /\ \A i \in 1 .. Len(Stream) :
              /\ i < c => i \in 1 .. Len(Stream') /\ Stream'[i] = Stream[i]
              /\ i > c => i - 1 \in 1 .. Len(Stream') /\ Stream'[i - 1] = Stream[i]
<1>1. Len(Stream) \in Nat
  <2>1. Stream \in Seq(Bytes)
        BY ConcatProperties DEF SerialTypes, Stream
  <2>. QED  BY <2>1, LenProperties
<1>2. PICK l \in Nat : l = Len(Stream)
      BY <1>1
<1>3. /\ c \in 1 .. l /\ Len(Stream') = l - 1
      /\ \A i \in 1 .. l - 1 : Stream'[i] = IF i < c THEN Stream[i] ELSE Stream[i + 1]
      BY <1>2 DEF Loses
<1>4. ASSUME NEW i \in 1 .. l - 1
      PROVE  /\ i < c => i \in 1 .. l /\ Stream'[i] = Stream[i]
             /\ i >= c => i + 1 \in 1 .. l /\ Stream'[i] = Stream[i + 1]
      BY <1>3
<1>5. ASSUME NEW i \in 1 .. l, i > c
      PROVE  i - 1 \in 1 .. l - 1 /\ Stream'[i - 1] = Stream[i]
  <2>1. i - 1 \in 1 .. l - 1 /\ ~(i - 1 < c) /\ (i - 1) + 1 = i
        BY <1>3, <1>5
  <2>. QED  BY <1>3, <2>1
<1>6. ASSUME NEW i \in 1 .. l, i < c PROVE i \in 1 .. l - 1 /\ Stream'[i] = Stream[i]
  <2>1. i \in 1 .. l - 1
        BY <1>3, <1>6
  <2>. QED  BY <1>3, <1>6, <2>1
<1>7. c \in Nat /\ c >= 1 /\ c <= l
      BY <1>3
<1>. QED  BY <1>2, <1>3, <1>4, <1>5, <1>6, <1>7

LEMMA LosesFormed ==
  ASSUME SerialTypes, Formed, NEW c, Loses(c)
  PROVE  Formed'
<1>1. UNCHANGED <<taken, sent>>
      BY DEF Loses
<1>2. ASSUME NEW i \in 1 .. Len(Stream') PROVE OfPacket(Stream[i])'
  <2>1. i \in Nat
    <3>1. Len(Stream') \in Int
          BY LosesFacts
    <3>. QED  BY <3>1
  <2>2. i < c \/ i >= c
        BY <2>1, LosesFacts
  <2>3. \E j \in 1 .. Len(Stream) : Stream'[i] = Stream[j]
        BY <2>2, LosesFacts
  <2>4. OfPacket(Stream'[i])
        BY <2>3 DEF Formed
  <2>. QED  BY <1>1, <2>4 DEF OfPacket
<1>. QED  BY <1>1, <1>2 DEF Formed

\* What a turn leaves, and what it takes.
LEMMA ConsumesFacts ==
  ASSUME SerialTypes, Formed, NEW g, NEW n, Consumes(g, n)
  PROVE  /\ Len(Stream) \in Nat /\ g \in Nat /\ n \in Nat /\ g + n <= Len(Stream)
         /\ Len(Stream') = Len(Stream) - (g + n)
         /\ \A i \in 1 .. Len(Stream') :
              i + (g + n) \in 1 .. Len(Stream) /\ Stream'[i] = Stream[i + (g + n)]
         /\ \A i \in 1 .. Len(Stream) : i > g + n =>
              i - (g + n) \in 1 .. Len(Stream') /\ Stream'[i - (g + n)] = Stream[i]
         /\ \A i \in 1 .. g : i \in 1 .. Len(Stream) /\ Stream[i].v # At
         /\ n >= 2 => /\ g + 1 \in 1 .. Len(Stream) /\ g + 2 \in 1 .. Len(Stream)
                      /\ Stream[g + 1].v = At /\ n = Stream[g + 2].v + 2
         /\ n < 2 => n = 0 /\ UNCHANGED taken
<1>1. PICK l \in Nat : l = Len(Stream)
      BY Typing
<1>2. g \in Nat /\ n \in Nat
      BY DEF Consumes
<1>3. PICK f \in Nat : f = g + n
      BY <1>2
<1>4. /\ f <= l /\ Len(Stream') = l - f
      /\ \A i \in 1 .. l - f : Stream'[i] = Stream[i + f]
      BY <1>1, <1>3 DEF Consumes, Drops
<1>5. ASSUME NEW i \in 1 .. l - f PROVE i + f \in 1 .. l
      BY <1>4
<1>6. ASSUME NEW i \in 1 .. l, i > f
      PROVE  i - f \in 1 .. l - f /\ Stream'[i - f] = Stream[i]
  <2>1. i - f \in 1 .. l - f /\ (i - f) + f = i
        BY <1>6
  <2>. QED  BY <1>4, <2>1
<1>7. ASSUME NEW i \in 1 .. g PROVE i \in 1 .. l /\ Stream[i].v # At
  <2>1. i \in 1 .. l
        BY <1>2, <1>3, <1>4
  <2>. QED  BY <2>1 DEF Consumes
<1>8. ASSUME n >= 2
      PROVE  /\ g + 1 \in 1 .. l /\ g + 2 \in 1 .. l
             /\ Stream[g + 1].v = At /\ n = Stream[g + 2].v + 2
  <2>1. g + 1 \in 1 .. l /\ g + 2 \in 1 .. l
        BY <1>2, <1>3, <1>4, <1>8
  <2>2. n # 0
        BY <1>8
  <2>. QED  BY <2>1, <2>2 DEF Consumes
<1>9. n < 2 => n = 0 /\ UNCHANGED taken
  <2>1. n < 2 => ~(n >= 2)
        BY <1>2
  <2>. QED  BY <2>1 DEF Consumes
<1>. QED  BY <1>1, <1>2, <1>3, <1>4, <1>5, <1>6, <1>7, <1>8, <1>9

Reads(g, n) == Consumes(g, n) /\ UNCHANGED <<writing, sent, hurt>>

\* The n bytes after the first g are packet p.
IsPacket(g, n, p) ==
  n = sent[p].len /\ \A k \in 1 .. n : Stream[g + k].p = p /\ Stream[g + k].k = k

LEMMA ReadsTaken ==
  ASSUME SerialTypes, NEW g, NEW n, Reads(g, n), NEW p
  PROVE  /\ Whole(p) => Whole(p)'
         /\ Swallowed(p) => Swallowed(p)'
         /\ Whole(p)' => Whole(p) \/ (n >= 2 /\ IsPacket(g, n, p))
         /\ n >= 2 /\ IsPacket(g, n, p) => Whole(p)'
         /\ (\E k \in 2 .. n : Stream[g + k].p = p /\ Stream[g + k].k = 1) => Swallowed(p)'
<1>1. UNCHANGED sent /\ n \in Nat
      BY DEF Reads, Consumes
<1>2. CASE n = 0 /\ UNCHANGED taken
  <2>1. (Whole(p)' <=> Whole(p)) /\ (Swallowed(p)' <=> Swallowed(p))
        BY <1>1, <1>2 DEF Whole, Swallowed
  <2>2. ~(n >= 2) /\ \A k \in 2 .. n : FALSE
        BY <1>2
  <2>. QED  BY <2>1, <2>2
<1>3. ASSUME n >= 2, NEW packet \in Seq(Bytes), taken' = Append(taken, packet),
             Len(packet) = n, \A k \in 1 .. n : packet[k] = Stream[g + k]
      PROVE  /\ Whole(p) => Whole(p)'
             /\ Swallowed(p) => Swallowed(p)'
             /\ Whole(p)' => Whole(p) \/ (n >= 2 /\ IsPacket(g, n, p))
             /\ n >= 2 /\ IsPacket(g, n, p) => Whole(p)'
             /\ (\E k \in 2 .. n : Stream[g + k].p = p /\ Stream[g + k].k = 1) => Swallowed(p)'
  <2>1. (Whole(p) => Whole(p)') /\ (Swallowed(p) => Swallowed(p)')
        BY <1>1, <1>3, WholeStays
  <2>2. Whole(p)' => \/ Whole(p)
                     \/ /\ Len(packet) = sent[p].len
                        /\ \A k \in 1 .. sent[p].len : packet[k].p = p /\ packet[k].k = k
        BY <1>1, <1>3, WholeStays
  <2>3. /\ Len(packet) = sent[p].len
        /\ \A k \in 1 .. sent[p].len : packet[k].p = p /\ packet[k].k = k
        => Whole(p)'
        BY <1>1, <1>3, WholeStays
  <2>4. (\E k \in 2 .. Len(packet) : packet[k].p = p /\ packet[k].k = 1) => Swallowed(p)'
        BY <1>1, <1>3, WholeStays
  <2>5. IsPacket(g, n, p) <=>
          /\ Len(packet) = sent[p].len
          /\ \A k \in 1 .. sent[p].len : packet[k].p = p /\ packet[k].k = k
        BY <1>3 DEF IsPacket
  <2>6. (\E k \in 2 .. n : Stream[g + k].p = p /\ Stream[g + k].k = 1) =>
          \E k \in 2 .. Len(packet) : packet[k].p = p /\ packet[k].k = 1
    <3>1. \A k \in 2 .. n : k \in 1 .. n
          BY <1>1
    <3>. QED  BY <1>3, <3>1
  <2>. QED  BY <1>3, <2>1, <2>2, <2>3, <2>4, <2>5, <2>6
<1>4. (n = 0 /\ UNCHANGED taken) \/
        \E packet \in Seq(Bytes) :
          /\ n >= 2 /\ taken' = Append(taken, packet)
          /\ Len(packet) = n /\ \A k \in 1 .. n : packet[k] = Stream[g + k]
      BY DEF Reads, Consumes
<1>. QED  BY <1>2, <1>3, <1>4

LEMMA ReadsFormed ==
  ASSUME SerialTypes, Formed, NEW g, NEW n, Reads(g, n)
  PROVE  Formed'
<1>1. UNCHANGED sent /\ Consumes(g, n)
      BY DEF Reads
<1>2. ASSUME NEW i \in 1 .. Len(Stream') PROVE OfPacket(Stream[i])'
  <2>1. OfPacket(Stream'[i])
        BY <1>1, ConsumesFacts DEF Formed
  <2>. QED  BY <1>1, <2>1 DEF OfPacket
<1>3. ASSUME NEW i \in 1 .. Len(taken'), NEW k \in 1 .. Len(taken'[i])
      PROVE  taken'[i][k].p <= Len(sent)
  <2>1. CASE n = 0 /\ UNCHANGED taken
        BY <2>1 DEF Formed
  <2>2. ASSUME NEW packet \in Seq(Bytes), taken' = Append(taken, packet), n >= 2,
               Len(packet) = n, \A m \in 1 .. n : packet[m] = Stream[g + m]
        PROVE  taken'[i][k].p <= Len(sent)
    <3>1. taken \in Seq(Seq(Bytes)) /\ Len(taken) \in Nat
          BY LenProperties DEF SerialTypes
    <3>2. /\ Len(taken') = Len(taken) + 1 /\ taken'[Len(taken) + 1] = packet
          /\ \A m \in 1 .. Len(taken) : taken'[m] = taken[m]
          BY <2>2, <3>1, AppendProperties
    <3>3. CASE i \in 1 .. Len(taken)
          BY <3>2, <3>3 DEF Formed
    <3>4. CASE i \notin 1 .. Len(taken)
      <4>1. taken'[i] = packet
        <5>1. i = Len(taken) + 1
              BY <3>1, <3>2, <3>4
        <5>. QED  BY <3>2, <5>1
      <4>2. k \in 1 .. n /\ packet[k] = Stream[g + k]
            BY <2>2, <4>1
      <4>3. g + k \in 1 .. Len(Stream)
            BY <1>1, <4>2, ConsumesFacts
      <4>4. Stream[g + k].p \in 1 .. Len(sent) /\ Len(sent) \in Nat
            BY <4>3, Typing
      <4>5. Stream[g + k].p <= Len(sent)
            BY <4>4
      <4>. QED  BY <4>1, <4>2, <4>5
    <3>. QED  BY <3>3, <3>4
  <2>. QED  BY <1>1, <2>1, <2>2 DEF Consumes
<1>. QED  BY <1>1, <1>2, <1>3 DEF Formed

-----------------------------------------------------------------------------
(***************************************************************************)
(* Writing is kept.                                                        *)
(***************************************************************************)
\* Of send the same is left to do.
LEMMA UnfinishedKept ==
  ASSUME UNCHANGED <<writing, sent>>, NEW h
  PROVE  (Writes(h)' <=> Writes(h)) /\ (Unfinished(h)' <=> Unfinished(h)) /\ Place' = Place
<1>1. Place' = Place
      BY DEF Place
<1>2. Writes(h)' <=> Writes(h)
      BY <1>1 DEF Writes, OfPacket
<1>. QED  BY <1>1, <1>2 DEF Unfinished

LEMMA BeginsWriting ==
  ASSUME SerialTypes, Formed, Writing, NEW p, NEW n, Begins(p, n)
  PROVE  Writing'
<1>1. /\ SentKept /\ Len(sent') = p /\ Len(sent) = p - 1 /\ p \in Nat /\ n \in Nat
      /\ Len(Stream) \in Nat /\ Len(Stream') = Len(Stream) + n
      BY BeginsFacts
<1>2. ASSUME NEW h \in 1 .. Len(sent'), Unfinished(h)'
      PROVE  /\ \A i \in 1 .. Len(Stream') : Stream'[i].p = h => Stream'[i].k < Place'
             /\ \A r \in h + 1 .. Len(sent') : sent'[r].inside
             /\ ~Whole(h)'
  <2>1. CASE h = p /\ Place' = n + 1
    <3>1. ASSUME NEW i \in 1 .. Len(Stream'), Stream'[i].p = h PROVE Stream'[i].k < Place'
      <4>1. i \notin 1 .. Len(Stream)
            BY <2>1, <3>1, BeginsFacts
      <4>2. Stream'[i].k \in 1 .. n
            BY <4>1, BeginsFacts
      <4>. QED  BY <1>1, <2>1, <4>2
    <3>2. \A r \in h + 1 .. Len(sent') : FALSE
          BY <1>1, <2>1
    <3>3. ~Whole(h)'
      <4>1. PICK entry \in Records : sent' = Append(sent, entry) /\ entry.len >= 3
            BY DEF Begins
      <4>. QED  BY <2>1, <4>1, NotYetTaken DEF Begins
    <3>. QED  BY <3>1, <3>2, <3>3
  <2>2. CASE Unfinished(h) /\ Place' = Place
    <3>1. h \in 1 .. Len(sent) /\ h # p
      <4>1. h \in 1 .. Len(sent)
            BY <2>2 DEF Unfinished, Writes
      <4>. QED  BY <1>1, <4>1
    <3>2. ASSUME NEW i \in 1 .. Len(Stream'), Stream'[i].p = h PROVE Stream'[i].k < Place'
      <4>1. i \in 1 .. Len(Stream)
            BY <3>1, <3>2, BeginsFacts
      <4>2. Stream'[i] = Stream[i]
            BY <4>1, BeginsFacts
      <4>. QED  BY <2>2, <3>1, <3>2, <4>1, <4>2 DEF Writing
    <3>3. ASSUME NEW r \in h + 1 .. Len(sent') PROVE sent'[r].inside
      <4>1. CASE r \in 1 .. Len(sent)
        <5>1. r \in h + 1 .. Len(sent)
              BY <1>1, <4>1
        <5>2. sent[r].inside
              BY <2>2, <3>1, <5>1 DEF Writing
        <5>3. sent'[r] = sent[r]
              BY <1>1, <4>1 DEF SentKept
        <5>. QED  BY <5>2, <5>3
      <4>2. CASE r \notin 1 .. Len(sent)
        <5>1. r = p
              BY <1>1, <3>1, <4>2
        <5>2. HalfWritten # {}
              BY <2>2, HalfWrittenIs
        <5>. QED  BY <5>1, <5>2, BeginsInside
      <4>. QED  BY <4>1, <4>2
    <3>4. ~Whole(h)'
      <4>1. ~Whole(h)
            BY <2>2, <3>1 DEF Writing
      <4>2. UNCHANGED taken
            BY DEF Begins
      <4>. QED  BY <1>1, <3>1, <4>1, <4>2, WholeKept
    <3>. QED  BY <3>2, <3>3, <3>4
  <2>. QED  BY <1>2, <2>1, <2>2 DEF Begins
<1>3. writing' = <<>> \/ \E h \in 1 .. Len(sent') : Writes(h)'
      BY DEF Begins
<1>. QED  BY <1>2, <1>3 DEF Writing

LEMMA ExtendsWriting ==
  ASSUME SerialTypes, Formed, Writing, NEW h, NEW n, Extends(h, n)
  PROVE  Writing'
<1>1. /\ h \in 1 .. Len(sent) /\ Place \in 2 .. 4 /\ Len(Stream) \in Nat /\ n \in Nat
      /\ Place < 4 => n = 1
      BY ExtendsFacts
<1>2. UNCHANGED <<taken, sent>>
      BY DEF Extends
<1>3. ASSUME NEW g \in 1 .. Len(sent'), Unfinished(g)'
      PROVE  /\ \A i \in 1 .. Len(Stream') : Stream'[i].p = g => Stream'[i].k < Place'
             /\ \A r \in g + 1 .. Len(sent') : sent'[r].inside
             /\ ~Whole(g)'
  <2>1. g = h /\ Unfinished(h) /\ Place < 4 /\ Place' = Place + 1
        BY <1>3 DEF Extends
  <2>2. /\ \A i \in 1 .. Len(Stream) : Stream[i].p = h => Stream[i].k < Place
        /\ \A r \in h + 1 .. Len(sent) : sent[r].inside
        /\ ~Whole(h)
        BY <1>1, <2>1 DEF Writing
  <2>3. ASSUME NEW i \in 1 .. Len(Stream'), Stream'[i].p = g PROVE Stream'[i].k < Place'
    <3>1. CASE i \in 1 .. Len(Stream)
      <4>1. Stream'[i] = Stream[i]
            BY <3>1, ExtendsFacts
      <4>2. Stream[i].k < Place /\ Stream[i].k \in Nat
            BY <2>1, <2>2, <2>3, <3>1, <4>1, Typing
      <4>. QED  BY <1>1, <2>1, <4>1, <4>2
    <3>2. CASE i \notin 1 .. Len(Stream)
      <4>1. i - Len(Stream) \in 1 .. n /\ Stream'[i].k = Place + (i - Len(Stream)) - 1
            BY <3>2, ExtendsFacts
      <4>2. i - Len(Stream) = 1
            BY <1>1, <2>1, <4>1
      <4>. QED  BY <1>1, <2>1, <4>1, <4>2
    <3>. QED  BY <3>1, <3>2
  <2>4. ~Whole(g)'
        BY <1>2, <2>1, <2>2 DEF Whole
  <2>. QED  BY <1>2, <2>1, <2>2, <2>3, <2>4
<1>4. writing' = <<>> \/ \E g \in 1 .. Len(sent') : Writes(g)'
      BY <1>1, <1>2 DEF Extends
<1>. QED  BY <1>3, <1>4 DEF Writing

LEMMA LosesWriting ==
  ASSUME SerialTypes, Formed, Writing, NEW c, Loses(c)
  PROVE  Writing'
<1>1. UNCHANGED <<writing, taken, sent>>
      BY DEF Loses
<1>2. ASSUME NEW h \in 1 .. Len(sent), Unfinished(h),
             NEW i \in 1 .. Len(Stream'), Stream'[i].p = h
      PROVE  Stream'[i].k < Place'
  <2>1. \E j \in 1 .. Len(Stream) : Stream'[i] = Stream[j]
    <3>1. Len(Stream') \in Int /\ c \in Nat
          BY LosesFacts
    <3>2. i < c \/ i >= c
          BY <3>1
    <3>. QED  BY <3>2, LosesFacts
  <2>2. Place' = Place
        BY <1>1 DEF Place
  <2>. QED  BY <1>2, <2>1, <2>2 DEF Writing
<1>3. \A h : (Writes(h)' <=> Writes(h)) /\ (Unfinished(h)' <=> Unfinished(h))
      BY <1>1, UnfinishedKept
<1>4. \A h : Whole(h)' <=> Whole(h)
      BY <1>1 DEF Whole
<1>. QED  BY <1>1, <1>2, <1>3, <1>4 DEF Writing

LEMMA ReadsWriting ==
  ASSUME SerialTypes, Formed, Writing, NEW g, NEW n, Reads(g, n)
  PROVE  Writing'
<1>1. UNCHANGED <<writing, sent>> /\ Consumes(g, n)
      BY DEF Reads
<1>2. ASSUME NEW h \in 1 .. Len(sent), Unfinished(h)
      PROVE  /\ \A i \in 1 .. Len(Stream') : Stream'[i].p = h => Stream'[i].k < Place'
             /\ ~Whole(h)'
  <2>1. Place' = Place
        BY <1>1 DEF Place
  <2>2. \A i \in 1 .. Len(Stream) : Stream[i].p = h => Stream[i].k < Place
        BY <1>2 DEF Writing
  <2>3. \A i \in 1 .. Len(Stream') : \E j \in 1 .. Len(Stream) : Stream'[i] = Stream[j]
        BY <1>1, ConsumesFacts
  <2>4. ~(n >= 2 /\ IsPacket(g, n, h))
    <3> SUFFICES ASSUME n >= 2, IsPacket(g, n, h) PROVE FALSE
        OBVIOUS
    <3>1. n \in Nat /\ n = sent[h].len /\ Stream[g + n].p = h /\ Stream[g + n].k = n
      <4>1. n \in Nat /\ n \in 1 .. n
            BY <1>1, ConsumesFacts
      <4>. QED  BY <4>1 DEF IsPacket
    <3>2. g + n \in 1 .. Len(Stream)
          BY <1>1, <3>1, ConsumesFacts
    <3>3. n < Place
          BY <2>2, <3>1, <3>2
    <3>4. Place <= n /\ Place \in 2 .. 4
          BY <1>2, <3>1, WritingTyped DEF Unfinished
    <3>. QED  BY <3>1, <3>3, <3>4
  <2>5. ~Whole(h)'
        BY <1>2, <2>4, ReadsTaken DEF Writing
  <2>. QED  BY <2>1, <2>2, <2>3, <2>5
<1>3. \A h : (Writes(h)' <=> Writes(h)) /\ (Unfinished(h)' <=> Unfinished(h))
      BY <1>1, UnfinishedKept
<1>. QED  BY <1>1, <1>2, <1>3 DEF Writing

-----------------------------------------------------------------------------
(***************************************************************************)
(* Contiguous is kept.                                                     *)
(***************************************************************************)
\* Byte i is the k-th of a sound packet of l bytes, and s bytes are in the stream.
LEMMA ContinuesWhere ==
  ASSUME SerialTypes, Formed, Contiguous, NEW i \in 1 .. Len(Stream), Stream[i].p \notin hurt
  PROVE  \E k, l, s \in Nat :
           /\ k = Stream[i].k /\ l = sent[Stream[i].p].len /\ s = Len(Stream)
           /\ i \in 1 .. s /\ k >= 1 /\ k <= l
           /\ \A j \in i .. s : k + (j - i) <= l =>
                Stream[j].p = Stream[i].p /\ Stream[j].k = k + (j - i)
           /\ k + (s - i) < l => Unfinished(Stream[i].p) /\ Place = k + (s - i) + 1
<1>1. PICK s \in Nat : s = Len(Stream)
      BY Typing
<1>2. Stream[i].p \in 1 .. Len(sent) /\ Stream[i].k \in 1 .. sent[Stream[i].p].len
      BY Typing
<1>3. PICK l \in Nat : l = sent[Stream[i].p].len
      BY <1>2, Typing
<1>4. PICK k \in Nat : k = Stream[i].k
      BY Typing
<1>5. k >= 1 /\ k <= l
      BY <1>2, <1>3, <1>4
<1>6. Continues(i)
      BY DEF Contiguous
<1>7. /\ \A j \in i .. s : k + (j - i) <= l =>
           Stream[j].p = Stream[i].p /\ Stream[j].k = k + (j - i)
      /\ k + (s - i) < l => Unfinished(Stream[i].p) /\ Place = k + (s - i) + 1
      BY <1>1, <1>3, <1>4, <1>6 DEF Continues
<1>. QED  BY <1>1, <1>3, <1>4, <1>5, <1>7

LEMMA BeginsContiguous ==
  ASSUME SerialTypes, Formed, Writing, Contiguous, NEW p, NEW n, Begins(p, n)
  PROVE  Contiguous'
<1>1. /\ SentKept /\ Len(sent) = p - 1 /\ p \in Nat /\ n \in Nat /\ Len(Stream) \in Nat
      /\ Len(Stream') = Len(Stream) + n /\ sent'[p].len \in Nat
      BY BeginsFacts
<1>2. hurt' = hurt \cup HalfWritten
      BY DEF Begins
<1> SUFFICES ASSUME NEW i \in 1 .. Len(Stream'), Stream'[i].p \notin hurt'
             PROVE  Continues(i)'
      BY DEF Contiguous
<1>3. CASE i \in 1 .. Len(Stream)
  <2>1. PICK q : q = Stream[i].p
        OBVIOUS
  <2>2. Stream'[i] = Stream[i] /\ q \in 1 .. p - 1 /\ q \notin hurt /\ ~Unfinished(q)
        BY <1>2, <1>3, <2>1, BeginsFacts, HalfWrittenIs
  <2>3. PICK k, l, s \in Nat :
          /\ k = Stream[i].k /\ l = sent[q].len /\ s = Len(Stream)
          /\ i \in 1 .. s /\ k >= 1 /\ k <= l
          /\ \A j \in i .. s : k + (j - i) <= l => Stream[j].p = q /\ Stream[j].k = k + (j - i)
          /\ k + (s - i) < l => Unfinished(q) /\ Place = k + (s - i) + 1
        BY <1>3, <2>1, <2>2, ContinuesWhere
  <2>4. ~(k + (s - i) < l)
        BY <2>2, <2>3
  <2>5. sent'[q].len = l
        BY <1>1, <2>2, <2>3 DEF SentKept
  <2>6. ASSUME NEW j \in i .. s + n, k + (j - i) <= l
        PROVE  Stream'[j].p = q /\ Stream'[j].k = k + (j - i)
    <3>1. j \in i .. s
          BY <1>1, <2>3, <2>4, <2>6
    <3>2. j \in 1 .. Len(Stream)
          BY <2>3, <3>1
    <3>3. Stream'[j] = Stream[j]
          BY <3>2, BeginsFacts
    <3>. QED  BY <2>3, <2>6, <3>1, <3>3
  <2>7. ~(k + ((s + n) - i) < l)
        BY <1>1, <2>3, <2>4
  <2>. QED  BY <1>1, <2>1, <2>2, <2>3, <2>5, <2>6, <2>7 DEF Continues
<1>4. CASE i \notin 1 .. Len(Stream)
  <2>1. PICK s \in Nat : s = Len(Stream)
        BY <1>1
  <2>2. PICK m \in 1 .. n : m = i - s /\ Stream'[i].p = p /\ Stream'[i].k = m
        BY <1>4, <2>1, BeginsFacts
  <2>3. i \in 1 .. s + n /\ i = s + m
        BY <1>1, <2>1, <2>2
  <2>4. ASSUME NEW j \in i .. s + n PROVE Stream'[j].p = p /\ Stream'[j].k = m + (j - i)
    <3>1. j \in 1 .. s + n /\ j \notin 1 .. s /\ j - s = m + (j - i)
          BY <1>1, <2>3
    <3>2. j \in 1 .. Len(Stream') /\ j \notin 1 .. Len(Stream)
          BY <1>1, <2>1, <3>1
    <3>3. Stream'[j].p = p /\ Stream'[j].k = j - Len(Stream)
          BY <3>2, BeginsFacts
    <3>. QED  BY <2>1, <3>1, <3>3
  <2>5. m + ((s + n) - i) = n
        BY <1>1, <2>3
  <2>6. n < sent'[p].len => Unfinished(p)' /\ Place' = n + 1
        BY BeginsFacts
  <2>. QED  BY <1>1, <2>1, <2>2, <2>4, <2>5, <2>6 DEF Continues
<1>. QED  BY <1>3, <1>4

LEMMA ExtendsContiguous ==
  ASSUME SerialTypes, Formed, Writing, Contiguous, NEW h, NEW n, Extends(h, n)
  PROVE  Contiguous'
<1>1. /\ h \in 1 .. Len(sent) /\ Place \in 2 .. 4 /\ n \in Nat /\ Len(Stream) \in Nat
      /\ Len(Stream') = Len(Stream) + n /\ (Place < 4 => n = 1)
      /\ (Place = 4 => n = sent[h].len - 3) /\ sent[h].len \in Nat
      BY ExtendsFacts
<1>2. UNCHANGED <<sent, hurt>>
      BY DEF Extends
<1>3. PICK s \in Nat, c \in 2 .. 4 : s = Len(Stream) /\ c = Place
      BY <1>1
<1>4. ASSUME NEW i \in 1 .. s + n, NEW k \in Nat, k + (s - i) = c - 1, k + ((s + n) - i) < sent[h].len
      PROVE  Unfinished(h)' /\ Place' = k + ((s + n) - i) + 1
  <2>1. c + n - 1 < sent[h].len
        BY <1>1, <1>3, <1>4
  <2>2. c < 4 /\ n = 1
        BY <1>1, <1>3, <2>1
  <2>3. Writes(h)' /\ Place' = c + 1
        BY <1>3, <2>2 DEF Extends
  <2>4. Place' <= sent'[h].len
        BY <1>1, <1>2, <2>1, <2>2, <2>3
  <2>5. Place' = k + ((s + n) - i) + 1
        BY <1>1, <1>4, <2>2, <2>3
  <2>. QED  BY <2>3, <2>4, <2>5 DEF Unfinished
<1> SUFFICES ASSUME NEW i \in 1 .. Len(Stream'), Stream'[i].p \notin hurt'
             PROVE  Continues(i)'
      BY DEF Contiguous
<1>5. ASSUME NEW j \in s + 1 .. s + n
      PROVE  Stream'[j].p = h /\ Stream'[j].k = c + (j - s) - 1
  <2>1. j \in 1 .. s + n /\ j \notin 1 .. s
        BY <1>1
  <2>2. j \in 1 .. Len(Stream') /\ j \notin 1 .. Len(Stream)
        BY <1>1, <1>3, <2>1
  <2>. QED  BY <1>3, <2>2, ExtendsFacts
<1>6. CASE i \in 1 .. Len(Stream)
  <2>1. PICK q : q = Stream[i].p
        OBVIOUS
  <2>2. Stream'[i] = Stream[i] /\ q \notin hurt
        BY <1>2, <1>6, <2>1, ExtendsFacts
  <2>3. PICK k, l \in Nat :
          /\ k = Stream[i].k /\ l = sent[q].len
          /\ i \in 1 .. s /\ k >= 1 /\ k <= l
          /\ \A j \in i .. s : k + (j - i) <= l => Stream[j].p = q /\ Stream[j].k = k + (j - i)
          /\ k + (s - i) < l => Unfinished(q) /\ Place = k + (s - i) + 1
        BY <1>3, <1>6, <2>1, <2>2, ContinuesWhere
  <2>7. i \in 1 .. s /\ i \in Nat
        BY <2>3
  <2>4. k + (s - i) < l => q = h /\ k + (s - i) = c - 1
    <3>1. ASSUME k + (s - i) < l PROVE q = h
          BY <2>3, <3>1, OneUnfinished DEF Extends
    <3>. QED  BY <1>3, <2>3, <3>1
  <2>5. ASSUME NEW j \in i .. s + n, k + (j - i) <= l
        PROVE  Stream'[j].p = q /\ Stream'[j].k = k + (j - i)
    <3>1. CASE j <= s
      <4>1. j \in i .. s /\ j \in 1 .. Len(Stream)
            BY <1>1, <1>3, <2>3, <3>1
      <4>2. Stream'[j] = Stream[j]
            BY <4>1, ExtendsFacts
      <4>. QED  BY <2>3, <2>5, <4>1, <4>2
    <3>2. CASE ~(j <= s)
      <4>1. n \in Nat /\ j \in Nat
            BY <1>1, <2>7
      <4>2. j \in s + 1 .. s + n /\ k + (s - i) < l
            BY <2>5, <2>7, <3>2, <4>1
      <4>3. k + (s - i) = c - 1 /\ q = h
            BY <2>4, <4>2
      <4>4. c + (j - s) - 1 = k + (j - i)
            BY <2>7, <4>1, <4>3
      <4>. QED  BY <1>5, <4>2, <4>3, <4>4
    <3>. QED  BY <3>1, <3>2
  <2>6. ASSUME k + ((s + n) - i) < l
        PROVE  Unfinished(q)' /\ Place' = k + ((s + n) - i) + 1
    <3>1. k + (s - i) < l /\ i \in 1 .. s + n
      <4>1. n \in Nat
            BY <1>1
      <4>. QED  BY <2>6, <2>7, <4>1
    <3>2. q = h /\ k + (s - i) = c - 1 /\ k + ((s + n) - i) < sent[h].len
          BY <2>3, <2>4, <2>6, <3>1
    <3>. QED  BY <1>4, <3>1, <3>2
  <2>. QED  BY <1>1, <1>2, <1>3, <2>1, <2>2, <2>3, <2>5, <2>6 DEF Continues
<1>7. CASE i \notin 1 .. Len(Stream)
  <2>1. i \in s + 1 .. s + n
        BY <1>1, <1>3, <1>7
  <2>2. PICK k \in Nat : k = c + (i - s) - 1
        BY <2>1
  <2>3. Stream'[i].p = h /\ Stream'[i].k = k
        BY <1>5, <2>1, <2>2
  <2>4. ASSUME NEW j \in i .. s + n PROVE Stream'[j].p = h /\ Stream'[j].k = k + (j - i)
    <3>1. j \in s + 1 .. s + n /\ c + (j - s) - 1 = k + (j - i)
          BY <2>1, <2>2
    <3>. QED  BY <1>5, <3>1
  <2>5. k + (s - i) = c - 1 /\ i \in 1 .. s + n
        BY <1>1, <2>1, <2>2
  <2>. QED  BY <1>1, <1>2, <1>3, <1>4, <2>3, <2>4, <2>5 DEF Continues
<1>. QED  BY <1>6, <1>7

LEMMA LosesContiguous ==
  ASSUME SerialTypes, Formed, Contiguous, NEW c, Loses(c)
  PROVE  Contiguous'
<1>1. UNCHANGED <<writing, sent>> /\ hurt' = hurt \cup {Stream[c].p}
      BY DEF Loses
<1>2. /\ Len(Stream) \in Nat /\ c \in Nat /\ c >= 1 /\ c <= Len(Stream)
      /\ Len(Stream') = Len(Stream) - 1
      BY LosesFacts
<1>3. \A h : (Unfinished(h)' <=> Unfinished(h)) /\ Place' = Place
      BY <1>1, UnfinishedKept
<1> SUFFICES ASSUME NEW i \in 1 .. Len(Stream'), Stream'[i].p \notin hurt'
             PROVE  Continues(i)'
      BY DEF Contiguous
<1>4. CASE i < c
  <2>1. PICK q : q = Stream[i].p
        OBVIOUS
  <2>2. i \in 1 .. Len(Stream) /\ Stream'[i] = Stream[i] /\ q \notin hurt /\ q # Stream[c].p
        BY <1>1, <1>4, <2>1, LosesFacts
  <2>3. PICK k, l, s \in Nat :
          /\ k = Stream[i].k /\ l = sent[q].len /\ s = Len(Stream)
          /\ i \in 1 .. s /\ k >= 1 /\ k <= l
          /\ \A j \in i .. s : k + (j - i) <= l => Stream[j].p = q /\ Stream[j].k = k + (j - i)
          /\ k + (s - i) < l => Unfinished(q) /\ Place = k + (s - i) + 1
    <3>1. i \in 1 .. Len(Stream) /\ Stream[i].p \notin hurt
          BY <2>1, <2>2
    <3>. QED  BY <2>1, <3>1, ContinuesWhere
  <2>7. i \in 1 .. s /\ c \in Nat /\ c <= s /\ i < c
        BY <1>2, <1>4, <2>3
  <2>4. ~(k + (c - i) <= l)
    <3>1. c \in i .. s
          BY <1>2, <1>4, <2>3
    <3>. QED  BY <2>2, <2>3, <3>1
  <2>5. ASSUME NEW j \in i .. s - 1, k + (j - i) <= l
        PROVE  Stream'[j].p = q /\ Stream'[j].k = k + (j - i)
    <3>1. j < c /\ j \in i .. s /\ j \in 1 .. s - 1
          BY <2>4, <2>5, <2>7
    <3>2. Stream'[j] = Stream[j]
          BY <1>2, <2>3, <3>1, LosesFacts
    <3>. QED  BY <2>3, <2>5, <3>1, <3>2
  <2>6. ~(k + ((s - 1) - i) < l)
        BY <2>4, <2>7
  <2>. QED  BY <1>1, <1>2, <2>1, <2>2, <2>3, <2>5, <2>6 DEF Continues
<1>5. CASE i >= c
  <2>1. PICK q : q = Stream[i + 1].p
        OBVIOUS
  <2>2. i + 1 \in 1 .. Len(Stream) /\ Stream'[i] = Stream[i + 1] /\ q \notin hurt
        BY <1>1, <1>5, <2>1, LosesFacts
  <2>3. PICK k, l, s \in Nat :
          /\ k = Stream[i + 1].k /\ l = sent[q].len /\ s = Len(Stream)
          /\ i + 1 \in 1 .. s /\ k >= 1 /\ k <= l
          /\ \A j \in i + 1 .. s : k + (j - (i + 1)) <= l =>
               Stream[j].p = q /\ Stream[j].k = k + (j - (i + 1))
          /\ k + (s - (i + 1)) < l => Unfinished(q) /\ Place = k + (s - (i + 1)) + 1
        BY <2>1, <2>2, ContinuesWhere
  <2>4. i \in Nat
        BY <1>2
  <2>5. ASSUME NEW j \in i .. s - 1, k + (j - i) <= l
        PROVE  Stream'[j].p = q /\ Stream'[j].k = k + (j - i)
    <3>1. j \in 1 .. s - 1 /\ j >= c /\ j + 1 \in i + 1 .. s /\ (j + 1) - (i + 1) = j - i
          BY <1>2, <1>5, <2>3, <2>4
    <3>2. Stream'[j] = Stream[j + 1]
          BY <1>2, <2>3, <3>1, LosesFacts
    <3>. QED  BY <2>3, <2>5, <3>1, <3>2
  <2>6. s - (i + 1) = (s - 1) - i
        BY <2>3, <2>4
  <2>. QED  BY <1>1, <1>2, <1>3, <2>1, <2>2, <2>3, <2>5, <2>6 DEF Continues
<1>. QED  BY <1>2, <1>4, <1>5

LEMMA ReadsContiguous ==
  ASSUME SerialTypes, Formed, Contiguous, NEW g, NEW n, Reads(g, n)
  PROVE  Contiguous'
<1>1. UNCHANGED <<writing, sent>> /\ UNCHANGED hurt /\ Consumes(g, n)
      BY DEF Reads
<1>2. /\ Len(Stream) \in Nat /\ g \in Nat /\ n \in Nat /\ g + n <= Len(Stream)
      /\ Len(Stream') = Len(Stream) - (g + n)
      BY <1>1, ConsumesFacts
<1>3. PICK f \in Nat : f = g + n
      BY <1>2
<1>4. \A h : (Unfinished(h)' <=> Unfinished(h)) /\ Place' = Place
      BY <1>1, UnfinishedKept
<1> SUFFICES ASSUME NEW i \in 1 .. Len(Stream'), Stream'[i].p \notin hurt'
             PROVE  Continues(i)'
      BY DEF Contiguous
<1>5. PICK q : q = Stream[i + f].p
      OBVIOUS
<1>6. i + f \in 1 .. Len(Stream) /\ Stream'[i] = Stream[i + f] /\ q \notin hurt
      BY <1>1, <1>3, <1>5, ConsumesFacts
<1>7. PICK k, l, s \in Nat :
        /\ k = Stream[i + f].k /\ l = sent[q].len /\ s = Len(Stream)
        /\ i + f \in 1 .. s /\ k >= 1 /\ k <= l
        /\ \A j \in i + f .. s : k + (j - (i + f)) <= l =>
             Stream[j].p = q /\ Stream[j].k = k + (j - (i + f))
        /\ k + (s - (i + f)) < l => Unfinished(q) /\ Place = k + (s - (i + f)) + 1
      BY <1>5, <1>6, ContinuesWhere
<1>8. i \in Nat /\ i >= 1 /\ Len(Stream') = s - f
      BY <1>2, <1>3, <1>7
<1>9. ASSUME NEW j \in i .. s - f, k + (j - i) <= l
      PROVE  Stream'[j].p = q /\ Stream'[j].k = k + (j - i)
  <2>1. j \in 1 .. s - f /\ j + f \in i + f .. s /\ (j + f) - (i + f) = j - i
        BY <1>8
  <2>2. Stream'[j] = Stream[j + f]
    <3>1. j \in 1 .. Len(Stream')
          BY <1>8, <2>1
    <3>2. Stream'[j] = Stream[j + (g + n)]
          BY <1>1, <3>1, ConsumesFacts
    <3>. QED  BY <1>3, <3>2
  <2>. QED  BY <1>7, <1>9, <2>1, <2>2
<1>10. s - (i + f) = (s - f) - i
      BY <1>7, <1>8
<1>. QED  BY <1>1, <1>4, <1>5, <1>6, <1>7, <1>8, <1>9, <1>10 DEF Continues

-----------------------------------------------------------------------------
(***************************************************************************)
(* Kept is kept.                                                           *)
(***************************************************************************)
LEMMA GrowsStarting ==
  ASSUME SerialTypes, NEW n, Grows(n), NEW i, NEW q, Starting(i, q)
  PROVE  Starting(i, q)'
<1>1. Len(Stream) \in Nat
  <2>1. Stream \in Seq(Bytes)
        BY ConcatProperties DEF SerialTypes, Stream
  <2>. QED  BY <2>1, LenProperties
<1>2. i \in 1 .. Len(Stream) /\ n \in Nat /\ Len(Stream') = Len(Stream) + n
      /\ Stream'[i] = Stream[i]
      BY DEF Starting, Grows
<1>3. i \in 1 .. Len(Stream')
      BY <1>1, <1>2
<1>. QED  BY <1>2, <1>3 DEF Starting

\* The new packet starts behind what was there.
LEMMA BeginsStarting ==
  ASSUME SerialTypes, Formed, NEW p, NEW n, Begins(p, n)
  PROVE  \E i : i = Len(Stream) + 1 /\ Starting(i, p)'
<1>1. PICK s \in Nat : s = Len(Stream)
      BY BeginsFacts
<1>2. n \in Nat /\ n >= 1 /\ Len(Stream') = s + n
      BY <1>1, BeginsFacts
<1>3. s + 1 \in 1 .. s + n /\ s + 1 \notin 1 .. s /\ (s + 1) - s = 1
      BY <1>2
<1>4. s + 1 \in 1 .. Len(Stream') /\ s + 1 \notin 1 .. Len(Stream)
      BY <1>1, <1>2, <1>3
<1>5. Stream'[s + 1].p = p /\ Stream'[s + 1].k = (s + 1) - Len(Stream)
      BY <1>4, BeginsFacts
<1>6. PICK i : i = s + 1
      OBVIOUS
<1>7. i \in 1 .. Len(Stream') /\ Stream'[i].p = p /\ Stream'[i].k = 1
      BY <1>1, <1>3, <1>4, <1>5, <1>6
<1>. QED  BY <1>1, <1>6, <1>7 DEF Starting

LEMMA BeginsKept ==
  ASSUME SerialTypes, Formed, Kept, NEW p, NEW n, Begins(p, n)
  PROVE  Kept'
<1>1. /\ SentKept /\ Len(sent') = p /\ Len(sent) = p - 1 /\ p \in Nat
      BY BeginsFacts
<1>2. UNCHANGED taken /\ hurt' = hurt \cup HalfWritten /\ Grows(n)
      BY DEF Begins
<1>3. ASSUME NEW q \in 1 .. Len(sent'), q \notin hurt'
      PROVE  (\E i \in 1 .. Len(Stream') : Starting(i, q)') \/ Whole(q)' \/ Swallowed(q)'
  <2>1. CASE q \in 1 .. Len(sent)
    <3>1. (\E i \in 1 .. Len(Stream) : Starting(i, q)) \/ Whole(q) \/ Swallowed(q)
          BY <1>2, <1>3, <2>1 DEF Kept
    <3>2. (Whole(q) => Whole(q)') /\ (Swallowed(q) => Swallowed(q)')
          BY <1>1, <1>2, <2>1, WholeKept
    <3>3. \A i : Starting(i, q) => Starting(i, q)'
          BY <1>2, GrowsStarting
    <3>. QED  BY <3>1, <3>2, <3>3 DEF Starting
  <2>2. CASE q \notin 1 .. Len(sent)
    <3>1. q = p
          BY <1>1, <2>2
    <3>2. \E i \in 1 .. Len(Stream') : Starting(i, p)'
          BY BeginsStarting DEF Starting
    <3>. QED  BY <3>1, <3>2
  <2>. QED  BY <2>1, <2>2
<1>. QED  BY <1>3 DEF Kept

LEMMA ExtendsKept ==
  ASSUME SerialTypes, Formed, Kept, NEW h, NEW n, Extends(h, n)
  PROVE  Kept'
<1>1. UNCHANGED <<taken, sent>> /\ UNCHANGED hurt /\ Grows(n)
      BY DEF Extends
<1>2. ASSUME NEW q \in 1 .. Len(sent), q \notin hurt
      PROVE  (\E i \in 1 .. Len(Stream') : Starting(i, q)') \/ Whole(q)' \/ Swallowed(q)'
  <2>1. (\E i \in 1 .. Len(Stream) : Starting(i, q)) \/ Whole(q) \/ Swallowed(q)
        BY <1>2 DEF Kept
  <2>2. (Whole(q) => Whole(q)') /\ (Swallowed(q) => Swallowed(q)')
        BY <1>1 DEF Whole, Swallowed
  <2>3. \A i : Starting(i, q) => Starting(i, q)'
        BY <1>1, GrowsStarting
  <2>. QED  BY <2>1, <2>2, <2>3 DEF Starting
<1>. QED  BY <1>1, <1>2 DEF Kept

\* A sound packet that starts is not what is lost.
LEMMA LosesStarting ==
  ASSUME SerialTypes, NEW c, Loses(c), NEW i, NEW q, Starting(i, q), q \notin hurt'
  PROVE  /\ i # c
         /\ i < c => Starting(i, q)'
         /\ i > c => Starting(i - 1, q)'
<1>1. i \in 1 .. Len(Stream) /\ Stream[i].p = q /\ Stream[i].k = 1
      BY DEF Starting
<1>2. i # c
      BY <1>1 DEF Loses
<1>3. i < c => i \in 1 .. Len(Stream') /\ Stream'[i] = Stream[i]
      BY <1>1, LosesFacts
<1>4. i > c => i - 1 \in 1 .. Len(Stream') /\ Stream'[i - 1] = Stream[i]
      BY <1>1, LosesFacts
<1>5. ASSUME i < c PROVE Starting(i, q)'
      BY <1>1, <1>3, <1>5 DEF Starting
<1>6. ASSUME i > c PROVE Starting(i - 1, q)'
  <2>1. PICK j : j = i - 1
        OBVIOUS
  <2>2. j \in 1 .. Len(Stream') /\ Stream'[j].p = q /\ Stream'[j].k = 1
        BY <1>1, <1>4, <1>6, <2>1
  <2>. QED  BY <2>1, <2>2 DEF Starting
<1>. QED  BY <1>2, <1>5, <1>6

LEMMA LosesKept ==
  ASSUME SerialTypes, Formed, Kept, NEW c, Loses(c)
  PROVE  Kept'
<1>1. UNCHANGED <<taken, sent>> /\ hurt' = hurt \cup {Stream[c].p}
      BY DEF Loses
<1>2. ASSUME NEW q \in 1 .. Len(sent), q \notin hurt'
      PROVE  (\E i \in 1 .. Len(Stream') : Starting(i, q)') \/ Whole(q)' \/ Swallowed(q)'
  <2>1. (\E i \in 1 .. Len(Stream) : Starting(i, q)) \/ Whole(q) \/ Swallowed(q)
        BY <1>1, <1>2 DEF Kept
  <2>2. (Whole(q) => Whole(q)') /\ (Swallowed(q) => Swallowed(q)')
        BY <1>1 DEF Whole, Swallowed
  <2>3. ASSUME NEW i \in 1 .. Len(Stream), Starting(i, q)
        PROVE  \E j : Starting(j, q)'
    <3>1. /\ i # c
          /\ i < c => Starting(i, q)'
          /\ i > c => Starting(i - 1, q)'
          BY <1>2, <2>3, LosesStarting
    <3>2. i < c \/ i > c
          BY <3>1, LosesFacts
    <3>. QED  BY <3>1, <3>2
  <2>. QED  BY <2>1, <2>2, <2>3 DEF Starting
<1>. QED  BY <1>1, <1>2 DEF Kept

\* A sound packet that starts where one is taken is what is taken.
LEMMA FirstIsPacket ==
  ASSUME SerialTypes, Formed, Contiguous, NEW g, NEW n, Reads(g, n), n >= 2,
         NEW q, Starting(g + 1, q), q \notin hurt
  PROVE  IsPacket(g, n, q)
<1>1. /\ g + 1 \in 1 .. Len(Stream) /\ g + 2 \in 1 .. Len(Stream) /\ g \in Nat /\ n \in Nat
      /\ n = Stream[g + 2].v + 2 /\ g + n <= Len(Stream)
      BY ConsumesFacts DEF Reads
<1>2. PICK i \in Nat : i = g + 1
      BY <1>1
<1>3. i \in 1 .. Len(Stream) /\ Stream[i].p = q /\ Stream[i].k = 1 /\ q \in 1 .. Len(sent)
      BY <1>1, <1>2, Typing DEF Starting
<1>4. PICK k, l, s \in Nat :
        /\ k = Stream[i].k /\ l = sent[q].len /\ s = Len(Stream)
        /\ i \in 1 .. s /\ k >= 1 /\ k <= l
        /\ \A j \in i .. s : k + (j - i) <= l => Stream[j].p = q /\ Stream[j].k = k + (j - i)
        /\ k + (s - i) < l => Unfinished(q) /\ Place = k + (s - i) + 1
      BY <1>3, ContinuesWhere
<1>5. k = 1 /\ l >= 3
      BY <1>3, <1>4, Typing
<1>6. i + 1 \in i .. s /\ k + ((i + 1) - i) = 2 /\ 2 <= l /\ i + 1 = g + 2
  <2>1. g + 2 <= s
        BY <1>1, <1>4
  <2>. QED  BY <1>1, <1>2, <1>5, <2>1
<1>7. Stream[i + 1].p = q /\ Stream[i + 1].k = 2
      BY <1>4, <1>6
<1>8. Stream[i + 1].v = l - 2
  <2>1. OfPacket(Stream[g + 2])
        BY <1>1 DEF Formed
  <2>. QED  BY <1>4, <1>6, <1>7, <2>1 DEF OfPacket
<1>9. n = l
  <2>1. n = (l - 2) + 2
        BY <1>1, <1>6, <1>8
  <2>. QED  BY <2>1
<1>10. ASSUME NEW m \in 1 .. n PROVE Stream[g + m].p = q /\ Stream[g + m].k = m
  <2>1. g + n <= s
        BY <1>1, <1>4
  <2>2. g + m \in i .. s /\ k + ((g + m) - i) = m /\ m <= l
    <3>1. n = l /\ k = 1 /\ i = g + 1 /\ g \in Nat
          BY <1>1, <1>2, <1>5, <1>9
    <3>. QED  BY <2>1, <3>1
  <2>. QED  BY <1>4, <2>2
<1>. QED  BY <1>4, <1>9, <1>10 DEF IsPacket

LEMMA ReadsKept ==
  ASSUME SerialTypes, Formed, Contiguous, Kept, NEW g, NEW n, Reads(g, n)
  PROVE  Kept'
<1>1. UNCHANGED sent /\ UNCHANGED hurt /\ Consumes(g, n)
      BY DEF Reads
<1>2. /\ Len(Stream) \in Nat /\ g \in Nat /\ n \in Nat
      BY <1>1, ConsumesFacts
<1>3. ASSUME NEW q \in 1 .. Len(sent), q \notin hurt, NEW i \in 1 .. Len(Stream), Starting(i, q)
      PROVE  (\E j \in 1 .. Len(Stream') : Starting(j, q)') \/ Whole(q)' \/ Swallowed(q)'
  <2>1. Stream[i].p = q /\ Stream[i].k = 1 /\ i \in Nat
        BY <1>2, <1>3 DEF Starting
  <2>2. CASE i > g + n
    <3>1. i - (g + n) \in 1 .. Len(Stream') /\ Stream'[i - (g + n)] = Stream[i]
          BY <1>1, <1>3, <2>2, ConsumesFacts
    <3>2. PICK j : j = i - (g + n)
          OBVIOUS
    <3>3. Starting(j, q)'
          BY <2>1, <3>1, <3>2 DEF Starting
    <3>. QED  BY <3>1, <3>2, <3>3
  <2>3. CASE i <= g
    <3>1. i \in 1 .. g
          BY <1>2, <2>3
    <3>2. Stream[i].v # At
          BY <1>1, <3>1, ConsumesFacts
    <3>3. OfPacket(Stream[i])
          BY <1>3 DEF Formed
    <3>. QED  BY <2>1, <3>2, <3>3 DEF OfPacket
  <2>4. CASE i > g /\ i <= g + n
    <3>1. n >= 2
      <4>1. n # 0
            BY <1>2, <2>1, <2>4
      <4>2. n < 2 => n = 0
            BY <1>1, ConsumesFacts
      <4>. QED  BY <1>2, <4>1, <4>2
    <3>2. CASE i = g + 1
      <4>1. IsPacket(g, n, q)
            BY <1>3, <3>1, <3>2, FirstIsPacket
      <4>. QED  BY <3>1, <4>1, ReadsTaken
    <3>3. CASE i # g + 1
      <4>1. i - g \in 2 .. n /\ g + (i - g) = i
            BY <1>2, <2>1, <2>4, <3>3
      <4>2. \E k \in 2 .. n : Stream[g + k].p = q /\ Stream[g + k].k = 1
            BY <2>1, <4>1
      <4>. QED  BY <4>2, ReadsTaken
    <3>. QED  BY <3>2, <3>3
  <2>. QED  BY <1>2, <2>1, <2>2, <2>3, <2>4
<1>4. ASSUME NEW q \in 1 .. Len(sent), q \notin hurt
      PROVE  (\E i \in 1 .. Len(Stream') : Starting(i, q)') \/ Whole(q)' \/ Swallowed(q)'
  <2>1. (\E i \in 1 .. Len(Stream) : Starting(i, q)) \/ Whole(q) \/ Swallowed(q)
        BY <1>4 DEF Kept
  <2>2. (Whole(q) => Whole(q)') /\ (Swallowed(q) => Swallowed(q)')
        BY ReadsTaken
  <2>. QED  BY <1>3, <1>4, <2>1, <2>2
<1>. QED  BY <1>1, <1>4 DEF Kept

-----------------------------------------------------------------------------
(***************************************************************************)
(* Adjacent is kept.                                                       *)
(***************************************************************************)
LEMMA BeginsAdjacent ==
  ASSUME SerialTypes, Formed, Adjacent, NEW p, NEW n, Begins(p, n)
  PROVE  Adjacent'
<1>1. /\ SentKept /\ Len(sent') = p /\ Len(sent) = p - 1 /\ p \in Nat /\ n \in Nat
      /\ Len(Stream) \in Nat /\ Len(Stream') = Len(Stream) + n
      /\ sent'[p].len \in Nat /\ n <= sent'[p].len
      BY BeginsFacts
<1>2. hurt' = hurt \cup HalfWritten /\ Grows(n)
      BY DEF Begins
<1> SUFFICES ASSUME NEW q \in 1 .. Len(sent'), NEW i \in 1 .. Len(Stream'), Ending(i, q)',
                    ~sent'[q].inside
             PROVE  /\ q = Len(sent') => i = Len(Stream')
                    /\ q < Len(sent') /\ q + 1 \notin hurt' /\ ~sent'[q + 1].inside =>
                         Starting(i + 1, q + 1)'
      BY DEF Adjacent
<1>3. Stream'[i].p = q /\ Stream'[i].k = sent'[q].len
      BY DEF Ending
<1>4. CASE i \in 1 .. Len(Stream)
  <2>1. Stream'[i] = Stream[i] /\ Stream[i].p \in 1 .. p - 1
        BY <1>4, BeginsFacts
  <2>2. q \in 1 .. p - 1 /\ q \in Nat /\ q \in 1 .. Len(sent) /\ sent'[q] = sent[q]
    <3>1. q \in 1 .. p - 1
          BY <1>3, <2>1
    <3>. QED  BY <1>1, <3>1 DEF SentKept
  <2>3. Ending(i, q) /\ ~sent[q].inside
        BY <1>3, <1>4, <2>1, <2>2 DEF Ending
  <2>4. q # Len(sent')
        BY <1>1, <2>2
  <2>5. ASSUME q + 1 \notin hurt', ~sent'[q + 1].inside PROVE Starting(i + 1, q + 1)'
    <3>1. CASE q < Len(sent)
      <4>1. q + 1 \in 1 .. Len(sent)
            BY <1>1, <2>2, <3>1
      <4>2. sent'[q + 1] = sent[q + 1]
            BY <1>1, <4>1 DEF SentKept
      <4>3. Starting(i + 1, q + 1)
            BY <1>2, <1>4, <2>2, <2>3, <2>5, <3>1, <4>2 DEF Adjacent
      <4>. QED  BY <1>2, <4>3, GrowsStarting
    <3>2. CASE ~(q < Len(sent))
      <4>1. q = Len(sent) /\ q + 1 = p
            BY <1>1, <2>2, <3>2
      <4>2. i = Len(Stream)
            BY <1>4, <2>2, <2>3, <4>1 DEF Adjacent
      <4>3. PICK j : j = Len(Stream) + 1 /\ Starting(j, p)'
            BY BeginsStarting
      <4>. QED  BY <4>1, <4>2, <4>3
    <3>. QED  BY <3>1, <3>2
  <2>. QED  BY <2>4, <2>5
<1>5. CASE i \notin 1 .. Len(Stream)
  <2>4. /\ Stream'[i].p = p /\ Stream'[i].k = i - Len(Stream)
        /\ i - Len(Stream) \in 1 .. n
        BY <1>5, BeginsFacts
  <2>1. PICK m \in 1 .. n : m = i - Len(Stream) /\ Stream'[i].p = p /\ Stream'[i].k = m
        BY <2>4
  <2>2. q = p /\ m = n
    <3>1. q = p /\ m = sent'[p].len
          BY <1>3, <2>1
    <3>. QED  BY <1>1, <3>1
  <2>3. i = Len(Stream')
        BY <1>1, <2>1, <2>2
  <2>. QED  BY <1>1, <2>2, <2>3
<1>. QED  BY <1>4, <1>5

LEMMA ExtendsAdjacent ==
  ASSUME SerialTypes, Formed, Writing, Adjacent, NEW h, NEW n, Extends(h, n)
  PROVE  Adjacent'
<1>1. /\ h \in 1 .. Len(sent) /\ h \in Nat /\ Len(sent) \in Nat /\ Place \in 2 .. 4
      /\ n \in Nat /\ Len(Stream) \in Nat /\ Len(Stream') = Len(Stream) + n
      /\ (Place < 4 => n = 1) /\ (Place = 4 => n = sent[h].len - 3) /\ sent[h].len \in Nat
      BY ExtendsFacts
<1>2. UNCHANGED sent /\ UNCHANGED hurt /\ Grows(n)
      BY DEF Extends
<1>3. ASSUME n >= 1
      PROVE  /\ Place <= sent[h].len
             /\ \A i \in 1 .. Len(Stream) : Stream[i].p = h => Stream[i].k < Place
             /\ \A r \in h + 1 .. Len(sent) : sent[r].inside
  <2>1. Unfinished(h)
        BY <1>3, ExtendsFacts
  <2>2. Place <= sent[h].len
        BY <2>1 DEF Unfinished
  <2>. QED  BY <1>1, <2>1, <2>2 DEF Writing
<1> SUFFICES ASSUME NEW q \in 1 .. Len(sent), NEW i \in 1 .. Len(Stream'), Ending(i, q)',
                    ~sent[q].inside
             PROVE  /\ q = Len(sent) => i = Len(Stream')
                    /\ q < Len(sent) /\ q + 1 \notin hurt /\ ~sent[q + 1].inside =>
                         Starting(i + 1, q + 1)'
      BY <1>2 DEF Adjacent
<1>4. Stream'[i].p = q /\ Stream'[i].k = sent[q].len
      BY <1>2 DEF Ending
<1>5. CASE i \in 1 .. Len(Stream)
  <2>1. Ending(i, q) /\ Stream[i].p = q /\ Stream[i].k = sent[q].len
    <3>1. Stream'[i] = Stream[i]
          BY <1>5, ExtendsFacts
    <3>. QED  BY <1>4, <1>5, <3>1 DEF Ending
  <2>2. ASSUME q = Len(sent) PROVE i = Len(Stream')
    <3>1. i = Len(Stream)
          BY <1>5, <2>1, <2>2 DEF Adjacent
    <3>2. ASSUME n >= 1 PROVE FALSE
      <4>1. h # q
        <5> SUFFICES ASSUME h = q PROVE FALSE
            OBVIOUS
        <5>1. sent[h].len < Place /\ Place <= sent[h].len
              BY <1>3, <1>5, <2>1, <3>2
        <5>. QED  BY <1>1, <5>1
      <4>2. q \in h + 1 .. Len(sent)
            BY <1>1, <2>2, <4>1
      <4>. QED  BY <1>3, <3>2, <4>2
    <3>3. n = 0
          BY <1>1, <3>2
    <3>. QED  BY <1>1, <3>1, <3>3
  <2>3. ASSUME q < Len(sent), q + 1 \notin hurt, ~sent[q + 1].inside
        PROVE  Starting(i + 1, q + 1)'
    <3>1. Starting(i + 1, q + 1)
          BY <1>5, <2>1, <2>3 DEF Adjacent
    <3>. QED  BY <1>2, <3>1, GrowsStarting
  <2>. QED  BY <2>2, <2>3
<1>6. CASE i \notin 1 .. Len(Stream)
  <2>1. PICK m \in 1 .. n : /\ m = i - Len(Stream) /\ Stream'[i].p = h
                            /\ Stream'[i].k = Place + m - 1
        BY <1>6, ExtendsFacts
  <2>2. q = h /\ sent[h].len = Place + m - 1
        BY <1>4, <2>1
  <2>3. m = n
    <3>1. CASE Place < 4
          BY <1>1, <2>1, <3>1
    <3>2. CASE Place = 4
      <4>1. n = sent[h].len - 3 /\ sent[h].len = 4 + m - 1
            BY <1>1, <2>2, <3>2
      <4>. QED  BY <1>1, <4>1
    <3>. QED  BY <1>1, <3>1, <3>2
  <2>4. i = Len(Stream')
        BY <1>1, <2>1, <2>3
  <2>5. ASSUME q < Len(sent) PROVE sent[q + 1].inside
    <3>1. n >= 1 /\ q + 1 \in h + 1 .. Len(sent)
          BY <1>1, <2>1, <2>2, <2>5
    <3>. QED  BY <1>3, <3>1
  <2>. QED  BY <2>4, <2>5
<1>. QED  BY <1>5, <1>6

LEMMA LosesAdjacent ==
  ASSUME SerialTypes, Formed, Adjacent, NEW c, Loses(c)
  PROVE  Adjacent'
<1>1. UNCHANGED sent /\ hurt' = hurt \cup {Stream[c].p}
      BY DEF Loses
<1>2. /\ Len(Stream) \in Nat /\ c \in Nat /\ c >= 1 /\ c <= Len(Stream)
      /\ Len(Stream') = Len(Stream) - 1
      BY LosesFacts
<1> SUFFICES ASSUME NEW q \in 1 .. Len(sent), NEW i \in 1 .. Len(Stream'), Ending(i, q)',
                    ~sent[q].inside
             PROVE  /\ q = Len(sent) => i = Len(Stream')
                    /\ q < Len(sent) /\ q + 1 \notin hurt' /\ ~sent[q + 1].inside =>
                         Starting(i + 1, q + 1)'
      BY <1>1 DEF Adjacent
<1>3. Stream'[i].p = q /\ Stream'[i].k = sent[q].len
      BY <1>1 DEF Ending
<1>4. i \in Nat
      BY <1>2
<1>5. CASE i < c
  <2>1. i \in 1 .. Len(Stream) /\ Ending(i, q)
    <3>1. i \in 1 .. Len(Stream) /\ Stream'[i] = Stream[i]
          BY <1>5, LosesFacts
    <3>. QED  BY <1>3, <3>1 DEF Ending
  <2>2. q # Len(sent)
    <3>1. i # Len(Stream)
          BY <1>2, <1>4, <1>5
    <3>. QED  BY <2>1, <3>1 DEF Adjacent
  <2>3. ASSUME q < Len(sent), q + 1 \notin hurt', ~sent[q + 1].inside
        PROVE  Starting(i + 1, q + 1)'
    <3>1. Starting(i + 1, q + 1)
          BY <1>1, <2>1, <2>3 DEF Adjacent
    <3>2. i + 1 # c /\ (i + 1 < c => Starting(i + 1, q + 1)')
          BY <2>3, <3>1, LosesStarting
    <3>3. i + 1 < c
          BY <1>2, <1>4, <1>5, <3>2
    <3>. QED  BY <3>2, <3>3
  <2>. QED  BY <2>2, <2>3
<1>6. CASE i >= c
  <2>1. i + 1 \in 1 .. Len(Stream) /\ Ending(i + 1, q)
    <3>1. i + 1 \in 1 .. Len(Stream) /\ Stream'[i] = Stream[i + 1]
          BY <1>6, LosesFacts
    <3>. QED  BY <1>3, <3>1 DEF Ending
  <2>2. ASSUME q = Len(sent) PROVE i = Len(Stream')
    <3>1. i + 1 = Len(Stream)
          BY <2>1, <2>2 DEF Adjacent
    <3>. QED  BY <1>2, <1>4, <3>1
  <2>3. ASSUME q < Len(sent), q + 1 \notin hurt', ~sent[q + 1].inside
        PROVE  Starting(i + 1, q + 1)'
    <3>1. PICK j : j = (i + 1) + 1
          OBVIOUS
    <3>2. Starting(j, q + 1)
          BY <1>1, <2>1, <2>3, <3>1 DEF Adjacent
    <3>3. j > c => Starting(j - 1, q + 1)'
          BY <2>3, <3>2, LosesStarting
    <3>4. j > c /\ j - 1 = i + 1
          BY <1>2, <1>4, <1>6, <3>1
    <3>. QED  BY <3>3, <3>4
  <2>. QED  BY <2>2, <2>3
<1>. QED  BY <1>2, <1>4, <1>5, <1>6

LEMMA ReadsStarting ==
  ASSUME SerialTypes, Formed, NEW g, NEW n, Reads(g, n), NEW i, NEW q, Starting(i, q), i > g + n
  PROVE  Starting(i - (g + n), q)'
<1>1. i \in 1 .. Len(Stream) /\ Stream[i].p = q /\ Stream[i].k = 1
      BY DEF Starting
<1>2. i - (g + n) \in 1 .. Len(Stream') /\ Stream'[i - (g + n)] = Stream[i]
      BY <1>1, ConsumesFacts DEF Reads
<1>3. PICK j : j = i - (g + n)
      OBVIOUS
<1>4. j \in 1 .. Len(Stream') /\ Stream'[j].p = q /\ Stream'[j].k = 1
      BY <1>1, <1>2, <1>3
<1>. QED  BY <1>3, <1>4 DEF Starting

LEMMA ReadsAdjacent ==
  ASSUME SerialTypes, Formed, Adjacent, NEW g, NEW n, Reads(g, n)
  PROVE  Adjacent'
<1>1. UNCHANGED sent /\ UNCHANGED hurt /\ Consumes(g, n)
      BY DEF Reads
<1>2. /\ Len(Stream) \in Nat /\ g \in Nat /\ n \in Nat /\ g + n <= Len(Stream)
      /\ Len(Stream') = Len(Stream) - (g + n)
      BY <1>1, ConsumesFacts
<1> SUFFICES ASSUME NEW q \in 1 .. Len(sent), NEW i \in 1 .. Len(Stream'), Ending(i, q)',
                    ~sent[q].inside
             PROVE  /\ q = Len(sent) => i = Len(Stream')
                    /\ q < Len(sent) /\ q + 1 \notin hurt /\ ~sent[q + 1].inside =>
                         Starting(i + 1, q + 1)'
      BY <1>1 DEF Adjacent
<1>3. Stream'[i].p = q /\ Stream'[i].k = sent[q].len
      BY <1>1 DEF Ending
<1>4. i \in Nat /\ i >= 1
      BY <1>2
<1>5. i + (g + n) \in 1 .. Len(Stream) /\ Ending(i + (g + n), q)
  <2>1. i + (g + n) \in 1 .. Len(Stream) /\ Stream'[i] = Stream[i + (g + n)]
        BY <1>1, ConsumesFacts
  <2>. QED  BY <1>3, <2>1 DEF Ending
<1>6. ASSUME q = Len(sent) PROVE i = Len(Stream')
  <2>1. i + (g + n) = Len(Stream)
        BY <1>5, <1>6 DEF Adjacent
  <2>. QED  BY <1>2, <1>4, <2>1
<1>7. ASSUME q < Len(sent), q + 1 \notin hurt, ~sent[q + 1].inside
      PROVE  Starting(i + 1, q + 1)'
  <2>1. PICK j : j = (i + (g + n)) + 1
        OBVIOUS
  <2>2. Starting(j, q + 1)
        BY <1>5, <1>7, <2>1 DEF Adjacent
  <2>3. j > g + n /\ j - (g + n) = i + 1
        BY <1>2, <1>4, <2>1
  <2>4. Starting(j - (g + n), q + 1)'
        BY <2>2, <2>3, ReadsStarting
  <2>. QED  BY <2>3, <2>4
<1>. QED  BY <1>6, <1>7

-----------------------------------------------------------------------------
(***************************************************************************)
(* Nested is kept.                                                         *)
(***************************************************************************)
\* The first byte of packet q is at i, and one of the next packet is before its last byte.
NestedAt(i, q) ==
  \E j \in i + 1 .. Len(Stream) : Stream[j].p = q + 1 /\ \A m \in 1 .. j : ~Ending(m, q)

\* What is written behind them does not come in between.
LEMMA GrowsNested ==
  ASSUME SerialTypes, NEW n, Grows(n), NEW i \in Nat, NEW q, NestedAt(i, q), sent'[q] = sent[q]
  PROVE  NestedAt(i, q)'
<1>1. Len(Stream) \in Nat
  <2>1. Stream \in Seq(Bytes)
        BY ConcatProperties DEF SerialTypes, Stream
  <2>. QED  BY <2>1, LenProperties
<1>2. PICK j \in i + 1 .. Len(Stream) : Stream[j].p = q + 1 /\ \A m \in 1 .. j : ~Ending(m, q)
      BY DEF NestedAt
<1>3. n \in Nat /\ Len(Stream') = Len(Stream) + n
      BY DEF Grows
<1>4. \A m \in 1 .. j : m \in 1 .. Len(Stream) /\ Stream'[m] = Stream[m]
  <2>1. \A m \in 1 .. j : m \in 1 .. Len(Stream)
        BY <1>1, <1>2
  <2>. QED  BY <2>1 DEF Grows
<1>5. j \in i + 1 .. Len(Stream') /\ j \in 1 .. j
      BY <1>1, <1>2, <1>3
<1>6. Stream'[j].p = q + 1
      BY <1>2, <1>4, <1>5
<1>7. ASSUME NEW m \in 1 .. j PROVE ~Ending(m, q)'
  <2>1. ~Ending(m, q) /\ m \in 1 .. Len(Stream) /\ Stream'[m] = Stream[m]
        BY <1>2, <1>4
  <2>. QED  BY <2>1 DEF Ending
<1>. QED  BY <1>5, <1>6, <1>7 DEF NestedAt

LEMMA BeginsNested ==
  ASSUME SerialTypes, Formed, Writing, Nested, NEW p, NEW n, Begins(p, n)
  PROVE  Nested'
<1>1. /\ SentKept /\ Len(sent') = p /\ Len(sent) = p - 1 /\ p \in Nat /\ n \in Nat
      /\ Len(Stream) \in Nat /\ Len(Stream') = Len(Stream) + n
      BY BeginsFacts
<1>2. hurt' = hurt \cup HalfWritten /\ Grows(n)
      BY DEF Begins
<1> SUFFICES ASSUME NEW q \in 1 .. Len(sent') - 1, q + 1 \notin hurt', sent'[q + 1].inside,
                    ~sent'[q].inside, NEW i \in 1 .. Len(Stream'), Starting(i, q)'
             PROVE  NestedAt(i, q)'
      BY DEF Nested, NestedAt
<1>3. q \in 1 .. Len(sent) /\ q \in Nat /\ q # p /\ sent'[q] = sent[q] /\ i \in Nat
  <2>1. q \in 1 .. Len(sent) /\ q \in Nat /\ q # p /\ i \in Nat
        BY <1>1
  <2>. QED  BY <1>1, <2>1 DEF SentKept
<1>4. i \in 1 .. Len(Stream) /\ Starting(i, q)
  <2>1. Stream'[i].p = q /\ Stream'[i].k = 1
        BY DEF Starting
  <2>2. i \in 1 .. Len(Stream)
        BY <1>3, <2>1, BeginsFacts
  <2>3. Stream'[i] = Stream[i]
        BY <2>2, BeginsFacts
  <2>. QED  BY <2>1, <2>2, <2>3 DEF Starting
<1>5. CASE q < Len(sent)
  <2>1. q + 1 \in 1 .. Len(sent) /\ q \in 1 .. Len(sent) - 1
        BY <1>1, <1>3, <1>5
  <2>2. sent'[q + 1] = sent[q + 1]
        BY <1>1, <2>1 DEF SentKept
  <2>3. NestedAt(i, q)
        BY <1>2, <1>3, <1>4, <2>1, <2>2 DEF Nested, NestedAt
  <2>. QED  BY <1>2, <1>3, <2>3, GrowsNested
<1>6. CASE ~(q < Len(sent))
  <2>1. q = Len(sent) /\ q + 1 = p
        BY <1>1, <1>3, <1>6
  <2>2. PICK h : Unfinished(h)
    <3>1. HalfWritten # {}
          BY <2>1, BeginsInside
    <3>. QED  BY <3>1, HalfWrittenIs
  <2>3. h \in 1 .. Len(sent)
        BY <2>2 DEF Unfinished, Writes
  <2>4. h = q
    <3> SUFFICES ASSUME h # q PROVE FALSE
        OBVIOUS
    <3>1. q \in h + 1 .. Len(sent)
          BY <1>1, <2>1, <2>3
    <3>2. sent[q].inside
          BY <2>2, <2>3, <3>1 DEF Writing
    <3>. QED  BY <1>3, <3>2
  <2>5. /\ \A m \in 1 .. Len(Stream) : Stream[m].p = q => Stream[m].k < Place
        /\ Place <= sent[q].len /\ Place \in 2 .. 4 /\ sent[q].len \in Nat
    <3>1. \A m \in 1 .. Len(Stream) : Stream[m].p = q => Stream[m].k < Place
          BY <2>2, <2>3, <2>4 DEF Writing
    <3>2. Writes(q) /\ Place <= sent[q].len
          BY <2>2, <2>4 DEF Unfinished
    <3>. QED  BY <3>1, <3>2, WritingTyped
  <2>6. PICK j : j = Len(Stream) + 1 /\ Starting(j, p)'
        BY BeginsStarting
  <2>7. Stream'[j].p = q + 1 /\ j \in i + 1 .. Len(Stream')
    <3>1. j \in 1 .. Len(Stream') /\ Stream'[j].p = p
          BY <2>6 DEF Starting
    <3>2. i + 1 <= j
          BY <1>1, <1>3, <1>4, <2>6
    <3>. QED  BY <1>1, <1>3, <2>1, <3>1, <3>2
  <2>8. ASSUME NEW m \in 1 .. j, Ending(m, q)' PROVE FALSE
    <3>1. m \in 1 .. Len(Stream') /\ Stream'[m].p = q /\ Stream'[m].k = sent[q].len
          BY <1>3, <2>8 DEF Ending
    <3>2. m \in 1 .. Len(Stream)
          BY <1>3, <3>1, BeginsFacts
    <3>3. Stream'[m] = Stream[m]
          BY <3>2, BeginsFacts
    <3>4. sent[q].len < Place
          BY <2>5, <3>1, <3>2, <3>3
    <3>. QED  BY <2>5, <3>4
  <2>. QED  BY <2>7, <2>8 DEF NestedAt
<1>. QED  BY <1>5, <1>6

LEMMA ExtendsNested ==
  ASSUME SerialTypes, Formed, Writing, Nested, NEW h, NEW n, Extends(h, n)
  PROVE  Nested'
<1>1. UNCHANGED sent /\ UNCHANGED hurt /\ Grows(n)
      BY DEF Extends
<1>2. /\ h \in 1 .. Len(sent) /\ h \in Nat /\ Len(sent) \in Nat /\ Place \in 2 .. 4
      /\ n \in Nat /\ Len(Stream) \in Nat /\ Len(Stream') = Len(Stream) + n
      BY ExtendsFacts
<1> SUFFICES ASSUME NEW q \in 1 .. Len(sent) - 1, q + 1 \notin hurt, sent[q + 1].inside,
                    ~sent[q].inside, NEW i \in 1 .. Len(Stream'), Starting(i, q)'
             PROVE  NestedAt(i, q)'
      BY <1>1 DEF Nested, NestedAt
<1>3. Stream'[i].p = q /\ Stream'[i].k = 1 /\ i \in Nat
      BY <1>2 DEF Starting
<1>4. CASE i \in 1 .. Len(Stream)
  <2>1. Starting(i, q)
    <3>1. Stream'[i] = Stream[i]
          BY <1>4, ExtendsFacts
    <3>. QED  BY <1>3, <1>4, <3>1 DEF Starting
  <2>2. NestedAt(i, q)
        BY <1>4, <2>1 DEF Nested, NestedAt
  <2>. QED  BY <1>1, <1>3, <2>2, GrowsNested
<1>5. CASE i \notin 1 .. Len(Stream)
  <2>1. PICK m \in 1 .. n : Stream'[i].k = Place + m - 1
        BY <1>5, ExtendsFacts
  <2>. QED  BY <1>2, <1>3, <2>1
<1>. QED  BY <1>4, <1>5

LEMMA LosesNested ==
  ASSUME SerialTypes, Formed, Nested, NEW c, Loses(c)
  PROVE  Nested'
<1>1. UNCHANGED sent /\ hurt' = hurt \cup {Stream[c].p}
      BY DEF Loses
<1>2. /\ Len(Stream) \in Nat /\ c \in Nat /\ c >= 1 /\ c <= Len(Stream)
      /\ Len(Stream') = Len(Stream) - 1
      BY LosesFacts
<1> SUFFICES ASSUME NEW q \in 1 .. Len(sent) - 1, q + 1 \notin hurt', sent[q + 1].inside,
                    ~sent[q].inside, NEW i \in 1 .. Len(Stream'), Starting(i, q)'
             PROVE  NestedAt(i, q)'
      BY <1>1 DEF Nested, NestedAt
<1> DEFINE Was(m) == IF m < c THEN m ELSE m + 1
<1>3. \A m \in 1 .. Len(Stream') : Was(m) \in 1 .. Len(Stream) /\ Stream'[m] = Stream[Was(m)]
  <2>1. \A m \in 1 .. Len(Stream') : m < c \/ m >= c
        BY <1>2
  <2>2. \A m \in 1 .. Len(Stream') : m >= c => ~(m < c)
        BY <1>2
  <2>. QED  BY <2>1, <2>2, LosesFacts
<1>4. Stream'[i].p = q /\ Stream'[i].k = 1 /\ i \in Nat
      BY <1>2 DEF Starting
<1>5. Starting(Was(i), q) /\ Was(i) \in 1 .. Len(Stream)
      BY <1>3, <1>4 DEF Starting
<1>6. q + 1 \notin hurt /\ q + 1 # Stream[c].p
      BY <1>1
<1>7. PICK j \in Was(i) + 1 .. Len(Stream) :
        Stream[j].p = q + 1 /\ \A m \in 1 .. j : ~Ending(m, q)
  <2> HIDE DEF Was
  <2>. QED  BY <1>5, <1>6 DEF Nested
<1>8. j # c
      BY <1>6, <1>7
<1>9. PICK e : /\ e \in i + 1 .. Len(Stream') /\ Was(e) = j /\ e \in Nat
  <2>1. CASE j < c
    <3>1. j \in i + 1 .. Len(Stream') /\ Was(j) = j /\ j \in Nat
          BY <1>2, <1>4, <1>7, <2>1
    <3>. QED  BY <3>1
  <2>2. CASE j > c
    <3>1. j - 1 \in i + 1 .. Len(Stream') /\ Was(j - 1) = j /\ j - 1 \in Nat
      <4>1. j \in Nat /\ ~(j - 1 < c) /\ (j - 1) + 1 = j
            BY <1>2, <1>7, <2>2
      <4>2. i + 1 <= j - 1
        <5>1. CASE i < c
              BY <1>2, <1>4, <2>2, <4>1, <5>1
        <5>2. CASE ~(i < c)
              BY <1>2, <1>4, <1>7, <4>1, <5>2
        <5>. QED  BY <5>1, <5>2
      <4>3. j - 1 <= Len(Stream')
            BY <1>2, <1>7, <4>1
      <4>. QED  BY <1>2, <1>4, <4>1, <4>2, <4>3
    <3>. QED  BY <3>1
  <2>. QED  BY <1>2, <1>5, <1>7, <1>8, <2>1, <2>2
<1>10. Stream'[e].p = q + 1
  <2>1. e \in 1 .. Len(Stream')
        BY <1>4, <1>9
  <2>2. Stream'[e] = Stream[j]
        BY <1>3, <1>9, <2>1
  <2>. QED  BY <1>7, <2>2
<1>11. ASSUME NEW m \in 1 .. e, Ending(m, q)' PROVE FALSE
  <2>1. m \in 1 .. Len(Stream') /\ Stream'[m].p = q /\ Stream'[m].k = sent[q].len
        BY <1>1, <1>11 DEF Ending
  <2>2. Ending(Was(m), q)
        BY <1>3, <2>1 DEF Ending
  <2>3. Was(m) \in 1 .. j
        BY <1>2, <1>9
  <2> HIDE DEF Was
  <2>. QED  BY <1>7, <2>2, <2>3
<1>. QED  BY <1>9, <1>10, <1>11 DEF NestedAt

LEMMA ReadsNested ==
  ASSUME SerialTypes, Formed, Nested, NEW g, NEW n, Reads(g, n)
  PROVE  Nested'
<1>1. UNCHANGED sent /\ UNCHANGED hurt /\ Consumes(g, n)
      BY DEF Reads
<1>2. PICK f \in Nat : f = g + n
      BY <1>1, ConsumesFacts
<1>3. /\ Len(Stream) \in Nat /\ f <= Len(Stream) /\ Len(Stream') = Len(Stream) - f
      /\ \A i \in 1 .. Len(Stream') : i + f \in 1 .. Len(Stream) /\ Stream'[i] = Stream[i + f]
      BY <1>1, <1>2, ConsumesFacts
<1> SUFFICES ASSUME NEW q \in 1 .. Len(sent) - 1, q + 1 \notin hurt, sent[q + 1].inside,
                    ~sent[q].inside, NEW i \in 1 .. Len(Stream'), Starting(i, q)'
             PROVE  NestedAt(i, q)'
      BY <1>1 DEF Nested, NestedAt
<1>4. i \in Nat /\ i >= 1
      BY <1>3
<1>5. i + f \in 1 .. Len(Stream) /\ Starting(i + f, q)
      BY <1>3 DEF Starting
<1>6. PICK j \in (i + f) + 1 .. Len(Stream) :
        Stream[j].p = q + 1 /\ \A m \in 1 .. j : ~Ending(m, q)
      BY <1>5 DEF Nested
<1>7. PICK e \in Nat : e = j - f
      BY <1>3, <1>4, <1>6
<1>8. e \in i + 1 .. Len(Stream') /\ e \in 1 .. Len(Stream') /\ e + f = j
      BY <1>3, <1>4, <1>6, <1>7
<1>9. Stream'[e].p = q + 1
      BY <1>3, <1>6, <1>8
<1>10. ASSUME NEW m \in 1 .. e, Ending(m, q)' PROVE FALSE
  <2>1. m \in 1 .. Len(Stream') /\ Stream'[m].p = q /\ Stream'[m].k = sent[q].len
        BY <1>1, <1>10 DEF Ending
  <2>2. Ending(m + f, q)
        BY <1>3, <2>1 DEF Ending
  <2>3. m + f \in 1 .. j
        BY <1>8
  <2>. QED  BY <1>6, <2>2, <2>3
<1>. QED  BY <1>8, <1>9, <1>10 DEF NestedAt

-----------------------------------------------------------------------------
(***************************************************************************)
(* InStep is kept.                                                         *)
(***************************************************************************)
LEMMA StreamTyped ==
  ASSUME SerialTypes
  PROVE  Stream \in Seq(Bytes) /\ Len(Stream) \in Nat /\ (Stream = <<>> <=> Len(Stream) = 0)
<1>1. Stream \in Seq(Bytes)
      BY ConcatProperties DEF SerialTypes, Stream
<1>. QED  BY <1>1, LenProperties, EmptySeq

LEMMA BeginsInStep ==
  ASSUME SerialTypes, Formed, InStep, NEW p, NEW n, Begins(p, n)
  PROVE  InStep'
<1>1. /\ SentKept /\ Len(sent') = p /\ Len(sent) = p - 1 /\ p \in Nat /\ p >= 1
      BY BeginsFacts
<1>2. UNCHANGED taken /\ hurt' = hurt \cup HalfWritten /\ Grows(n)
      BY DEF Begins
<1>3. ASSUME NEW q \in 1 .. p, AfterWhole(q)' PROVE AfterWhole(q)
  <2>1. CASE q = 1
        BY <2>1 DEF AfterWhole
  <2>2. CASE q # 1
    <3>1. PICK r : r = q - 1
          OBVIOUS
    <3>2. r \in 1 .. Len(sent)
          BY <1>1, <2>2, <3>1
    <3>3. Whole(r)' /\ ~sent'[r].inside
          BY <1>3, <2>2, <3>1 DEF AfterWhole
    <3>4. Whole(r) /\ sent'[r] = sent[r]
      <4>1. sent'[r] = sent[r]
            BY <1>1, <3>2 DEF SentKept
      <4>2. Whole(r)' <=> Whole(r)
            BY <1>1, <1>2, <3>2, WholeKept
      <4>. QED  BY <3>3, <4>1, <4>2
    <3>. QED  BY <3>1, <3>3, <3>4 DEF AfterWhole
  <2>. QED  BY <2>1, <2>2
<1>4. ASSUME NEW q \in 1 .. p, q \notin hurt', AfterWhole(q)' PROVE Whole(q)' \/ Starting(1, q)'
  <2>1. AfterWhole(q)
        BY <1>3, <1>4
  <2>2. CASE q \in 1 .. Len(sent)
    <3>1. Whole(q) \/ Starting(1, q)
          BY <1>2, <1>4, <2>1, <2>2 DEF InStep
    <3>2. Whole(q) => Whole(q)'
          BY <1>1, <1>2, <2>2, WholeKept
    <3>3. Starting(1, q) => Starting(1, q)'
          BY <1>2, GrowsStarting
    <3>. QED  BY <3>1, <3>2, <3>3
  <2>3. CASE q \notin 1 .. Len(sent)
    <3>1. q = p /\ q = Len(sent) + 1
          BY <1>1, <2>3
    <3>2. Stream = <<>>
          BY <2>1, <3>1 DEF InStep
    <3>3. Len(Stream) = 0
          BY <3>2, StreamTyped
    <3>4. PICK j : j = Len(Stream) + 1 /\ Starting(j, p)'
          BY BeginsStarting
    <3>5. j = 1
          BY <3>3, <3>4
    <3>. QED  BY <3>1, <3>4, <3>5
  <2>. QED  BY <2>2, <2>3
<1>5. ~AfterWhole(Len(sent) + 1)'
  <2>1. PICK entry \in Records : sent' = Append(sent, entry) /\ entry.len >= 3
        BY DEF Begins
  <2>2. ~Whole(p)'
        BY <1>2, <2>1, NotYetTaken DEF Begins
  <2>3. PICK r : r = p + 1
        OBVIOUS
  <2>4. r # 1 /\ r - 1 = p
        BY <1>1, <2>3
  <2>5. ~AfterWhole(r)'
        BY <2>2, <2>4 DEF AfterWhole
  <2>6. r = Len(sent') + 1
        BY <1>1, <2>3
  <2>. QED  BY <2>5, <2>6 DEF AfterWhole, Whole
<1>. QED  BY <1>1, <1>4, <1>5 DEF InStep

LEMMA ExtendsInStep ==
  ASSUME SerialTypes, SerialTypes', Formed, Writing, InStep, NEW h, NEW n, Extends(h, n)
  PROVE  InStep'
<1>1. UNCHANGED <<taken, sent>> /\ UNCHANGED hurt /\ Grows(n)
      BY DEF Extends
<1>2. /\ h \in 1 .. Len(sent) /\ h \in Nat /\ Len(sent) \in Nat
      /\ n \in Nat /\ Len(Stream) \in Nat /\ Len(Stream') = Len(Stream) + n
      BY ExtendsFacts
<1>3. \A q : (Whole(q)' <=> Whole(q)) /\ (AfterWhole(q)' <=> AfterWhole(q))
      BY <1>1 DEF AfterWhole, Whole
<1>4. ASSUME NEW q \in 1 .. Len(sent), q \notin hurt, AfterWhole(q)
      PROVE  Whole(q)' \/ Starting(1, q)'
  <2>1. Whole(q) \/ Starting(1, q)
        BY <1>4 DEF InStep
  <2>2. Starting(1, q) => Starting(1, q)'
        BY <1>1, GrowsStarting
  <2>. QED  BY <1>3, <2>1, <2>2
<1>5. ASSUME NEW r, r = Len(sent) + 1, AfterWhole(r) PROVE Stream' = <<>>
  <2>1. Stream = <<>>
        BY <1>5 DEF InStep
  <2>2. ASSUME n >= 1 PROVE FALSE
    <3>1. Unfinished(h)
          BY <2>2, ExtendsFacts
    <3>2. ~Whole(h) /\ \A e \in h + 1 .. Len(sent) : sent[e].inside
          BY <1>2, <3>1 DEF Writing
    <3>3. PICK e : e = Len(sent) /\ r # 1 /\ r - 1 = e
          BY <1>2, <1>5
    <3>4. Whole(e) /\ ~sent[e].inside
          BY <1>5, <3>3 DEF AfterWhole
    <3>5. h # e
          BY <3>2, <3>4
    <3>6. e \in h + 1 .. Len(sent)
          BY <1>2, <3>3, <3>5
    <3>. QED  BY <3>2, <3>4, <3>6
  <2>3. n = 0
        BY <1>2, <2>2
  <2>4. Len(Stream') = 0
        BY <1>2, <2>1, <2>3, StreamTyped
  <2>5. Stream' \in Seq(Bytes)
        BY ConcatProperties DEF SerialTypes, Stream
  <2>. QED  BY <2>4, <2>5, EmptySeq
<1>6. AfterWhole(Len(sent) + 1)' => AfterWhole(Len(sent) + 1)
      BY <1>1 DEF AfterWhole, Whole
<1>. QED  BY <1>1, <1>3, <1>4, <1>5, <1>6 DEF InStep

LEMMA LosesInStep ==
  ASSUME SerialTypes, Formed, InStep, NEW c, Loses(c)
  PROVE  InStep'
<1>1. UNCHANGED <<taken, sent>> /\ hurt' = hurt \cup {Stream[c].p}
      BY DEF Loses
<1>2. Len(Stream) \in Nat /\ c \in Nat /\ c >= 1 /\ c <= Len(Stream)
      BY LosesFacts
<1>3. \A q : (Whole(q)' <=> Whole(q)) /\ (AfterWhole(q)' <=> AfterWhole(q))
      BY <1>1 DEF AfterWhole, Whole
<1>4. ASSUME NEW q \in 1 .. Len(sent), q \notin hurt', AfterWhole(q)
      PROVE  Whole(q)' \/ Starting(1, q)'
  <2>1. Whole(q) \/ Starting(1, q)
        BY <1>1, <1>4 DEF InStep
  <2>2. ASSUME Starting(1, q) PROVE Starting(1, q)'
    <3>1. 1 # c /\ (1 < c => Starting(1, q)')
          BY <1>4, <2>2, LosesStarting
    <3>2. 1 < c
          BY <1>2, <3>1
    <3>. QED  BY <3>1, <3>2
  <2>. QED  BY <1>3, <2>1, <2>2
<1>5. ~AfterWhole(Len(sent) + 1)
  <2>1. Len(Stream) # 0
        BY <1>2
  <2>2. Stream # <<>>
        BY <2>1, StreamTyped
  <2>. QED  BY <2>2 DEF InStep
<1>6. AfterWhole(Len(sent) + 1)' => AfterWhole(Len(sent) + 1)
      BY <1>1 DEF AfterWhole, Whole
<1>. QED  BY <1>1, <1>3, <1>4, <1>5, <1>6 DEF InStep

\* What a packet leaves that is taken in this turn.
LEMMA ReadsNewlyWhole ==
  ASSUME SerialTypes, Formed, NEW g, NEW n, Reads(g, n), NEW r \in 1 .. Len(sent),
         Whole(r)', ~Whole(r)
  PROVE  n >= 2 /\ IsPacket(g, n, r) /\ Starting(g + 1, r) /\ Ending(g + n, r)
<1>1. n >= 2 /\ IsPacket(g, n, r)
      BY ReadsTaken
<1>2. /\ Len(Stream) \in Nat /\ g \in Nat /\ n \in Nat /\ g + n <= Len(Stream)
      /\ g + 1 \in 1 .. Len(Stream)
      BY <1>1, ConsumesFacts DEF Reads
<1>3. 1 \in 1 .. n /\ n \in 1 .. n /\ g + n \in 1 .. Len(Stream)
      BY <1>1, <1>2
<1>4. /\ Stream[g + 1].p = r /\ Stream[g + 1].k = 1
      /\ Stream[g + n].p = r /\ Stream[g + n].k = sent[r].len
      BY <1>1, <1>3 DEF IsPacket
<1>. QED  BY <1>1, <1>2, <1>3, <1>4 DEF Starting, Ending

LEMMA ReadsInStep ==
  ASSUME SerialTypes, SerialTypes', Formed, Contiguous, Adjacent, Nested, InStep,
         NEW g, NEW n, Reads(g, n)
  PROVE  InStep'
<1>1. UNCHANGED sent /\ UNCHANGED hurt /\ Consumes(g, n)
      BY DEF Reads
<1>2. /\ Len(Stream) \in Nat /\ g \in Nat /\ n \in Nat /\ g + n <= Len(Stream)
      /\ Len(Stream') = Len(Stream) - (g + n) /\ Len(sent) \in Nat
      BY <1>1, ConsumesFacts, Typing
<1>3. ASSUME NEW q \in 1 .. Len(sent), q \notin hurt, Starting(1, q)
      PROVE  Whole(q)' \/ Starting(1, q)'
  <2>1. g = 0
    <3> SUFFICES ASSUME g # 0 PROVE FALSE
        OBVIOUS
    <3>1. 1 \in 1 .. g
          BY <1>2
    <3>2. Stream[1].v # At /\ 1 \in 1 .. Len(Stream)
          BY <1>1, <3>1, ConsumesFacts
    <3>3. OfPacket(Stream[1]) /\ Stream[1].k = 1
          BY <1>3, <3>2 DEF Formed, Starting
    <3>. QED  BY <3>2, <3>3 DEF OfPacket
  <2>2. CASE n < 2
    <3>1. n = 0
          BY <1>1, <2>2, ConsumesFacts
    <3>2. 1 > g + n /\ 1 - (g + n) = 1
          BY <2>1, <3>1
    <3>3. Starting(1 - (g + n), q)'
          BY <1>3, <3>2, ReadsStarting
    <3>. QED  BY <3>2, <3>3
  <2>3. CASE ~(n < 2)
    <3>1. n >= 2 /\ g + 1 = 1
          BY <1>2, <2>1, <2>3
    <3>2. IsPacket(g, n, q)
          BY <1>3, <3>1, FirstIsPacket
    <3>. QED  BY <3>1, <3>2, ReadsTaken
  <2>. QED  BY <2>2, <2>3
<1>4. ASSUME NEW q \in 1 .. Len(sent), q \notin hurt, NEW r \in 1 .. Len(sent), q = r + 1,
             Whole(r)', ~sent[r].inside, ~Whole(r)
      PROVE  Starting(1, q)'
  <2>1. n >= 2 /\ IsPacket(g, n, r) /\ Starting(g + 1, r) /\ Ending(g + n, r)
        BY <1>4, ReadsNewlyWhole
  <2>2. g + n \in 1 .. Len(Stream) /\ g + 1 \in 1 .. Len(Stream)
        BY <2>1 DEF Ending, Starting
  <2>3. r < Len(sent) /\ r \in 1 .. Len(sent) - 1 /\ r # q
        BY <1>2, <1>4
  <2>4. ~sent[q].inside
    <3> SUFFICES ASSUME sent[q].inside PROVE FALSE
        OBVIOUS
    <3>1. PICK j \in (g + 1) + 1 .. Len(Stream) :
            Stream[j].p = q /\ \A m \in 1 .. j : ~Ending(m, r)
          BY <1>4, <2>1, <2>2, <2>3 DEF Nested
    <3>2. g + n \notin 1 .. j
          BY <2>1, <3>1
    <3>3. j - g \in 1 .. n /\ g + (j - g) = j
          BY <1>2, <2>2, <3>2
    <3>4. Stream[j].p = r
          BY <2>1, <3>3 DEF IsPacket
    <3>. QED  BY <2>3, <3>1, <3>4
  <2>5. Starting((g + n) + 1, q)
        BY <1>4, <2>1, <2>2, <2>3, <2>4 DEF Adjacent
  <2>6. PICK j : j = (g + n) + 1
        OBVIOUS
  <2>7. j > g + n /\ j - (g + n) = 1
        BY <1>2, <2>6
  <2>8. Starting(j - (g + n), q)'
        BY <2>5, <2>6, <2>7, ReadsStarting
  <2>. QED  BY <2>7, <2>8
<1>5. ASSUME NEW q \in Nat, q >= 1, AfterWhole(q)', ~AfterWhole(q)
      PROVE  \E r \in Nat : q = r + 1 /\ q # 1 /\ Whole(r)' /\ ~sent[r].inside /\ ~Whole(r)
  <2>1. q # 1
        BY <1>5 DEF AfterWhole
  <2>2. PICK r : r = q - 1
        OBVIOUS
  <2>3. Whole(r)' /\ ~sent[r].inside
        BY <1>1, <1>5, <2>1, <2>2 DEF AfterWhole
  <2>4. ~Whole(r)
        BY <1>5, <2>2, <2>3 DEF AfterWhole
  <2>5. q = r + 1 /\ r \in Nat
        BY <1>5, <2>2
  <2>. QED  BY <2>1, <2>3, <2>4, <2>5
<1>6. ASSUME NEW q \in 1 .. Len(sent), q \notin hurt, AfterWhole(q)'
      PROVE  Whole(q)' \/ Starting(1, q)'
  <2>1. CASE AfterWhole(q)
    <3>1. Whole(q) \/ Starting(1, q)
          BY <1>6, <2>1 DEF InStep
    <3>2. Whole(q) => Whole(q)'
          BY ReadsTaken
    <3>. QED  BY <1>3, <1>6, <3>1, <3>2
  <2>2. CASE ~AfterWhole(q)
    <3>1. PICK r \in Nat : q = r + 1 /\ q # 1 /\ Whole(r)' /\ ~sent[r].inside /\ ~Whole(r)
      <4>1. q \in Nat /\ q >= 1
            BY <1>2
      <4>. QED  BY <1>5, <1>6, <2>2, <4>1
    <3>2. r \in 1 .. Len(sent)
          BY <1>2, <3>1
    <3>. QED  BY <1>4, <1>6, <3>1, <3>2
  <2>. QED  BY <2>1, <2>2
<1>7. ASSUME NEW q \in Nat, q = Len(sent) + 1, AfterWhole(q)' PROVE Len(Stream') = 0
  <2>1. CASE AfterWhole(q)
    <3>1. Stream = <<>>
          BY <1>7, <2>1 DEF InStep
    <3>2. Len(Stream) = 0
          BY <3>1, StreamTyped
    <3>. QED  BY <1>2, <3>2
  <2>2. CASE ~AfterWhole(q)
    <3>1. PICK r \in Nat : q = r + 1 /\ q # 1 /\ Whole(r)' /\ ~sent[r].inside /\ ~Whole(r)
      <4>1. q >= 1
            BY <1>2, <1>7
      <4>. QED  BY <1>5, <1>7, <2>2, <4>1
    <3>2. r \in 1 .. Len(sent) /\ r = Len(sent)
          BY <1>2, <1>7, <3>1
    <3>3. Ending(g + n, r)
          BY <3>1, <3>2, ReadsNewlyWhole
    <3>4. g + n \in 1 .. Len(Stream)
          BY <3>3 DEF Ending
    <3>5. g + n = Len(Stream)
          BY <3>1, <3>2, <3>3, <3>4 DEF Adjacent
    <3>. QED  BY <1>2, <3>5
  <2>. QED  BY <2>1, <2>2
<1>8. Stream' \in Seq(Bytes)
      BY ConcatProperties DEF SerialTypes, Stream
<1>9. AfterWhole(Len(sent) + 1)' => Stream' = <<>>
  <2> SUFFICES ASSUME AfterWhole(Len(sent) + 1)' PROVE Stream' = <<>>
      OBVIOUS
  <2>1. PICK q \in Nat : q = Len(sent) + 1
        BY <1>2
  <2>2. AfterWhole(q)'
        BY <1>1, <2>1 DEF AfterWhole, Whole
  <2>3. Len(Stream') = 0
        BY <1>7, <2>1, <2>2
  <2>. QED  BY <1>8, <2>3, EmptySeq
<1>. QED  BY <1>1, <1>6, <1>9 DEF InStep

-----------------------------------------------------------------------------
(***************************************************************************)
(* The invariant, and what follows from it.                                *)
(***************************************************************************)
LEMMA ReceivingKept ==
  ASSUME Receiving, UNCHANGED <<inbuf, state>>
  PROVE  Receiving'
BY DEF Receiving, Short, PacketLength, Starts

LEMMA SerialInvInit == SerialInit => SerialInv
<1> SUFFICES ASSUME SerialInit PROVE SerialInv
    OBVIOUS
<1>1. /\ writing = <<>> /\ line = <<>> /\ inbuf = <<>> /\ state = "sync"
      /\ taken = <<>> /\ sent = <<>> /\ hurt = {}
      BY DEF SerialInit
<1>2. SerialTypes
      BY <1>1 DEF SerialTypes
<1>3. Len(Stream) = 0 /\ Stream = <<>> /\ Len(sent) = 0 /\ Len(taken) = 0
  <2>1. Len(Stream) = Len(inbuf) + Len(line)
        BY <1>2, ConcatParts DEF SerialTypes, Stream
  <2>2. Len(inbuf) = 0 /\ Len(line) = 0 /\ Len(sent) = 0 /\ Len(taken) = 0
        BY <1>1
  <2>. QED  BY <1>2, <2>1, <2>2, StreamTyped
<1>4. Formed
      BY <1>3 DEF Formed
<1>5. Writing
      BY <1>1, <1>3 DEF Writing
<1>6. Contiguous /\ Kept /\ Adjacent
      BY <1>3 DEF Contiguous, Kept, Adjacent
<1>7. Nested
      BY <1>3 DEF Nested
<1>8. InStep
      BY <1>3 DEF InStep
<1>9. Receiving
      BY <1>1 DEF Receiving, Starts
<1>. QED  BY <1>2, <1>4, <1>5, <1>6, <1>7, <1>8, <1>9 DEF SerialInv, Order

LEMMA SerialInvNext == SerialInv /\ [SerialNext]_serialVars => SerialInv'
<1> SUFFICES ASSUME SerialInv, [SerialNext]_serialVars PROVE SerialInv'
    OBVIOUS
<1>1. SerialTypes /\ Formed /\ Receiving /\ Order
      BY DEF SerialInv
<1>2. Writing /\ Contiguous /\ Kept /\ Adjacent /\ Nested /\ InStep
      BY <1>1 DEF Order
<1>3. ASSUME SerialTypes', NEW p, NEW n, Begins(p, n) PROVE SerialInv'
  <2>1. Formed' /\ Writing' /\ Contiguous' /\ Kept'
        BY <1>1, <1>2, <1>3, BeginsFormed, BeginsWriting, BeginsContiguous, BeginsKept
  <2>2. Adjacent' /\ Nested' /\ InStep'
        BY <1>1, <1>2, <1>3, BeginsAdjacent, BeginsNested, BeginsInStep
  <2>3. Receiving'
        BY <1>1, <1>3, ReceivingKept DEF Begins
  <2>. QED  BY <1>3, <2>1, <2>2, <2>3 DEF SerialInv, Order
<1>4. CASE \E packet \in Packets : Send(packet)
      BY <1>1, <1>3, <1>4, SendBegins
<1>5. CASE Log
      BY <1>1, <1>2, <1>3, <1>5, LogBegins
<1>6. CASE Write
  <2>1. SerialTypes'
        BY <1>1, <1>2, <1>6, WriteExtends
  <2>2. PICK h, n : Extends(h, n)
        BY <1>1, <1>2, <1>6, WriteExtends
  <2>3. Formed' /\ Writing' /\ Contiguous' /\ Kept'
        BY <1>1, <1>2, <2>2, ExtendsFormed, ExtendsWriting, ExtendsContiguous, ExtendsKept
  <2>4. Adjacent' /\ Nested' /\ InStep'
        BY <1>1, <1>2, <2>1, <2>2, ExtendsAdjacent, ExtendsNested, ExtendsInStep
  <2>5. Receiving'
        BY <1>1, <2>2, ReceivingKept DEF Extends
  <2>. QED  BY <2>1, <2>3, <2>4, <2>5 DEF SerialInv, Order
<1>7. CASE LoseByte
  <2>1. SerialTypes'
        BY <1>1, <1>7, LoseByteLoses
  <2>2. PICK c : Loses(c)
        BY <1>1, <1>7, LoseByteLoses
  <2>3. Formed' /\ Writing' /\ Contiguous' /\ Kept'
        BY <1>1, <1>2, <2>2, LosesFormed, LosesWriting, LosesContiguous, LosesKept
  <2>4. Adjacent' /\ Nested' /\ InStep'
        BY <1>1, <1>2, <2>2, LosesAdjacent, LosesNested, LosesInStep
  <2>5. Receiving'
        BY <1>1, <2>2, ReceivingKept DEF Loses
  <2>. QED  BY <2>1, <2>3, <2>4, <2>5 DEF SerialInv, Order
<1>8. CASE Read
  <2>1. SerialTypes' /\ Receiving'
        BY <1>1, <1>8, ReadConsumes
  <2>2. PICK g, n : Consumes(g, n)
        BY <1>1, <1>8, ReadConsumes
  <2>3. Reads(g, n)
        BY <1>8, <2>2 DEF Reads, Read
  <2>4. Formed' /\ Writing' /\ Contiguous' /\ Kept'
        BY <1>1, <1>2, <2>3, ReadsFormed, ReadsWriting, ReadsContiguous, ReadsKept
  <2>5. Adjacent' /\ Nested' /\ InStep'
        BY <1>1, <1>2, <2>1, <2>3, ReadsAdjacent, ReadsNested, ReadsInStep
  <2>. QED  BY <2>1, <2>4, <2>5 DEF SerialInv, Order
<1>9. CASE UNCHANGED serialVars
  <2>1. /\ writing' = writing /\ line' = line /\ inbuf' = inbuf /\ state' = state
        /\ taken' = taken /\ sent' = sent /\ hurt' = hurt
        BY <1>9 DEF serialVars
  <2>2. Stream' = Stream
        BY <2>1 DEF Stream
  <2>3. SerialTypes'
        BY <1>1, <2>1 DEF SerialTypes
  <2>4. Formed'
        BY <1>1, <2>1, <2>2 DEF Formed, OfPacket
  <2>5. Place' = Place /\ \A h : (Writes(h)' <=> Writes(h)) /\ (Unfinished(h)' <=> Unfinished(h))
        BY <2>1, UnfinishedKept
  <2>6. \A p : (Whole(p)' <=> Whole(p)) /\ (Swallowed(p)' <=> Swallowed(p))
        BY <2>1 DEF Whole, Swallowed
  <2>7. Writing'
        BY <1>2, <2>1, <2>2, <2>5, <2>6 DEF Writing
  <2>8. Contiguous'
    <3>1. \A i : Continues(i)' <=> Continues(i)
          BY <2>1, <2>2, <2>5 DEF Continues
    <3>. QED  BY <1>2, <2>1, <2>2, <3>1 DEF Contiguous
  <2>9. \A i, p : (Starting(i, p)' <=> Starting(i, p)) /\ (Ending(i, p)' <=> Ending(i, p))
        BY <2>1, <2>2 DEF Starting, Ending
  <2>10. Kept'
         BY <1>2, <2>1, <2>2, <2>6, <2>9 DEF Kept
  <2>11. Adjacent'
         BY <1>2, <2>1, <2>2, <2>9 DEF Adjacent
  <2>12. Nested'
         BY <1>2, <2>1, <2>2, <2>9 DEF Nested
  <2>13. InStep'
    <3>1. \A p : AfterWhole(p)' <=> AfterWhole(p)
          BY <2>1, <2>6 DEF AfterWhole
    <3>. QED  BY <1>2, <2>1, <2>2, <2>6, <2>9, <3>1 DEF InStep
  <2>14. Receiving'
         BY <1>1, <2>1, ReceivingKept
  <2>. QED  BY <2>3, <2>4, <2>7, <2>8, <2>10, <2>11, <2>12, <2>13, <2>14 DEF SerialInv, Order
<1>. QED  BY <1>4, <1>5, <1>6, <1>7, <1>8, <1>9 DEF SerialNext

LEMMA SerialInvariant == SerialSpec => []SerialInv
<1>. QED  BY SerialInvInit, SerialInvNext, PTL DEF SerialSpec

\* Of a sound packet that has passed and whose first byte is still there, all is in inbuf.
LEMMA PassedIsRead ==
  ASSUME SerialTypes, Formed, Contiguous, NEW p \in 1 .. Len(sent), p \notin hurt, Passed(p),
         NEW i, Starting(i, p)
  PROVE  /\ i \in 1 .. Len(inbuf) /\ i + sent[p].len - 1 <= Len(inbuf)
         /\ inbuf[i].p = p /\ inbuf[i].k = 1 /\ inbuf[i].v = At
         /\ i = 1 => inbuf[2].v = sent[p].len - 2
<1>1. i \in 1 .. Len(Stream) /\ Stream[i].p = p /\ Stream[i].k = 1
      BY DEF Starting
<1>2. PICK k, l, s \in Nat :
        /\ k = Stream[i].k /\ l = sent[p].len /\ s = Len(Stream)
        /\ i \in 1 .. s /\ k >= 1 /\ k <= l
        /\ \A j \in i .. s : k + (j - i) <= l => Stream[j].p = p /\ Stream[j].k = k + (j - i)
        /\ k + (s - i) < l => Unfinished(p) /\ Place = k + (s - i) + 1
      BY <1>1, ContinuesWhere
<1>3. PICK a \in Nat, b \in Nat : a = Len(inbuf) /\ b = Len(line)
      BY LenProperties DEF SerialTypes
<1>4. /\ s = a + b
      /\ \A j \in 1 .. a : Stream[j] = inbuf[j]
      /\ \A m \in 1 .. b : Stream[a + m] = line[m]
  <2>1. inbuf \in Seq(Bytes) /\ line \in Seq(Bytes)
        BY DEF SerialTypes
  <2>2. Len(Stream) = Len(inbuf) + Len(line)
        BY <2>1, ConcatParts DEF Stream
  <2>3. \A j \in 1 .. Len(inbuf) : Stream[j] = inbuf[j]
        BY <2>1, ConcatParts DEF Stream
  <2>4. \A m \in 1 .. Len(line) : Stream[Len(inbuf) + m] = line[m]
        BY <2>1, ConcatParts DEF Stream
  <2>. QED  BY <1>2, <1>3, <2>2, <2>3, <2>4
<1>5. ~Unfinished(p)
  <2> SUFFICES ASSUME Unfinished(p) PROVE FALSE
      OBVIOUS
  <2>1. Writes(p) /\ Place <= sent[p].len
        BY DEF Unfinished
  <2>2. /\ Len(writing) \in 1 .. 3 /\ Place \in 2 .. 4 /\ sent[p].len \in Nat
        /\ Len(writing[1]) = IF Place < 4 THEN 1 ELSE sent[p].len - 3
        /\ \A m \in 1 .. Len(writing[1]) : writing[1][m].p = p
        BY <2>1, WritingTyped
  <2>3. 1 \in 1 .. Len(writing)
        BY <2>2
  <2>4. 1 \in 1 .. Len(writing[1])
    <3>1. CASE Place < 4
          BY <2>2, <3>1
    <3>2. CASE ~(Place < 4)
          BY <2>1, <2>2, <3>2
    <3>. QED  BY <3>1, <3>2
  <2>. QED  BY <2>2, <2>3, <2>4 DEF Passed
<1>6. l >= 3 /\ k = 1 /\ i \in Nat /\ i >= 1 /\ i <= s
      BY <1>1, <1>2, Typing
<1>7. ~(k + (s - i) < l)
      BY <1>2, <1>5
<1>8. ASSUME NEW j \in i .. (i + l) - 1
      PROVE  j \in 1 .. a /\ inbuf[j].p = p /\ inbuf[j].k = 1 + (j - i) /\ inbuf[j] = Stream[j]
  <2>1. j \in i .. s /\ k + (j - i) <= l /\ j \in 1 .. s /\ j \in Nat
        BY <1>6, <1>7
  <2>2. Stream[j].p = p /\ Stream[j].k = 1 + (j - i)
        BY <1>2, <1>6, <2>1
  <2>3. j <= a
    <3> SUFFICES ASSUME j > a PROVE FALSE
        BY <1>3, <2>1
    <3>1. j - a \in 1 .. b /\ a + (j - a) = j
          BY <1>4, <2>1
    <3>2. line[j - a].p = p
          BY <1>4, <2>2, <3>1
    <3>. QED  BY <1>3, <3>1, <3>2 DEF Passed
  <2>4. j \in 1 .. a
        BY <2>1, <2>3
  <2>. QED  BY <1>4, <2>2, <2>4
<1>9. i \in i .. (i + l) - 1 /\ (i + l) - 1 \in i .. (i + l) - 1 /\ i + 1 \in i .. (i + l) - 1
      /\ 1 + (i - i) = 1 /\ 1 + ((i + 1) - i) = 2
      BY <1>6
<1>10. i \in 1 .. a /\ (i + l) - 1 <= a /\ inbuf[i].p = p /\ inbuf[i].k = 1
  <2>1. (i + l) - 1 \in 1 .. a
        BY <1>8, <1>9
  <2>2. i \in 1 .. a /\ inbuf[i].p = p /\ inbuf[i].k = 1
        BY <1>8, <1>9
  <2>3. (i + l) - 1 <= a
        BY <2>1
  <2>. QED  BY <2>2, <2>3
<1>11. inbuf[i].v = At
  <2>1. OfPacket(Stream[i])
        BY <1>1 DEF Formed
  <2>2. inbuf[i] = Stream[i]
        BY <1>8, <1>9
  <2>. QED  BY <1>1, <2>1, <2>2 DEF OfPacket
<1>12. ASSUME i = 1 PROVE inbuf[2].v = l - 2
  <2>1. 2 \in 1 .. s /\ inbuf[2].p = p /\ inbuf[2].k = 2 /\ inbuf[2] = Stream[2]
    <3>1. i + 1 = 2
          BY <1>12
    <3>2. /\ i + 1 \in 1 .. a /\ inbuf[i + 1].p = p /\ inbuf[i + 1].k = 1 + ((i + 1) - i)
          /\ inbuf[i + 1] = Stream[i + 1]
          BY <1>8, <1>9
    <3>3. 2 \in 1 .. a /\ inbuf[2].p = p /\ inbuf[2].k = 2 /\ inbuf[2] = Stream[2]
          BY <1>9, <3>1, <3>2
    <3>4. 2 \in 1 .. s
          BY <1>4, <3>3
    <3>. QED  BY <3>3, <3>4
  <2>2. OfPacket(Stream[2])
        BY <1>2, <2>1 DEF Formed
  <2>. QED  BY <1>2, <2>1, <2>2 DEF OfPacket
<1>13. i + l - 1 <= a
      BY <1>6, <1>10
<1>. QED  BY <1>2, <1>3, <1>10, <1>11, <1>12, <1>13

\* A sound packet that is all there does not wait at the front of inbuf.
LEMMA FrontIsTaken ==
  ASSUME SerialInv, NEW p \in 1 .. Len(sent), p \notin hurt, Passed(p)
  PROVE  ~Starting(1, p)
<1> SUFFICES ASSUME Starting(1, p) PROVE FALSE
    OBVIOUS
<1>1. SerialTypes /\ Formed /\ Contiguous /\ Receiving
      BY DEF SerialInv, Order
<1>2. PICK l \in Nat : l = sent[p].len /\ l >= 3
      BY <1>1, Typing
<1>3. PICK a \in Nat : a = Len(inbuf)
      BY <1>1, LenProperties DEF SerialTypes
<1>4. 1 \in 1 .. a /\ 1 + l - 1 <= a /\ inbuf[1].v = At /\ inbuf[2].v = l - 2
      BY <1>1, <1>2, <1>3, PassedIsRead
<1>5. a >= 3 /\ l <= a /\ PacketLength(inbuf) = l
      BY <1>2, <1>4 DEF PacketLength
<1>6. ~Short(inbuf)
      BY <1>2, <1>3, <1>5 DEF Short
<1>7. state = "sync"
      BY <1>1, <1>6 DEF SerialTypes, Receiving
<1>8. Starts(inbuf) # {}
      BY <1>3, <1>4 DEF Starts
<1>9. Len(inbuf) <= 1
      BY <1>1, <1>4, <1>7, <1>8 DEF Receiving
<1>. QED  BY <1>3, <1>5, <1>9

(***************************************************************************)
(* Whatever is lost and wherever a log message interrupts: a sound packet  *)
(* that follows one that was taken whole is taken whole (_rxtx, send and   *)
(* log).                                                                   *)
(***************************************************************************)
THEOREM SerialStaysInStep == SerialSpec => []StaysInStep
<1>1. SerialInv => StaysInStep
  <2> SUFFICES ASSUME SerialInv, NEW p \in 1 .. Len(sent), p \notin hurt, Passed(p),
                      p = 1 \/ (Whole(p - 1) /\ ~sent[p - 1].inside)
               PROVE  Whole(p)
      BY DEF StaysInStep
  <2>1. AfterWhole(p)
        BY DEF AfterWhole
  <2>2. Whole(p) \/ Starting(1, p)
        BY <2>1 DEF SerialInv, Order, InStep
  <2>. QED  BY <2>2, FrontIsTaken
<1>. QED  BY <1>1, SerialInvariant, PTL

(***************************************************************************)
(* The host does not overlook a sound packet: where it takes none, a false *)
(* one, taken or still in inbuf, holds the first byte.                     *)
(***************************************************************************)
THEOREM SerialMissedIsSwallowed == SerialSpec => []MissedIsSwallowed
<1>1. SerialInv => MissedIsSwallowed
  <2> SUFFICES ASSUME SerialInv, NEW p \in 1 .. Len(sent), p \notin hurt, Passed(p), ~Whole(p)
               PROVE  \E i \in 1 .. Len(taken) \cup {0} :
                        LET false == IF i = 0 THEN inbuf ELSE taken[i] IN
                        \E k \in 2 .. Len(false) : false[k].p = p /\ false[k].k = 1
      BY DEF MissedIsSwallowed
  <2>1. SerialTypes /\ Formed /\ Contiguous /\ Kept
        BY DEF SerialInv, Order
  <2>2. CASE Swallowed(p)
    <3>1. PICK i \in 1 .. Len(taken) : \E k \in 2 .. Len(taken[i]) :
                                         taken[i][k].p = p /\ taken[i][k].k = 1
          BY <2>2 DEF Swallowed
    <3>2. i # 0 /\ i \in 1 .. Len(taken) \cup {0}
          OBVIOUS
    <3>. QED  BY <3>1, <3>2
  <2>3. ASSUME NEW i, Starting(i, p)
        PROVE  \E k \in 2 .. Len(inbuf) : inbuf[k].p = p /\ inbuf[k].k = 1
    <3>1. i \in 1 .. Len(inbuf) /\ inbuf[i].p = p /\ inbuf[i].k = 1
          BY <2>1, <2>3, PassedIsRead
    <3>2. i # 1
          BY <2>3, FrontIsTaken
    <3>3. i \in 2 .. Len(inbuf)
      <4>1. Len(inbuf) \in Nat
            BY <2>1, LenProperties DEF SerialTypes
      <4>. QED  BY <3>1, <3>2, <4>1
    <3>. QED  BY <3>1, <3>3
  <2>4. (\E i \in 1 .. Len(Stream) : Starting(i, p)) \/ Swallowed(p)
        BY <2>1 DEF Kept
  <2>5. 0 \in 1 .. Len(taken) \cup {0}
        OBVIOUS
  <2>. QED  BY <2>2, <2>3, <2>4, <2>5
<1>. QED  BY <1>1, SerialInvariant, PTL

=============================================================================
