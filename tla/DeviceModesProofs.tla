------------------------- MODULE DeviceModesProofs -------------------------
(***************************************************************************)
(* Theorems about DeviceModes, for queues of any size and any number of    *)
(* frames and commands.                                                    *)
(***************************************************************************)
EXTENDS DeviceModes, SequenceTheorems, TLAPS

-----------------------------------------------------------------------------
(***************************************************************************)
(* A ring buffer: how many frames are between head h and tail t, where the *)
(* i-th of them is, and the frames a buffer with the items a holds.        *)
(***************************************************************************)
Count(h, t) == IF t >= h THEN t - h ELSE t - h + Size
Around(h, i) == IF h + i - 1 >= Size THEN h + i - 1 - Size ELSE h + i - 1
View(h, t, a) == [i \in 1 .. Count(h, t) |-> a[Around(h, i)]]

LEMMA ViewProperties ==
  ASSUME NEW h \in Slots, NEW t \in 0 .. Size, NEW a \in [Slots -> Frames]
  PROVE  /\ Count(h, t) \in Nat /\ \A i \in 1 .. Count(h, t) : Around(h, i) \in Slots
         /\ View(h, t, a) \in Seq(Frames) /\ Len(View(h, t, a)) = Count(h, t)
         /\ \A i \in 1 .. Count(h, t) : View(h, t, a)[i] = a[Around(h, i)]
<1>1. Count(h, t) \in Nat /\ \A i \in 1 .. Count(h, t) : Around(h, i) \in Slots
      BY ModesBounds DEF Count, Around, Slots
<1>2. \A i \in 1 .. Count(h, t) : a[Around(h, i)] \in Frames
      BY <1>1
<1>. QED  BY <1>1, <1>2 DEF View

\* The queue looks full when it holds one frame less than there are places, and empty when
\* it holds none.
LEMMA FullAndEmpty ==
  ASSUME NEW h \in Slots, NEW t \in Slots
  PROVE  /\ (t + 1) % Size = h <=> Count(h, t) = Size - 1
         /\ h = t <=> Count(h, t) = 0
         /\ Count(h, t) <= Size - 1
<1>1. CASE t + 1 < Size
  <2>1. (t + 1) % Size = t + 1
        BY <1>1, ModesBounds DEF Slots
  <2>. QED  BY <1>1, <2>1, ModesBounds DEF Slots, Count
<1>2. CASE t + 1 = Size
  <2>1. (t + 1) % Size = 0
        BY <1>2, ModesBounds DEF Slots
  <2>. QED  BY <1>2, <2>1, ModesBounds DEF Slots, Count
<1>. QED  BY <1>1, <1>2, ModesBounds DEF Slots

\* A frame written at tail is not yet in the queue ...
LEMMA WriteAtTail ==
  ASSUME NEW h \in Slots, NEW t \in Slots, NEW a \in [Slots -> Frames], NEW f \in Frames
  PROVE  View(h, t, [a EXCEPT ![t] = f]) = View(h, t, a)
<1>1. \A i \in 1 .. Count(h, t) : Around(h, i) \in Slots /\ Around(h, i) # t
      BY ModesBounds DEF Count, Around, Slots
<1>. QED  BY <1>1 DEF View

\* ... and is the last one of it when tail has moved on, wrapped around or not.
LEMMA MoveTail ==
  ASSUME NEW h \in Slots, NEW t \in Slots, NEW a \in [Slots -> Frames],
         Count(h, t) <= Size - 2, NEW u \in {t + 1, Wrapped(t + 1)}
  PROVE  /\ View(h, u, a) = Append(View(h, t, a), a[t])
         /\ Count(h, u) = Count(h, t) + 1 /\ u \in 0 .. Size
<1>0. t \in 0 .. Size
      BY ModesBounds DEF Slots
<1>1. Count(h, u) = Count(h, t) + 1 /\ Count(h, t) \in Nat /\ u \in 0 .. Size
      BY ModesBounds DEF Count, Slots, Wrapped
<1>2. Around(h, Count(h, t) + 1) = t
      BY ModesBounds DEF Count, Around, Slots
<1>3. /\ View(h, t, a) \in Seq(Frames) /\ Len(View(h, t, a)) = Count(h, t)
      /\ \A i \in 1 .. Count(h, t) : View(h, t, a)[i] = a[Around(h, i)]
      /\ View(h, u, a) \in Seq(Frames) /\ Len(View(h, u, a)) = Count(h, u)
      /\ \A i \in 1 .. Count(h, u) : View(h, u, a)[i] = a[Around(h, i)]
      BY <1>0, <1>1, ViewProperties
<1>4. a[t] \in Frames
      OBVIOUS
<1> DEFINE v == View(h, t, a)
           w == View(h, u, a)
           p == Append(v, a[t])
           c == Count(h, t)
<1>5. /\ p \in Seq(Frames) /\ Len(p) = Len(v) + 1 /\ p[Len(v) + 1] = a[t]
      /\ \A i \in 1 .. Len(v) : p[i] = v[i]
      BY <1>3, <1>4, AppendProperties
<1>6. /\ v \in Seq(Frames) /\ Len(v) = c /\ w \in Seq(Frames) /\ Len(w) = c + 1
      BY <1>1, <1>3
<1>7. \A i \in 1 .. c : v[i] = w[i]
      BY <1>1, <1>3
<1>8. w[c + 1] = a[t]
      BY <1>1, <1>2, <1>3
<1>9. c \in Nat
      BY <1>1
<1>. HIDE DEF v, w, p, c
<1>10. \A i \in 1 .. Len(w) : w[i] = p[i]
       BY <1>5, <1>6, <1>7, <1>8, <1>9
<1>11. w = p
       BY <1>5, <1>6, <1>9, <1>10, SeqEqual
<1>. QED  BY <1>11, <1>1 DEF v, w, p

LEMMA ZeroTail ==
  ASSUME NEW h \in Slots, h # 0, NEW a
  PROVE  View(h, Size, a) = View(h, 0, a) /\ Count(h, Size) = Count(h, 0)
<1>1. Count(h, Size) = Count(h, 0)
      BY ModesBounds DEF Count, Slots
<1>. QED  BY <1>1 DEF View

\* The frame at head is taken.
LEMMA TakeHead ==
  ASSUME NEW h \in Slots, NEW t \in Slots, NEW a \in [Slots -> Frames], h # t
  PROVE  /\ View(h, t, a) # <<>> /\ Head(View(h, t, a)) = a[h]
         /\ View(Wrapped(h + 1), t, a) = Tail(View(h, t, a)) /\ Wrapped(h + 1) \in Slots
<1> DEFINE g == Wrapped(h + 1)
           c == Count(h, t)
           v == View(h, t, a)
           w == View(g, t, a)
<1>0. t \in 0 .. Size
      BY ModesBounds DEF Slots
<1>1. /\ g \in Slots /\ c \in Nat \ {0} /\ Count(g, t) = c - 1
      BY ModesBounds DEF Count, Slots, Wrapped
<1>2. Around(h, 1) = h
      BY ModesBounds DEF Around, Slots
<1>3. ASSUME NEW i \in 1 .. c - 1 PROVE Around(g, i) = Around(h, i + 1)
  <2>1. i \in Nat /\ h \in Nat /\ h < Size /\ i >= 1 /\ h + i < Size + Size
        BY <1>1, ModesBounds DEF Count, Slots
  <2>2. CASE h + 1 >= Size
        BY <2>1, <2>2, ModesBounds DEF Around, Wrapped
  <2>3. CASE h + 1 < Size
        BY <2>1, <2>3, ModesBounds DEF Around, Wrapped
  <2>. QED  BY <2>1, <2>2, <2>3, ModesBounds
<1>4. /\ v \in Seq(Frames) /\ Len(v) = c /\ \A i \in 1 .. c : v[i] = a[Around(h, i)]
      /\ w \in Seq(Frames) /\ Len(w) = c - 1 /\ \A i \in 1 .. c - 1 : w[i] = a[Around(g, i)]
      BY <1>0, <1>1, ViewProperties
<1>. HIDE DEF c, v, w, g
<1>5. v # <<>>
      BY <1>1, <1>4
<1>6. /\ Tail(v) \in Seq(Frames) /\ Len(Tail(v)) = c - 1
      /\ \A i \in 1 .. c - 1 : Tail(v)[i] = v[i + 1]
      BY <1>4, <1>5, HeadTailProperties
<1>7. \A i \in 1 .. c - 1 : i + 1 \in 1 .. c
      BY <1>1
<1>8. \A i \in 1 .. Len(w) : w[i] = Tail(v)[i]
      BY <1>3, <1>4, <1>6, <1>7
<1>9. w = Tail(v)
      BY <1>4, <1>6, <1>8, SeqEqual
<1>10. Head(v) = a[h]
       BY <1>1, <1>2, <1>4, <1>5
<1>. QED  BY <1>1, <1>5, <1>9, <1>10 DEF g, v, w

LEMMA WaitingIsView ==
  \A q \in Queues : /\ Waiting(q) = View(head[q], tail[q], items[q])
                    /\ Held(q) = Count(head[q], tail[q])
  BY DEF Waiting, View, Held, Slot, Count, Around

-----------------------------------------------------------------------------
(***************************************************************************)
(* Sequences: the head of a queue moves to what has been sent.             *)
(***************************************************************************)
LEMMA MoveHead ==
  ASSUME NEW s \in Seq(Frames), NEW q \in Seq(Frames), q # <<>>
  PROVE  Append(s, Head(q)) \o Tail(q) = s \o q
<1>1. Append(s, Head(q)) \in Seq(Frames) /\ Tail(q) \in Seq(Frames) /\ Head(q) \in Frames
      BY HeadTailProperties, AppendProperties
<1> DEFINE l == Append(s, Head(q)) \o Tail(q)
           r == s \o q
<1>2. /\ Len(l) = Len(s) + 1 + Len(Tail(q)) /\ l \in Seq(Frames)
      /\ \A i \in 1 .. Len(l) : l[i] = IF i <= Len(s) + 1 THEN Append(s, Head(q))[i]
                                       ELSE Tail(q)[i - (Len(s) + 1)]
      BY <1>1, ConcatProperties, AppendProperties
<1>3. /\ Len(r) = Len(s) + Len(q) /\ r \in Seq(Frames)
      /\ \A i \in 1 .. Len(r) : r[i] = IF i <= Len(s) THEN s[i] ELSE q[i - Len(s)]
      BY ConcatProperties
<1>4. /\ Len(Tail(q)) = Len(q) - 1
      /\ \A i \in 1 .. Len(Tail(q)) : Tail(q)[i] = q[i + 1]
      BY HeadTailProperties
<1>5. Len(s) \in Nat /\ Len(q) \in Nat \ {0}
      BY EmptySeq, LenProperties
<1>6. Head(q) = q[1]
      BY <1>5
<1>7. /\ \A i \in 1 .. Len(s) : Append(s, Head(q))[i] = s[i]
      /\ Append(s, Head(q))[Len(s) + 1] = Head(q)
      BY <1>1, AppendProperties
<1>8. Len(l) = Len(r)
      BY <1>2, <1>3, <1>4, <1>5
<1>9. ASSUME NEW i \in 1 .. Len(l) PROVE l[i] = r[i]
  <2>. i \in 1 .. Len(s) + Len(q) /\ i \in Nat
       BY <1>8, <1>3, <1>5
  <2>1. CASE i <= Len(s)
        BY <2>1, <1>2, <1>3, <1>5, <1>7, <1>8
  <2>2. CASE i = Len(s) + 1
    <3>1. l[i] = Head(q)
          BY <2>2, <1>2, <1>5, <1>7
    <3>2. r[i] = q[1]
          BY <2>2, <1>3, <1>5, <1>8
    <3>. QED  BY <3>1, <3>2, <1>6
  <2>3. CASE i > Len(s) + 1
    <3>1. l[i] = Tail(q)[i - (Len(s) + 1)]
          BY <2>3, <1>2, <1>5
    <3>2. i - (Len(s) + 1) \in 1 .. Len(Tail(q))
          BY <2>3, <1>4, <1>5
    <3>3. l[i] = q[i - Len(s)]
          BY <3>1, <3>2, <1>4, <1>5
    <3>. QED  BY <3>3, <2>3, <1>3, <1>5, <1>8
  <2>. QED  BY <2>1, <2>2, <2>3, <1>5
<1>. HIDE DEF l, r
<1>10. l = r
       BY <1>2, <1>3, <1>8, <1>9, SeqEqual
<1>. QED  BY <1>10 DEF l, r

LEMMA AppendAfter ==
  ASSUME NEW s \in Seq(Frames), NEW q \in Seq(Frames), NEW f \in Frames
  PROVE  s \o Append(q, f) = Append(s \o q, f)
<1>1. <<f>> \in Seq(Frames)
      OBVIOUS
<1>2. s \o q \in Seq(Frames)
      BY ConcatProperties
<1>3. Append(q, f) = q \o <<f>> /\ Append(s \o q, f) = (s \o q) \o <<f>>
      BY <1>2, AppendIsConcat
<1>. QED  BY <1>1, <1>3, ConcatAssociative

LEMMA MembersOfAppend ==
  ASSUME NEW q \in Seq(Frames), NEW f \in Frames
  PROVE  Members(Append(q, f)) = Members(q) \cup {f}
<1>1. /\ Append(q, f) \in Seq(Frames) /\ Len(Append(q, f)) = Len(q) + 1 /\ Len(q) \in Nat
      /\ \A i \in 1 .. Len(q) : Append(q, f)[i] = q[i]
      /\ Append(q, f)[Len(q) + 1] = f
      BY AppendProperties, LenProperties
<1>. HIDE DEF Frames
<1>. QED  BY <1>1 DEF Members

-----------------------------------------------------------------------------
(***************************************************************************)
(* The queues of SendFrame: those to the buses come before those that      *)
(* echo, and none comes twice.                                             *)
(***************************************************************************)
LEMMA QueueNames ==
  \A b \in Buses : /\ Tx(b) \in Queues /\ Rx(b) \in Queues /\ Tx(b)[1] = "tx"
                   /\ \A c \in Buses : Tx(b) # Rx(c) /\ (Tx(b) = Tx(c) <=> b = c)
  BY DEF Tx, Rx, Queues, Buses

LEMMA OtherBus ==
  /\ \A b \in Buses : Other(b) \in Buses /\ Other(b) # b
  /\ \A b, c \in Buses : b = Other(c) <=> c = Other(b)
  BY DEF Other, Buses

LEMMA RouteProperties ==
  ASSUME NEW m \in Modes
  PROVE  LET r == Route(m) IN
         /\ Len(r) \in 0 .. 4 /\ (m # "invalid" => Len(r) >= 1)
         /\ \A i \in 1 .. Len(r) : r[i] \in Queues /\ r[i][1] \in {"tx", "rx"}
         /\ \A i, j \in 1 .. Len(r) : r[i] = r[j] => i = j
         /\ \A i, j \in 1 .. Len(r) : r[i][1] = "tx" /\ r[j][1] = "rx" => i < j
<1>1. CASE m = "SNIFF_CAN0"
      BY <1>1 DEF Route, Tx, Rx, Queues, Buses
<1>2. CASE m = "SNIFF_CAN1"
      BY <1>2 DEF Route, Tx, Rx, Queues, Buses
<1>3. CASE m = "CITM"
  <2> DEFINE r == Route(m)
  <2>1. /\ Len(r) = 4 /\ r[1] = Tx("Can0") /\ r[2] = Tx("Can1") /\ r[3] = Rx("Can0")
        /\ r[4] = Rx("Can1")
        BY <1>3 DEF Route
  <2>2. 1 .. Len(r) = {1, 2, 3, 4}
        BY <2>1
  <2>. HIDE DEF r
  <2>3. /\ \A i \in 1 .. Len(r) : r[i] \in Queues /\ r[i][1] \in {"tx", "rx"}
        /\ \A i, j \in 1 .. Len(r) : r[i] = r[j] => i = j
        /\ \A i, j \in 1 .. Len(r) : r[i][1] = "tx" /\ r[j][1] = "rx" => i < j
        BY <2>1, <2>2 DEF Tx, Rx, Queues, Buses
  <2>. QED  BY <1>3, <2>1, <2>3 DEF r
<1>4. CASE m = "invalid"
      BY <1>4 DEF Route
<1>. QED  BY <1>1, <1>2, <1>3, <1>4 DEF Modes

-----------------------------------------------------------------------------
(***************************************************************************)
(* Types.  SendFrame stands in a queue of its mode, which does not change  *)
(* meanwhile, and tail points beyond the buffer only for as long as it is  *)
(* about to wrap it around.                                                *)
(***************************************************************************)
AtCommand ==
  /\ pc = "idle" => step = 1
  /\ pc # "idle" =>
       /\ at = 5 /\ mode # "invalid" /\ step \in 1 .. Len(Route(mode))
       /\ frame.from = "host" /\ frame.mode = mode /\ frame.n <= frames

TailInside == \A q \in Queues : tail[q] = Size => pc \in {"test", "zero"} /\ q = Target

TypeInv == ModesTypeOK /\ AtCommand /\ TailInside

\* A new frame is a frame, and later than all others.
LEMMA NewFrame ==
  ASSUME ModesTypeOK, NEW from \in Buses \cup {"host"}, NEW m \in Modes \cup {"none"}
  PROVE  Frame(from, m) \in Frames /\ Frame(from, m).from = from /\ Frame(from, m).n = frames + 1
         /\ Frame(from, m).mode = m
  BY DEF ModesTypeOK, Frame, Frames

LEMMA WrappedType ==
  \A i \in 0 .. Size : Wrapped(i + 1) \in Slots
  BY ModesBounds DEF Wrapped, Slots

\* In the middle of SendFrame its queue is one of the queues, and the next one too.
LEMMA TargetType ==
  ASSUME TypeInv, pc # "idle"
  PROVE  Target \in Queues /\ step \in 1 .. Len(Route(mode)) /\ mode \in Modes
         /\ Len(Route(mode)) \in 1 .. 4
  BY RouteProperties DEF TypeInv, AtCommand, ModesTypeOK, Target

LEMMA InitTypes == ModesInit => TypeInv
<1> SUFFICES ASSUME ModesInit PROVE TypeInv
    OBVIOUS
<1>1. Garbage \in Frames /\ Size \in Nat \ {0} /\ 0 \in Slots /\ 0 \in 0 .. Size
      BY ModesBounds DEF Garbage, Frames, Slots
<1>2. MaxFrames \in Nat /\ MaxCommands \in Nat
      BY ModesBounds
<1>3. sent \in [Buses -> Seq(Frames)]
      BY DEF ModesInit
<1>4. items \in [Queues -> [Slots -> Frames]] /\ tail \in [Queues -> 0 .. Size]
      BY <1>1 DEF ModesInit
<1>5. ModesTypeOK
  <2>1. /\ mode \in Modes /\ at \in 1 .. 5 /\ step \in 1 .. 4
        /\ pc \in {"idle", "check", "write", "load", "store", "test", "zero"}
        /\ frames \in 0 .. MaxFrames /\ commands \in 0 .. MaxCommands
        BY <1>2 DEF ModesInit, Modes
  <2>2. initialized \in BOOLEAN /\ failed \in BOOLEAN
        BY DEF ModesInit
  <2>3. callback \in [Buses -> {"none", "sniff", "citm"}] /\ head \in [Queues -> Slots]
        BY <1>1 DEF ModesInit
  <2>4. /\ frame \in Frames /\ reg \in Slots /\ raced \subseteq Queues
        /\ reported \subseteq Frames \X {"CMD_CAN_RECV", "CMD_ISO_RECV"}
        BY <1>1 DEF ModesInit
  <2>. QED  BY <1>3, <1>4, <2>1, <2>2, <2>3, <2>4 DEF ModesTypeOK
<1>6. AtCommand /\ TailInside
      BY <1>1 DEF ModesInit, AtCommand, TailInside
<1>. QED  BY <1>5, <1>6 DEF TypeInv

\* The end of an enqueue.
LEMMA ProceedTypes ==
  ASSUME TypeInv, pc # "idle", NEW fails \in BOOLEAN, Proceed(fails),
         UNCHANGED <<mode, frames>>
  PROVE  /\ at' \in 1 .. 5 /\ pc' \in {"check", "idle"} /\ failed' \in BOOLEAN
         /\ step' \in 1 .. 4 /\ frame' \in Frames /\ AtCommand'
<1>1. /\ step \in 1 .. Len(Route(mode)) /\ Len(Route(mode)) \in 1 .. 4 /\ mode' = mode
      /\ at = 5 /\ mode # "invalid" /\ frame \in Frames /\ step \in Nat /\ Len(Route(mode)) \in Nat
      /\ frame.from = "host" /\ frame.mode = mode /\ frame.n <= frames /\ frames' = frames
      BY TargetType DEF TypeInv, AtCommand, ModesTypeOK
<1>2. Len(Route(mode))' = Len(Route(mode))
      BY <1>1 DEF Route, Tx, Rx
<1>3. Garbage \in Frames
      BY DEF Garbage, Frames
<1>4. CASE step' = step + 1 /\ pc' = "check" /\ failed' = fails /\ at' = at /\ frame' = frame
           /\ step < Len(Route(mode))
  <2> DEFINE l == Len(Route(mode))
  <2>0. step \in 1 .. l /\ l \in 1 .. 4 /\ step < l /\ step' = step + 1
        BY <1>1, <1>4
  <2>. HIDE DEF l
  <2>3. step' \in 1 .. l /\ step' \in 1 .. 4
        BY <2>0
  <2>1. step' \in 1 .. Len(Route(mode)) /\ step' \in 1 .. 4
        BY <2>3 DEF l
  <2>2. AtCommand'
        BY <1>1, <1>2, <1>4, <2>1 DEF AtCommand
  <2>. QED  BY <1>1, <1>4, <2>1, <2>2
<1>5. CASE step' = 1 /\ pc' = "idle" /\ failed' = FALSE /\ frame' = Garbage /\ at' = 1
  <2>1. AtCommand'
        BY <1>5 DEF AtCommand
  <2>2. at' \in 1 .. 5 /\ step' \in 1 .. 4 /\ pc' \in {"check", "idle"}
        BY <1>5
  <2>3. failed' \in BOOLEAN
        BY <1>5
  <2>4. frame' \in Frames
        BY <1>3, <1>5
  <2>. QED  BY <2>1, <2>2, <2>3, <2>4, Zenon
<1>. QED  BY <1>4, <1>5 DEF Proceed

\* A step that leaves tail and SendFrame alone.
LEMMA RestTypes ==
  ASSUME TypeInv, UNCHANGED <<tail, Sending>>, frames' \in {frames, frames + 1},
         pc # "idle" => at' = at /\ mode' = mode
  PROVE  AtCommand' /\ TailInside'
<1>1. AtCommand'
  <2>0. pc = "idle" => AtCommand'
        BY DEF AtCommand, Sending, TypeInv
  <2> SUFFICES ASSUME pc # "idle" PROVE AtCommand'
      BY <2>0
  <2>1. frame.n \in Nat /\ frames \in Nat
        BY ModesBounds DEF TypeInv, ModesTypeOK, Frames
  <2>2. Len(Route(mode))' = Len(Route(mode))
        BY DEF Route, Tx, Rx
  <2>. QED  BY <2>1, <2>2 DEF AtCommand, TypeInv, Sending
<1>2. TailInside'
  <2>1. ASSUME NEW q \in Queues, tail'[q] = Size PROVE pc' \in {"test", "zero"} /\ q = Target'
    <3>1. pc \in {"test", "zero"} /\ q = Target
          BY <2>1 DEF TypeInv, TailInside
    <3>2. Target' = Target
          BY <3>1 DEF Target, Route, Tx, Rx, Sending
    <3>. QED  BY <3>1, <3>2 DEF Sending
  <2>. QED  BY <2>1 DEF TailInside
<1>. QED  BY <1>1, <1>2

LEMMA SendTypes ==
  ASSUME TypeInv, NEW b \in Buses, Send(b)
  PROVE  TypeInv'
<1> DEFINE q == Tx(b)
           f == items[q][head[q]]
<1>1. /\ q \in Queues /\ head[q] \in Slots /\ f \in Frames /\ sent[b] \in Seq(Frames)
      /\ head[q] \in 0 .. Size
      BY QueueNames, ModesBounds DEF TypeInv, ModesTypeOK, Slots
<1>2. Append(sent[b], f) \in Seq(Frames) /\ AfterSend(head[q]) \in Slots
      BY <1>1, AppendProperties, WrappedType DEF AfterSend
<1>3. /\ sent' = [sent EXCEPT ![b] = Append(@, f)] /\ head' = [head EXCEPT ![q] = AfterSend(@)]
      /\ at' = at + 1 /\ at \in {1, 2} /\ pc = "idle"
      /\ UNCHANGED <<Settings, tail, items, raced, Sending, reported, frames>>
      BY DEF Send, Place, TypeInv, AtCommand
<1>. HIDE DEF f, q
<1>4. sent' \in [Buses -> Seq(Frames)] /\ head' \in [Queues -> Slots] /\ at' \in 1 .. 5
  <2>1. sent \in [Buses -> Seq(Frames)] /\ head \in [Queues -> Slots]
        BY DEF TypeInv, ModesTypeOK
  <2>2. sent' \in [Buses -> Seq(Frames)]
        BY <1>2, <1>3, <2>1
  <2>3. head' \in [Queues -> Slots]
        BY <1>2, <1>3, <2>1
  <2>. QED  BY <1>3, <2>2, <2>3
<1>5. AtCommand' /\ TailInside'
      BY <1>3, RestTypes
<1>6. ModesTypeOK'
      BY <1>3, <1>4 DEF TypeInv, ModesTypeOK, Settings, Sending
<1>. QED  BY <1>5, <1>6 DEF TypeInv

LEMMA ReportTypes ==
  ASSUME TypeInv, NEW b \in Buses, Report(b)
  PROVE  TypeInv'
<1> DEFINE q == Rx(b)
           f == items[q][head[q]]
<1>1. /\ q \in Queues /\ head[q] \in Slots /\ f \in Frames /\ head[q] \in 0 .. Size
      BY QueueNames, ModesBounds DEF TypeInv, ModesTypeOK, Slots
<1>2. /\ \/ head' = head \/ head' = [head EXCEPT ![q] = Wrapped(@ + 1)]
      /\ reported' \subseteq reported \cup {f} \X {"CMD_CAN_RECV", "CMD_ISO_RECV"}
      /\ at' = at + 1 /\ at \in {3, 4} /\ pc = "idle"
      /\ UNCHANGED <<Settings, tail, items, raced, Sending, sent, frames>>
      BY DEF Report, Place, TypeInv, AtCommand
<1>3. Wrapped(head[q] + 1) \in Slots
      BY <1>1, WrappedType
<1>. HIDE DEF f, q
<1>4. head' \in [Queues -> Slots] /\ at' \in 1 .. 5
      BY <1>2, <1>3 DEF TypeInv, ModesTypeOK
<1>5. reported' \subseteq Frames \X {"CMD_CAN_RECV", "CMD_ISO_RECV"}
      BY <1>1, <1>2 DEF TypeInv, ModesTypeOK
<1>6. AtCommand' /\ TailInside'
      BY <1>2, RestTypes
<1>7. ModesTypeOK'
      BY <1>2, <1>4, <1>5 DEF TypeInv, ModesTypeOK, Settings, Sending
<1>. QED  BY <1>6, <1>7 DEF TypeInv

LEMMA CommandTypes ==
  ASSUME TypeInv,
         \/ \E b \in Buses : SendLater(b)
         \/ Nothing
         \/ \E m \in Modes : CanMode(m)
         \/ CanBaud
  PROVE  TypeInv'
<1>1. ASSUME NEW b \in Buses, SendLater(b) PROVE TypeInv'
  <2>1. at' \in 1 .. 5 /\ pc = "idle"
        BY <1>1 DEF SendLater, AfterNoRoom, Place, TypeInv, AtCommand
  <2>2. AtCommand' /\ TailInside'
        BY <1>1, <2>1, RestTypes DEF SendLater, Rings, Settings
  <2>3. ModesTypeOK'
        BY <1>1, <2>1 DEF SendLater, TypeInv, ModesTypeOK, Settings, Rings, Sending
  <2>. QED  BY <2>2, <2>3 DEF TypeInv
<1>2. CASE Nothing
  <2>1. AtCommand' /\ TailInside'
        BY <1>2, RestTypes DEF Nothing, Command, Rings
  <2>2. ModesTypeOK'
        BY <1>2 DEF Nothing, TypeInv, ModesTypeOK, Settings, Rings, Sending
  <2>. QED  BY <2>1, <2>2 DEF TypeInv
<1>3. ASSUME NEW m \in Modes, CanMode(m) PROVE TypeInv'
  <2>1. AtCommand' /\ TailInside'
        BY <1>3, RestTypes DEF CanMode, Command, Rings
  <2>2. commands' \in 0 .. MaxCommands
        BY <1>3, ModesBounds DEF CanMode, TypeInv, ModesTypeOK
  <2>3. ModesTypeOK'
        BY <1>3, <2>2 DEF CanMode, TypeInv, ModesTypeOK, Rings, Sending
  <2>. QED  BY <2>1, <2>3 DEF TypeInv
<1>4. CASE CanBaud
  <2>1. AtCommand' /\ TailInside'
        BY <1>4, RestTypes DEF CanBaud, Command, Rings
  <2>2. commands' \in 0 .. MaxCommands
        BY <1>4, ModesBounds DEF CanBaud, TypeInv, ModesTypeOK
  <2>3. callback' \in [Buses -> {"none", "sniff", "citm"}]
        BY <1>4 DEF CanBaud, TypeInv, ModesTypeOK
  <2>4. initialized' \in BOOLEAN
        BY <1>4 DEF CanBaud
  <2>5. ModesTypeOK'
        BY <1>4, <2>2, <2>3, <2>4 DEF CanBaud, TypeInv, ModesTypeOK, Rings, Sending
  <2>. QED  BY <2>1, <2>5 DEF TypeInv
<1>. QED  BY <1>1, <1>2, <1>3, <1>4

LEMMA SendFrameTypes ==
  ASSUME TypeInv, SendFrame
  PROVE  TypeInv'
<1>1. /\ pc = "idle" /\ at = 5 /\ frames' = frames + 1 /\ frames < MaxFrames /\ frames \in Nat
      /\ MaxFrames \in Nat
      /\ UNCHANGED <<Settings, Rings, failed, step, reg, reported, sent>>
      BY ModesBounds DEF SendFrame, Command, TypeInv, ModesTypeOK
<1>2. CASE mode = "invalid"
  <2>1. at' = 1 /\ UNCHANGED <<pc, frame>>
        BY <1>2 DEF SendFrame
  <2>2. AtCommand' /\ TailInside'
        BY <1>1, <2>1, RestTypes DEF Rings, Sending
  <2>3. frames' \in 0 .. MaxFrames
        BY <1>1
  <2>4. ModesTypeOK'
        BY <1>1, <2>1, <2>3 DEF TypeInv, ModesTypeOK, Settings, Rings
  <2>. QED  BY <2>2, <2>4 DEF TypeInv
<1>3. CASE mode # "invalid"
  <2>1. pc' = "check" /\ frame' = Frame("host", mode) /\ UNCHANGED at
        BY <1>3 DEF SendFrame
  <2>2. /\ frame' \in Frames /\ frame'.from = "host" /\ frame'.n = frames + 1
        /\ frame'.mode = mode
        BY <2>1, NewFrame DEF TypeInv, ModesTypeOK
  <2>3. step' \in 1 .. Len(Route(mode)) /\ Len(Route(mode))' = Len(Route(mode))
    <3>1. step = 1 /\ Len(Route(mode)) \in Nat /\ Len(Route(mode)) >= 1
          BY <1>1, <1>3, RouteProperties DEF TypeInv, ModesTypeOK, AtCommand
    <3>2. mode' = mode /\ step' = step
          BY <1>1 DEF Settings
    <3>3. Len(Route(mode))' = Len(Route(mode))
          BY <3>2 DEF Route, Tx, Rx
    <3>. QED  BY <3>1, <3>2, <3>3
  <2>4. AtCommand'
        BY <1>1, <1>3, <2>1, <2>2, <2>3 DEF AtCommand, Settings
  <2>5. TailInside'
        BY <1>1 DEF TypeInv, TailInside, Rings
  <2>6. frames' \in 0 .. MaxFrames
        BY <1>1
  <2>7. ModesTypeOK'
        BY <1>1, <2>1, <2>2, <2>6 DEF TypeInv, ModesTypeOK, Settings, Rings
  <2>. QED  BY <2>4, <2>5, <2>7 DEF TypeInv
<1>. QED  BY <1>2, <1>3

\* The next access of an enqueue.
LEMMA NextAccess ==
  ASSUME TypeInv, pc # "idle", pc' \in {"write", "load", "store", "test", "zero"},
         UNCHANGED <<mode, at, step, frame, frames>>
  PROVE  AtCommand' /\ Target' = Target
<1>1. mode' = mode /\ step' = step /\ Route(mode)' = Route(mode)
      BY DEF Route, Tx, Rx
<1>2. AtCommand'
      BY <1>1 DEF AtCommand, TypeInv
<1>. QED  BY <1>1, <1>2 DEF Target

LEMMA EnqueueTypes ==
  ASSUME TypeInv, Enqueue
  PROVE  TypeInv'
<1>1. /\ pc # "idle" /\ Target \in Queues /\ tail \in [Queues -> 0 .. Size] /\ Size \in Nat
      /\ mode' = mode /\ frames' = frames
      /\ UNCHANGED <<initialized, callback, head, raced, reported, sent, commands>>
  <2>1. pc # "idle" /\ UNCHANGED <<Settings, frames, head, raced, reported, sent>>
        BY DEF Enqueue, EnqueueCheck, EnqueueWrite, EnqueueLoad, EnqueueStore, EnqueueTest,
               EnqueueZero, Rings
  <2>. QED  BY <2>1, TargetType, ModesBounds DEF TypeInv, ModesTypeOK, Settings
<1>2. ASSUME NEW q \in Queues, tail[q] \notin Slots
      PROVE  tail[q] = Size /\ pc \in {"test", "zero"} /\ q = Target
  <2>1. tail[q] = Size
        BY <1>1, <1>2 DEF Slots
  <2>. QED  BY <2>1 DEF TypeInv, TailInside
<1>3. ASSUME NEW fails \in BOOLEAN, Proceed(fails), UNCHANGED <<items, reg>>,
             tail' \in [Queues -> 0 .. Size], \A q \in Queues : tail'[q] # Size
      PROVE  TypeInv'
  <2>1. /\ at' \in 1 .. 5 /\ pc' \in {"check", "idle"} /\ failed' \in BOOLEAN
        /\ step' \in 1 .. 4 /\ frame' \in Frames /\ AtCommand'
        BY <1>1, <1>3, ProceedTypes
  <2>2. ModesTypeOK'
        BY <1>1, <1>3, <2>1 DEF TypeInv, ModesTypeOK
  <2>3. TailInside'
        BY <1>3 DEF TailInside
  <2>. QED  BY <2>1, <2>2, <2>3 DEF TypeInv
<1>4. CASE EnqueueCheck
  <2>1. pc = "check" /\ UNCHANGED <<tail, items, reg>>
        BY <1>4 DEF EnqueueCheck, Rings
  <2>2. \A q \in Queues : tail'[q] # Size
        BY <2>1 DEF TypeInv, TailInside
  <2>3. CASE IsFull(Target)
    <3>1. Proceed(TRUE)
          BY <1>4, <2>3 DEF EnqueueCheck
    <3>. QED  BY <1>1, <1>3, <2>1, <2>2, <3>1
  <2>4. CASE ~IsFull(Target)
    <3>1. pc' = "write" /\ UNCHANGED <<at, step, failed, frame>>
          BY <1>4, <2>4 DEF EnqueueCheck
    <3>2. AtCommand'
          BY <1>1, <3>1, NextAccess
    <3>3. ModesTypeOK'
          BY <1>1, <2>1, <3>1 DEF TypeInv, ModesTypeOK
    <3>. QED  BY <2>2, <3>2, <3>3 DEF TypeInv, TailInside
  <2>. QED  BY <2>3, <2>4
<1>5. CASE EnqueueWrite
  <2>1. /\ pc = "write" /\ pc' = "load" /\ UNCHANGED <<tail, at, frame, failed, step, reg>>
        /\ items' = [items EXCEPT ![Target][tail[Target]] = frame]
        BY <1>5 DEF EnqueueWrite
  <2>2. tail[Target] \in Slots /\ \A q \in Queues : tail'[q] # Size
    <3>1. \A q \in Queues : tail[q] # Size
          BY <2>1 DEF TypeInv, TailInside
    <3>. QED  BY <1>1, <1>2, <2>1, <3>1
  <2>3. AtCommand'
        BY <1>1, <2>1, NextAccess
  <2>4. items' \in [Queues -> [Slots -> Frames]]
        BY <1>1, <2>1, <2>2 DEF TypeInv, ModesTypeOK
  <2>5. ModesTypeOK'
        BY <1>1, <2>1, <2>4 DEF TypeInv, ModesTypeOK
  <2>. QED  BY <2>2, <2>3, <2>5 DEF TypeInv, TailInside
<1>6. CASE EnqueueLoad
  <2>1. /\ pc = "load" /\ pc' = "store" /\ UNCHANGED <<tail, items, at, frame, failed, step>>
        /\ reg' = tail[Target]
        BY <1>6 DEF EnqueueLoad, Rings
  <2>2. tail[Target] \in Slots /\ \A q \in Queues : tail'[q] # Size
    <3>1. \A q \in Queues : tail[q] # Size
          BY <2>1 DEF TypeInv, TailInside
    <3>. QED  BY <1>1, <1>2, <2>1, <3>1
  <2>3. AtCommand'
        BY <1>1, <2>1, NextAccess
  <2>4. ModesTypeOK'
        BY <1>1, <2>1, <2>2 DEF TypeInv, ModesTypeOK
  <2>. QED  BY <2>2, <2>3, <2>4 DEF TypeInv, TailInside
<1>7. CASE EnqueueStore
  <2>1. /\ pc = "store" /\ pc' = "test" /\ UNCHANGED <<items, at, frame, failed, step>>
        /\ tail' = [tail EXCEPT ![Target] = reg + 1] /\ reg' = 0
        BY <1>7 DEF EnqueueStore
  <2>2. AtCommand' /\ Target' = Target
        BY <1>1, <2>1, NextAccess
  <2>3. tail' \in [Queues -> 0 .. Size] /\ 0 \in Slots
    <3>1. reg + 1 \in 0 .. Size /\ 0 \in Slots
          BY ModesBounds DEF TypeInv, ModesTypeOK, Slots
    <3>. QED  BY <1>1, <2>1, <3>1
  <2>4. TailInside'
    <3>1. \A q \in Queues : q # Target => tail'[q] # Size
          BY <1>1, <2>1 DEF TypeInv, TailInside
    <3>. QED  BY <2>1, <2>2, <3>1 DEF TailInside
  <2>5. ModesTypeOK'
        BY <1>1, <2>1, <2>3 DEF TypeInv, ModesTypeOK
  <2>. QED  BY <2>2, <2>4, <2>5 DEF TypeInv
<1>8. CASE EnqueueTest
  <2>1. pc = "test" /\ UNCHANGED <<tail, items, reg>>
        BY <1>8 DEF EnqueueTest, Rings
  <2>2. CASE tail[Target] >= Size
    <3>1. pc' = "zero" /\ UNCHANGED <<at, step, failed, frame>>
          BY <1>8, <2>2 DEF EnqueueTest
    <3>2. AtCommand' /\ Target' = Target
          BY <1>1, <3>1, NextAccess
    <3>3. TailInside'
          BY <2>1, <3>1, <3>2 DEF TypeInv, TailInside
    <3>4. ModesTypeOK'
          BY <1>1, <2>1, <3>1 DEF TypeInv, ModesTypeOK
    <3>. QED  BY <3>2, <3>3, <3>4 DEF TypeInv
  <2>3. CASE ~(tail[Target] >= Size)
    <3>1. Proceed(failed) /\ failed \in BOOLEAN
          BY <1>8, <2>3 DEF EnqueueTest, Succeed, TypeInv, ModesTypeOK
    <3>2. \A q \in Queues : tail'[q] # Size
          BY <1>1, <2>1, <2>3 DEF TypeInv, TailInside
    <3>. QED  BY <1>1, <1>3, <2>1, <3>1, <3>2
  <2>. QED  BY <2>2, <2>3
<1>9. CASE EnqueueZero
  <2>1. /\ pc = "zero" /\ UNCHANGED <<items, reg>> /\ tail' = [tail EXCEPT ![Target] = 0]
        /\ Proceed(failed) /\ failed \in BOOLEAN
        BY <1>9 DEF EnqueueZero, Succeed, TypeInv, ModesTypeOK
  <2>2. tail' \in [Queues -> 0 .. Size]
        BY <1>1, <2>1
  <2>3. \A q \in Queues : tail'[q] # Size
    <3>1. Size # 0
          BY ModesBounds
    <3>. QED  BY <1>1, <2>1, <3>1 DEF TypeInv, TailInside
  <2>. QED  BY <1>3, <2>1, <2>2, <2>3
<1>. QED  BY <1>4, <1>5, <1>6, <1>7, <1>8, <1>9 DEF Enqueue

LEMMA ArriveTypes ==
  ASSUME TypeInv, NEW b \in Buses, Arrive(b)
  PROVE  TypeInv'
<1> DEFINE f == Frame(b, "none")
           queues == IF callback[b] = "citm" THEN {Rx(b), Tx(Other(b))} ELSE {Rx(b)}
           room == {q \in queues : ~IsFull(q)}
<1>1. /\ items' = [q \in Queues |-> IF q \in room /\ tail[q] \in Slots
                                      THEN [items[q] EXCEPT ![tail[q]] = f] ELSE items[q]]
      /\ tail' = [q \in Queues |-> IF q \in room THEN Wrapped(tail[q] + 1) ELSE tail[q]]
      /\ raced' = raced \cup {q \in room : Enqueuing(q)}
      BY DEF Arrive, Deposit
<1>2. /\ frames' = frames + 1 /\ frames < MaxFrames /\ frames \in Nat /\ MaxFrames \in Nat
      /\ UNCHANGED <<Settings, head, at, Sending, reported, sent>>
      BY ModesBounds DEF Arrive, TypeInv, ModesTypeOK
<1>3. f \in Frames /\ queues \subseteq Queues
      BY NewFrame, QueueNames, OtherBus DEF TypeInv
<1>. HIDE DEF f, queues
<1>4. items' \in [Queues -> [Slots -> Frames]]
      BY <1>1, <1>3 DEF TypeInv, ModesTypeOK
<1>5. tail' \in [Queues -> 0 .. Size] /\ \A q \in Queues : tail'[q] = Size => tail[q] = Size
  <2>1. \A q \in Queues : tail[q] \in 0 .. Size /\ Wrapped(tail[q] + 1) \in Slots
        BY WrappedType DEF TypeInv, ModesTypeOK
  <2>2. \A i \in Slots : i \in 0 .. Size /\ i # Size
        BY ModesBounds DEF Slots
  <2>. QED  BY <1>1, <2>1, <2>2
<1>6. AtCommand' /\ TailInside'
  <2>1. AtCommand'
    <3>0. CASE pc = "idle"
          BY <1>2, <3>0 DEF AtCommand, TypeInv, Sending
    <3>1. CASE pc # "idle"
      <4>1. frame.n \in Nat
            BY DEF TypeInv, ModesTypeOK, Frames
      <4>2. mode' = mode /\ Route(mode)' = Route(mode)
            BY <1>2 DEF Settings, Route, Tx, Rx
      <4>. QED  BY <1>2, <3>1, <4>1, <4>2 DEF AtCommand, TypeInv, Sending
    <3>. QED  BY <3>0, <3>1
  <2>2. ASSUME NEW q \in Queues, tail'[q] = Size PROVE pc' \in {"test", "zero"} /\ q = Target'
    <3>1. pc \in {"test", "zero"} /\ q = Target
          BY <1>5, <2>2 DEF TypeInv, TailInside
    <3>2. Target' = Target
          BY <1>2 DEF Target, Route, Tx, Rx, Sending, Settings
    <3>. QED  BY <1>2, <3>1, <3>2 DEF Sending
  <2>. QED  BY <2>1, <2>2 DEF TailInside
<1>7. raced' \subseteq Queues /\ frames' \in 0 .. MaxFrames
      BY <1>1, <1>2, <1>3 DEF TypeInv, ModesTypeOK
<1>8. ModesTypeOK'
      BY <1>2, <1>4, <1>5, <1>7 DEF TypeInv, ModesTypeOK, Settings, Sending
<1>. QED  BY <1>6, <1>8 DEF TypeInv

LEMMA StepTypes == TypeInv /\ [ModesNext]_modesVars => TypeInv'
<1> SUFFICES ASSUME TypeInv, [ModesNext]_modesVars PROVE TypeInv'
    OBVIOUS
<1>1. CASE UNCHANGED modesVars
  <2>1. Target' = Target /\ Route(mode)' = Route(mode)
        BY <1>1 DEF modesVars, Target, Route, Tx, Rx
  <2>. QED  BY <1>1, <2>1 DEF modesVars, TypeInv, ModesTypeOK, AtCommand, TailInside
<1>. QED  BY <1>1, SendTypes, ReportTypes, CommandTypes, SendFrameTypes, EnqueueTypes,
             ArriveTypes
          DEF ModesNext, Loop

-----------------------------------------------------------------------------
(***************************************************************************)
(* The queue to a bus, for as long as no callback has filled it in the     *)
(* middle of SendFrame's own enqueue: it holds no more than fits, and what *)
(* SendFrame has seen and done of it is still so.                          *)
(***************************************************************************)
Ring(q) ==
  /\ Held(q) <= Size - 1
  /\ q = Target =>
       /\ pc \in {"write", "load", "store"} => Held(q) <= Size - 2
       /\ pc \in {"load", "store"} => items[q][tail[q]] = frame
       /\ pc = "store" => reg = tail[q]
       /\ pc = "zero" => tail[q] = Size

RingInv == \A b \in Buses : Tx(b) \notin raced => Ring(Tx(b))

\* SendFrame's frame enters the queue with the increment of tail, that of a callback at once.
Joins(q) == EnqueueStore /\ q = Target
Comes(q, c) == Arrive(c) /\ callback[c] = "citm" /\ q = Tx(Other(c))

\* What goes to a bus stays, and a frame may be added at its end.
Grows(b) ==
  \/ On(b)' = On(b) /\ ~Joins(Tx(b))
  \/ Joins(Tx(b)) /\ On(b)' = Append(On(b), frame)
  \/ \E c \in Buses : Comes(Tx(b), c) /\ On(b)' = Append(On(b), Frame(c, "none"))

\* The types of a queue, and of what goes to a bus.
LEMMA RingTypes ==
  ASSUME TypeInv, NEW b \in Buses
  PROVE  LET q == Tx(b) IN
         /\ q \in Queues /\ head[q] \in Slots /\ tail[q] \in 0 .. Size
         /\ items[q] \in [Slots -> Frames]
         /\ pc \notin {"test", "zero"} \/ q # Target => tail[q] \in Slots
         /\ Waiting(q) \in Seq(Frames) /\ sent[b] \in Seq(Frames) /\ On(b) \in Seq(Frames)
         /\ Size \in Nat \ {0}
<1> DEFINE q == Tx(b)
<1>1. /\ q \in Queues /\ head[q] \in Slots /\ tail[q] \in 0 .. Size
      /\ items[q] \in [Slots -> Frames] /\ sent[b] \in Seq(Frames)
      BY QueueNames DEF TypeInv, ModesTypeOK
<1>2. Size \in Nat \ {0}
      BY ModesBounds
<1>3. Waiting(q) \in Seq(Frames)
      BY <1>1, WaitingIsView, ViewProperties
<1>4. On(b) \in Seq(Frames)
      BY <1>1, <1>3, ConcatProperties DEF On
<1>5. pc \notin {"test", "zero"} \/ q # Target => tail[q] \in Slots
  <2>1. pc \notin {"test", "zero"} \/ q # Target => tail[q] # Size
        BY <1>1 DEF TypeInv, TailInside
  <2>. QED  BY <1>1, <1>2, <2>1 DEF Slots
<1>. QED  BY <1>1, <1>2, <1>3, <1>4, <1>5

\* A step that leaves a queue alone.
LEMMA SameQueue ==
  ASSUME TypeInv, NEW b \in Buses,
         head'[Tx(b)] = head[Tx(b)], tail'[Tx(b)] = tail[Tx(b)],
         items'[Tx(b)] = items[Tx(b)], sent'[b] = sent[b]
  PROVE  /\ Waiting(Tx(b))' = Waiting(Tx(b)) /\ Held(Tx(b))' = Held(Tx(b))
         /\ On(b)' = On(b)
<1>1. Tx(b)' = Tx(b)
      BY DEF Tx
<1>2. Held(Tx(b))' = Held(Tx(b))
      BY <1>1 DEF Held
<1>3. Waiting(Tx(b))' = Waiting(Tx(b))
      BY <1>1, <1>2 DEF Waiting, Slot
<1>. QED  BY <1>1, <1>2, <1>3 DEF On

LEMMA SendRing ==
  ASSUME TypeInv, NEW c \in Buses, Send(c), NEW b \in Buses, Ring(Tx(b))
  PROVE  Ring(Tx(b))' /\ On(b)' = On(b)
<1> DEFINE q == Tx(b)
<1>1. /\ pc = "idle" /\ pc' = "idle" /\ UNCHANGED <<tail, items>>
      /\ sent' = [sent EXCEPT ![c] = Append(@, items[Tx(c)][head[Tx(c)]])]
      /\ head' = [head EXCEPT ![Tx(c)] = Wrapped(@ + 1)] /\ head[Tx(c)] # tail[Tx(c)]
      BY DEF Send, AfterSend, Place, TypeInv, AtCommand, Sending, IsEmpty
<1>2. /\ q \in Queues /\ head[q] \in Slots /\ tail[q] \in Slots /\ items[q] \in [Slots -> Frames]
      /\ Waiting(q) \in Seq(Frames) /\ sent[b] \in Seq(Frames) /\ Size \in Nat \ {0}
      BY <1>1, RingTypes
<1>3. CASE c = b
  <2>1. /\ head'[q] = Wrapped(head[q] + 1) /\ sent'[b] = Append(sent[b], items[q][head[q]])
        /\ head[q] # tail[q]
        BY <1>1, <1>2, <1>3 DEF TypeInv, ModesTypeOK
  <2>2. /\ View(head[q], tail[q], items[q]) # <<>>
        /\ Head(View(head[q], tail[q], items[q])) = items[q][head[q]]
        /\ View(Wrapped(head[q] + 1), tail[q], items[q])
             = Tail(View(head[q], tail[q], items[q]))
        /\ Wrapped(head[q] + 1) \in Slots
        BY <1>2, <2>1, TakeHead
  <2>3. /\ Waiting(q) = View(head[q], tail[q], items[q])
        /\ Waiting(q)' = View(head'[q], tail[q], items[q])
        /\ Held(q)' = Count(head'[q], tail[q])
        BY <1>1, <1>2, WaitingIsView
           DEF Waiting, View, Held, Slot, Count, Around, Tx
  <2>4. On(b)' = Append(sent[b], Head(Waiting(q))) \o Tail(Waiting(q)) /\ Waiting(q) # <<>>
        BY <2>1, <2>2, <2>3 DEF On, Tx
  <2>5. On(b)' = On(b)
        BY <1>2, <2>4, MoveHead DEF On
  <2>6. Held(q)' <= Size - 1
        BY <1>2, <2>1, <2>2, <2>3, FullAndEmpty
  <2>7. Ring(Tx(b))'
        BY <1>1, <2>6 DEF Ring, Tx
  <2>. QED  BY <2>5, <2>7
<1>4. CASE c # b
  <2>1. Tx(b) # Tx(c)
        BY <1>4, QueueNames
  <2>2. head'[q] = head[q] /\ sent'[b] = sent[b] /\ tail'[q] = tail[q] /\ items'[q] = items[q]
        BY <1>1, <1>2, <1>4, <2>1 DEF TypeInv, ModesTypeOK
  <2>3. Held(q)' = Held(q) /\ On(b)' = On(b)
        BY <2>2, SameQueue
  <2>4. Ring(Tx(b))'
        BY <1>1, <2>3 DEF Ring, Tx
  <2>. QED  BY <2>3, <2>4
<1>. QED  BY <1>3, <1>4

\* The other steps of the loop outside of SendFrame, and its beginning.
LEMMA RestRing ==
  ASSUME TypeInv, NEW b \in Buses, Ring(Tx(b)), pc = "idle", pc' \in {"idle", "check"},
         head'[Tx(b)] = head[Tx(b)], UNCHANGED <<tail, items, sent>>
  PROVE  Ring(Tx(b))' /\ On(b)' = On(b)
<1>1. Held(Tx(b))' = Held(Tx(b)) /\ On(b)' = On(b)
      BY SameQueue
<1>2. Tx(b)' = Tx(b)
      BY DEF Tx
<1>. QED  BY <1>1, <1>2 DEF Ring

LEMMA EnqueueRing ==
  ASSUME TypeInv, Enqueue, NEW b \in Buses, Ring(Tx(b))
  PROVE  /\ Ring(Tx(b))'
         /\ \/ On(b)' = On(b) /\ ~Joins(Tx(b))
            \/ Joins(Tx(b)) /\ On(b)' = Append(On(b), frame)
<1> DEFINE q == Tx(b)
<1>1. /\ q \in Queues /\ head[q] \in Slots /\ tail[q] \in 0 .. Size
      /\ items[q] \in [Slots -> Frames] /\ (tail[q] = Size \/ tail[q] \in Slots)
      /\ pc \notin {"test", "zero"} \/ q # Target => tail[q] \in Slots
      /\ Waiting(q) \in Seq(Frames) /\ sent[b] \in Seq(Frames) /\ Size \in Nat \ {0}
      /\ pc # "idle" /\ Target \in Queues
  <2>1. pc # "idle"
        BY DEF Enqueue, EnqueueCheck, EnqueueWrite, EnqueueLoad, EnqueueStore, EnqueueTest,
               EnqueueZero
  <2>2. Target \in Queues
        BY <2>1, TargetType
  <2>3. tail[q] = Size \/ tail[q] \in Slots
        BY RingTypes DEF Slots
  <2>. QED  BY <2>1, <2>2, <2>3, RingTypes
<1>2. /\ Waiting(q) = View(head[q], tail[q], items[q]) /\ Held(q) = Count(head[q], tail[q])
      /\ Waiting(q)' = View(head'[q], tail'[q], items'[q])
      /\ Held(q)' = Count(head'[q], tail'[q])
      BY WaitingIsView, <1>1 DEF Waiting, View, Held, Slot, Count, Around, Tx
<1>3. /\ head' = head /\ sent' = sent /\ mode' = mode /\ frames' = frames /\ q' = q
      BY DEF Enqueue, EnqueueCheck, EnqueueWrite, EnqueueLoad, EnqueueStore, EnqueueTest,
             EnqueueZero, Rings, Settings, Tx
<1>4. Held(q) <= Size - 1
      BY DEF Ring
\* Another queue, or none of the accesses that matter.
<1>5. ASSUME tail'[q] = tail[q], items'[q] = items[q], ~Joins(q),
             q = Target' => pc' \in {"check", "idle", "test"}
      PROVE  /\ Ring(Tx(b))'
             /\ \/ On(b)' = On(b) /\ ~Joins(Tx(b))
                \/ Joins(Tx(b)) /\ On(b)' = Append(On(b), frame)
  <2>1. On(b)' = On(b) /\ Held(q)' = Held(q)
        BY <1>3, <1>5, SameQueue
  <2>2. Ring(q)'
        BY <1>3, <1>4, <1>5, <2>1 DEF Ring
  <2>. QED  BY <1>5, <2>1, <2>2
<1>6. ASSUME NEW fails, Proceed(fails) PROVE pc' \in {"check", "idle"}
      BY <1>6 DEF Proceed
<1>7. CASE EnqueueCheck
  <2>1. ~Joins(q) /\ UNCHANGED <<tail, items>> /\ pc = "check"
        BY <1>7 DEF EnqueueCheck, Rings, Joins, EnqueueStore
  <2>2. CASE IsFull(Target)
    <3>1. pc' \in {"check", "idle"}
          BY <1>6, <1>7, <2>2 DEF EnqueueCheck
    <3>. QED  BY <1>5, <2>1, <3>1
  <2>3. CASE ~IsFull(Target)
    <3>1. pc' = "write" /\ UNCHANGED <<at, step, failed, frame>>
          BY <1>7, <2>3 DEF EnqueueCheck
    <3>2. Target' = Target
          BY <1>1, <1>3, <3>1, NextAccess
    <3>3. CASE q = Target
      <4>1. tail[q] \in Slots
            BY <1>1, <2>1
      <4>2. Held(q) # Size - 1 /\ Held(q) \in Int
            BY <1>1, <1>2, <2>3, <3>3, <4>1, FullAndEmpty, ViewProperties DEF IsFull
      <4>3. On(b)' = On(b) /\ Held(q)' = Held(q)
            BY <1>3, <2>1, SameQueue
      <4>4. Ring(q)'
            BY <1>1, <1>3, <1>4, <3>1, <4>2, <4>3 DEF Ring
      <4>. QED  BY <2>1, <4>3, <4>4
    <3>4. CASE q # Target
          BY <1>5, <2>1, <3>2, <3>4
    <3>. QED  BY <3>3, <3>4
  <2>. QED  BY <2>2, <2>3
<1>8. CASE EnqueueWrite
  <2>1. /\ ~Joins(q) /\ pc = "write" /\ pc' = "load"
        /\ UNCHANGED <<tail, at, step, failed, frame>>
        /\ items' = [items EXCEPT ![Target][tail[Target]] = frame]
        BY <1>8 DEF EnqueueWrite, Joins, EnqueueStore
  <2>2. Target' = Target
        BY <1>1, <1>3, <2>1, NextAccess
  <2>3. CASE q = Target
    <3>1. tail[q] \in Slots /\ frame \in Frames
          BY <1>1, <2>1 DEF TypeInv, ModesTypeOK
    <3>2. items'[q] = [items[q] EXCEPT ![tail[q]] = frame]
          BY <1>1, <2>1, <2>3 DEF TypeInv, ModesTypeOK
    <3>3. Waiting(q)' = Waiting(q) /\ Held(q)' = Held(q)
          BY <1>1, <1>2, <1>3, <2>1, <3>1, <3>2, WriteAtTail
    <3>4. On(b)' = On(b)
          BY <1>3, <3>3 DEF On
    <3>5. Held(q) <= Size - 2
          BY <2>1, <2>3 DEF Ring
    <3>6. items'[q][tail'[q]] = frame'
          BY <1>1, <2>1, <3>1, <3>2
    <3>7. Ring(q)'
          BY <1>3, <1>4, <2>1, <3>3, <3>5, <3>6 DEF Ring
    <3>. QED  BY <2>1, <3>4, <3>7
  <2>4. CASE q # Target
    <3>1. items'[q] = items[q]
          BY <1>1, <2>1, <2>4 DEF TypeInv, ModesTypeOK
    <3>. QED  BY <1>5, <2>1, <2>2, <2>4, <3>1
  <2>. QED  BY <2>3, <2>4
<1>9. CASE EnqueueLoad
  <2>1. /\ ~Joins(q) /\ pc = "load" /\ pc' = "store" /\ reg' = tail[Target]
        /\ UNCHANGED <<tail, items, at, step, failed, frame>>
        BY <1>9 DEF EnqueueLoad, Rings, Joins, EnqueueStore
  <2>2. Target' = Target
        BY <1>1, <1>3, <2>1, NextAccess
  <2>3. CASE q = Target
    <3>1. On(b)' = On(b) /\ Held(q)' = Held(q)
          BY <1>3, <2>1, SameQueue
    <3>2. Held(q) <= Size - 2 /\ items[q][tail[q]] = frame
          BY <2>1, <2>3 DEF Ring
    <3>3. Ring(q)'
          BY <1>3, <1>4, <2>1, <2>3, <3>1, <3>2 DEF Ring
    <3>. QED  BY <2>1, <3>1, <3>3
  <2>4. CASE q # Target
        BY <1>5, <2>1, <2>2, <2>4
  <2>. QED  BY <2>3, <2>4
<1>10. CASE EnqueueStore
  <2>1. /\ pc = "store" /\ pc' = "test" /\ UNCHANGED <<items, at, step, failed, frame>>
        /\ tail' = [tail EXCEPT ![Target] = reg + 1]
        BY <1>10 DEF EnqueueStore
  <2>2. CASE q = Target
    <3>1. Held(q) <= Size - 2 /\ items[q][tail[q]] = frame /\ reg = tail[q]
          BY <2>1, <2>2 DEF Ring
    <3>2. tail[q] \in Slots /\ tail'[q] = tail[q] + 1
          BY <1>1, <2>1, <2>2, <3>1 DEF TypeInv, ModesTypeOK
    <3>3. Waiting(q)' = Append(Waiting(q), frame) /\ Held(q)' = Held(q) + 1
          BY <1>1, <1>2, <1>3, <2>1, <3>1, <3>2, MoveTail
    <3>4. On(b)' = Append(On(b), frame)
      <4>1. On(b)' = sent[b] \o Append(Waiting(q), frame) /\ frame \in Frames
            BY <1>3, <3>3 DEF On, TypeInv, ModesTypeOK
      <4>. QED  BY <1>1, <4>1, AppendAfter DEF On
    <3>5. Held(q)' <= Size - 1
      <4>1. Held(q) \in Int
            BY <1>1, <1>2, ViewProperties
      <4>. QED  BY <1>1, <3>1, <3>3, <4>1
    <3>6. Ring(q)'
          BY <1>3, <2>1, <3>5 DEF Ring
    <3>. QED  BY <1>10, <2>2, <3>4, <3>6 DEF Joins
  <2>3. CASE q # Target
    <3>1. tail'[q] = tail[q]
          BY <1>1, <2>1, <2>3 DEF TypeInv, ModesTypeOK
    <3>. QED  BY <1>5, <2>1, <2>3, <3>1 DEF Joins
  <2>. QED  BY <2>2, <2>3
<1>11. CASE EnqueueTest
  <2>1. ~Joins(q) /\ UNCHANGED <<tail, items>> /\ pc = "test"
        BY <1>11 DEF EnqueueTest, Rings, Joins, EnqueueStore
  <2>2. CASE tail[Target] >= Size
    <3>1. pc' = "zero" /\ UNCHANGED <<at, step, failed, frame>>
          BY <1>11, <2>2 DEF EnqueueTest
    <3>2. Target' = Target
          BY <1>1, <1>3, <3>1, NextAccess
    <3>3. CASE q = Target
      <4>1. tail[q] = Size
            BY <1>1, <2>2, <3>3
      <4>2. On(b)' = On(b) /\ Held(q)' = Held(q)
            BY <1>3, <2>1, SameQueue
      <4>3. Ring(q)'
            BY <1>3, <1>4, <2>1, <3>1, <4>1, <4>2 DEF Ring
      <4>. QED  BY <2>1, <4>2, <4>3
    <3>4. CASE q # Target
          BY <1>5, <2>1, <3>2, <3>4
    <3>. QED  BY <3>3, <3>4
  <2>3. CASE ~(tail[Target] >= Size)
    <3>1. pc' \in {"check", "idle"}
          BY <1>6, <1>11, <2>3 DEF EnqueueTest, Succeed
    <3>. QED  BY <1>5, <2>1, <3>1
  <2>. QED  BY <2>2, <2>3
<1>12. CASE EnqueueZero
  <2>1. /\ ~Joins(q) /\ items' = items /\ pc = "zero" /\ tail' = [tail EXCEPT ![Target] = 0]
        /\ pc' \in {"check", "idle"}
        BY <1>6, <1>12 DEF EnqueueZero, Succeed, Joins, EnqueueStore
  <2>2. CASE q = Target
    <3>1. tail[q] = Size /\ tail'[q] = 0
          BY <1>1, <2>1, <2>2 DEF Ring, TypeInv, ModesTypeOK
    <3>2. head[q] # 0
      <4>1. head[q] \in Nat
            BY <1>1 DEF Slots
      <4>. QED  BY <1>1, <1>2, <1>4, <3>1, <4>1 DEF Count
    <3>3. Waiting(q)' = Waiting(q) /\ Held(q)' = Held(q)
          BY <1>1, <1>2, <1>3, <2>1, <3>1, <3>2, ZeroTail
    <3>4. On(b)' = On(b)
          BY <1>3, <3>3 DEF On
    <3>5. Ring(q)'
          BY <1>3, <1>4, <2>1, <3>3 DEF Ring
    <3>. QED  BY <2>1, <3>4, <3>5
  <2>3. CASE q # Target
    <3>1. tail'[q] = tail[q]
          BY <1>1, <2>1, <2>3 DEF TypeInv, ModesTypeOK
    <3>. QED  BY <1>5, <2>1, <3>1
  <2>. QED  BY <2>2, <2>3
<1>. QED  BY <1>7, <1>8, <1>9, <1>10, <1>11, <1>12 DEF Enqueue

LEMMA ArriveRing ==
  ASSUME TypeInv, NEW c \in Buses, Arrive(c), NEW b \in Buses, Ring(Tx(b)), Tx(b) \notin raced'
  PROVE  /\ Ring(Tx(b))'
         /\ \/ On(b)' = On(b)
            \/ Comes(Tx(b), c) /\ On(b)' = Append(On(b), Frame(c, "none"))
<1> DEFINE q == Tx(b)
           f == Frame(c, "none")
           queues == IF callback[c] = "citm" THEN {Rx(c), Tx(Other(c))} ELSE {Rx(c)}
           room == {r \in queues : ~IsFull(r)}
<1>1. /\ items' = [r \in Queues |-> IF r \in room /\ tail[r] \in Slots
                                      THEN [items[r] EXCEPT ![tail[r]] = f] ELSE items[r]]
      /\ tail' = [r \in Queues |-> IF r \in room THEN Wrapped(tail[r] + 1) ELSE tail[r]]
      /\ raced' = raced \cup {r \in room : Enqueuing(r)}
      BY DEF Arrive, Deposit
<1>2. /\ UNCHANGED <<mode, head, at, pc, frame, step, reg, sent>> /\ q' = q
      BY DEF Arrive, Settings, Sending, Tx
<1>3. /\ q \in Queues /\ head[q] \in Slots /\ tail[q] \in 0 .. Size
      /\ items[q] \in [Slots -> Frames]
      /\ pc \notin {"test", "zero"} \/ q # Target => tail[q] \in Slots
      /\ Waiting(q) \in Seq(Frames) /\ sent[b] \in Seq(Frames) /\ Size \in Nat \ {0}
      BY RingTypes
<1>4. f \in Frames /\ (q \in queues => callback[c] = "citm" /\ q = Tx(Other(c)))
      BY NewFrame, QueueNames DEF TypeInv
<1>5. Target' = Target
      BY <1>2 DEF Target, Route, Tx, Rx
<1>. HIDE DEF f, queues
<1>6. CASE q \in room
  <2>1. ~Enqueuing(q) /\ ~IsFull(q)
        BY <1>1, <1>6
  <2>2. tail[q] \in Slots
        BY <1>3, <2>1 DEF Enqueuing
  <2>3. /\ items'[q] = [items[q] EXCEPT ![tail[q]] = f]
        /\ tail'[q] = Wrapped(tail[q] + 1) /\ head'[q] = head[q]
        BY <1>1, <1>2, <1>3, <1>6, <2>2
  <2>4. /\ Waiting(q) = View(head[q], tail[q], items[q]) /\ Held(q) = Count(head[q], tail[q])
        /\ Waiting(q)' = View(head[q], tail'[q], items'[q])
        /\ Held(q)' = Count(head[q], tail'[q])
        BY WaitingIsView, <1>2, <1>3 DEF Waiting, View, Held, Slot, Count, Around, Tx
  <2>5. Held(q) <= Size - 2 /\ Held(q) \in Int
    <3>1. Held(q) # Size - 1 /\ Held(q) <= Size - 1
          BY <1>3, <2>1, <2>2, <2>4, FullAndEmpty DEF IsFull
    <3>2. Held(q) \in Int
          BY <1>3, <2>4, ViewProperties
    <3>. QED  BY <1>3, <3>1, <3>2
  <2>6. items'[q] \in [Slots -> Frames] /\ items'[q][tail[q]] = f
        BY <1>3, <1>4, <2>2, <2>3
  <2>7. View(head[q], tail[q], items'[q]) = Waiting(q)
        BY <1>3, <1>4, <2>2, <2>3, <2>4, WriteAtTail
  <2>8. Waiting(q)' = Append(Waiting(q), f) /\ Held(q)' = Held(q) + 1
    <3>1. tail'[q] \in {tail[q] + 1, Wrapped(tail[q] + 1)} /\ Count(head[q], tail[q]) <= Size - 2
          BY <2>3, <2>4, <2>5
    <3>2. /\ View(head[q], tail'[q], items'[q])
               = Append(View(head[q], tail[q], items'[q]), items'[q][tail[q]])
          /\ Count(head[q], tail'[q]) = Count(head[q], tail[q]) + 1
          BY <1>3, <2>2, <2>6, <3>1, MoveTail
    <3>. QED  BY <2>4, <2>6, <2>7, <3>2
  <2>9. On(b)' = Append(On(b), f)
    <3>1. On(b)' = sent[b] \o Append(Waiting(q), f)
          BY <1>2, <2>8 DEF On
    <3>. QED  BY <1>3, <1>4, <3>1, AppendAfter DEF On
  <2>10. Held(q)' <= Size - 1
         BY <1>3, <2>5, <2>8
  <2>11. Ring(q)'
         BY <1>2, <1>5, <2>1, <2>10 DEF Ring, Enqueuing
  <2>12. Comes(q, c)
         BY <1>4, <1>6 DEF Comes
  <2>. QED  BY <2>9, <2>11, <2>12 DEF f
<1>7. CASE q \notin room
  <2>1. items'[q] = items[q] /\ tail'[q] = tail[q] /\ head'[q] = head[q] /\ sent'[b] = sent[b]
        BY <1>1, <1>2, <1>3, <1>7
  <2>2. Held(q)' = Held(q) /\ On(b)' = On(b)
        BY <2>1, SameQueue
  <2>3. Ring(q)'
        BY <1>2, <1>5, <2>1, <2>2 DEF Ring
  <2>. QED  BY <2>2, <2>3
<1>. QED  BY <1>6, <1>7

\* Every step.
LEMMA StepRing ==
  ASSUME TypeInv, RingInv, [ModesNext]_modesVars, NEW b \in Buses, Tx(b) \notin raced'
  PROVE  Tx(b) \notin raced /\ Ring(Tx(b))' /\ Grows(b)
<1>1. raced \subseteq raced'
      BY DEF ModesNext, Loop, Send, SendLater, Report, Nothing, CanMode, CanBaud, SendFrame,
             Enqueue, EnqueueCheck, EnqueueWrite, EnqueueLoad, EnqueueStore, EnqueueTest,
             EnqueueZero, Arrive, Deposit, Rings, modesVars
<1>2. Tx(b) \notin raced /\ Ring(Tx(b)) /\ Tx(b) \in Queues
      BY <1>1, QueueNames DEF RingInv
<1>3. CASE Enqueue
      BY <1>2, <1>3, EnqueueRing DEF Grows
<1>4. ASSUME pc' # "test" PROVE ~Joins(Tx(b))
      BY <1>4 DEF Joins, EnqueueStore
<1>5. ASSUME NEW c \in Buses, Send(c) PROVE Ring(Tx(b))' /\ Grows(b)
  <2>1. pc' # "test"
        BY <1>5 DEF Send, TypeInv, AtCommand, Place, Sending
  <2>. QED  BY <1>2, <1>4, <1>5, <2>1, SendRing DEF Grows
<1>6. ASSUME NEW c \in Buses, SendLater(c) \/ Report(c) PROVE Ring(Tx(b))' /\ Grows(b)
  <2>1. pc = "idle" /\ pc' = "idle" /\ UNCHANGED <<tail, items, sent>>
        BY <1>6 DEF SendLater, Report, TypeInv, AtCommand, Place, Sending, Rings
  <2>2. head'[Tx(b)] = head[Tx(b)]
        BY <1>2, <1>6, QueueNames DEF SendLater, Report, Rings, TypeInv, ModesTypeOK
  <2>. QED  BY <1>2, <1>4, <2>1, <2>2, RestRing DEF Grows
<1>7. CASE Nothing \/ CanBaud \/ SendFrame \/ \E m \in Modes : CanMode(m)
  <2>1. /\ pc = "idle" /\ pc' \in {"idle", "check"} /\ head' = head
        /\ UNCHANGED <<tail, items, sent>>
        BY <1>7 DEF Nothing, CanBaud, SendFrame, CanMode, Command, Sending, Rings
  <2>. QED  BY <1>2, <1>4, <2>1, RestRing DEF Grows
<1>8. ASSUME NEW c \in Buses, Arrive(c) PROVE Ring(Tx(b))' /\ Grows(b)
  <2>1. ~Joins(Tx(b))
        BY <1>8 DEF Arrive, Joins, EnqueueStore, Sending
  <2>. QED  BY <1>2, <1>8, <2>1, ArriveRing DEF Grows
<1>9. CASE UNCHANGED modesVars
  <2>1. Ring(Tx(b))' = Ring(Tx(b)) /\ On(b)' = On(b)
        BY <1>9 DEF modesVars, Ring, Held, On, Waiting, Slot, Target, Route, Tx, Rx
  <2>2. ~Joins(Tx(b))
        BY <1>9 DEF modesVars, Joins, EnqueueStore
  <2>. QED  BY <1>2, <2>1, <2>2 DEF Grows
<1>. QED  BY <1>2, <1>3, <1>5, <1>6, <1>7, <1>8, <1>9 DEF ModesNext, Loop

-----------------------------------------------------------------------------
(***************************************************************************)
(* Order.  SendFrame's frame is ahead of a bus until it has joined what    *)
(* goes to it, and is later than what the host has asked for before.       *)
(***************************************************************************)
Ahead(b) ==
  /\ pc # "idle"
  /\ \E i \in step .. Len(Route(mode)) :
       Route(mode)[i] = Tx(b) /\ (i = step => pc \in {"check", "write", "load", "store"})

Ordered(s) ==
  \A i, j \in 1 .. Len(s) : i < j /\ s[i].from = s[j].from => s[i].n < s[j].n
Elsewhere(s, b, k) == \A f \in Members(s) : f.from \in {Other(b), "host"} /\ f.n <= k
Older(s, f) == \A g \in Members(s) : g.from = f.from => g.n < f.n

ForwardInv ==
  \A b \in Buses : Tx(b) \notin raced =>
    Ordered(On(b)) /\ Elsewhere(On(b), b, frames) /\ (Ahead(b) => Older(On(b), frame))

LEMMA OrderedAppend ==
  ASSUME NEW s \in Seq(Frames), NEW f \in Frames, Ordered(s), Older(s, f)
  PROVE  Ordered(Append(s, f))
<1> DEFINE p == Append(s, f)
<1>1. /\ Len(p) = Len(s) + 1 /\ p[Len(s) + 1] = f /\ Len(s) \in Nat
      /\ \A i \in 1 .. Len(s) : p[i] = s[i]
      BY AppendProperties, LenProperties
<1>2. \A i \in 1 .. Len(p) : i \in 1 .. Len(s) \/ i = Len(s) + 1
      BY <1>1
<1>3. \A i \in 1 .. Len(s) : s[i].from = f.from => s[i].n < f.n
      BY DEF Older, Members
<1>. HIDE DEF p
<1>4. ASSUME NEW i \in 1 .. Len(p), NEW j \in 1 .. Len(p), i < j, p[i].from = p[j].from
      PROVE  p[i].n < p[j].n
  <2>1. i \in 1 .. Len(s)
        BY <1>1, <1>2, <1>4
  <2>2. CASE j \in 1 .. Len(s)
        BY <1>1, <1>4, <2>1, <2>2 DEF Ordered
  <2>3. CASE j = Len(s) + 1
        BY <1>1, <1>3, <1>4, <2>1, <2>3
  <2>. QED  BY <1>2, <2>2, <2>3
<1>5. Ordered(p)
      BY <1>4 DEF Ordered
<1>. QED  BY <1>5 DEF p

\* A step leaves SendFrame behind the bus, or its frame is a new one.
LEMMA StepAhead ==
  ASSUME TypeInv, [ModesNext]_modesVars, NEW b \in Buses, Ahead(b)'
  PROVE  \/ Ahead(b) /\ frame' = frame /\ ~Joins(Tx(b))
         \/ SendFrame /\ mode # "invalid"
<1>1. PICK i \in step' .. Len(Route(mode))' :
        /\ Route(mode)'[i] = Tx(b)
        /\ i = step' => pc' \in {"check", "write", "load", "store"}
      BY DEF Ahead, Tx
<1>2. pc' # "idle"
      BY DEF Ahead
<1>3. ASSUME NEW r, r = Route(mode), Route(mode)' = r, step \in Nat, step' \in Nat, step <= step',
             Len(r) \in Nat, pc # "idle", frame' = frame,
             step' = step => pc \in {"check", "write", "load", "store"} \/ i # step,
             pc = "store" => pc' # "test" \/ i # step
      PROVE  i \in step .. Len(r) /\ Ahead(b) /\ frame' = frame
  <2>1. i \in step .. Len(r) /\ r[i] = Tx(b)
        BY <1>1, <1>3
  <2>2. i = step => pc \in {"check", "write", "load", "store"}
        BY <1>1, <1>3
  <2>. QED  BY <1>3, <2>1, <2>2 DEF Ahead
<1>4. /\ pc # "idle" => /\ step \in 1 .. Len(Route(mode)) /\ Len(Route(mode)) \in Nat
                        /\ step \in Nat
      /\ mode \in Modes
  <2>1. pc # "idle" => step \in 1 .. Len(Route(mode)) /\ Len(Route(mode)) \in 1 .. 4
        BY TargetType
  <2>. QED  BY <2>1 DEF TypeInv, ModesTypeOK
<1>5. CASE SendFrame
      BY <1>2, <1>5 DEF SendFrame, Command
<1>6. CASE Enqueue
  <2>1. pc # "idle" /\ mode' = mode
        BY <1>6 DEF Enqueue, EnqueueCheck, EnqueueWrite, EnqueueLoad, EnqueueStore, EnqueueTest,
                    EnqueueZero, Settings
  <2>2. Route(mode)' = Route(mode) /\ Tx(b)' = Tx(b)
        BY <2>1 DEF Route, Tx, Rx
  <2>3. \/ /\ step' = step /\ frame' = frame
           /\ \/ pc = "check" /\ pc' = "write"
              \/ pc = "write" /\ pc' = "load"
              \/ pc = "load" /\ pc' = "store"
              \/ EnqueueStore /\ pc = "store" /\ pc' = "test"
              \/ pc = "test" /\ pc' = "zero"
        \/ step' = step + 1 /\ frame' = frame /\ pc' = "check" /\ pc # "store"
    <3>1. ASSUME NEW fails, Proceed(fails)
          PROVE  step' = step + 1 /\ frame' = frame /\ pc' = "check"
          BY <1>2, <3>1 DEF Proceed
    <3>2. CASE EnqueueCheck
          BY <3>1, <3>2 DEF EnqueueCheck
    <3>3. CASE EnqueueTest
          BY <3>1, <3>3 DEF EnqueueTest, Succeed
    <3>4. CASE EnqueueZero
          BY <3>1, <3>4 DEF EnqueueZero, Succeed
    <3>5. CASE EnqueueWrite \/ EnqueueLoad \/ EnqueueStore
          BY <3>5 DEF EnqueueWrite, EnqueueLoad, EnqueueStore
    <3>. QED  BY <1>6, <3>2, <3>3, <3>4, <3>5 DEF Enqueue
  <2>4. ASSUME Joins(Tx(b)) PROVE FALSE
    <3>1. Target = Tx(b) /\ step' = step /\ pc' = "test"
          BY <2>4 DEF Joins, EnqueueStore
    <3>2. i # step /\ i \in 1 .. Len(Route(mode)) /\ step \in 1 .. Len(Route(mode))
          BY <1>1, <1>4, <2>1, <2>2, <3>1
    <3>3. Route(mode)[i] = Route(mode)[step]
          BY <1>1, <2>2, <3>1 DEF Target
    <3>. QED  BY <1>4, <3>2, <3>3, RouteProperties
  <2>5. Ahead(b) /\ frame' = frame
    <3>1. step \in Nat /\ step' \in Nat /\ step <= step' /\ frame' = frame
          BY <1>4, <2>1, <2>3
    <3>2. step' = step => pc \in {"check", "write", "load", "store"} \/ i # step
          BY <1>1, <2>3
    <3>3. pc = "store" => pc' # "test" \/ i # step
          BY <1>1, <2>3
    <3>. QED  BY <1>3, <1>4, <2>1, <2>2, <3>1, <3>2, <3>3
  <2>. QED  BY <2>4, <2>5
<1>7. CASE UNCHANGED <<mode, Sending>>
  <2>1. Ahead(b)' = Ahead(b)
        BY <1>7 DEF Ahead, Sending, Route, Tx, Rx
  <2>2. ~Joins(Tx(b))
        BY <1>7 DEF Joins, EnqueueStore, Sending
  <2>. QED  BY <1>7, <2>1, <2>2 DEF Sending
<1>8. ASSUME NEW m \in Modes, CanMode(m) PROVE FALSE
      BY <1>2, <1>8 DEF CanMode, Command, Sending
<1>. QED
     BY <1>5, <1>6, <1>7, <1>8
     DEF ModesNext, Loop, Send, SendLater, Report, Nothing, CanBaud, Arrive, Settings, modesVars,
         Sending

LEMMA StepFrames ==
  ASSUME TypeInv, [ModesNext]_modesVars
  PROVE  frames' \in {frames, frames + 1} /\ frames \in Nat
<1>1. frames \in Nat
      BY ModesBounds DEF TypeInv, ModesTypeOK
<1>. QED  BY <1>1 DEF ModesNext, Loop, Send, SendLater, Report, Nothing, CanMode, CanBaud,
             SendFrame, Enqueue, EnqueueCheck, EnqueueWrite, EnqueueLoad, EnqueueStore,
             EnqueueTest, EnqueueZero, Arrive, modesVars

LEMMA FrameNumbers == \A f \in Frames : f.n \in Nat
  BY DEF Frames

LEMMA MembersType ==
  ASSUME NEW s \in Seq(Frames)
  PROVE  Members(s) \subseteq Frames
  BY ElementOfSeq DEF Members

LEMMA StepForward ==
  ASSUME TypeInv, RingInv, ForwardInv, [ModesNext]_modesVars
  PROVE  ForwardInv'
<1> SUFFICES ASSUME NEW b \in Buses, Tx(b) \notin raced'
             PROVE  /\ Ordered(On(b)') /\ Elsewhere(On(b)', b, frames')
                    /\ Ahead(b)' => Older(On(b)', frame')
    BY DEF ForwardInv, Ordered, Elsewhere, Older, Members, Other, Tx
<1>1. Tx(b) \notin raced /\ Grows(b)
      BY StepRing
<1>2. /\ Ordered(On(b)) /\ Elsewhere(On(b), b, frames) /\ (Ahead(b) => Older(On(b), frame))
      BY <1>1 DEF ForwardInv
<1>3. /\ On(b) \in Seq(Frames) /\ Members(On(b)) \subseteq Frames /\ frame \in Frames
      /\ frames' \in {frames, frames + 1} /\ frames \in Nat
      BY RingTypes, MembersType, StepFrames DEF TypeInv, ModesTypeOK
<1>4. Elsewhere(On(b), b, frames')
      BY <1>2, <1>3, FrameNumbers DEF Elsewhere
<1>5. CASE On(b)' = On(b) /\ ~Joins(Tx(b))
  <2>1. ASSUME Ahead(b)' PROVE Older(On(b), frame')
    <3>1. CASE Ahead(b) /\ frame' = frame
          BY <1>2, <3>1
    <3>2. CASE SendFrame /\ mode # "invalid"
      <4>1. frame'.n = frames + 1
        <5>1. Frame("host", mode).n = frames + 1
              BY NewFrame DEF TypeInv, ModesTypeOK
        <5>2. frame' = Frame("host", mode)
              BY <3>2 DEF SendFrame
        <5>. QED  BY <5>1, <5>2
      <4>. QED  BY <1>2, <1>3, <4>1, FrameNumbers DEF Elsewhere, Older
    <3>. QED  BY <2>1, <3>1, <3>2, StepAhead
  <2>. QED  BY <1>2, <1>4, <1>5, <2>1
<1>6. CASE Joins(Tx(b)) /\ On(b)' = Append(On(b), frame)
  <2>1. pc = "store" /\ Target = Tx(b) /\ pc' = "test"
        BY <1>6 DEF Joins, EnqueueStore
  <2>2. /\ step \in 1 .. Len(Route(mode)) /\ Len(Route(mode)) \in Nat
        /\ frame.from = "host" /\ frame.n <= frames
    <3>1. Len(Route(mode)) \in 1 .. 4 /\ step \in 1 .. Len(Route(mode))
          BY <2>1, TargetType
    <3>. QED  BY <2>1, <3>1 DEF TypeInv, AtCommand
  <2>3. Ahead(b)
    <3>1. step \in step .. Len(Route(mode)) /\ Route(mode)[step] = Tx(b)
          BY <2>1, <2>2 DEF Target
    <3>. QED  BY <2>1, <3>1 DEF Ahead
  <2>4. Ordered(Append(On(b), frame))
        BY <1>2, <1>3, <2>3, OrderedAppend
  <2>5. Members(On(b)') = Members(On(b)) \cup {frame}
        BY <1>3, <1>6, MembersOfAppend
  <2>6. frame.n <= frames'
        BY <1>3, <2>2, FrameNumbers
  <2>7. Elsewhere(On(b)', b, frames')
        BY <1>4, <2>2, <2>5, <2>6 DEF Elsewhere
  <2>8. ~Ahead(b)'
    <3>1. ~SendFrame
          BY <2>1 DEF SendFrame, Command
    <3>. QED  BY <1>6, <3>1, StepAhead
  <2>. QED  BY <1>6, <2>4, <2>7, <2>8
<1>7. ASSUME NEW c \in Buses, Comes(Tx(b), c), On(b)' = Append(On(b), Frame(c, "none"))
      PROVE  /\ Ordered(On(b)') /\ Elsewhere(On(b)', b, frames')
             /\ Ahead(b)' => Older(On(b)', frame')
  <2> DEFINE f == Frame(c, "none")
  <2>1. f \in Frames /\ f.from = c /\ f.n = frames + 1
        BY NewFrame DEF TypeInv
  <2>2. c = Other(b) /\ frames' = frames + 1 /\ ~SendFrame /\ Arrive(c)
    <3>1. Arrive(c) /\ Tx(b) = Tx(Other(c))
          BY <1>7 DEF Comes
    <3>2. b = Other(c)
          BY <3>1, QueueNames, OtherBus
    <3>3. frames' = frames + 1 /\ callback[c] # "none" /\ at' = at /\ pc' = pc
          BY <3>1 DEF Arrive, Sending
    <3>4. ~SendFrame
      <4>1. SendFrame => at' # at \/ pc' # pc
            BY DEF SendFrame, Command
      <4>. QED  BY <3>3, <4>1
    <3>. QED  BY <3>1, <3>2, <3>3, <3>4, OtherBus
  <2>. HIDE DEF f
  <2>3. Older(On(b), f)
        BY <1>2, <1>3, <2>1, FrameNumbers DEF Elsewhere, Older
  <2>4. Ordered(Append(On(b), f))
        BY <1>2, <1>3, <2>1, <2>3, OrderedAppend
  <2>5. On(b)' = Append(On(b), f)
        BY <1>7 DEF f
  <2>6. Members(On(b)') = Members(On(b)) \cup {f}
        BY <1>3, <2>1, <2>5, MembersOfAppend
  <2>7. f.n <= frames'
        BY <1>3, <2>1, <2>2
  <2>8. Elsewhere(On(b)', b, frames')
        BY <1>4, <2>1, <2>2, <2>6, <2>7 DEF Elsewhere
  <2>9. ASSUME Ahead(b)' PROVE Older(On(b)', frame')
    <3>1. Ahead(b) /\ frame' = frame
          BY <2>2, <2>9, StepAhead
    <3>2. frame.from = "host" /\ c # "host"
          BY <3>1 DEF Ahead, TypeInv, AtCommand, Buses
    <3>. QED  BY <1>2, <2>1, <2>6, <3>1, <3>2 DEF Older
  <2>. QED  BY <2>4, <2>5, <2>8, <2>9
<1>. QED  BY <1>1, <1>5, <1>6, <1>7 DEF Grows

-----------------------------------------------------------------------------
(***************************************************************************)
(* Echoes.  All that the buffers of received frames hold, even beyond      *)
(* their indices, and all that was reported is accounted for; and as long  *)
(* as no enqueue has failed, SendFrame's frame is on every bus behind it.  *)
(***************************************************************************)
Accounted(f) ==
  f.from = "host" => \A b \in Targets(f.mode) : Tx(b) \notin raced => f \in Members(On(b))

Behind(b) ==
  /\ pc # "idle"
  /\ \E i \in 1 .. step :
       Route(mode)[i] = Tx(b) /\ (i = step => pc \in {"test", "zero"})

BehindInv ==
  failed = FALSE =>
    \A b \in Buses : Behind(b) /\ Tx(b) \notin raced => frame \in Members(On(b))

\* Only a frame that no queue has turned away is echoed.
EchoingInv == pc # "idle" /\ Target[1] = "rx" => failed = FALSE

RecordedInv ==
  /\ \A b \in Buses : \A i \in Slots : Accounted(items[Rx(b)][i])
  /\ \A packet \in reported : Accounted(packet[1])

EchoInv == BehindInv /\ EchoingInv /\ RecordedInv

\* What goes to a bus is never taken back.
LEMMA OnStays ==
  ASSUME TypeInv, RingInv, [ModesNext]_modesVars, NEW b \in Buses, Tx(b) \notin raced'
  PROVE  Tx(b) \notin raced /\ Members(On(b)) \subseteq Members(On(b))'
<1>1. Tx(b) \notin raced /\ Grows(b) /\ On(b) \in Seq(Frames)
      BY StepRing, RingTypes
<1>2. frame \in Frames /\ \A c \in Buses : Frame(c, "none") \in Frames
      BY NewFrame DEF TypeInv, ModesTypeOK
<1>3. Members(On(b))' = Members(On(b)')
      BY DEF Members
<1>. QED  BY <1>1, <1>2, <1>3, MembersOfAppend DEF Grows

AccountedNext(f) ==
  f.from = "host" => \A b \in Targets(f.mode) : Tx(b) \notin raced' => f \in Members(On(b))'

LEMMA StaysAccounted ==
  ASSUME TypeInv, RingInv, [ModesNext]_modesVars, NEW f, Accounted(f)
  PROVE  AccountedNext(f)
<1>1. \A b \in Targets(f.mode) : b \in Buses
      BY DEF Targets
<1>. QED  BY <1>1, OnStays DEF Accounted, AccountedNext

\* SendFrame gets behind a bus by joining what goes to it.
LEMMA StepBehind ==
  ASSUME TypeInv, [ModesNext]_modesVars, NEW b \in Buses, Behind(b)', failed' = FALSE
  PROVE  frame' = frame /\ (Joins(Tx(b)) \/ (Behind(b) /\ failed = FALSE))
<1>1. PICK i \in 1 .. step' :
        /\ Route(mode)'[i] = Tx(b)
        /\ i = step' => pc' \in {"test", "zero"}
      BY DEF Behind, Tx
<1>2. pc' # "idle"
      BY DEF Behind
<1>3. CASE SendFrame
  <2>1. step' = 1 \/ pc' = "idle"
        BY <1>3 DEF SendFrame, Command, TypeInv, AtCommand
  <2>2. pc' \in {"idle", "check"}
        BY <1>3 DEF SendFrame, Command
  <2>. QED  BY <1>1, <1>2, <2>1, <2>2
<1>4. CASE Enqueue
  <2>1. pc # "idle" /\ mode' = mode
        BY <1>4 DEF Enqueue, EnqueueCheck, EnqueueWrite, EnqueueLoad, EnqueueStore, EnqueueTest,
                    EnqueueZero, Settings
  <2>2. /\ Route(mode)' = Route(mode) /\ step \in 1 .. Len(Route(mode)) /\ step \in Nat
        /\ Len(Route(mode)) \in Nat
    <3>1. Len(Route(mode)) \in 1 .. 4 /\ step \in 1 .. Len(Route(mode))
          BY <2>1, TargetType
    <3>2. Route(mode)' = Route(mode)
          BY <2>1 DEF Route, Tx, Rx
    <3>. QED  BY <3>1, <3>2
  <2>3. ASSUME NEW fails, Proceed(fails)
        PROVE  step' = step + 1 /\ frame' = frame /\ pc' = "check" /\ failed' = fails
        BY <1>2, <2>3 DEF Proceed
  <2>4. CASE EnqueueCheck
    <3>1. CASE IsFull(Target)
      <4>1. failed' = TRUE
            BY <2>3, <2>4, <3>1 DEF EnqueueCheck
      <4>. QED  BY <4>1
    <3>2. CASE ~IsFull(Target)
      <4>1. pc' = "write" /\ UNCHANGED <<step, failed, frame>>
            BY <2>4, <3>2 DEF EnqueueCheck
      <4>2. i \in 1 .. step /\ Route(mode)[i] = Tx(b) /\ i # step
            BY <1>1, <2>2, <4>1
      <4>3. Behind(b)
            BY <2>1, <4>2 DEF Behind
      <4>. QED  BY <4>1, <4>3
    <3>. QED  BY <3>1, <3>2
  <2>5. CASE EnqueueWrite \/ EnqueueLoad
    <3>1. pc' \in {"load", "store"} /\ UNCHANGED <<step, failed, frame>>
          BY <2>5 DEF EnqueueWrite, EnqueueLoad
    <3>2. i \in 1 .. step /\ Route(mode)[i] = Tx(b) /\ i # step
          BY <1>1, <2>2, <3>1
    <3>3. Behind(b)
          BY <2>1, <3>2 DEF Behind
    <3>. QED  BY <3>1, <3>3
  <2>6. CASE EnqueueStore
    <3>1. UNCHANGED <<step, failed, frame>>
          BY <2>6 DEF EnqueueStore
    <3>2. CASE i = step
          BY <1>1, <2>2, <2>6, <3>1, <3>2 DEF Joins, Target
    <3>3. CASE i # step
      <4>1. i \in 1 .. step /\ Route(mode)[i] = Tx(b)
            BY <1>1, <2>2, <3>1
      <4>2. Behind(b)
            BY <2>1, <3>3, <4>1 DEF Behind
      <4>. QED  BY <3>1, <4>2
    <3>. QED  BY <3>2, <3>3
  <2>7. CASE EnqueueTest \/ EnqueueZero
    <3>1. pc \in {"test", "zero"}
          BY <2>7 DEF EnqueueTest, EnqueueZero
    <3>2. CASE Succeed
      <4>1. Proceed(failed)
            BY <3>2 DEF Succeed
      <4>2. step' = step + 1 /\ frame' = frame /\ pc' = "check" /\ failed' = failed
            BY <2>3, <4>1
      <4>3. i \in 1 .. step /\ Route(mode)[i] = Tx(b)
            BY <1>1, <2>2, <4>2
      <4>4. Behind(b)
            BY <2>1, <3>1, <4>3 DEF Behind
      <4>. QED  BY <4>2, <4>4
    <3>3. CASE ~Succeed
      <4>1. UNCHANGED <<step, failed, frame>>
            BY <2>7, <3>3 DEF EnqueueTest, EnqueueZero
      <4>2. i \in 1 .. step /\ Route(mode)[i] = Tx(b)
            BY <1>1, <2>2, <4>1
      <4>3. Behind(b)
            BY <2>1, <3>1, <4>2 DEF Behind
      <4>. QED  BY <4>1, <4>3
    <3>. QED  BY <3>2, <3>3
  <2>. QED  BY <1>4, <2>4, <2>5, <2>6, <2>7 DEF Enqueue
<1>5. CASE UNCHANGED <<mode, Sending>>
  <2>1. Behind(b)' = Behind(b)
        BY <1>5 DEF Behind, Sending, Route, Tx, Rx
  <2>. QED  BY <1>5, <2>1 DEF Sending
<1>6. ASSUME NEW m \in Modes, CanMode(m) PROVE FALSE
      BY <1>2, <1>6 DEF CanMode, Command, Sending
<1>. QED
     BY <1>3, <1>4, <1>5, <1>6
     DEF ModesNext, Loop, Send, SendLater, Report, Nothing, CanBaud, Arrive, Settings, modesVars,
         Sending

LEMMA StepBehindInv ==
  ASSUME TypeInv, RingInv, BehindInv, [ModesNext]_modesVars
  PROVE  BehindInv'
<1> SUFFICES ASSUME failed' = FALSE, NEW b \in Buses, Behind(b)', Tx(b)' \notin raced'
             PROVE  frame' \in Members(On(b))'
    BY DEF BehindInv
<1>1. Tx(b)' = Tx(b) /\ Members(On(b))' = Members(On(b)')
      BY DEF Tx, Members
<1>2. Tx(b) \notin raced /\ Members(On(b)) \subseteq Members(On(b))' /\ Grows(b)
      BY <1>1, OnStays, StepRing
<1>3. On(b) \in Seq(Frames) /\ frame \in Frames
      BY RingTypes DEF TypeInv, ModesTypeOK
<1>4. frame' = frame /\ (Joins(Tx(b)) \/ (Behind(b) /\ failed = FALSE))
      BY StepBehind
<1>5. CASE Joins(Tx(b))
  <2>1. \A c \in Buses : ~Arrive(c)
        BY <1>5 DEF Joins, EnqueueStore, Arrive, Sending
  <2>2. On(b)' = Append(On(b), frame)
        BY <1>2, <1>5, <2>1 DEF Grows, Comes
  <2>. QED  BY <1>1, <1>3, <1>4, <2>2, MembersOfAppend
<1>6. CASE Behind(b) /\ failed = FALSE
      BY <1>2, <1>4, <1>6 DEF BehindInv
<1>. QED  BY <1>4, <1>5, <1>6

LEMMA StepEchoing ==
  ASSUME TypeInv, EchoingInv, [ModesNext]_modesVars
  PROVE  EchoingInv'
<1> SUFFICES ASSUME pc' # "idle", Target'[1] = "rx" PROVE failed' = FALSE
    BY DEF EchoingInv
<1>1. CASE SendFrame
  <2>1. mode' = mode /\ step' = 1 /\ mode # "invalid" /\ mode \in Modes
        BY <1>1 DEF SendFrame, Command, Settings, TypeInv, AtCommand, ModesTypeOK
  <2>2. Target' = Route(mode)[1]
        BY <2>1 DEF Target, Route, Tx, Rx
  <2>3. Route(mode)[1][1] = "tx"
        BY <2>1 DEF Modes, Route, Tx
  <2>. QED  BY <2>2, <2>3
<1>2. CASE Enqueue
  <2>1. pc # "idle" /\ mode' = mode
        BY <1>2 DEF Enqueue, EnqueueCheck, EnqueueWrite, EnqueueLoad, EnqueueStore, EnqueueTest,
                    EnqueueZero, Settings
  <2>2. Route(mode)' = Route(mode)
        BY <2>1 DEF Route, Tx, Rx
  <2>3. ASSUME NEW fails \in BOOLEAN, Proceed(fails) PROVE failed' = FALSE
    <3>1. /\ step' = step + 1 /\ failed' = fails
          /\ Route(mode)[step + 1][1] = "tx" \/ ~fails
          BY <2>3 DEF Proceed
    <3>2. Target' = Route(mode)[step + 1]
          BY <2>2, <3>1 DEF Target
    <3>3. ~fails
          BY <3>1, <3>2
    <3>. QED  BY <3>1, <3>3
  <2>4. ASSUME UNCHANGED <<step, failed>> PROVE failed' = FALSE
    <3>1. Target' = Target
          BY <2>2, <2>4 DEF Target
    <3>. QED  BY <2>1, <2>4, <3>1 DEF EchoingInv
  <2>5. failed \in BOOLEAN
        BY DEF TypeInv, ModesTypeOK
  <2>6. CASE EnqueueCheck
        BY <2>3, <2>4, <2>6 DEF EnqueueCheck
  <2>7. CASE EnqueueTest \/ EnqueueZero
        BY <2>3, <2>4, <2>5, <2>7 DEF EnqueueTest, EnqueueZero, Succeed
  <2>8. CASE EnqueueWrite \/ EnqueueLoad \/ EnqueueStore
        BY <2>4, <2>8 DEF EnqueueWrite, EnqueueLoad, EnqueueStore
  <2>. QED  BY <1>2, <2>6, <2>7, <2>8 DEF Enqueue
<1>3. CASE UNCHANGED <<mode, Sending>>
  <2>1. Target' = Target
        BY <1>3 DEF Target, Route, Tx, Rx, Sending
  <2>. QED  BY <1>3, <2>1 DEF EchoingInv, Sending
<1>4. ASSUME NEW m \in Modes, CanMode(m) PROVE FALSE
      BY <1>4 DEF CanMode, Command, Sending
<1>. QED
     BY <1>1, <1>2, <1>3, <1>4
     DEF ModesNext, Loop, Send, SendLater, Report, Nothing, CanBaud, Arrive, Settings, modesVars,
         Sending

\* A frame that comes to be in a queue of received ones is of a bus, or is SendFrame's.
LEMMA StepItems ==
  ASSUME TypeInv, [ModesNext]_modesVars, NEW b \in Buses, NEW i \in Slots
  PROVE  \/ items'[Rx(b)][i] = items[Rx(b)][i]
         \/ items'[Rx(b)][i].from # "host"
         \/ EnqueueWrite /\ Target = Rx(b) /\ items'[Rx(b)][i] = frame
<1> DEFINE q == Rx(b)
<1>1. q \in Queues /\ items \in [Queues -> [Slots -> Frames]]
      BY QueueNames DEF TypeInv, ModesTypeOK
<1>2. CASE EnqueueWrite
  <2>1. items' = [items EXCEPT ![Target][tail[Target]] = frame]
        BY <1>2 DEF EnqueueWrite
  <2>. QED  BY <1>1, <1>2, <2>1
<1>3. ASSUME NEW c \in Buses, Arrive(c)
      PROVE  \/ items'[q][i] = items[q][i]
             \/ items'[q][i].from # "host"
  <2> DEFINE f == Frame(c, "none")
             queues == IF callback[c] = "citm" THEN {Rx(c), Tx(Other(c))} ELSE {Rx(c)}
             room == {r \in queues : ~IsFull(r)}
  <2>1. items' = [r \in Queues |-> IF r \in room /\ tail[r] \in Slots
                                     THEN [items[r] EXCEPT ![tail[r]] = f] ELSE items[r]]
        BY <1>3 DEF Arrive, Deposit
  <2>2. f.from # "host"
        BY NewFrame DEF TypeInv, Buses
  <2>. HIDE DEF f, room
  <2>. QED  BY <1>1, <2>1, <2>2
<1>4. CASE items' = items
      BY <1>4
<1>. QED
     BY <1>2, <1>3, <1>4
     DEF ModesNext, Loop, Send, SendLater, Report, Nothing, CanMode, CanBaud, SendFrame, Enqueue,
         EnqueueCheck, EnqueueLoad, EnqueueStore, EnqueueTest, EnqueueZero, Rings, modesVars

LEMMA StepReported ==
  ASSUME TypeInv, [ModesNext]_modesVars, NEW packet \in reported'
  PROVE  \/ packet \in reported
         \/ \E b \in Buses : head[Rx(b)] \in Slots /\ packet[1] = items[Rx(b)][head[Rx(b)]]
<1>1. ASSUME NEW b \in Buses, Report(b), packet \notin reported
      PROVE  head[Rx(b)] \in Slots /\ packet[1] = items[Rx(b)][head[Rx(b)]]
  <2>1. head[Rx(b)] \in Slots
        BY QueueNames DEF TypeInv, ModesTypeOK
  <2>2. packet[1] = items[Rx(b)][head[Rx(b)]]
        BY <1>1 DEF Report
  <2>. QED  BY <2>1, <2>2
<1>2. CASE reported' = reported
      BY <1>2
<1>. QED
     BY <1>1, <1>2
     DEF ModesNext, Loop, Send, SendLater, Nothing, CanMode, CanBaud, SendFrame, Enqueue,
         EnqueueCheck, EnqueueWrite, EnqueueLoad, EnqueueStore, EnqueueTest, EnqueueZero, Arrive,
         modesVars

\* What SendFrame writes to a queue of received frames is accounted for.
LEMMA EchoAccounted ==
  ASSUME TypeInv, BehindInv, EchoingInv, EnqueueWrite, NEW c \in Buses, Target = Rx(c)
  PROVE  Accounted(frame)
<1>1. pc # "idle" /\ frame.mode = mode /\ mode \in Modes
      BY DEF EnqueueWrite, TypeInv, AtCommand, ModesTypeOK
<1>2. Target[1] = "rx" /\ failed = FALSE
  <2>1. Target[1] = "rx"
        BY DEF Rx
  <2>. QED  BY <1>1, <2>1 DEF EchoingInv
<1>3. step \in 1 .. Len(Route(mode)) /\ Len(Route(mode)) \in 1 .. 4
      BY <1>1, TargetType
<1>4. ASSUME NEW b \in Targets(mode) PROVE b \in Buses /\ Behind(b)
  <2>1. b \in Buses /\ Tx(b) \in Members(Route(mode))
        BY DEF Targets
  <2>2. PICK i \in 1 .. Len(Route(mode)) : Route(mode)[i] = Tx(b)
        BY <2>1 DEF Members
  <2>3. Route(mode)[i][1] = "tx" /\ Route(mode)[step][1] = "rx"
        BY <1>2, <2>1, <2>2, QueueNames DEF Target
  <2>4. i < step
        BY <1>1, <1>3, <2>2, <2>3, RouteProperties
  <2>5. i \in 1 .. step /\ i # step
        BY <1>3, <2>4
  <2>. QED  BY <1>1, <2>1, <2>2, <2>5 DEF Behind
<1>. QED  BY <1>1, <1>2, <1>4 DEF Accounted, BehindInv

LEMMA StepRecorded ==
  ASSUME TypeInv, RingInv, EchoInv, [ModesNext]_modesVars
  PROVE  RecordedInv'
<1>1. ASSUME NEW f, Accounted(f) PROVE AccountedNext(f)
      BY <1>1, StaysAccounted
<1>2. ASSUME NEW b \in Buses, NEW i \in Slots PROVE AccountedNext(items'[Rx(b)][i])
  <2>1. PICK f : f = items'[Rx(b)][i]
        OBVIOUS
  <2>2. CASE f = items[Rx(b)][i]
    <3>1. Accounted(f)
          BY <2>2 DEF EchoInv, RecordedInv
    <3>. QED  BY <1>1, <2>1, <3>1
  <2>3. CASE f.from # "host"
    <3>1. AccountedNext(f)
          BY <2>3 DEF AccountedNext
    <3>. QED  BY <2>1, <3>1
  <2>4. CASE EnqueueWrite /\ Target = Rx(b) /\ f = frame
    <3>1. Accounted(f)
          BY <2>4, EchoAccounted DEF EchoInv
    <3>. QED  BY <1>1, <2>1, <3>1
  <2>. QED  BY <2>1, <2>2, <2>3, <2>4, StepItems
<1>3. ASSUME NEW packet \in reported' PROVE AccountedNext(packet[1])
  <2>1. CASE packet \in reported
    <3>1. Accounted(packet[1])
          BY <2>1 DEF EchoInv, RecordedInv
    <3>. QED  BY <1>1, <3>1
  <2>2. ASSUME NEW b \in Buses, head[Rx(b)] \in Slots, packet[1] = items[Rx(b)][head[Rx(b)]]
        PROVE  AccountedNext(packet[1])
    <3>1. Accounted(packet[1])
          BY <2>2 DEF EchoInv, RecordedInv
    <3>. QED  BY <1>1, <3>1
  <2>. QED  BY <2>1, <2>2, StepReported
<1>4. Slots' = Slots
      BY DEF Slots
<1>. QED
     BY <1>2, <1>3, <1>4
     DEF RecordedInv, Accounted, AccountedNext, Targets, Members, Route, Tx, Rx

-----------------------------------------------------------------------------
(***************************************************************************)
(* The inductive invariant and the theorems.                               *)
(***************************************************************************)
ModesInv == TypeInv /\ RingInv /\ ForwardInv /\ EchoInv

LEMMA InitInv == ModesInit => ModesInv
<1> SUFFICES ASSUME ModesInit PROVE ModesInv
    OBVIOUS
<1>1. TypeInv
      BY InitTypes
<1>2. ASSUME NEW b \in Buses
      PROVE  Held(Tx(b)) = 0 /\ On(b) \in Seq(Frames) /\ Len(On(b)) = 0
  <2>1. Held(Tx(b)) = 0
        BY QueueNames DEF ModesInit, Held
  <2>2. Waiting(Tx(b)) \in Seq(Frames) /\ On(b) \in Seq(Frames) /\ sent[b] \in Seq(Frames)
        BY <1>1, RingTypes
  <2>3. Len(Waiting(Tx(b))) = 0
        BY <2>1 DEF Waiting
  <2>4. sent[b] = <<>>
        BY DEF ModesInit
  <2>. QED  BY <2>1, <2>2, <2>3, <2>4, ConcatProperties DEF On
<1>3. RingInv
      BY <1>2, ModesBounds DEF ModesInit, RingInv, Ring
<1>4. ForwardInv
      BY <1>2 DEF ForwardInv, Ordered, Elsewhere, Older, Members
<1>5. EchoInv
  <2>1. BehindInv /\ EchoingInv
        BY DEF ModesInit, BehindInv, Behind, EchoingInv
  <2>2. \A b \in Buses : \A i \in Slots : items[Rx(b)][i] = Garbage
        BY QueueNames DEF ModesInit
  <2>3. Garbage.from # "host"
        BY DEF Garbage
  <2>4. RecordedInv
        BY <2>2, <2>3 DEF ModesInit, RecordedInv, Accounted
  <2>. QED  BY <2>1, <2>4 DEF EchoInv
<1>. QED  BY <1>1, <1>3, <1>4, <1>5 DEF ModesInv

LEMMA StepModes == ModesInv /\ [ModesNext]_modesVars => ModesInv'
<1> SUFFICES ASSUME ModesInv, [ModesNext]_modesVars PROVE ModesInv'
    OBVIOUS
<1>1. TypeInv'
      BY StepTypes DEF ModesInv
<1>2. RingInv'
  <2>1. ASSUME NEW b \in Buses, Tx(b) \notin raced' PROVE Ring(Tx(b))'
        BY <2>1, StepRing DEF ModesInv
  <2>. QED  BY <2>1 DEF RingInv, Tx
<1>3. ForwardInv'
      BY StepForward DEF ModesInv
<1>4. BehindInv' /\ EchoingInv' /\ RecordedInv'
      BY StepBehindInv, StepEchoing, StepRecorded DEF ModesInv, EchoInv
<1>. QED  BY <1>1, <1>2, <1>3, <1>4 DEF ModesInv, EchoInv

LEMMA ModesInvariant == ModesSpec => []ModesInv
  BY InitInv, StepModes, PTL DEF ModesSpec

\* The variables of the firmware keep their types; head and tail stay in the buffers, tail
\* but for the moment before it is wrapped around.
THEOREM ModesTypeCorrect == ModesSpec => []ModesTypeOK
<1>1. ModesInv => ModesTypeOK
      BY DEF ModesInv, TypeInv
<1>. QED  BY <1>1, ModesInvariant, PTL

\* The man in the middle forwards each frame once, in order and never back, whatever the
\* modes and the sizes of the queues, and however the callbacks interrupt SendFrame, on a
\* queue that none has filled in the middle of its enqueue (citm.cpp, SendFrame).
THEOREM ForwardsInOrderOnce == ModesSpec => []InOrderOnce
<1>1. ModesInv => InOrderOnce
  <2> SUFFICES ASSUME ModesInv, NEW b \in Buses, Tx(b) \notin raced
               PROVE  /\ Ordered(On(b))
                      /\ \A i \in 1 .. Len(On(b)) : On(b)[i].from \in {Other(b), "host"}
      BY DEF InOrderOnce, Ordered
  <2>1. Ordered(On(b)) /\ Elsewhere(On(b), b, frames)
        BY DEF ModesInv, ForwardInv
  <2>. QED  BY <2>1 DEF Elsewhere, Members
<1>. QED  BY <1>1, ModesInvariant, PTL

\* What the host reads back of its own frames has been sent, or waits to be, on every bus
\* of the mode it was sent in, whatever interrupts SendFrame, but for queues that a callback
\* has filled in the middle of its enqueue (SendFrame).
THEOREM EchoIsHonest == ModesSpec => []EchoMeansSent
<1>1. ModesInv => EchoMeansSent
  <2> SUFFICES ASSUME ModesInv, NEW f \in ReadBack PROVE Accounted(f)
      BY DEF EchoMeansSent, Accounted
  <2>1. ASSUME NEW b \in Buses, f \in Members(Waiting(Rx(b))) PROVE Accounted(f)
    <3> DEFINE q == Rx(b)
    <3>1. q \in Queues /\ head[q] \in Slots /\ tail[q] \in 0 .. Size
          /\ items[q] \in [Slots -> Frames]
          BY QueueNames DEF ModesInv, TypeInv, ModesTypeOK
    <3>2. /\ Waiting(q) = View(head[q], tail[q], items[q])
          /\ Len(Waiting(q)) = Count(head[q], tail[q])
          /\ \A i \in 1 .. Count(head[q], tail[q]) :
               Waiting(q)[i] = items[q][Around(head[q], i)] /\ Around(head[q], i) \in Slots
          BY <3>1, WaitingIsView, ViewProperties
    <3>3. PICK i \in 1 .. Len(Waiting(q)) : f = Waiting(q)[i]
          BY <2>1 DEF Members
    <3>. QED  BY <3>2, <3>3 DEF ModesInv, EchoInv, RecordedInv
  <2>2. ASSUME NEW packet \in reported, f = packet[1] PROVE Accounted(f)
        BY <2>2 DEF ModesInv, EchoInv, RecordedInv
  <2>. QED  BY <2>1, <2>2 DEF ReadBack
<1>. QED  BY <1>1, ModesInvariant, PTL

=============================================================================
