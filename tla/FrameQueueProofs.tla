-------------------------- MODULE FrameQueueProofs --------------------------
(***************************************************************************)
(* Theorems about FrameQueue, for queues of any size, used in any way and  *)
(* interrupted any number of times.                                        *)
(***************************************************************************)
EXTENDS FrameQueue, Integers, SequenceTheorems, TLAPS

\* The loop stands in its own enqueue.
Enqueuing == lpc \in {"write", "load", "store", "test", "zero"}

\* The inductive invariant: the register holds an index from before the wrap, and
\* the loop stands in enqueue only if it is a producer.
IndexInv ==
  /\ QueueTypeOK
  /\ IndicesInside
  /\ lpc = "store" => reg \in Slots
  /\ Enqueuing => use.loopEnqueues

LEMMA AppendNat ==
  ASSUME NEW q \in Seq(Nat), NEW e \in Nat
  PROVE  Append(q, e) \in Seq(Nat)
  OBVIOUS

\* What an interrupt and the loop's own write do to the buffer.
LEMMA StoreProperties ==
  ASSUME QueueTypeOK, NEW f \in Nat, Store(f)
  PROVE  /\ items' \in [Slots -> Nat] /\ outside' \in BOOLEAN
         /\ tail \in Slots => outside' = outside
<1>1. CASE tail \in Slots
      BY <1>1 DEF Store, QueueTypeOK
<1>2. CASE tail \notin Slots
      BY <1>2 DEF Store, QueueTypeOK
<1>. QED  BY <1>1, <1>2

LEMMA InitIndex == QueueInit => IndexInv
  BY SizeAssumption, UsesAssumption
  DEF QueueInit, IndexInv, QueueTypeOK, IndicesInside, Enqueuing, SoleProducer, Slots,
      LoopPc, Garbage, Use

LEMMA StepIndex == IndexInv /\ [QueueNext]_qvars => IndexInv'
<1> SUFFICES ASSUME IndexInv, [QueueNext]_qvars PROVE IndexInv'
    OBVIOUS
<1>a. /\ use.loopEnqueues \in BOOLEAN /\ use.usesPeek \in BOOLEAN /\ use.burst \in Nat
      /\ Size \in Nat /\ Size >= 1
      BY SizeAssumption, UsesAssumption DEF IndexInv, QueueTypeOK, Use
<1> USE <1>a DEF IndexInv, QueueTypeOK, IndicesInside, Enqueuing, SoleProducer, Slots,
        LoopPc, Garbage, LoopGoto
<1>1. CASE Callback
  <2>1. CASE IsFull
        BY <1>1, <2>1 DEF Callback
  <2>2. CASE ~IsFull
    <3>1. Store(next) /\ next \in Nat /\ accepted' \in Seq(Nat)
          BY <1>1, <2>2, AppendNat DEF Callback
    <3>2. /\ items' \in [Slots -> Nat] /\ outside' \in BOOLEAN
          /\ tail \in Slots => outside' = outside
          BY <3>1, StoreProperties
    <3>3. tail' \in Slots
          BY <1>1, <2>2 DEF Callback
    <3>4. SoleProducer => tail \in Slots
          BY <1>1 DEF Callback
    <3>5. /\ UNCHANGED <<use, head, lpc, frame, reg, delivered>>
          /\ burst' \in 0 .. use.burst /\ next' \in Nat \ {0}
          BY <1>1 DEF Callback
    <3>. QED  BY <3>1, <3>2, <3>3, <3>4, <3>5
  <2>. QED  BY <2>1, <2>2
<1>2. CASE EnqueueCheck
      BY <1>2 DEF EnqueueCheck
<1>3. CASE EnqueueWrite
  <2>1. Store(frame) /\ tail \in Slots /\ accepted' \in Seq(Nat)
        BY <1>3, AppendNat DEF EnqueueWrite
  <2>2. items' \in [Slots -> Nat] /\ outside' = outside
        BY <2>1, StoreProperties
  <2>. QED  BY <1>3, <2>1, <2>2 DEF EnqueueWrite
<1>4. CASE EnqueueLoad
      BY <1>4 DEF EnqueueLoad
<1>5. CASE EnqueueStore
      BY <1>5 DEF EnqueueStore
<1>6. CASE EnqueueTest
      BY <1>6 DEF EnqueueTest
<1>7. CASE EnqueueZero
      BY <1>7 DEF EnqueueZero
<1>8. CASE TakeStart
      BY <1>8 DEF TakeStart
<1>9. CASE TakeCheck
  <2>1. delivered' \in Seq(Nat)
        BY <1>9, AppendNat DEF TakeCheck
  <2>. QED  BY <1>9, <2>1 DEF TakeCheck
<1>10. CASE TakeRead
      BY <1>10 DEF TakeRead
<1>11. CASE TakeSend
  <2>1. delivered' \in Seq(Nat)
    <3>1. delivered' = delivered \/ delivered' = Append(delivered, frame)
          BY <1>11 DEF TakeSend
    <3>. QED  BY <3>1, AppendNat
  <2>2. /\ lpc = "send" /\ lpc' \in {"removecheck", "idle"} /\ burst' = 0
        /\ UNCHANGED <<use, head, tail, items, frame, reg, next, accepted, outside>>
        BY <1>11 DEF TakeSend
  <2>. QED  BY <2>1, <2>2
<1>12. CASE RemoveCheck
      BY <1>12 DEF RemoveCheck
<1>13. CASE TakeAdvance
  <2>1. delivered' \in Seq(Nat)
        BY <1>13, AppendNat DEF TakeAdvance
  <2>. QED  BY <1>13, <2>1 DEF TakeAdvance
<1>14. CASE TakeWrap
      BY <1>14 DEF TakeWrap
<1>15. CASE UNCHANGED qvars
      BY <1>15 DEF qvars
<1>. QED
     BY <1>1, <1>2, <1>3, <1>4, <1>5, <1>6, <1>7, <1>8, <1>9, <1>10, <1>11, <1>12,
        <1>13, <1>14, <1>15
     DEF QueueNext, Enqueue, EnqueueRest, Dequeue

\* The queue's variables keep their types.
THEOREM QueueTypeCorrect == QueueSpec => []QueueTypeOK
<1>1. IndexInv => QueueTypeOK
      BY DEF IndexInv
<1>. QED
     BY <1>1, InitIndex, StepIndex, PTL DEF QueueSpec

\* The indices stay in the buffer, and a queue with one producer is never written
\* outside of it, however large it is and however often the loop is interrupted.
THEOREM IndicesStayInside == QueueSpec => []IndicesInside
<1>1. IndexInv => IndicesInside
      BY DEF IndexInv
<1>. QED
     BY <1>1, InitIndex, StepIndex, PTL DEF QueueSpec

-----------------------------------------------------------------------------
(***************************************************************************)
(* Order and fullness, for a queue with one producer and one interrupt at  *)
(* a time.  The frames between the two indices are counted, not the        *)
(* indices compared: Taken frames have been removed and Filled ones put in *)
(* so far, and First and Last are the two indices but for a wrap-around    *)
(* that is still to come.                                                  *)
(***************************************************************************)
Plain == SoleProducer /\ use.burst <= 1

\* Slot i and k further around the buffer.
Plus(i, k) == IF i + k >= Size THEN i + k - Size ELSE i + k

Taken ==
  Len(delivered) - (IF use.usesPeek /\ lpc \in {"removecheck", "advance"} THEN 1 ELSE 0)
Filled == Len(accepted) - (IF lpc \in {"load", "store"} THEN 1 ELSE 0)
First == IF head = Size THEN 0 ELSE head
Last == IF tail = Size THEN 0 ELSE tail

\* No more frames than fit; and one less for as long as the place of the frame taken
\* last is counted as free already while head points beyond it.
Fits ==
  /\ 0 <= Taken /\ Taken <= Filled /\ Filled - Taken <= Size - 1
  /\ lpc = "wrap" => Filled - Taken - burst <= Size - 2
  /\ lpc \in {"write", "load", "store"} => Filled - Taken <= Size - 2

\* The buffer holds what was accepted and not removed, from First on.
Holds ==
  /\ Last = Plus(First, Filled - Taken)
  /\ \A k \in 0 .. Len(accepted) - Taken - 1 : items[Plus(First, k)] = accepted[Taken + k + 1]

\* The frame in the loop's hands is the oldest one.
Carries ==
  /\ lpc \in {"check", "read", "send", "removecheck", "advance"} => Taken < Filled
  /\ lpc \in {"send", "removecheck", "advance"} => frame = accepted[Taken + 1]
  /\ lpc \in {"send", "removecheck"} => use.usesPeek
  /\ lpc = "store" => reg = tail
  /\ head = Size => lpc = "wrap"
  /\ tail = Size => lpc \in {"test", "zero"}
  /\ lpc = "zero" => tail = Size

PassedOn ==
  /\ Len(delivered) <= Len(accepted)
  /\ \A i \in 1 .. Len(delivered) : delivered[i] = accepted[i]

FifoInv == Plain => Fits /\ Holds /\ Carries /\ PassedOn

\* Going around the buffer.
LEMMA PlusProperties ==
  ASSUME NEW i \in Slots
  PROVE  /\ (i + 1) % Size = Plus(i, 1)
         /\ Plus(i, 0) = i
         /\ \A k \in 0 .. Size - 1 : Plus(i, k) \in Slots
         /\ \A k \in 0 .. Size - 2 : Plus(Plus(i, 1), k) = Plus(i, k + 1)
         /\ \A k \in 0 .. Size - 2 : Plus(Plus(i, k), 1) = Plus(i, k + 1)
         /\ \A j, k \in 0 .. Size - 1 : Plus(i, j) = Plus(i, k) => j = k
         /\ Plus(Plus(i, Size - 1), 1) = i
<1>1. Size \in Nat \ {0}
      BY SizeAssumption
<1>2. (i + 1) % Size = Plus(i, 1)
  <2>1. CASE i + 1 < Size
        BY <1>1, <2>1 DEF Slots, Plus
  <2>2. CASE i + 1 = Size
        BY <1>1, <2>2 DEF Slots, Plus
  <2>. QED  BY <1>1, <2>1, <2>2 DEF Slots
<1>. QED  BY <1>1, <1>2 DEF Slots, Plus

\* What the types say of the counts.
LEMMA Counts ==
  ASSUME IndexInv
  PROVE  /\ Len(accepted) \in Nat /\ Len(delivered) \in Nat /\ Taken \in Int /\ Filled \in Int
         /\ First \in Slots /\ Last \in Slots /\ Size \in Nat /\ Size >= 1
         /\ burst \in Nat /\ use.burst \in Nat
<1>1. accepted \in Seq(Nat) /\ delivered \in Seq(Nat)
      BY DEF IndexInv, QueueTypeOK
<1>2. Len(accepted) \in Nat /\ Len(delivered) \in Nat
      BY <1>1, LenProperties
<1>3. Size \in Nat /\ Size >= 1
      BY SizeAssumption
<1>4. First \in Slots /\ Last \in Slots
      BY <1>3 DEF IndexInv, QueueTypeOK, First, Last, Slots
<1>5. use.burst \in Nat /\ burst \in Nat
      BY UsesAssumption DEF IndexInv, QueueTypeOK, Use
<1>. QED  BY <1>2, <1>3, <1>4, <1>5 DEF Taken, Filled

\* A step that moves no frame and no index.
LEMMA FifoKept ==
  ASSUME Holds, PassedOn, UNCHANGED <<items, accepted, delivered>>,
         Taken' = Taken, Filled' = Filled, First' = First, Last' = Last
  PROVE  Holds' /\ PassedOn'
<1>1. \A i, k : Plus(i, k)' = Plus(i, k)
      BY DEF Plus
<1>2. Holds'
      BY <1>1 DEF Holds
<1>3. PassedOn'
      BY DEF PassedOn
<1>. QED  BY <1>2, <1>3

\* The queue is empty or full just when it looks so to the loop, or to an interrupt.
LEMMA LooksRight ==
  ASSUME IndexInv, Fits, Holds
  PROVE  /\ First = Last <=> Filled = Taken
         /\ tail = Last /\ head # Size => (IsFull <=> Filled - Taken = Size - 1)
         /\ tail = Last /\ head = Size => ~IsFull
<1> DEFINE held == Filled - Taken
<1>1. /\ held \in 0 .. Size - 1 /\ First \in Slots /\ Last \in Slots /\ Last = Plus(First, held)
      /\ Size \in Nat /\ Size >= 1 /\ Taken \in Int /\ Filled \in Int
      BY Counts DEF Fits, Holds
<1>2. First = Last <=> held = 0
      BY <1>1, PlusProperties
<1>3. ASSUME tail = Last PROVE IsFull <=> Plus(Last, 1) = head
      BY <1>1, <1>3, PlusProperties DEF IsFull
<1>. HIDE DEF held
<1>4. ASSUME tail = Last, head # Size PROVE IsFull <=> held = Size - 1
  <2>1. head = First
        BY <1>4 DEF First
  <2>2. CASE held = Size - 1
    <3>1. Plus(Last, 1) = First
          BY <1>1, <2>2, PlusProperties
    <3>. QED  BY <1>3, <1>4, <2>1, <2>2, <3>1
  <2>3. CASE held # Size - 1
    <3>1. held \in 0 .. Size - 2 /\ held + 1 \in 0 .. Size - 1 /\ 0 \in 0 .. Size - 1
          BY <1>1, <2>3
    <3>2. Plus(Last, 1) = Plus(First, held + 1)
          BY <1>1, <3>1, PlusProperties
    <3>3. Plus(First, held + 1) # Plus(First, 0)
      <4>1. held + 1 # 0
            BY <3>1
      <4>. QED  BY <1>1, <3>1, <4>1, PlusProperties
    <3>. QED  BY <1>1, <1>3, <1>4, <2>1, <2>3, <3>2, <3>3, PlusProperties
  <2>. QED  BY <2>2, <2>3
<1>5. ASSUME tail = Last, head = Size PROVE ~IsFull
  <2>1. Plus(Last, 1) \in Slots
    <3>1. CASE Size = 1
          BY <1>1, <3>1 DEF Plus, Slots
    <3>2. CASE Size # 1
      <4>1. 1 \in 0 .. Size - 1
            BY <1>1, <3>2
      <4>. QED  BY <1>1, <4>1, PlusProperties
    <3>. QED  BY <3>1, <3>2
  <2>. QED  BY <1>1, <1>3, <1>5, <2>1 DEF Slots
<1>. QED  BY <1>1, <1>2, <1>4, <1>5 DEF held

\* A frame is put into the slot at tail: by an interrupt, or by the loop, whose increment
\* of tail comes later.
LEMMA FifoPut ==
  ASSUME IndexInv, Fits, Holds, PassedOn, NEW f \in Nat, tail = Last,
         Filled = Len(accepted), Filled - Taken <= Size - 2,
         Store(f), accepted' = Append(accepted, f), delivered' = delivered, head' = head,
         Taken' = Taken,
         \/ Last' = Plus(Last, 1) /\ Filled' = Filled + 1
         \/ Last' = Last /\ Filled' = Filled
  PROVE  Holds' /\ PassedOn'
<1> DEFINE held == Filled - Taken
<1>1. /\ held \in 0 .. Size - 2 /\ First \in Slots /\ Last \in Slots /\ Last = Plus(First, held)
      /\ Size \in Nat /\ Size >= 1 /\ Taken \in Int /\ Filled \in Int /\ Len(accepted) \in Nat
      /\ Len(delivered) \in Nat /\ Taken >= 0
      BY Counts DEF Fits, Holds
<1>2. /\ Len(accepted') = Len(accepted) + 1 /\ accepted'[Len(accepted) + 1] = f
      /\ \A i \in 1 .. Len(accepted) : accepted'[i] = accepted[i]
  <2>1. accepted \in Seq(Nat)
        BY DEF IndexInv, QueueTypeOK
  <2>. QED  BY <2>1, AppendProperties
<1>3. items' = [items EXCEPT ![Last] = f] /\ items \in [Slots -> Nat]
      BY <1>1 DEF Store, IndexInv, QueueTypeOK
<1>4. First' = First
      BY DEF First
<1>5. \A i, k : Plus(i, k)' = Plus(i, k)
      BY DEF Plus
<1>. HIDE DEF held
<1>6. Last' = Plus(First, Filled' - Taken)
  <2>1. CASE Last' = Plus(Last, 1) /\ Filled' = Filled + 1
    <3>1. Plus(Last, 1) = Plus(First, held + 1)
          BY <1>1, PlusProperties
    <3>2. held + 1 = Filled' - Taken
          BY <1>1, <2>1 DEF held
    <3>. QED  BY <2>1, <3>1, <3>2
  <2>2. CASE Last' = Last /\ Filled' = Filled
        BY <1>1, <2>2 DEF held
  <2>. QED  BY <2>1, <2>2
<1>7. ASSUME NEW k \in 0 .. Len(accepted') - Taken - 1
      PROVE  items'[Plus(First, k)] = accepted'[Taken + k + 1]
  <2>1. k \in 0 .. held /\ held \in 0 .. Size - 1 /\ k \in 0 .. Size - 1 /\ k \in Nat
        BY <1>1, <1>2 DEF held
  <2>2. CASE k = held
    <3>1. Taken + k + 1 = Len(accepted) + 1
          BY <1>1, <2>2 DEF held
    <3>. QED  BY <1>1, <1>2, <1>3, <2>2, <3>1
  <2>3. CASE k # held
    <3>1. Plus(First, k) \in Slots /\ Plus(First, k) # Last
          BY <1>1, <2>1, <2>3, PlusProperties
    <3>2. items'[Plus(First, k)] = items[Plus(First, k)]
          BY <1>3, <3>1
    <3>3. k \in 0 .. Len(accepted) - Taken - 1 /\ Taken + k + 1 \in 1 .. Len(accepted)
          BY <1>1, <2>1, <2>3 DEF held
    <3>4. items[Plus(First, k)] = accepted[Taken + k + 1]
          BY <3>3 DEF Holds
    <3>. QED  BY <1>2, <3>2, <3>3, <3>4
  <2>. QED  BY <2>2, <2>3
<1>8. Holds'
      BY <1>4, <1>5, <1>6, <1>7 DEF Holds
<1>9. PassedOn'
  <2>1. Len(delivered) <= Len(accepted')
        BY <1>1, <1>2 DEF PassedOn
  <2>2. ASSUME NEW i \in 1 .. Len(delivered) PROVE delivered[i] = accepted'[i]
    <3>1. i \in 1 .. Len(accepted)
          BY <1>1 DEF PassedOn
    <3>. QED  BY <1>2, <3>1 DEF PassedOn
  <2>. QED  BY <2>1, <2>2 DEF PassedOn
<1>. QED  BY <1>8, <1>9

\* The oldest frame is passed on.
LEMMA FifoPass ==
  ASSUME IndexInv, Fits, PassedOn, Len(delivered) = Taken, Taken < Filled,
         frame = accepted[Taken + 1], accepted' = accepted, delivered' = Append(delivered, frame)
  PROVE  PassedOn' /\ Len(delivered') = Len(delivered) + 1
<1>1. delivered \in Seq(Nat) /\ frame \in Nat
      BY DEF IndexInv, QueueTypeOK
<1>2. /\ Len(delivered') = Len(delivered) + 1 /\ delivered'[Len(delivered) + 1] = frame
      /\ \A i \in 1 .. Len(delivered) : delivered'[i] = delivered[i]
      BY <1>1, AppendProperties
<1>3. /\ Len(accepted) \in Nat /\ Len(delivered) \in Nat /\ Filled <= Len(accepted)
      /\ Filled \in Int
      BY Counts DEF Filled
<1>4. Len(delivered') <= Len(accepted)
      BY <1>2, <1>3
<1>5. ASSUME NEW i \in 1 .. Len(delivered') PROVE delivered'[i] = accepted[i]
  <2>1. i \in 1 .. Len(delivered) \/ i = Len(delivered) + 1
        BY <1>2, <1>3
  <2>. QED  BY <1>2, <2>1 DEF PassedOn
<1>. QED  BY <1>2, <1>4, <1>5 DEF PassedOn

\* The oldest frame leaves the buffer.
LEMMA FifoRemove ==
  ASSUME IndexInv, Fits, Holds, Taken < Filled, head \in Slots, head' = head + 1,
         UNCHANGED <<items, accepted, tail>>, Taken' = Taken + 1, Filled' = Filled
  PROVE  Holds'
<1>1. /\ Filled - Taken \in 1 .. Size - 1 /\ First = head /\ Last = Plus(First, Filled - Taken)
      /\ Size \in Nat /\ Size >= 1 /\ Taken \in Int /\ Filled \in Int /\ Len(accepted) \in Nat
      /\ First \in Slots /\ Filled <= Len(accepted)
  <2>1. head # Size
        BY SizeAssumption DEF Slots
  <2>. QED  BY <2>1, Counts DEF Fits, Holds, First, Filled
<1>2. First' = Plus(First, 1) /\ Last' = Last
      BY <1>1 DEF First, Last, Plus, Slots
<1>3. \A i, k : Plus(i, k)' = Plus(i, k)
      BY DEF Plus
<1>4. Last = Plus(Plus(First, 1), Filled - (Taken + 1))
  <2>1. Filled - (Taken + 1) \in 0 .. Size - 2 /\ (Filled - (Taken + 1)) + 1 = Filled - Taken
        BY <1>1
  <2>. QED  BY <1>1, <2>1, PlusProperties
<1>5. Len(accepted) - Taken <= Size
  <2>1. Len(accepted) <= Filled + 1
        BY <1>1 DEF Filled
  <2>. QED  BY <1>1, <2>1
<1>6. ASSUME NEW k \in 0 .. Len(accepted) - (Taken + 1) - 1
      PROVE  items[Plus(Plus(First, 1), k)] = accepted[(Taken + 1) + k + 1]
  <2>1. k \in 0 .. Size - 2 /\ k + 1 \in 0 .. Len(accepted) - Taken - 1
        BY <1>1, <1>5
  <2>2. Plus(Plus(First, 1), k) = Plus(First, k + 1)
        BY <1>1, <2>1, PlusProperties
  <2>3. items[Plus(First, k + 1)] = accepted[Taken + (k + 1) + 1]
        BY <2>1 DEF Holds
  <2>4. Taken + (k + 1) + 1 = (Taken + 1) + k + 1
        BY <1>1, <2>1
  <2>. QED  BY <2>2, <2>3, <2>4
<1>. QED  BY <1>2, <1>3, <1>4, <1>6 DEF Holds

LEMMA FifoInit == QueueInit => FifoInv
<1>. SUFFICES ASSUME QueueInit PROVE Fits /\ Holds /\ Carries /\ PassedOn
     BY DEF FifoInv
<1>1. Len(accepted) = 0 /\ Len(delivered) = 0 /\ Size \in Nat \ {0}
      BY SizeAssumption DEF QueueInit
<1>2. Taken = 0 /\ Filled = 0 /\ First = 0 /\ Last = 0
      BY <1>1 DEF QueueInit, Taken, Filled, First, Last
<1>3. Fits
      BY <1>1, <1>2 DEF QueueInit, Fits
<1>4. Holds
      BY <1>1, <1>2 DEF Holds, Plus
<1>5. Carries
      BY <1>1 DEF QueueInit, Carries
<1>6. PassedOn
      BY <1>1 DEF PassedOn
<1>. QED  BY <1>3, <1>4, <1>5, <1>6

LEMMA FifoCallback ==
  ASSUME IndexInv, Plain, Fits, Holds, Carries, PassedOn, Callback
  PROVE  Fits' /\ Holds' /\ Carries' /\ PassedOn'
<1>1. /\ burst = 0 /\ burst' = 1 /\ next \in Nat
      /\ UNCHANGED <<use, head, lpc, frame, reg, delivered>>
      /\ ~use.loopEnqueues
  <2>1. use.burst \in Nat /\ burst \in Nat /\ next \in Nat
        BY UsesAssumption DEF IndexInv, QueueTypeOK, Use
  <2>. QED  BY <2>1 DEF Callback, Plain, SoleProducer
<1>2. lpc \notin {"write", "load", "store", "test", "zero"}
      BY <1>1 DEF IndexInv, Enqueuing
<1>3. tail = Last /\ Filled = Len(accepted) /\ tail # Size
      BY <1>2 DEF Carries, Last, Filled
<1>c. /\ Len(accepted) \in Nat /\ Len(delivered) \in Nat /\ Taken \in Int /\ Filled \in Int
      /\ First \in Slots /\ Last \in Slots /\ Size \in Nat /\ Size >= 1
      BY Counts
<1>4. Taken' = Taken
      BY <1>1 DEF Taken
<1>5. CASE IsFull
  <2>1. UNCHANGED <<items, tail, accepted, delivered>>
        BY <1>1, <1>5 DEF Callback
  <2>2. Filled' = Filled /\ First' = First /\ Last' = Last
        BY <1>1, <2>1 DEF Filled, First, Last
  <2>3. Fits'
        BY <1>1, <1>4, <1>c, <2>2 DEF Fits
  <2>4. Carries'
        BY <1>1, <1>4, <2>1, <2>2 DEF Carries
  <2>. QED  BY <1>4, <2>1, <2>2, <2>3, <2>4, FifoKept
<1>6. CASE ~IsFull
  <2>1. /\ Store(next) /\ accepted' = Append(accepted, next)
        /\ tail' = IF tail + 1 >= Size THEN 0 ELSE tail + 1
        BY <1>6 DEF Callback
  <2>2. Filled - Taken <= Size - 2
    <3>1. CASE head = Size
          BY <1>1, <1>c, <3>1 DEF Carries, Fits
    <3>2. CASE head # Size
      <4>1. Filled - Taken # Size - 1
            BY <1>3, <1>6, <3>2, LooksRight
      <4>. QED  BY <1>c, <4>1 DEF Fits
    <3>. QED  BY <3>1, <3>2
  <2>3. Len(accepted') = Len(accepted) + 1 /\ \A i \in 1 .. Len(accepted) : accepted'[i] = accepted[i]
    <3>1. accepted \in Seq(Nat)
          BY DEF IndexInv, QueueTypeOK
    <3>. QED  BY <1>1, <2>1, <3>1, AppendProperties
  <2>4. Filled' = Filled + 1
        BY <1>1, <1>2, <1>3, <2>3 DEF Filled
  <2>5. tail' # Size /\ Last' = Plus(Last, 1)
        BY <1>3, <1>c, <2>1 DEF Last, Plus, Slots
  <2>6. Holds' /\ PassedOn'
        BY <1>1, <1>3, <1>4, <2>1, <2>2, <2>4, <2>5, FifoPut
  <2>7. Fits'
        BY <1>1, <1>2, <1>4, <1>c, <2>2, <2>4 DEF Fits
  <2>8. Carries'
    <3>1. Taken < Filled => accepted'[Taken + 1] = accepted[Taken + 1]
      <4>1. Taken < Filled => Taken + 1 \in 1 .. Len(accepted)
            BY <1>3, <1>c DEF Fits
      <4>. QED  BY <2>3, <4>1
    <3>. QED  BY <1>1, <1>2, <1>4, <1>c, <2>4, <2>5, <3>1 DEF Carries
  <2>. QED  BY <2>6, <2>7, <2>8
<1>. QED  BY <1>5, <1>6

LEMMA FifoEnqueue ==
  ASSUME IndexInv, Plain, Fits, Holds, Carries, PassedOn, Enqueue
  PROVE  Fits' /\ Holds' /\ Carries' /\ PassedOn'
<1>c. /\ Len(accepted) \in Nat /\ Len(delivered) \in Nat /\ Taken \in Int /\ Filled \in Int
      /\ First \in Slots /\ Last \in Slots /\ Size \in Nat /\ Size >= 1
      BY Counts
<1>0. UNCHANGED <<use, head, delivered>> /\ burst' = 0
      BY DEF Enqueue, EnqueueRest, EnqueueCheck, EnqueueWrite, EnqueueLoad, EnqueueStore,
             EnqueueTest, EnqueueZero, LoopGoto
<1>1. First' = First
      BY <1>0 DEF First
<1>2. CASE EnqueueCheck
  <2>1. /\ lpc = "idle" /\ lpc' = IF IsFull THEN "idle" ELSE "write"
        /\ UNCHANGED <<tail, items, reg, accepted>>
        BY <1>2 DEF EnqueueCheck, LoopGoto
  <2>2. Taken' = Taken /\ Filled' = Filled /\ Last' = Last
        BY <1>0, <2>1 DEF Taken, Filled, Last
  <2>3. lpc' = "write" => Filled - Taken <= Size - 2
    <3>1. head # Size /\ tail # Size /\ tail = Last
          BY <2>1 DEF Carries, Last
    <3>2. lpc' = "write" => Filled - Taken # Size - 1
          BY <2>1, <3>1, LooksRight
    <3>. QED  BY <1>c, <3>2 DEF Fits
  <2>4. Fits'
        BY <2>1, <2>2, <2>3 DEF Fits
  <2>5. Carries'
        BY <1>0, <2>1 DEF Carries
  <2>. QED  BY <1>0, <1>1, <2>1, <2>2, <2>4, <2>5, FifoKept
<1>3. CASE EnqueueWrite
  <2>1. /\ lpc = "write" /\ lpc' = "load" /\ Store(frame) /\ frame \in Nat
        /\ accepted' = Append(accepted, frame) /\ UNCHANGED <<tail, reg>>
        BY <1>3 DEF EnqueueWrite, LoopGoto, IndexInv, QueueTypeOK
  <2>2. Len(accepted') = Len(accepted) + 1
    <3>1. accepted \in Seq(Nat)
          BY DEF IndexInv, QueueTypeOK
    <3>. QED  BY <2>1, <3>1, AppendProperties
  <2>3. /\ Taken' = Taken /\ Filled' = Filled /\ Last' = Last /\ Filled = Len(accepted)
        BY <1>0, <1>c, <2>1, <2>2 DEF Taken, Filled, Last
  <2>4. tail = Last /\ head # Size /\ tail # Size
        BY <2>1 DEF Carries, Last
  <2>5. Filled - Taken <= Size - 2
        BY <2>1 DEF Fits
  <2>6. Holds' /\ PassedOn'
        BY <1>0, <2>1, <2>3, <2>4, <2>5, FifoPut
  <2>7. Fits'
        BY <2>1, <2>3, <2>5 DEF Fits
  <2>8. Carries'
        BY <1>0, <2>1, <2>4 DEF Carries
  <2>. QED  BY <2>6, <2>7, <2>8
<1>4. CASE EnqueueLoad
  <2>1. /\ lpc = "load" /\ lpc' = "store" /\ reg' = tail
        /\ UNCHANGED <<tail, items, accepted>>
        BY <1>4 DEF EnqueueLoad, LoopGoto
  <2>2. Taken' = Taken /\ Filled' = Filled /\ Last' = Last
        BY <1>0, <2>1 DEF Taken, Filled, Last
  <2>3. Fits'
        BY <2>1, <2>2 DEF Fits
  <2>4. Carries'
        BY <1>0, <2>1 DEF Carries
  <2>. QED  BY <1>0, <1>1, <2>1, <2>2, <2>3, <2>4, FifoKept
<1>5. CASE EnqueueStore
  <2>1. /\ lpc = "store" /\ lpc' = "test" /\ tail' = tail + 1
        /\ UNCHANGED <<items, accepted>>
        BY <1>5 DEF EnqueueStore, LoopGoto, Carries
  <2>2. Taken' = Taken /\ Filled' = Filled + 1
        BY <1>0, <1>c, <2>1 DEF Taken, Filled
  <2>3. tail = Last /\ tail # Size /\ head # Size
        BY <2>1 DEF Carries, Last
  <2>4. Last' = Plus(Last, 1)
        BY <1>c, <2>1, <2>3 DEF Last, Plus, Slots
  <2>5. Fits'
        BY <1>c, <2>1, <2>2 DEF Fits
  <2>6. Holds'
    <3>1. Filled - Taken \in 0 .. Size - 2
          BY <1>c, <2>1 DEF Fits
    <3>2. Plus(Plus(First, Filled - Taken), 1) = Plus(First, (Filled - Taken) + 1)
          BY <1>c, <3>1, PlusProperties
    <3>3. (Filled - Taken) + 1 = (Filled + 1) - Taken
          BY <1>c
    <3>4. \A i, k : Plus(i, k)' = Plus(i, k)
          BY DEF Plus
    <3>. QED  BY <1>1, <2>1, <2>2, <2>4, <3>2, <3>3, <3>4 DEF Holds
  <2>7. Carries'
        BY <1>0, <2>1, <2>3 DEF Carries
  <2>8. PassedOn'
        BY <1>0, <2>1 DEF PassedOn
  <2>. QED  BY <2>5, <2>6, <2>7, <2>8
<1>6. CASE EnqueueTest
  <2>1. /\ lpc = "test" /\ lpc' = (IF tail >= Size THEN "zero" ELSE "idle")
        /\ tail \in 0 .. Size /\ UNCHANGED <<tail, items, accepted, reg>>
        BY <1>6 DEF EnqueueTest, LoopGoto, IndexInv, QueueTypeOK
  <2>2. Taken' = Taken /\ Filled' = Filled /\ Last' = Last
        BY <1>0, <2>1 DEF Taken, Filled, Last
  <2>3. Fits'
        BY <2>1, <2>2 DEF Fits
  <2>4. Carries'
        BY <1>0, <1>c, <2>1 DEF Carries
  <2>. QED  BY <1>0, <1>1, <2>1, <2>2, <2>3, <2>4, FifoKept
<1>7. CASE EnqueueZero
  <2>1. /\ lpc = "zero" /\ lpc' = "idle" /\ tail' = 0 /\ UNCHANGED <<items, accepted, reg>>
        BY <1>7 DEF EnqueueZero, LoopGoto
  <2>2. Taken' = Taken /\ Filled' = Filled /\ Last' = Last
        BY <1>0, <1>c, <2>1 DEF Taken, Filled, Last, Carries
  <2>3. Fits'
        BY <2>1, <2>2 DEF Fits
  <2>4. Carries'
        BY <1>0, <1>c, <2>1 DEF Carries
  <2>. QED  BY <1>0, <1>1, <2>1, <2>2, <2>3, <2>4, FifoKept
<1>. QED  BY <1>2, <1>3, <1>4, <1>5, <1>6, <1>7 DEF Enqueue, EnqueueRest

LEMMA FifoDequeue ==
  ASSUME IndexInv, Plain, Fits, Holds, Carries, PassedOn, Dequeue
  PROVE  Fits' /\ Holds' /\ Carries' /\ PassedOn'
<1>c. /\ Len(accepted) \in Nat /\ Len(delivered) \in Nat /\ Taken \in Int /\ Filled \in Int
      /\ First \in Slots /\ Last \in Slots /\ Size \in Nat /\ Size >= 1
      /\ use.usesPeek \in BOOLEAN
      BY Counts, UsesAssumption DEF IndexInv, QueueTypeOK, Use
<1>0. UNCHANGED <<use, tail, items, reg, accepted>> /\ burst' = 0
      BY DEF Dequeue, TakeStart, TakeCheck, TakeRead, TakeSend, RemoveCheck, TakeAdvance,
             TakeWrap, LoopGoto
<1>1. Last' = Last
      BY <1>0 DEF Last
<1>2. lpc # "wrap" => head = First
      BY DEF Carries, First
<1>3. lpc \notin {"test", "zero"} => tail = Last
      BY DEF Carries, Last
<1>4. CASE TakeStart
  <2>1. /\ lpc = "idle" /\ lpc' = (IF IsEmpty THEN "idle" ELSE "check")
        /\ UNCHANGED <<head, frame, delivered>>
        BY <1>4 DEF TakeStart, LoopGoto
  <2>2. Taken' = Taken /\ Filled' = Filled /\ First' = First
        BY <1>0, <2>1 DEF Taken, Filled, First
  <2>3. lpc' = "check" => Taken < Filled
        BY <1>2, <1>3, <1>c, <2>1, LooksRight DEF IsEmpty, Fits
  <2>4. Fits'
        BY <2>1, <2>2 DEF Fits
  <2>5. Carries'
        BY <1>0, <2>1, <2>2, <2>3 DEF Carries
  <2>. QED  BY <1>0, <1>1, <2>1, <2>2, <2>4, <2>5, FifoKept
<1>5. CASE TakeCheck
  <2>0. lpc = "check"
        BY <1>5 DEF TakeCheck, LoopGoto
  <2>1. ~IsEmpty
        BY <1>2, <1>3, <1>c, <2>0, LooksRight DEF IsEmpty, Carries
  <2>2. lpc' = "read" /\ UNCHANGED <<head, frame, delivered>>
        BY <1>5, <2>1 DEF TakeCheck, LoopGoto
  <2>3. Taken' = Taken /\ Filled' = Filled /\ First' = First
        BY <1>0, <2>0, <2>2 DEF Taken, Filled, First
  <2>4. Fits'
        BY <2>0, <2>2, <2>3 DEF Fits
  <2>5. Carries'
        BY <1>0, <2>0, <2>2, <2>3 DEF Carries
  <2>. QED  BY <1>0, <1>1, <2>2, <2>3, <2>4, <2>5, FifoKept
<1>6. CASE TakeRead
  <2>1. /\ lpc = "read" /\ lpc' = (IF use.usesPeek THEN "send" ELSE "advance")
        /\ frame' = items[head] /\ UNCHANGED <<head, delivered>>
        BY <1>6 DEF TakeRead, LoopGoto
  <2>2. Taken' = Taken /\ Filled' = Filled /\ First' = First
        BY <1>0, <2>1 DEF Taken, Filled, First
  <2>3. frame' = accepted[Taken + 1]
    <3>1. Taken < Filled /\ Filled <= Len(accepted) /\ head = First
          BY <1>2, <1>c, <2>1 DEF Carries, Filled
    <3>2. 0 \in 0 .. Len(accepted) - Taken - 1 /\ Taken + 0 + 1 = Taken + 1
          BY <1>c, <3>1
    <3>3. items[Plus(First, 0)] = accepted[Taken + 0 + 1]
          BY <3>2 DEF Holds
    <3>4. Plus(First, 0) = First
          BY <1>c, PlusProperties
    <3>. QED  BY <2>1, <3>1, <3>2, <3>3, <3>4
  <2>4. Fits'
        BY <2>1, <2>2 DEF Fits
  <2>5. Carries'
        BY <1>0, <2>1, <2>2, <2>3 DEF Carries
  <2>. QED  BY <1>0, <1>1, <2>1, <2>2, <2>4, <2>5, FifoKept
<1>7. CASE TakeSend
  <2>0. lpc = "send" /\ UNCHANGED <<head, frame>> /\ use.usesPeek
        BY <1>7 DEF TakeSend, LoopGoto, Carries
  <2>1. Taken = Len(delivered) /\ First' = First
        BY <1>c, <2>0 DEF Taken, First
  <2>2. CASE lpc' = "removecheck" /\ delivered' = Append(delivered, frame)
    <3>1. PassedOn' /\ Len(delivered') = Len(delivered) + 1
          BY <1>0, <2>0, <2>1, <2>2, FifoPass DEF Carries
    <3>2. Taken' = Taken /\ Filled' = Filled
          BY <1>0, <1>c, <2>0, <2>1, <2>2, <3>1 DEF Taken, Filled
    <3>3. Fits'
          BY <2>0, <2>2, <3>2 DEF Fits
    <3>4. Holds'
      <4>1. \A i, k : Plus(i, k)' = Plus(i, k)
            BY DEF Plus
      <4>. QED  BY <1>0, <1>1, <2>1, <3>2, <4>1 DEF Holds
    <3>5. Carries'
          BY <1>0, <2>0, <2>2, <3>2 DEF Carries
    <3>. QED  BY <3>1, <3>3, <3>4, <3>5
  <2>3. CASE lpc' = "idle" /\ UNCHANGED delivered
    <3>1. Taken' = Taken /\ Filled' = Filled
          BY <1>0, <1>c, <2>0, <2>1, <2>3 DEF Taken, Filled
    <3>2. Fits'
          BY <2>0, <2>3, <3>1 DEF Fits
    <3>3. Carries'
          BY <1>0, <2>0, <2>3 DEF Carries
    <3>. QED  BY <1>0, <1>1, <2>1, <2>3, <3>1, <3>2, <3>3, FifoKept
  <2>. QED  BY <1>7, <2>2, <2>3 DEF TakeSend, LoopGoto
<1>8. CASE RemoveCheck
  <2>0. lpc = "removecheck" /\ UNCHANGED <<head, frame, delivered>>
        BY <1>8 DEF RemoveCheck, LoopGoto
  <2>1. ~IsEmpty
        BY <1>2, <1>3, <1>c, <2>0, LooksRight DEF IsEmpty, Carries
  <2>2. lpc' = "advance"
        BY <1>8, <2>1 DEF RemoveCheck, LoopGoto
  <2>3. Taken' = Taken /\ Filled' = Filled /\ First' = First
        BY <1>0, <2>0, <2>2 DEF Taken, Filled, First
  <2>4. Fits'
        BY <2>0, <2>2, <2>3 DEF Fits
  <2>5. Carries'
        BY <1>0, <2>0, <2>2, <2>3 DEF Carries
  <2>. QED  BY <1>0, <1>1, <2>0, <2>3, <2>4, <2>5, FifoKept
<1>9. CASE TakeAdvance
  <2>0. /\ lpc = "advance" /\ lpc' = "wrap" /\ head' = head + 1
        /\ delivered' = (IF use.usesPeek THEN delivered ELSE Append(delivered, frame))
        /\ Taken < Filled /\ frame = accepted[Taken + 1]
        BY <1>9 DEF TakeAdvance, LoopGoto, Carries
  <2>1. PassedOn' /\ Taken' = Taken + 1
    <3>1. CASE use.usesPeek
      <4>1. delivered' = delivered
            BY <2>0, <3>1
      <4>2. PassedOn'
            BY <1>0, <4>1 DEF PassedOn
      <4>3. Taken' = Taken + 1
            BY <1>0, <1>c, <2>0, <3>1, <4>1 DEF Taken
      <4>. QED  BY <4>2, <4>3
    <3>2. CASE ~use.usesPeek
      <4>1. delivered' = Append(delivered, frame) /\ Taken = Len(delivered)
            BY <1>c, <2>0, <3>2 DEF Taken
      <4>2. PassedOn' /\ Len(delivered') = Len(delivered) + 1
            BY <1>0, <2>0, <4>1, FifoPass
      <4>3. Taken' = Taken + 1
            BY <1>0, <1>c, <2>0, <3>2, <4>1, <4>2 DEF Taken
      <4>. QED  BY <4>2, <4>3
    <3>. QED  BY <3>1, <3>2
  <2>2. Filled' = Filled
        BY <1>0, <2>0 DEF Filled
  <2>3. head \in Slots
        BY <1>2, <1>c, <2>0
  <2>4. Holds'
        BY <1>0, <2>0, <2>1, <2>2, <2>3, FifoRemove
  <2>5. Fits'
        BY <1>0, <1>c, <2>0, <2>1, <2>2 DEF Fits
  <2>6. Carries'
        BY <1>0, <2>0 DEF Carries
  <2>. QED  BY <2>1, <2>4, <2>5, <2>6
<1>10. CASE TakeWrap
  <2>1. /\ lpc = "wrap" /\ lpc' = "idle" /\ head' = (IF head >= Size THEN 0 ELSE head)
        /\ UNCHANGED <<frame, delivered>> /\ head \in 0 .. Size
        BY <1>10 DEF TakeWrap, LoopGoto, IndexInv, QueueTypeOK
  <2>2. Taken' = Taken /\ Filled' = Filled /\ First' = First
        BY <1>0, <1>c, <2>1 DEF Taken, Filled, First
  <2>3. Fits'
        BY <2>1, <2>2 DEF Fits
  <2>4. Carries'
        BY <1>0, <1>c, <2>1 DEF Carries
  <2>. QED  BY <1>0, <1>1, <2>1, <2>2, <2>3, <2>4, FifoKept
<1>. QED  BY <1>4, <1>5, <1>6, <1>7, <1>8, <1>9, <1>10 DEF Dequeue

LEMMA FifoStep == IndexInv /\ FifoInv /\ [QueueNext]_qvars => FifoInv'
<1>. SUFFICES ASSUME IndexInv, FifoInv, [QueueNext]_qvars, Plain' PROVE Fits' /\ Holds' /\ Carries' /\ PassedOn'
     BY DEF FifoInv
<1>1. use' = use
      BY DEF QueueNext, Callback, Enqueue, EnqueueRest, EnqueueCheck, EnqueueWrite, EnqueueLoad,
             EnqueueStore, EnqueueTest, EnqueueZero, Dequeue, TakeStart, TakeCheck, TakeRead,
             TakeSend, RemoveCheck, TakeAdvance, TakeWrap, qvars
<1>2. Plain
      BY <1>1 DEF Plain, SoleProducer
<1>3. Fits /\ Holds /\ Carries /\ PassedOn
      BY <1>2 DEF FifoInv
<1>4. ASSUME UNCHANGED qvars PROVE Fits' /\ Holds' /\ Carries' /\ PassedOn'
  <2>1. UNCHANGED <<use, head, tail, items, lpc, frame, reg, burst, accepted, delivered>>
        BY <1>4 DEF qvars
  <2>2. Taken' = Taken /\ Filled' = Filled /\ First' = First /\ Last' = Last
        BY <2>1 DEF Taken, Filled, First, Last
  <2>3. Fits' /\ Carries'
        BY <1>3, <2>1, <2>2 DEF Fits, Carries
  <2>. QED  BY <1>3, <2>1, <2>2, <2>3, FifoKept
<1>. QED  BY <1>2, <1>3, <1>4, FifoCallback, FifoEnqueue, FifoDequeue DEF QueueNext

LEMMA FifoInvariant == QueueSpec => [](IndexInv /\ FifoInv)
<1>1. QueueInit => IndexInv /\ FifoInv
      BY InitIndex, FifoInit
<1>2. IndexInv /\ FifoInv /\ [QueueNext]_qvars => IndexInv' /\ FifoInv'
      BY StepIndex, FifoStep
<1>. QED  BY <1>1, <1>2, PTL DEF QueueSpec

\* With one producer and one interrupt at a time, a queue of any size passes its frames on
\* in the order in which it accepted them, none skipped, none twice (enqueue, dequeue, peek
\* and remove of queue.h, and loop()).
THEOREM PassesOnInOrder == QueueSpec => []DeliversInOrder
<1>1. IndexInv /\ FifoInv => DeliversInOrder
      BY DEF FifoInv, Plain, PassedOn, DeliversInOrder
<1>. QED  BY <1>1, FifoInvariant, PTL

\* With one producer and one interrupt at a time, a queue of any size never holds more than
\* Size - 1 frames, so it never looks empty when it is full (the test of enqueue).
THEOREM TurnsAwayAtFull == QueueSpec => []SoleProducerStopsAtFull
<1>1. IndexInv /\ FifoInv => SoleProducerStopsAtFull
  <2>. SUFFICES ASSUME IndexInv, FifoInv, Plain PROVE Held <= Size - 1
       BY DEF SoleProducerStopsAtFull, FullIsDetected, Plain
  <2>1. Fits
        BY DEF FifoInv
  <2>2. /\ Len(accepted) \in Nat /\ Len(delivered) \in Nat /\ Taken \in Int /\ Filled \in Int
        /\ Size \in Nat /\ Taken <= Len(delivered)
        BY Counts DEF Taken
  <2>3. CASE lpc \in {"load", "store"}
    <3>1. Len(accepted) = Filled + 1 /\ Filled - Taken <= Size - 2
          BY <2>1, <2>2, <2>3 DEF Filled, Fits
    <3>. QED  BY <2>2, <3>1 DEF Held
  <2>4. CASE lpc \notin {"load", "store"}
    <3>1. Len(accepted) = Filled /\ Filled - Taken <= Size - 1
          BY <2>1, <2>2, <2>4 DEF Filled, Fits
    <3>. QED  BY <2>2, <3>1 DEF Held
  <2>. QED  BY <2>3, <2>4
<1>. QED  BY <1>1, FifoInvariant, PTL

=============================================================================
