----------------------------- MODULE FrameQueue -----------------------------
(***************************************************************************)
(* The ring buffers of the M2 firmware (sketches/M2_CAN_haz_bus/queue.h)   *)
(* as its main loop and its interrupts use them.                           *)
(*                                                                         *)
(* A CAN interrupt (Sniff_Can0_cb, CITM_Can0_cb, ...) puts frames into a   *)
(* queue and runs to its end before the loop goes on; the loop takes       *)
(* frames out, and puts some in itself (SendFrame), and may be interrupted *)
(* between any two accesses to head and tail.                              *)
(***************************************************************************)
EXTENDS Naturals, Sequences

CONSTANTS
  Size,          \* num_items
  Uses,          \* what the firmware uses such a queue for, see below
  MaxFrames      \* bound: frames that are put into the queue

(***************************************************************************)
(* A use of a queue: whether the loop puts frames into it, whether it takes*)
(* them with peek and remove or with dequeue, and how many interrupts come *)
(* between two accesses of the loop at most.                               *)
(***************************************************************************)
Use == [loopEnqueues : BOOLEAN, usesPeek : BOOLEAN, burst : Nat]

ASSUME SizeAssumption == Size \in Nat \ {0}
ASSUME UsesAssumption == Uses \subseteq Use
ASSUME FramesBound == MaxFrames \in Nat

VARIABLES
  use,                \* what this queue is for; never changes
  head, tail, items,  \* the members of the queue
  lpc,                \* what the loop does next
  frame,              \* the frame in the loop's hands
  reg,                \* the register in which the loop increments tail
  burst,              \* interrupts since the last access of the loop
  next,               \* number of the next frame
  accepted,           \* history: the frames whose enqueue returned true
  delivered,          \* history: the frames the loop has passed on
  outside             \* history: a write missed the buffer

qvars == <<use, head, tail, items, lpc, frame, reg, burst, next, accepted, delivered,
           outside>>

Slots == 0 .. Size - 1
Garbage == 0        \* a CAN_FRAME that was never assigned

LoopPc == {"idle", "write", "load", "store", "test", "zero",
           "check", "read", "send", "removecheck", "advance", "wrap"}

QueueTypeOK ==
  /\ use \in Uses
  /\ head \in 0 .. Size
  /\ tail \in 0 .. Size
  /\ items \in [Slots -> Nat]
  /\ lpc \in LoopPc
  /\ frame \in Nat
  /\ reg \in 0 .. Size
  /\ burst \in 0 .. use.burst
  /\ next \in Nat \ {0}
  /\ accepted \in Seq(Nat)
  /\ delivered \in Seq(Nat)
  /\ outside \in BOOLEAN

QueueInit ==
  /\ use \in Uses
  /\ head = 0 /\ tail = 0
  /\ items = [i \in Slots |-> Garbage]
  /\ lpc = "idle"
  /\ frame = Garbage
  /\ reg = 0 /\ burst = 0 /\ next = 1
  /\ accepted = <<>> /\ delivered = <<>>
  /\ outside = FALSE

IsEmpty == head = tail
\* Faulty variant: the wrap-around is forgotten.
IsFullNoWrap == tail + 1 = head

IsFull == (tail + 1) % Size = head

\* The frames in the buffer, whatever head and tail say.
Held == Len(accepted) - Len(delivered)

\* One access of the loop; interrupts may follow it.
LoopGoto(from, to) ==
  /\ lpc = from
  /\ lpc' = to
  /\ burst' = 0

\* items[tail] = f
Store(f) ==
  IF tail \in Slots
    THEN items' = [items EXCEPT ![tail] = f] /\ UNCHANGED outside
    ELSE outside' = TRUE /\ UNCHANGED items

-----------------------------------------------------------------------------
\* Faulty variant: tail is not wrapped around.
CallbackNoWrap ==
  /\ burst < use.burst /\ next <= MaxFrames
  /\ burst' = burst + 1
  /\ next' = next + 1
  /\ IF IsFull
       THEN UNCHANGED <<items, tail, accepted, outside>>
       ELSE /\ Store(next)
            /\ tail' = tail + 1
            /\ accepted' = Append(accepted, next)
  /\ UNCHANGED <<use, head, lpc, frame, reg, delivered>>

(***************************************************************************)
(* An interrupt: all of enqueue.                                           *)
(***************************************************************************)
Callback ==
  /\ burst < use.burst /\ next <= MaxFrames
  /\ burst' = burst + 1
  /\ next' = next + 1
  /\ IF IsFull
       THEN UNCHANGED <<items, tail, accepted, outside>>
       ELSE /\ Store(next)
            /\ tail' = IF tail + 1 >= Size THEN 0 ELSE tail + 1
            /\ accepted' = Append(accepted, next)
  /\ UNCHANGED <<use, head, lpc, frame, reg, delivered>>

(***************************************************************************)
(* enqueue in the loop, one access after the other.                        *)
(***************************************************************************)

\* if((tail + 1) % num_items == head) return false;
EnqueueCheck ==
  /\ use.loopEnqueues /\ next <= MaxFrames
  /\ next' = next + 1
  /\ frame' = next
  /\ LoopGoto("idle", IF IsFull THEN "idle" ELSE "write")
  /\ UNCHANGED <<use, head, tail, items, reg, accepted, delivered, outside>>

EnqueueWrite ==
  /\ LoopGoto("write", "load")
  /\ Store(frame)
  /\ accepted' = Append(accepted, frame)
  /\ UNCHANGED <<use, head, tail, frame, reg, next, delivered>>

\* tail++ on a volatile: a load, and a store of the incremented register.
EnqueueLoad ==
  /\ LoopGoto("load", "store")
  /\ reg' = tail
  /\ UNCHANGED <<use, head, tail, items, frame, next, accepted, delivered, outside>>

EnqueueStore ==
  /\ LoopGoto("store", "test")
  /\ tail' = reg + 1
  /\ UNCHANGED <<use, head, items, frame, reg, next, accepted, delivered, outside>>

\* if(tail >= num_items) tail = 0;
EnqueueTest ==
  /\ LoopGoto("test", IF tail >= Size THEN "zero" ELSE "idle")
  /\ UNCHANGED <<use, head, tail, items, frame, reg, next, accepted, delivered,
                 outside>>

EnqueueZero ==
  /\ LoopGoto("zero", "idle")
  /\ tail' = 0
  /\ UNCHANGED <<use, head, items, frame, reg, next, accepted, delivered, outside>>

-----------------------------------------------------------------------------
(***************************************************************************)
(* The loop takes a frame out: dequeue, or peek, sendFrame and remove.     *)
(***************************************************************************)

\* Faulty variant: the last frame is overlooked.
TakeStartOffByOne ==
  /\ LoopGoto("idle", IF (head + 1) % Size = tail \/ IsEmpty THEN "idle" ELSE "check")
  /\ UNCHANGED <<use, head, tail, items, frame, reg, next, accepted, delivered,
                 outside>>

\* if(!queue.isEmpty()) in loop().
TakeStart ==
  /\ LoopGoto("idle", IF IsEmpty THEN "idle" ELSE "check")
  /\ UNCHANGED <<use, head, tail, items, frame, reg, next, accepted, delivered,
                 outside>>

\* dequeue and peek test again, and return a frame that was never assigned if
\* the queue is empty after all.
TakeCheck ==
  /\ LoopGoto("check", IF ~IsEmpty THEN "read" ELSE IF use.usesPeek THEN "send" ELSE "idle")
  /\ frame' = IF IsEmpty THEN Garbage ELSE frame
  /\ delivered' = IF IsEmpty /\ ~use.usesPeek THEN Append(delivered, Garbage) ELSE delivered
  /\ UNCHANGED <<use, head, tail, items, reg, next, accepted, outside>>

\* item = items[head]
TakeRead ==
  /\ LoopGoto("read", IF use.usesPeek THEN "send" ELSE "advance")
  /\ frame' = items[head]
  /\ UNCHANGED <<use, head, tail, items, reg, next, accepted, delivered, outside>>

\* Faulty variant: the frame is removed whether or not it was sent.
TakeSendOnce ==
  /\ LoopGoto("send", "removecheck")
  /\ delivered' \in {delivered, Append(delivered, frame)}
  /\ UNCHANGED <<use, head, tail, items, frame, reg, next, accepted, outside>>

\* if(Can0.sendFrame(frame)) remove(): a mailbox for sending may be taken.
TakeSend ==
  /\ \/ /\ LoopGoto("send", "removecheck")
        /\ delivered' = Append(delivered, frame)
     \/ /\ LoopGoto("send", "idle")
        /\ UNCHANGED delivered
  /\ UNCHANGED <<use, head, tail, items, frame, reg, next, accepted, outside>>

RemoveCheck ==
  /\ LoopGoto("removecheck", IF IsEmpty THEN "idle" ELSE "advance")
  /\ UNCHANGED <<use, head, tail, items, frame, reg, next, accepted, delivered,
                 outside>>

\* head++: from here on the slot is free for enqueue.
TakeAdvance ==
  /\ LoopGoto("advance", "wrap")
  /\ head' = head + 1
  /\ delivered' = IF use.usesPeek THEN delivered ELSE Append(delivered, frame)
  /\ UNCHANGED <<use, tail, items, frame, reg, next, accepted, outside>>

\* Faulty variant: off by one.
TakeWrapLate ==
  /\ LoopGoto("wrap", "idle")
  /\ head' = IF head > Size THEN 0 ELSE head
  /\ UNCHANGED <<use, tail, items, frame, reg, next, accepted, delivered, outside>>

\* if(head >= num_items) head = 0;
TakeWrap ==
  /\ LoopGoto("wrap", "idle")
  /\ head' = IF head >= Size THEN 0 ELSE head
  /\ UNCHANGED <<use, tail, items, frame, reg, next, accepted, delivered, outside>>

-----------------------------------------------------------------------------

EnqueueRest == EnqueueWrite \/ EnqueueLoad \/ EnqueueStore \/ EnqueueTest \/ EnqueueZero

Enqueue == EnqueueCheck \/ EnqueueRest

Dequeue == \/ TakeStart \/ TakeCheck \/ TakeRead \/ TakeSend \/ RemoveCheck
           \/ TakeAdvance \/ TakeWrap

QueueNext == Callback \/ Enqueue \/ Dequeue

QueueSpec == QueueInit /\ [][QueueNext]_qvars

\* loop() is called for ever; sendFrame succeeds again and again.
QueueFairSpec ==
  /\ QueueSpec
  /\ WF_qvars(EnqueueRest \/ Dequeue)
  /\ SF_qvars(TakeSend /\ lpc' = "removecheck")

-----------------------------------------------------------------------------


\* Either the interrupts put frames into the queue, or the loop does.
SoleProducer == use.burst = 0 \/ ~use.loopEnqueues

\* With one producer, and one interrupt at a time, the loop passes on the frames
\* that were accepted, in the order in which they came, none skipped, none twice
\* and nothing that was never received.
DeliversInOrder ==
  SoleProducer /\ use.burst <= 1 =>
    /\ Len(delivered) <= Len(accepted)
    /\ \A i \in 1 .. Len(delivered) : delivered[i] = accepted[i]

\* "Buffer is full" (queue.h): a frame that comes when Size - 1 frames are held
\* is turned away, so that a queue is never filled until it looks empty.
FullIsDetected == Held <= Size - 1

\* With one producer and one interrupt at a time, it is.
SoleProducerStopsAtFull == SoleProducer /\ use.burst <= 1 => FullIsDetected

\* Whoever produces, and however often the loop is interrupted: between its
\* increments and their wrap-arounds both indices are in the buffer, and only an
\* interrupt in the middle of the loop's own enqueue can write beyond it.
IndicesInside ==
  /\ lpc # "wrap" => head \in Slots
  /\ lpc \notin {"test", "zero"} => tail \in Slots
  /\ SoleProducer => ~outside

\* With one producer and one interrupt at a time, every accepted frame is passed
\* on in the end.
EverythingDelivered ==
  \A n \in 1 .. MaxFrames :
    (SoleProducer /\ use.burst <= 1 /\ n \in {accepted[i] : i \in 1 .. Len(accepted)})
      ~> (n \in {delivered[i] : i \in 1 .. Len(delivered)})

=============================================================================
