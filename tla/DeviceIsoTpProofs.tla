------------------------- MODULE DeviceIsoTpProofs -------------------------
(***************************************************************************)
(* Theorems about DeviceIsoTp: for any number of nodes, messages of any    *)
(* length that ISO-TP allows and a queue of any size.                      *)
(***************************************************************************)
EXTENDS DeviceIsoTp, SequenceTheorems, TLAPS

Queued == [type : {"first", "consecutive", "flow", "single"}, to : Ids]
Segment == [to : Ids, from : Word, n : Byte, pci : 0 .. 15]

Message == [to : Ids, size : Word, undisturbed : BOOLEAN]

\* Types, by what the actions change together.
TransmitOK == go \in {0, 1} /\ pci \in 0 .. 15 /\ {index, length} \subseteq Word
NodesOK == to \in Ids /\ opened \subseteq Ids /\ owing \subseteq Ids
PlaceOK ==
  /\ at \in {"loop", "size", "send", "advance", "finish", "set", "first"}
  /\ n \in Byte
QueueOK == queue \in Seq(Queued) /\ Len(queue) <= QueueRoom
HistoryOK == message \in Message /\ segments \in Seq(Segment)

\* What SendSet relies on.
LongEnough == at = "set" => message.size >= 8

IsoTpTypes == TransmitOK /\ NodesOK /\ PlaceOK /\ QueueOK /\ HistoryOK /\ LongEnough

-----------------------------------------------------------------------------
(***************************************************************************)
(* Where an undisturbed message is.                                        *)
(***************************************************************************)
NoFirst(q) == \A k \in 1 .. Len(q) : q[k].type # "first"
OneFirst(q, i) ==
  \E k \in 1 .. Len(q) :
    /\ q[k].type = "first" /\ q[k].to = i
    /\ \A j \in 1 .. Len(q) : q[j].type = "first" => j = k

Quiet == owing = {} /\ NoFirst(queue)

\* Nothing goes on: nothing has been sent yet, or all has, or the receiver wants no more.
Resting == at = "loop" /\ go = 0 /\ Quiet

Preparing == at = "set" /\ go = 0 /\ Quiet /\ segments = <<>> /\ to = message.to

\* The message is in isotp_tx_buffer and nothing of it has been sent but its first frame.
Fresh ==
  /\ to = message.to /\ length = message.size /\ length >= 8
  /\ go = 0 /\ index = 6 /\ pci = 1 /\ segments = <<>>

Prepared == at = "first" /\ Fresh /\ Quiet
Announced == at = "loop" /\ Fresh /\ owing = {} /\ OneFirst(queue, message.to)
Awaited == at = "loop" /\ Fresh /\ owing = {message.to} /\ NoFirst(queue)

\* process_isotp goes through the message: sent is the number of segments.
Started(sent) ==
  \/ /\ at \in {"loop", "size"}
     /\ index = 7 * sent + 6 /\ pci = (sent + 1) % 16 /\ index < length
  \/ /\ at = "send" /\ n = AtMost7(length - index)
     /\ index = 7 * sent + 6 /\ pci = (sent + 1) % 16 /\ index < length
  \/ /\ at = "advance" /\ n = AtMost7(length - index)
     /\ index = 7 * sent - 1 /\ pci = sent % 16 /\ index < length
  \/ /\ at = "finish" /\ pci = (sent + 1) % 16
     /\ \/ index = 7 * sent + 6 /\ index < length
        \/ index = length

Sending ==
  /\ go = 1 /\ Quiet
  /\ to = message.to /\ length = message.size /\ length >= 8
  /\ Started(Len(segments))

Exact(k) ==
  [to |-> message.to, from |-> 7 * k - 1, n |-> AtMost7(message.size - 7 * k + 1),
   pci |-> k % 16]

SentExactly ==
  /\ Len(segments) <= message.size \div 7
  /\ \A k \in 1 .. Len(segments) : segments[k] = Exact(k)

Phase == Resting \/ Preparing \/ Prepared \/ Announced \/ Awaited \/ Sending

OnCourse == message.undisturbed => Phase /\ SentExactly

IsoTpInv == IsoTpTypes /\ OnCourse

-----------------------------------------------------------------------------
(***************************************************************************)
(* The queue of frames.                                                    *)
(***************************************************************************)
LEMMA QueueGrows ==
  ASSUME NEW q \in Seq(Queued), NEW e \in Queued
  PROVE  /\ Append(q, e) \in Seq(Queued) /\ Len(Append(q, e)) = Len(q) + 1
         /\ e.type # "first" /\ NoFirst(q) => NoFirst(Append(q, e))
         /\ \A j \in Ids : e.type # "first" /\ OneFirst(q, j) => OneFirst(Append(q, e), j)
         /\ e.type = "first" /\ NoFirst(q) => OneFirst(Append(q, e), e.to)
<1> DEFINE a == Append(q, e)
<1>1. /\ a \in Seq(Queued) /\ Len(a) = Len(q) + 1 /\ Len(q) \in Nat
      /\ \A k \in 1 .. Len(q) : a[k] = q[k]
      /\ a[Len(q) + 1] = e
      BY AppendProperties, LenProperties
<1>. HIDE DEF a
<1>2. ASSUME NEW k \in 1 .. Len(a) PROVE k \in 1 .. Len(q) \/ k = Len(q) + 1
      BY <1>1
<1>3. e.type # "first" /\ NoFirst(q) => NoFirst(a)
      BY <1>1, <1>2 DEF NoFirst
<1>4. ASSUME NEW j \in Ids, e.type # "first", OneFirst(q, j) PROVE OneFirst(a, j)
  <2>1. PICK k \in 1 .. Len(q) : /\ q[k].type = "first" /\ q[k].to = j
                                 /\ \A l \in 1 .. Len(q) : q[l].type = "first" => l = k
        BY <1>4 DEF OneFirst
  <2>2. k \in 1 .. Len(a) /\ a[k] = q[k]
        BY <1>1
  <2>3. ASSUME NEW l \in 1 .. Len(a), a[l].type = "first" PROVE l = k
        BY <2>1, <2>3, <1>1, <1>2, <1>4
  <2>. QED  BY <2>1, <2>2, <2>3 DEF OneFirst
<1>5. ASSUME e.type = "first", NoFirst(q) PROVE OneFirst(a, e.to)
  <2>1. Len(q) + 1 \in 1 .. Len(a)
        BY <1>1
  <2>2. ASSUME NEW l \in 1 .. Len(a), a[l].type = "first" PROVE l = Len(q) + 1
        BY <2>2, <1>1, <1>2, <1>5 DEF NoFirst
  <2>. QED  BY <2>1, <2>2, <1>1, <1>5 DEF OneFirst
<1>. QED  BY <1>1, <1>3, <1>4, <1>5 DEF a

LEMMA QueueShrinks ==
  ASSUME NEW q \in Seq(Queued), q # <<>>
  PROVE  /\ Tail(q) \in Seq(Queued) /\ Len(Tail(q)) = Len(q) - 1 /\ Head(q) \in Queued
         /\ NoFirst(q) => Head(q).type # "first" /\ NoFirst(Tail(q))
         /\ \A j \in Ids : OneFirst(q, j) =>
              IF Head(q).type = "first" THEN Head(q).to = j /\ NoFirst(Tail(q))
                                        ELSE OneFirst(Tail(q), j)
<1>1. /\ Head(q) \in Queued /\ Tail(q) \in Seq(Queued) /\ Len(Tail(q)) = Len(q) - 1
      /\ \A k \in 1 .. Len(Tail(q)) : Tail(q)[k] = q[k + 1]
      BY HeadTailProperties
<1>2. Len(q) \in Nat \ {0} /\ Head(q) = q[1]
      BY EmptySeq
<1>3. NoFirst(q) => Head(q).type # "first" /\ NoFirst(Tail(q))
      BY <1>1, <1>2 DEF NoFirst
<1>4. ASSUME NEW j \in Ids, OneFirst(q, j)
      PROVE  IF Head(q).type = "first" THEN Head(q).to = j /\ NoFirst(Tail(q))
                                       ELSE OneFirst(Tail(q), j)
  <2>1. PICK k \in 1 .. Len(q) : /\ q[k].type = "first" /\ q[k].to = j
                                 /\ \A l \in 1 .. Len(q) : q[l].type = "first" => l = k
        BY <1>4 DEF OneFirst
  <2>2. CASE k = 1
    <3>1. ASSUME NEW l \in 1 .. Len(Tail(q)) PROVE Tail(q)[l].type # "first"
      <4>1. l + 1 \in 1 .. Len(q) /\ l + 1 # 1
            BY <1>1, <1>2
      <4>. QED  BY <4>1, <2>1, <2>2, <1>1
    <3>. QED  BY <3>1, <2>1, <2>2, <1>2 DEF NoFirst
  <2>3. CASE k # 1
    <3>1. Head(q).type # "first"
          BY <2>1, <2>3, <1>2
    <3>2. k - 1 \in 1 .. Len(Tail(q)) /\ Tail(q)[k - 1] = q[k]
          BY <2>3, <1>1, <1>2
    <3>3. ASSUME NEW l \in 1 .. Len(Tail(q)), Tail(q)[l].type = "first" PROVE l = k - 1
      <4>1. l + 1 \in 1 .. Len(q) /\ Tail(q)[l] = q[l + 1]
            BY <1>1, <1>2
      <4>. QED  BY <4>1, <3>3, <2>1
    <3>. QED  BY <3>1, <3>2, <3>3, <2>1 DEF OneFirst
  <2>. QED  BY <2>2, <2>3
<1>. QED  BY <1>1, <1>3, <1>4

\* What SendFrame leaves of the queue.
LEMMA SendFrameQueues ==
  ASSUME QueueOK, IsoTpAssumption,
         NEW type \in {"first", "consecutive", "flow", "single"}, NEW i \in Ids,
         SendFrame(type, i)
  PROVE  /\ QueueOK'
         /\ type # "first" /\ NoFirst(queue) => NoFirst(queue')
         /\ \A j \in Ids : type # "first" /\ OneFirst(queue, j) => OneFirst(queue', j)
         /\ Room /\ type = "first" /\ NoFirst(queue) => OneFirst(queue', i)
<1>0. queue \in Seq(Queued) /\ Len(queue) <= QueueRoom
      BY DEF QueueOK
<1>1. queue \in Seq(Queued) /\ Len(queue) <= QueueRoom /\ Len(queue) \in Nat
      BY <1>0, LenProperties
<1>2. Frame(type, i) \in Queued /\ Frame(type, i).type = type /\ Frame(type, i).to = i
      BY DEF Frame, Queued
<1>3. CASE Room
  <2>1. queue' = Append(queue, Frame(type, i))
        BY <1>3 DEF SendFrame
  <2>2. Len(queue) < QueueRoom /\ QueueRoom \in Nat
        BY <1>3 DEF Room, IsoTpAssumption
  <2>3. Len(queue') = Len(queue) + 1
        BY <1>1, <1>2, <2>1, QueueGrows
  <2>4. Len(queue') <= QueueRoom
        BY <2>2, <2>3, <1>1
  <2>. QED  BY <1>1, <1>2, <2>1, <2>4, QueueGrows DEF QueueOK
<1>4. CASE ~Room
      BY <1>1, <1>4 DEF SendFrame, QueueOK
<1>. QED  BY <1>3, <1>4

-----------------------------------------------------------------------------
(***************************************************************************)
(* Types.                                                                  *)
(***************************************************************************)
LEMMA TypesInit == IsoTpAssumption /\ IsoTpInit => IsoTpTypes
<1>. SUFFICES ASSUME IsoTpAssumption, IsoTpInit PROVE IsoTpTypes
     OBVIOUS
<1>1. QueueOK
  <2>1. queue \in Seq(Queued) /\ Len(queue) = 0
        BY EmptySeq DEF IsoTpInit
  <2>2. QueueRoom \in Nat
        BY DEF IsoTpAssumption
  <2>. QED  BY <2>1, <2>2 DEF QueueOK
<1>2. HistoryOK
  <2>1. segments \in Seq(Segment)
        BY EmptySeq DEF IsoTpInit
  <2>2. message \in Message
        BY DEF IsoTpInit, Message, Word
  <2>. QED  BY <2>1, <2>2 DEF HistoryOK
<1>3. TransmitOK /\ NodesOK /\ PlaceOK /\ LongEnough
      BY DEF IsoTpInit, TransmitOK, NodesOK, PlaceOK, LongEnough, Word, Byte
<1>. QED  BY <1>1, <1>2, <1>3 DEF IsoTpTypes

\* A step that leaves variables alone leaves their types alone.
LEMMA TypesKept ==
  /\ TransmitOK /\ UNCHANGED transmit => TransmitOK'
  /\ NodesOK /\ UNCHANGED <<to, opened, owing>> => NodesOK'
  /\ QueueOK /\ UNCHANGED queue => QueueOK'
  /\ HistoryOK /\ UNCHANGED <<message, segments>> => HistoryOK'
  /\ PlaceOK /\ UNCHANGED <<at, n>> => PlaceOK'
  /\ LongEnough /\ UNCHANGED <<at, message>> => LongEnough'
  /\ at' # "set" => LongEnough'
BY DEF transmit, TransmitOK, NodesOK, QueueOK, HistoryOK, PlaceOK, LongEnough

LEMMA TypesProcess ==
  ASSUME IsoTpAssumption, IsoTpTypes, Process
  PROVE  IsoTpTypes'
<1>. /\ TransmitOK /\ NodesOK /\ PlaceOK /\ QueueOK /\ HistoryOK /\ LongEnough
     BY DEF IsoTpTypes
<1>. SUFFICES TransmitOK' /\ NodesOK' /\ PlaceOK' /\ QueueOK' /\ HistoryOK' /\ LongEnough'
     BY DEF IsoTpTypes
<1>1. CASE ProcessStart
  <2>1. PlaceOK' /\ at' # "set"
        BY <1>1 DEF ProcessStart, PlaceOK
  <2>. QED  BY <1>1, <2>1, TypesKept DEF ProcessStart
<1>2. CASE ProcessSize
  <2>1. (length - index) % 256 \in Byte
        BY DEF TransmitOK, Word, Byte
  <2>2. PlaceOK' /\ at' # "set"
        BY <1>2, <2>1 DEF ProcessSize, PlaceOK, Byte
  <2>. QED  BY <1>2, <2>2, TypesKept DEF ProcessSize
<1>3. CASE ProcessSend
  <2>1. QueueOK'
    <3>1. to \in Ids /\ SendFrame("consecutive", to)
          BY <1>3 DEF ProcessSend, NodesOK
    <3>. QED  BY <3>1, SendFrameQueues
  <2>2. HistoryOK'
    <3>1. [to |-> to, from |-> index, n |-> n, pci |-> pci] \in Segment
          BY DEF TransmitOK, NodesOK, PlaceOK, Segment
    <3>2. segments \in Seq(Segment)
          BY DEF HistoryOK
    <3>3. segments' \in Seq(Segment)
          BY <1>3, <3>1, <3>2, AppendProperties DEF ProcessSend
    <3>. QED  BY <1>3, <3>3 DEF ProcessSend, HistoryOK
  <2>3. PlaceOK' /\ at' # "set"
        BY <1>3 DEF ProcessSend, AfterSend, PlaceOK
  <2>. QED  BY <1>3, <2>1, <2>2, <2>3, TypesKept DEF ProcessSend
<1>4. CASE ProcessAdvance
  <2>1. index \in Word /\ n \in Byte /\ pci \in 0 .. 15
        BY DEF TransmitOK, PlaceOK
  <2>2. (index + n) % 65536 \in Word /\ NextPci(pci) \in 0 .. 15
        BY <2>1 DEF NextPci, Word, Byte
  <2>3. TransmitOK'
        BY <1>4, <2>2 DEF ProcessAdvance, TransmitOK
  <2>4. PlaceOK' /\ at' # "set"
        BY <1>4 DEF ProcessAdvance, PlaceOK
  <2>. QED  BY <1>4, <2>3, <2>4, TypesKept DEF ProcessAdvance
<1>5. CASE ProcessFinish
  <2>1. TransmitOK'
        BY <1>5 DEF ProcessFinish, TransmitOK, transmit, Word
  <2>2. PlaceOK' /\ at' # "set"
        BY <1>5 DEF ProcessFinish, PlaceOK
  <2>. QED  BY <1>5, <2>1, <2>2, TypesKept DEF ProcessFinish
<1>. QED  BY <1>1, <1>2, <1>3, <1>4, <1>5 DEF Process

LEMMA TypesCommand ==
  ASSUME IsoTpAssumption, IsoTpTypes, Command
  PROVE  IsoTpTypes'
<1>. /\ TransmitOK /\ NodesOK /\ PlaceOK /\ QueueOK /\ HistoryOK /\ LongEnough
     BY DEF IsoTpTypes
<1>. SUFFICES TransmitOK' /\ NodesOK' /\ PlaceOK' /\ QueueOK' /\ HistoryOK' /\ LongEnough'
     BY DEF IsoTpTypes
<1>0. /\ message \in Message /\ message.size \in Word /\ segments \in Seq(Segment)
      /\ to \in Ids
      BY DEF HistoryOK, Message, NodesOK
<1>a. ASSUME NEW b \in BOOLEAN PROVE [message EXCEPT !.undisturbed = b] \in Message
      BY <1>0 DEF Message
<1>1. ASSUME NEW i \in Ids, SendSingle(i) PROVE IsoTpTypes'
  <2>1. QueueOK'
        BY <1>1, SendFrameQueues DEF SendSingle
  <2>2. HistoryOK'
    <3> DEFINE b == message.undisturbed /\ (Settled \/ i = to)
    <3>1. b \in BOOLEAN /\ message' = [message EXCEPT !.undisturbed = b]
          BY <1>1 DEF SendSingle
    <3>. HIDE DEF b
    <3>2. message' \in Message
          BY <1>a, <3>1
    <3>. QED  BY <1>0, <1>1, <3>2 DEF SendSingle, HistoryOK
  <2>3. NodesOK'
        BY <1>1 DEF SendSingle, NodesOK
  <2>4. at' # "set" /\ UNCHANGED <<transmit, at, n>>
        BY <1>1 DEF SendSingle
  <2>. QED  BY <2>1, <2>2, <2>3, <2>4, TypesKept DEF IsoTpTypes
<1>2. ASSUME NEW i \in Ids, Receive(i) PROVE IsoTpTypes'
  <2>2. HistoryOK'
    <3> DEFINE b == message.undisturbed /\ (Settled \/ i = to)
    <3>1. b \in BOOLEAN /\ message' = [message EXCEPT !.undisturbed = b]
          BY <1>2 DEF Receive
    <3>. HIDE DEF b
    <3>2. message' \in Message
          BY <1>a, <3>1
    <3>. QED  BY <1>0, <1>2, <3>2 DEF Receive, HistoryOK
  <2>3. NodesOK'
        BY <1>2 DEF Receive, NodesOK
  <2>4. at' # "set" /\ UNCHANGED <<transmit, at, n, queue>>
        BY <1>2 DEF Receive
  <2>. QED  BY <2>2, <2>3, <2>4, TypesKept DEF IsoTpTypes
<1>3. ASSUME NEW i \in Ids, NEW l \in Lengths, SendStart(i, l) PROVE IsoTpTypes'
  <2>1. l \in Word /\ l >= 8
        BY DEF IsoTpAssumption, Word
  <2>2. Settled \in BOOLEAN
        BY DEF Settled
  <2>3. message' \in Message /\ message'.size >= 8
        BY <1>3, <2>1, <2>2 DEF SendStart, Message
  <2>4. HistoryOK' /\ LongEnough'
    <3>1. segments' \in Seq(Segment)
          BY <1>3, EmptySeq DEF SendStart
    <3>. QED  BY <2>3, <3>1 DEF HistoryOK, LongEnough
  <2>5. TransmitOK'
        BY <1>3 DEF SendStart, TransmitOK
  <2>6. NodesOK' /\ PlaceOK'
        BY <1>3 DEF SendStart, NodesOK, PlaceOK
  <2>7. UNCHANGED queue
        BY <1>3 DEF SendStart
  <2>. QED  BY <2>4, <2>5, <2>6, <2>7, TypesKept DEF IsoTpTypes
<1>4. CASE SendSet
  <2>1. TransmitOK'
        BY <1>0, <1>4 DEF SendSet, TransmitOK, Word
  <2>2. PlaceOK' /\ at' # "set"
        BY <1>4 DEF SendSet, PlaceOK
  <2>. QED  BY <1>4, <2>1, <2>2, TypesKept DEF SendSet
<1>5. CASE SendFirst
  <2>1. QueueOK'
        BY <1>0, <1>5, SendFrameQueues DEF SendFirst
  <2>2. HistoryOK'
    <3> DEFINE b == message.undisturbed /\ Room
    <3>1. b \in BOOLEAN /\ message' = [message EXCEPT !.undisturbed = b]
          BY <1>5 DEF SendFirst
    <3>. HIDE DEF b
    <3>2. message' \in Message
          BY <1>a, <3>1
    <3>. QED  BY <1>0, <1>5, <3>2 DEF SendFirst, HistoryOK
  <2>3. PlaceOK' /\ at' # "set"
        BY <1>5 DEF SendFirst, PlaceOK
  <2>4. UNCHANGED <<transmit, to, opened, owing>>
        BY <1>5 DEF SendFirst
  <2>. QED  BY <2>1, <2>2, <2>3, <2>4, TypesKept
<1>. QED  BY <1>1, <1>2, <1>3, <1>4, <1>5 DEF Command, IsoTpTypes

LEMMA TypesInterrupt ==
  ASSUME IsoTpAssumption, IsoTpTypes, IsoTPcb \/ BusTakes
  PROVE  IsoTpTypes'
<1>. /\ TransmitOK /\ NodesOK /\ PlaceOK /\ QueueOK /\ HistoryOK /\ LongEnough
     BY DEF IsoTpTypes
<1>1. ASSUME NEW i \in Ids, NEW s \in Statuses, FlowControl(i, s) PROVE IsoTpTypes'
  <2>1. TransmitOK'
        BY <1>1 DEF FlowControl, GoAfter, TransmitOK, Word
  <2>2. NodesOK'
        BY <1>1 DEF FlowControl, NodesOK
  <2>3. UNCHANGED <<at, n, queue, message, segments>>
        BY <1>1 DEF FlowControl
  <2>. QED  BY <2>1, <2>2, <2>3, TypesKept DEF IsoTpTypes
<1>2. ASSUME NEW i \in Ids, FirstFrame(i) PROVE IsoTpTypes'
  <2>1. to \in Ids /\ SendFrame("flow", to)
        BY <1>2 DEF FirstFrame, NodesOK
  <2>2. QueueOK'
        BY <2>1, SendFrameQueues
  <2>3. UNCHANGED <<transmit, to, opened, at, n, owing, message, segments>>
        BY <1>2 DEF FirstFrame
  <2>. QED  BY <2>2, <2>3, TypesKept DEF IsoTpTypes
<1>3. CASE BusTakes
  <2>1. queue \in Seq(Queued) /\ queue # <<>> /\ queue' = Tail(queue)
        BY <1>3 DEF BusTakes, QueueOK
  <2>2. /\ queue' \in Seq(Queued) /\ Head(queue) \in Queued
        /\ Len(queue') = Len(queue) - 1
        BY <2>1, QueueShrinks
  <2>3. QueueOK'
    <3>1. Len(queue) \in Nat /\ QueueRoom \in Nat /\ Len(queue) <= QueueRoom
          BY <2>1, LenProperties DEF IsoTpAssumption, QueueOK
    <3>. QED  BY <2>2, <3>1 DEF QueueOK
  <2>4. NodesOK'
    <3>1. Head(queue).to \in Ids
          BY <2>2 DEF Queued
    <3>. QED  BY <1>3, <3>1 DEF BusTakes, NodesOK
  <2>5. UNCHANGED <<transmit, at, n, message, segments>>
        BY <1>3 DEF BusTakes
  <2>. QED  BY <2>3, <2>4, <2>5, TypesKept DEF IsoTpTypes
<1>. QED  BY <1>1, <1>2, <1>3 DEF IsoTPcb

LEMMA TypesStep == IsoTpAssumption /\ IsoTpTypes /\ [IsoTpNext]_isotpVars => IsoTpTypes'
<1>1. IsoTpTypes /\ UNCHANGED isotpVars => IsoTpTypes'
      BY TypesKept DEF isotpVars, IsoTpTypes
<1>. QED  BY <1>1, TypesProcess, TypesCommand, TypesInterrupt DEF IsoTpNext

\* The types of the firmware's ISO-TP state: two-byte lengths, one-byte counts, a PCI
\* nibble, whatever commands and interrupts come between the steps of process_isotp.
THEOREM IsoTpTypeCorrect == IsoTpSpec => []IsoTpTypeOK
<1>1. IsoTpInit => IsoTpTypes
      BY TypesInit, IsoTpAssumption
<1>2. IsoTpTypes /\ [IsoTpNext]_isotpVars => IsoTpTypes'
      BY TypesStep, IsoTpAssumption
<1>3. IsoTpTypes => IsoTpTypeOK
      BY DEF IsoTpTypes, IsoTpTypeOK, TransmitOK, NodesOK, PlaceOK, QueueOK, Queued
<1>. QED  BY <1>1, <1>2, <1>3, PTL DEF IsoTpSpec

-----------------------------------------------------------------------------
(***************************************************************************)
(* The course of an undisturbed message.                                   *)
(***************************************************************************)
LEMMA SegmentsOf ==
  ASSUME HistoryOK
  PROVE  /\ Segments(message) \in Seq([to : Ids, from : Int, n : Int, pci : Int])
         /\ Len(Segments(message)) = message.size \div 7
         /\ \A k \in 1 .. message.size \div 7 : Segments(message)[k] = Exact(k)
<1>1. message.size \in Nat /\ message.to \in Ids
      BY DEF HistoryOK, Message, Word
<1> DEFINE m == message.size \div 7
<1>2. m \in Nat
      BY <1>1
<1>3. Segments(message) = [k \in 1 .. m |-> Exact(k)]
      BY DEF Segments, Exact
<1>4. \A k \in 1 .. m : Exact(k) \in [to : Ids, from : Int, n : Int, pci : Int]
      BY <1>1, <1>2 DEF Exact, AtMost7
<1>. HIDE DEF m
<1>5. Segments(message) \in Seq([to : Ids, from : Int, n : Int, pci : Int])
      BY <1>2, <1>3, <1>4
<1>6. Len(Segments(message)) = m
      BY <1>2, <1>3, <1>5
<1>7. \A k \in 1 .. m : Segments(message)[k] = Exact(k)
      BY <1>3
<1>. QED  BY <1>5, <1>6, <1>7 DEF m

LEMMA SentKept ==
  ASSUME SentExactly, UNCHANGED segments, message'.to = message.to, message'.size = message.size
  PROVE  SentExactly'
<1>1. \A k : Exact(k)' = Exact(k)
      BY DEF Exact
<1>. QED  BY <1>1 DEF SentExactly

\* A step that touches neither the transmission nor its first frame.
LEMMA CourseKept ==
  ASSUME IsoTpTypes, Phase, SentExactly,
         UNCHANGED <<transmit, at, n, owing, segments>>,
         message'.to = message.to, message'.size = message.size,
         to' = to \/ (Settled /\ at = "loop"),
         NoFirst(queue) => NoFirst(queue'),
         \A j \in Ids : OneFirst(queue, j) => OneFirst(queue', j)
  PROVE  Phase' /\ SentExactly'
<1>. SUFFICES Phase'
     BY SentKept
<1>2. message.to \in Ids
      BY DEF IsoTpTypes, HistoryOK, Message
<1>3. Quiet => Quiet'
      BY DEF Quiet
<1>4. CASE Resting
      BY <1>3, <1>4 DEF Resting, Phase, transmit
<1>5. ASSUME length >= 8 \/ at # "loop" PROVE to' = to
      BY <1>5 DEF Settled
<1>6. CASE Preparing
      BY <1>3, <1>5, <1>6 DEF Preparing, Phase, transmit
<1>7. Fresh => to' = to /\ Fresh'
      BY <1>5 DEF Fresh, transmit
<1>8. CASE Prepared
      BY <1>3, <1>7, <1>8 DEF Prepared, Phase
<1>9. CASE Announced
      BY <1>2, <1>7, <1>9 DEF Announced, Phase
<1>10. CASE Awaited
      BY <1>7, <1>10 DEF Awaited, Phase
<1>11. CASE Sending
  <2>1. to' = to
        BY <1>5, <1>11 DEF Sending
  <2>2. Started(Len(segments)) => Started(Len(segments))'
        BY DEF Started, transmit
  <2>. QED  BY <1>3, <1>11, <2>1, <2>2 DEF Sending, Phase, transmit
<1>. QED  BY <1>4, <1>6, <1>8, <1>9, <1>10, <1>11 DEF Phase

LEMMA CourseInit == IsoTpTypes /\ IsoTpInit => OnCourse
<1>. SUFFICES ASSUME IsoTpTypes, IsoTpInit PROVE Resting /\ SentExactly
     BY DEF OnCourse, Phase
<1>1. Len(queue) = 0 /\ Len(segments) = 0
      BY DEF IsoTpInit
<1>2. Resting
      BY <1>1 DEF IsoTpInit, Resting, Quiet, NoFirst
<1>3. message.size = 0
      BY DEF IsoTpInit
<1>. QED  BY <1>1, <1>2, <1>3 DEF SentExactly

LEMMA CourseProcess ==
  ASSUME IsoTpAssumption, IsoTpTypes, OnCourse, Process
  PROVE  OnCourse'
<1>. /\ TransmitOK /\ NodesOK /\ PlaceOK /\ QueueOK /\ HistoryOK /\ LongEnough
     BY DEF IsoTpTypes
<1> DEFINE sent == Len(segments)
<1>1. UNCHANGED message
      BY DEF Process, ProcessStart, ProcessSize, ProcessSend, ProcessAdvance, ProcessFinish
<1>. SUFFICES ASSUME message.undisturbed PROVE Phase' /\ SentExactly'
     BY <1>1 DEF OnCourse
<1>2. Phase /\ SentExactly
      BY DEF OnCourse
<1>3. Sending
  <2>1. at \in {"size", "send", "advance", "finish"} \/ go > 0
        BY DEF Process, ProcessStart, ProcessSize, ProcessSend, ProcessAdvance, ProcessFinish
  <2>. QED  BY <1>2, <2>1 DEF Phase, Resting, Preparing, Prepared, Announced, Awaited, Fresh
<1>4. /\ sent \in Nat /\ index \in Nat /\ length \in Nat /\ length < 65536
      /\ n \in Nat /\ pci \in Nat /\ message.size = length /\ to = message.to
      /\ Started(sent)
  <2>1. segments \in Seq(Segment)
        BY DEF HistoryOK
  <2>. QED  BY <2>1, <1>3, LenProperties DEF Sending, TransmitOK, PlaceOK, Byte, Word
<1>5. UNCHANGED segments => SentExactly'
      BY <1>1, <1>2, SentKept
<1>. HIDE DEF sent
<1>6. ASSUME UNCHANGED <<go, length, to, owing, segments>>, NoFirst(queue'), Started(sent)'
      PROVE  Sending'
      BY <1>1, <1>3, <1>6 DEF Sending, Quiet, sent
<1>7. UNCHANGED queue => NoFirst(queue')
      BY <1>3 DEF Sending, Quiet
<1>8. CASE ProcessStart
  <2>1. UNCHANGED <<go, length, to, owing, segments, queue>>
        BY <1>8 DEF ProcessStart, transmit
  <2>2. Started(sent)'
        BY <1>4, <1>8 DEF ProcessStart, Started, transmit, sent
  <2>. QED  BY <2>1, <2>2, <1>5, <1>6, <1>7 DEF Phase
<1>9. CASE ProcessSize
  <2>1. UNCHANGED <<go, length, to, owing, segments, queue>>
        BY <1>9 DEF ProcessSize, transmit
  <2>2. at = "size" /\ index = 7 * sent + 6 /\ pci = (sent + 1) % 16 /\ index < length
        BY <1>4, <1>9 DEF ProcessSize, Started
  <2>3. n' = AtMost7(length - index)
        BY <1>4, <1>9, <2>2 DEF ProcessSize, AtMost7
  <2>4. Started(sent)'
        BY <1>9, <2>2, <2>3 DEF ProcessSize, Started, transmit, sent
  <2>. QED  BY <2>1, <2>4, <1>5, <1>6, <1>7 DEF Phase
<1>10. CASE ProcessSend
  <2>1. /\ at = "send" /\ index = 7 * sent + 6 /\ pci = (sent + 1) % 16 /\ index < length
        /\ n = AtMost7(length - index)
        BY <1>4, <1>10 DEF ProcessSend, Started
  <2>2. NoFirst(queue')
    <3>1. to \in Ids /\ SendFrame("consecutive", to) /\ NoFirst(queue)
          BY <1>3, <1>10 DEF ProcessSend, NodesOK, Sending, Quiet
    <3>. QED  BY <3>1, SendFrameQueues
  <2>3. UNCHANGED <<go, length, to, owing, index, pci, n>>
        BY <1>10 DEF ProcessSend, transmit
  <2>4. CASE ~Room
    <3>1. at' = "loop" /\ UNCHANGED segments
          BY <1>10, <2>4 DEF ProcessSend, AfterSend
    <3>2. Started(sent)'
          BY <2>1, <2>3, <3>1 DEF Started, sent
    <3>. QED  BY <2>2, <2>3, <3>1, <3>2, <1>5, <1>6 DEF Phase
  <2>5. CASE Room
    <3>0. sent <= message.size \div 7 /\ Len(Segments(message)) = message.size \div 7
          BY <1>2, SegmentsOf DEF SentExactly, sent
    <3> DEFINE e == [to |-> to, from |-> index, n |-> n, pci |-> pci]
    <3>1. segments' = Append(segments, e) /\ at' = "advance"
          BY <1>10, <2>5, <3>0 DEF ProcessSend, AfterSend, sent
    <3>2. e = Exact(sent + 1)
      <4>1. index = 7 * (sent + 1) - 1 /\ length - index = message.size - 7 * (sent + 1) + 1
            BY <1>4, <2>1
      <4>. QED  BY <1>4, <2>1, <4>1 DEF Exact
    <3>3. e \in Segment /\ segments \in Seq(Segment)
          BY DEF TransmitOK, NodesOK, PlaceOK, HistoryOK, Segment
    <3>. HIDE DEF e
    <3>4. /\ Len(segments') = sent + 1 /\ segments'[sent + 1] = e
          /\ \A k \in 1 .. sent : segments'[k] = segments[k]
          BY <3>1, <3>3, AppendProperties DEF sent
    <3>5. SentExactly'
      <4>1. sent + 1 <= message.size \div 7
            BY <1>4, <2>1
      <4>2. ASSUME NEW k \in 1 .. sent + 1 PROVE segments'[k] = Exact(k)
        <5>1. k \in 1 .. sent \/ k = sent + 1
              BY <1>4
        <5>2. \A j \in 1 .. sent : segments[j] = Exact(j)
              BY <1>2 DEF SentExactly, sent
        <5>. QED  BY <3>2, <3>4, <5>1, <5>2
      <4>3. \A k \in 1 .. sent + 1 : Exact(k)' = Exact(k)
            BY <1>1 DEF Exact
      <4>. QED  BY <1>1, <3>4, <4>1, <4>2, <4>3 DEF SentExactly
    <3>6. Started(Len(segments))'
      <4>1. index = 7 * (sent + 1) - 1
            BY <1>4, <2>1
      <4>. QED  BY <2>1, <2>3, <3>1, <3>4, <4>1 DEF Started
    <3>7. Sending'
          BY <1>1, <1>3, <2>2, <2>3, <3>6 DEF Sending, Quiet
    <3>. QED  BY <3>5, <3>7 DEF Phase
  <2>. QED  BY <2>4, <2>5
<1>11. CASE ProcessAdvance
  <2>1. UNCHANGED <<go, length, to, owing, segments, queue>> /\ at' = "finish"
        BY <1>11 DEF ProcessAdvance
  <2>2. /\ index = 7 * sent - 1 /\ pci = sent % 16 /\ index < length
        /\ n = AtMost7(length - index)
        BY <1>4, <1>11 DEF ProcessAdvance, Started
  <2>3. pci' = (sent + 1) % 16
        BY <1>4, <1>11, <2>2 DEF ProcessAdvance, NextPci
  <2>4. (index' = 7 * sent + 6 /\ index' < length) \/ index' = length
    <3>1. index' = (index + n) % 65536
          BY <1>11 DEF ProcessAdvance
    <3>2. (length - index > 7 /\ n = 7) \/ (length - index <= 7 /\ index + n = length)
          BY <1>4, <2>2 DEF AtMost7
    <3>3. index + n \in 0 .. length
          BY <1>4, <2>2, <3>2
    <3>4. index' = index + n
          BY <1>4, <3>1, <3>3
    <3>. QED  BY <1>4, <2>2, <3>2, <3>4
  <2>5. Started(sent)'
        BY <2>1, <2>3, <2>4 DEF Started, sent
  <2>. QED  BY <2>1, <2>5, <1>5, <1>6, <1>7 DEF Phase
<1>12. CASE ProcessFinish
  <2>1. /\ at' = "loop" /\ UNCHANGED <<to, owing, segments, queue>>
        /\ at = "finish" /\ pci = (sent + 1) % 16
        /\ (index = 7 * sent + 6 /\ index < length) \/ index = length
        BY <1>4, <1>12 DEF ProcessFinish, Started
  <2>2. CASE index = length
    <3>1. Resting'
          BY <1>3, <1>12, <2>1, <2>2 DEF ProcessFinish, Resting, Sending, Quiet
    <3>. QED  BY <1>5, <2>1, <3>1 DEF Phase
  <2>3. CASE index # length
    <3>1. UNCHANGED <<go, index, length, pci>>
          BY <1>12, <2>3 DEF ProcessFinish, transmit
    <3>2. Started(sent)'
          BY <2>1, <2>3, <3>1 DEF Started, sent
    <3>. QED  BY <2>1, <3>1, <3>2, <1>5, <1>6, <1>7 DEF Phase
  <2>. QED  BY <2>2, <2>3
<1>. QED  BY <1>8, <1>9, <1>10, <1>11, <1>12 DEF Process

\* The host asks for something: in order unless a message is still on its way elsewhere.
LEMMA CourseCommand ==
  ASSUME IsoTpAssumption, IsoTpTypes, OnCourse, Command
  PROVE  OnCourse'
<1>. /\ TransmitOK /\ NodesOK /\ PlaceOK /\ QueueOK /\ HistoryOK /\ LongEnough
     BY DEF IsoTpTypes
<1>0. message \in Message /\ to \in Ids /\ message.to \in Ids
      BY DEF HistoryOK, Message, NodesOK
<1>a. ASSUME NEW b \in BOOLEAN, message' = [message EXCEPT !.undisturbed = b]
      PROVE  message'.to = message.to /\ message'.size = message.size /\ message'.undisturbed = b
      BY <1>0, <1>a DEF Message
<1>1. ASSUME NEW i \in Ids, SendSingle(i) PROVE OnCourse'
  <2> DEFINE b == message.undisturbed /\ (Settled \/ i = to)
  <2>1. b \in BOOLEAN /\ message' = [message EXCEPT !.undisturbed = b]
        BY <1>1 DEF SendSingle
  <2>2. b => message.undisturbed /\ (Settled \/ i = to)
        OBVIOUS
  <2>. HIDE DEF b
  <2>3. /\ message'.to = message.to /\ message'.size = message.size
        /\ message'.undisturbed => message.undisturbed /\ (Settled \/ i = to)
        BY <1>a, <2>1, <2>2
  <2>4. SUFFICES ASSUME message'.undisturbed PROVE Phase' /\ SentExactly'
        BY DEF OnCourse
  <2>5. Phase /\ SentExactly /\ (Settled \/ i = to)
        BY <2>3, <2>4 DEF OnCourse
  <2>6. /\ UNCHANGED <<transmit, at, n, owing, segments>> /\ at = "loop" /\ to' = i
        /\ SendFrame("single", i)
        BY <1>1 DEF SendSingle
  <2>7. /\ NoFirst(queue) => NoFirst(queue')
        /\ \A j \in Ids : OneFirst(queue, j) => OneFirst(queue', j)
        BY <2>6, SendFrameQueues
  <2>. QED  BY <2>3, <2>5, <2>6, <2>7, CourseKept
<1>2. ASSUME NEW i \in Ids, Receive(i) PROVE OnCourse'
  <2> DEFINE b == message.undisturbed /\ (Settled \/ i = to)
  <2>1. b \in BOOLEAN /\ message' = [message EXCEPT !.undisturbed = b]
        BY <1>2 DEF Receive
  <2>2. b => message.undisturbed /\ (Settled \/ i = to)
        OBVIOUS
  <2>. HIDE DEF b
  <2>3. /\ message'.to = message.to /\ message'.size = message.size
        /\ message'.undisturbed => message.undisturbed /\ (Settled \/ i = to)
        BY <1>a, <2>1, <2>2
  <2>4. SUFFICES ASSUME message'.undisturbed PROVE Phase' /\ SentExactly'
        BY DEF OnCourse
  <2>5. Phase /\ SentExactly /\ (Settled \/ i = to)
        BY <2>3, <2>4 DEF OnCourse
  <2>6. UNCHANGED <<transmit, at, n, owing, segments, queue>> /\ at = "loop" /\ to' = i
        BY <1>2 DEF Receive
  <2>7. /\ NoFirst(queue) => NoFirst(queue')
        /\ \A j \in Ids : OneFirst(queue, j) => OneFirst(queue', j)
        BY <2>6
  <2>. QED  BY <2>3, <2>5, <2>6, <2>7, CourseKept
<1>3. ASSUME NEW i \in Ids, NEW l \in Lengths, SendStart(i, l) PROVE OnCourse'
  <2>1. l \in Nat
        BY DEF IsoTpAssumption
  <2>2. /\ message' = [to |-> i, size |-> l, undisturbed |-> Settled]
        /\ segments' = <<>> /\ to' = i /\ go' = 0 /\ at' = "set" /\ UNCHANGED <<owing, queue>>
        BY <1>3 DEF SendStart
  <2>3. SUFFICES ASSUME message'.undisturbed PROVE Preparing' /\ SentExactly'
        BY DEF OnCourse, Phase
  <2>4. message'.to = i /\ message'.size = l
        BY <2>2
  <2>5. Settled
        BY <2>2, <2>3
  <2>6. Quiet'
        BY <2>2, <2>5 DEF Settled, Quiet, NoFirst
  <2>7. Len(segments') = 0
        BY <2>2
  <2>8. SentExactly'
        BY <2>1, <2>4, <2>7 DEF SentExactly
  <2>. QED  BY <2>2, <2>4, <2>6, <2>8 DEF Preparing
<1>4. CASE SendSet
  <2>1. UNCHANGED <<go, to, n, queue, owing, message, segments>>
        BY <1>4 DEF SendSet
  <2>2. SUFFICES ASSUME message.undisturbed PROVE Phase' /\ SentExactly'
        BY <2>1 DEF OnCourse
  <2>3. Phase /\ SentExactly
        BY <2>2 DEF OnCourse
  <2>4. Preparing
        BY <1>4, <2>3 DEF SendSet, Phase, Resting, Prepared, Announced, Awaited, Sending, Started
  <2>5. message.size >= 8
        BY <1>4 DEF SendSet, LongEnough
  <2>6. Fresh'
        BY <1>4, <2>1, <2>4, <2>5 DEF SendSet, Preparing, Fresh
  <2>7. Quiet'
        BY <2>1, <2>4 DEF Preparing, Quiet
  <2>8. Prepared'
        BY <1>4, <2>6, <2>7 DEF SendSet, Prepared
  <2>9. SentExactly'
        BY <2>1, <2>3, SentKept
  <2>. QED  BY <2>8, <2>9 DEF Phase
<1>5. CASE SendFirst
  <2> DEFINE b == message.undisturbed /\ Room
  <2>1. b \in BOOLEAN /\ message' = [message EXCEPT !.undisturbed = b]
        BY <1>5 DEF SendFirst
  <2>2. b => message.undisturbed /\ Room
        OBVIOUS
  <2>. HIDE DEF b
  <2>3. /\ message'.to = message.to /\ message'.size = message.size
        /\ message'.undisturbed => message.undisturbed /\ Room
        BY <1>a, <2>1, <2>2
  <2>4. SUFFICES ASSUME message'.undisturbed PROVE Phase' /\ SentExactly'
        BY DEF OnCourse
  <2>5. Phase /\ SentExactly /\ Room
        BY <2>3, <2>4 DEF OnCourse
  <2>6. UNCHANGED <<transmit, to, owing, segments>> /\ at = "first" /\ at' = "loop"
        BY <1>5 DEF SendFirst
  <2>7. Prepared
        BY <2>5, <2>6 DEF Phase, Resting, Preparing, Announced, Awaited, Sending, Started
  <2>8. OneFirst(queue', message'.to)
    <3>1. SendFrame("first", to) /\ NoFirst(queue) /\ to = message'.to
          BY <1>5, <2>3, <2>7 DEF SendFirst, Prepared, Fresh, Quiet
    <3>. QED  BY <1>0, <2>5, <3>1, SendFrameQueues
  <2>9. Fresh'
        BY <2>3, <2>6, <2>7 DEF Prepared, Fresh, transmit
  <2>10. Announced'
        BY <2>6, <2>7, <2>8, <2>9 DEF Prepared, Announced, Quiet
  <2>11. SentExactly'
        BY <2>3, <2>5, <2>6, SentKept
  <2>. QED  BY <2>10, <2>11 DEF Phase
<1>. QED  BY <1>1, <1>2, <1>3, <1>4, <1>5 DEF Command

LEMMA CourseInterrupt ==
  ASSUME IsoTpAssumption, IsoTpTypes, OnCourse, IsoTPcb \/ BusTakes
  PROVE  OnCourse'
<1>. /\ TransmitOK /\ NodesOK /\ PlaceOK /\ QueueOK /\ HistoryOK /\ LongEnough
     BY DEF IsoTpTypes
<1>1. UNCHANGED <<message, segments, to, at, n, pci>>
      BY DEF IsoTPcb, FirstFrame, FlowControl, BusTakes, transmit
<1>. SUFFICES ASSUME message.undisturbed PROVE Phase' /\ SentExactly'
     BY <1>1 DEF OnCourse
<1>2. Phase /\ SentExactly /\ message.to \in Ids
      BY DEF OnCourse, HistoryOK, Message
<1>3. SentExactly'
      BY <1>1, <1>2, SentKept
<1>. SUFFICES Phase'
     BY <1>3
<1>4. ASSUME NEW i \in Ids, FirstFrame(i) PROVE Phase'
  <2>1. to \in Ids /\ SendFrame("flow", to)
        BY <1>4 DEF FirstFrame, NodesOK
  <2>2. /\ NoFirst(queue) => NoFirst(queue')
        /\ \A j \in Ids : OneFirst(queue, j) => OneFirst(queue', j)
        BY <2>1, SendFrameQueues
  <2>3. UNCHANGED <<transmit, at, n, owing, segments>>
        BY <1>4 DEF FirstFrame
  <2>. QED  BY <1>1, <1>2, <2>2, <2>3, CourseKept
<1>5. ASSUME NEW i \in Ids, NEW s \in Statuses, FlowControl(i, s) PROVE Phase'
  <2>1. Awaited
        BY <1>2, <1>5 DEF FlowControl, Phase, Resting, Preparing, Prepared, Announced, Sending, Quiet
  <2>2. i = message.to /\ UNCHANGED queue
        BY <1>5, <2>1 DEF FlowControl, Awaited
  <2>3. /\ at = "loop" /\ Fresh /\ owing = {message.to} /\ NoFirst(queue') /\ go = 0
        BY <2>1, <2>2 DEF Awaited, Fresh
  <2>4. CASE s = "wait"
    <3>1. owing' = owing /\ UNCHANGED <<index, length>> /\ go' = 0
          BY <1>5, <2>3, <2>4 DEF FlowControl, GoAfter
    <3>2. Awaited'
          BY <1>1, <2>3, <3>1 DEF Awaited, Fresh
    <3>. QED  BY <3>2 DEF Phase
  <2>5. CASE s # "wait"
    <3>1. owing' = {}
          BY <1>5, <2>2, <2>3, <2>5 DEF FlowControl
    <3>2. Quiet'
          BY <2>3, <3>1 DEF Quiet
    <3>3. CASE i \in opened /\ s \in {"clear", "delay"}
      <4>1. go' = 1 /\ UNCHANGED <<index, length>>
            BY <1>5, <2>5, <3>3 DEF FlowControl, GoAfter
      <4>2. Started(Len(segments))'
        <5>1. Len(segments') = 0
              BY <1>1, <2>3 DEF Fresh
        <5>2. at' = "loop" /\ index' = 6 /\ pci' = 1 /\ index' < length'
              BY <1>1, <2>3, <4>1 DEF Fresh, TransmitOK, Word
        <5>. QED  BY <5>1, <5>2 DEF Started
      <4>3. Sending'
            BY <1>1, <2>3, <3>2, <4>1, <4>2 DEF Sending, Fresh
      <4>. QED  BY <4>3 DEF Phase
    <3>4. CASE ~(i \in opened /\ s \in {"clear", "delay"})
      <4>1. go' = 0
            BY <1>5, <2>3, <2>5, <3>4 DEF FlowControl, GoAfter
      <4>2. Resting'
            BY <1>1, <2>3, <3>2, <4>1 DEF Resting
      <4>. QED  BY <4>2 DEF Phase
    <3>. QED  BY <3>3, <3>4
  <2>. QED  BY <2>4, <2>5
<1>6. CASE BusTakes
  <2>1. /\ queue \in Seq(Queued) /\ queue # <<>> /\ queue' = Tail(queue) /\ at = "loop"
        /\ UNCHANGED transmit
        BY <1>6 DEF BusTakes, QueueOK
  <2>2. /\ NoFirst(queue) => Head(queue).type # "first" /\ NoFirst(queue')
        /\ \A j \in Ids : OneFirst(queue, j) =>
             IF Head(queue).type = "first" THEN Head(queue).to = j /\ NoFirst(queue')
                                           ELSE OneFirst(queue', j)
        BY <2>1, QueueShrinks
  <2>3. CASE Head(queue).type # "first"
    <3>1. UNCHANGED owing
          BY <1>6, <2>3 DEF BusTakes
    <3>. QED  BY <1>1, <1>2, <2>1, <2>2, <2>3, <3>1, CourseKept
  <2>4. CASE Head(queue).type = "first"
    <3>1. owing' = owing \cup {Head(queue).to} /\ ~NoFirst(queue)
          BY <1>6, <2>2, <2>4 DEF BusTakes
    <3>2. Announced
          BY <1>2, <2>1, <3>1 DEF Phase, Resting, Preparing, Prepared, Awaited, Sending, Quiet
    <3>3. Head(queue).to = message.to /\ NoFirst(queue')
          BY <1>2, <2>2, <2>4, <3>2 DEF Announced
    <3>4. owing' = {message'.to}
          BY <1>1, <3>1, <3>2, <3>3 DEF Announced
    <3>5. Fresh'
          BY <1>1, <2>1, <3>2 DEF Announced, Fresh, transmit
    <3>6. Awaited'
          BY <1>1, <2>1, <3>3, <3>4, <3>5 DEF Awaited
    <3>. QED  BY <3>6 DEF Phase
  <2>. QED  BY <2>3, <2>4
<1>. QED  BY <1>4, <1>5, <1>6 DEF IsoTPcb

LEMMA IsoTpStep == IsoTpAssumption /\ IsoTpInv /\ [IsoTpNext]_isotpVars => IsoTpInv'
<1>. SUFFICES ASSUME IsoTpAssumption, IsoTpInv, [IsoTpNext]_isotpVars PROVE OnCourse'
     BY TypesStep DEF IsoTpInv
<1>1. ASSUME UNCHANGED isotpVars PROVE OnCourse'
  <2>1. ASSUME message'.undisturbed PROVE Phase' /\ SentExactly'
    <3>1. UNCHANGED <<transmit, to, at, n, owing, segments, message, queue>>
          BY <1>1 DEF isotpVars
    <3>2. message.undisturbed
          BY <2>1, <3>1
    <3>3. IsoTpTypes /\ Phase /\ SentExactly
          BY <3>2 DEF IsoTpInv, OnCourse
    <3>. QED  BY <3>1, <3>3, CourseKept
  <2>. QED  BY <2>1 DEF OnCourse
<1>. QED  BY <1>1, CourseProcess, CourseCommand, CourseInterrupt DEF IsoTpNext, IsoTpInv

\* What has been sent is a prefix of what there is to send.
LEMMA ExactIsPrefix == IsoTpTypes /\ SentExactly => IsPrefix(segments, Segments(message))
<1>. SUFFICES ASSUME IsoTpTypes, SentExactly PROVE IsPrefix(segments, Segments(message))
     OBVIOUS
<1> DEFINE all == Segments(message)
           sent == Len(segments)
           S == [to : Ids, from : Int, n : Int, pci : Int]
<1>1. all \in Seq(S) /\ Len(all) = message.size \div 7
      /\ \A k \in 1 .. message.size \div 7 : all[k] = Exact(k)
      BY SegmentsOf DEF IsoTpTypes
<1>2. sent \in Nat /\ sent <= Len(all) /\ Len(all) \in Nat
  <2>1. segments \in Seq(Segment)
        BY DEF IsoTpTypes, HistoryOK
  <2>. QED  BY <1>1, <2>1, LenProperties DEF SentExactly
<1>3. \A k \in 1 .. sent : segments[k] = all[k] /\ all[k] \in S
  <2>1. \A k \in 1 .. sent : k \in 1 .. Len(all)
        BY <1>2
  <2>2. \A k \in 1 .. Len(all) : all[k] \in S
        BY <1>1, ElementOfSeq
  <2>. QED  BY <1>1, <2>1, <2>2 DEF SentExactly
<1>. HIDE DEF all, sent, S
<1>4. /\ SubSeq(segments, 1, sent) \in Seq(S) /\ Len(SubSeq(segments, 1, sent)) = sent
      /\ \A i \in 1 .. sent : SubSeq(segments, 1, sent)[i] = segments[i]
      BY <1>2, <1>3, SubSeqProperties
<1>5. /\ SubSeq(all, 1, sent) \in Seq(S) /\ Len(SubSeq(all, 1, sent)) = sent
      /\ \A i \in 1 .. sent : SubSeq(all, 1, sent)[i] = all[i]
      BY <1>2, <1>3, SubSeqProperties
<1>6. SubSeq(segments, 1, sent) = SubSeq(all, 1, sent)
      BY <1>3, <1>4, <1>5, SeqEqual
<1>. QED  BY <1>2, <1>6 DEF IsPrefix, all, sent

\* For messages of any length, any number of nodes and a queue of any size: whatever the
\* interrupt does between the steps of process_isotp, an undisturbed message is cut into
\* exactly its segments, in order, each of them once, with the right PCI byte.
THEOREM SegmentsAreExact == IsoTpSpec => []ExactSegments
<1>1. IsoTpInit => IsoTpInv
      BY TypesInit, CourseInit, IsoTpAssumption DEF IsoTpInv
<1>2. IsoTpInv /\ [IsoTpNext]_isotpVars => IsoTpInv'
      BY IsoTpStep, IsoTpAssumption
<1>3. IsoTpInv => ExactSegments
      BY ExactIsPrefix DEF IsoTpInv, OnCourse, ExactSegments
<1>. QED  BY <1>1, <1>2, <1>3, PTL DEF IsoTpSpec

=============================================================================
