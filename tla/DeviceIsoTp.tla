----------------------------- MODULE DeviceIsoTp -----------------------------
(***************************************************************************)
(* ISO-TP on the M2 (sketches/M2_CAN_haz_bus/isotp.cpp).  The host hands   *)
(* over a whole message; loop() sends its first frame at once and the rest *)
(* (process_isotp) when IsoTP_cb, an interrupt, has seen the flow control  *)
(* frame of the receiver.  The two share isotp_tx_go, _index and _length.  *)
(*                                                                         *)
(* Receivers answer each first frame with flow control frames, as the      *)
(* standard has it.  The host may ask for the next message at any time.    *)
(***************************************************************************)
EXTENDS Integers, Sequences, SequencesExt

CONSTANTS
  Ids,          \* nodes of the bus, each with its pair of arbitration ids
  Lengths,      \* lengths in bytes of the messages of more than seven bytes
  QueueRoom,    \* frames can_tx_frames0 has room for
  MaxMessages   \* bound: messages the host sends

ASSUME IsoTpAssumption ==
  /\ \A l \in Lengths : l \in Nat /\ 8 <= l /\ l <= 4095
  /\ Ids # {}
  /\ QueueRoom \in Nat \ {0} /\ MaxMessages \in Nat

VARIABLES
  go, index, length, pci,  \* isotp_tx_go, _index, _length, _PCIIndex
  to,       \* isotp_tx_arbid: the node it belongs to
  opened,   \* the nodes mailbox 0 lets in: none, or one
  at, n,    \* place of loop(), and num_bytes of process_isotp
  queue,    \* can_tx_frames0
  owing,    \* the nodes that have got a first frame and not answered yet
  message,  \* history: what the host asked to send last
  segments, \* history: the consecutive frames sent since then
  asked     \* bound: number of messages the host has sent

transmit == <<go, index, length, pci>>
isotpVars == <<transmit, to, opened, at, n, queue, owing, message, segments, asked>>

(***************************************************************************)
(* The segments of a message after the six bytes of its first frame: of    *)
(* size - 6 bytes, seven at a time, the last one of what is left.          *)
(***************************************************************************)
AtMost7(x) == IF x > 7 THEN 7 ELSE x
Segments(m) ==
  [k \in 1 .. m.size \div 7 |->
     [to |-> m.to, from |-> 7 * k - 1, n |-> AtMost7(m.size - 7 * k + 1), pci |-> k % 16]]

Byte == {x \in Nat : x < 256}    \* uint8_t
Word == {x \in Nat : x < 65536}  \* uint16_t

IsoTpTypeOK ==
  /\ go \in {0, 1} /\ pci \in 0 .. 15 /\ {index, length} \subseteq Word
  /\ to \in Ids /\ opened \subseteq Ids /\ owing \subseteq Ids
  /\ at \in {"loop", "size", "send", "advance", "finish", "set", "first"}
  /\ n \in Byte
  /\ queue \in Seq([type : {"first", "consecutive", "flow", "single"}, to : Ids])
  /\ Len(queue) <= QueueRoom

IsoTpInit ==
  /\ go = 0 /\ index = 0 /\ length = 0 /\ pci = 1
  /\ to \in Ids /\ opened = {}
  /\ at = "loop" /\ n = 0
  /\ queue = <<>> /\ owing = {}
  /\ message = [to |-> to, size |-> 0, undisturbed |-> TRUE]
  /\ segments = <<>> /\ asked = 0

-----------------------------------------------------------------------------
(***************************************************************************)
(* SendFrame puts a frame in the queue if there is room, as one step here; *)
(* the record for the host is left out.  The flow control frame of         *)
(* IsoTP_cb, from the interrupt, is a second producer of this queue: what  *)
(* it does in the middle of an enqueue of the loop is left to FrameQueue   *)
(* and DeviceModes, and not said here.                                     *)
(***************************************************************************)
Room == Len(queue) < QueueRoom
Frame(type, i) == [type |-> type, to |-> i]
SendFrame(type, i) == queue' = IF Room THEN Append(queue, Frame(type, i)) ELSE queue

\* Nothing is left of an earlier message: neither here nor at its receiver.
Settled ==
  /\ go = 0 /\ length = 0 /\ owing = {}
  /\ \A i \in 1 .. Len(queue) : queue[i].type # "first"

(***************************************************************************)
(* process_isotp, as far as an interrupt can tell its steps apart.  Whether*)
(* the separation time is over is left open.                               *)
(***************************************************************************)
ProcessStart ==
  /\ at = "loop" /\ go > 0
  /\ at' = "size"
  /\ UNCHANGED <<transmit, to, opened, n, queue, owing, message, segments, asked>>

\* num_bytes is a uint8_t.
ProcessSize ==
  /\ at = "size"
  /\ n' = IF length - index > 7 THEN 7 ELSE (length - index) % 256
  /\ at' = "send"
  /\ UNCHANGED <<transmit, to, opened, queue, owing, message, segments, asked>>

\* Faulty variant: a frame that found no room counts as sent.
AfterSendAlways(sent) == "advance"

AfterSend(sent) == IF sent THEN "advance" ELSE "loop"

\* The history stops one frame after the end of the message.
ProcessSend ==
  /\ at = "send"
  /\ SendFrame("consecutive", to)
  /\ segments' = IF Room /\ Len(segments) <= Len(Segments(message))
                   THEN Append(segments, [to |-> to, from |-> index, n |-> n, pci |-> pci])
                   ELSE segments
  /\ at' = AfterSend(Room)
  /\ UNCHANGED <<transmit, to, opened, n, owing, message, asked>>

\* Faulty variant: the sequence number runs on to 16.
NextPciLate(x) == IF x > 15 THEN 0 ELSE x + 1

NextPci(x) == IF x + 1 > 15 THEN 0 ELSE x + 1

ProcessAdvance ==
  /\ at = "advance"
  /\ pci' = NextPci(pci)
  /\ index' = (index + n) % 65536
  /\ at' = "finish"
  /\ UNCHANGED <<go, length, to, opened, n, queue, owing, message, segments, asked>>

ProcessFinish ==
  /\ at = "finish"
  /\ IF index = length
       THEN go' = 0 /\ pci' = 1 /\ index' = 0 /\ length' = 0
       ELSE UNCHANGED transmit
  /\ at' = "loop"
  /\ UNCHANGED <<to, opened, n, queue, owing, message, segments, asked>>

Process == ProcessStart \/ ProcessSize \/ ProcessSend \/ ProcessAdvance \/ ProcessFinish

-----------------------------------------------------------------------------
(***************************************************************************)
(* SendIsoTPFrame and RecvIsoTPFrame, called by loop() for a command.      *)
(***************************************************************************)
\* A request for node i changes isotp_tx_arbid even while a message is sent.
SendSingle(i) ==
  /\ at = "loop" /\ asked < MaxMessages
  /\ asked' = asked + 1
  /\ to' = i
  /\ SendFrame("single", i)
  /\ message' = [message EXCEPT !.undisturbed = @ /\ (Settled \/ i = to)]
  /\ UNCHANGED <<transmit, opened, at, n, owing, segments>>

Receive(i) ==
  /\ at = "loop" /\ asked < MaxMessages
  /\ asked' = asked + 1
  /\ to' = i /\ opened' = {i}
  /\ message' = [message EXCEPT !.undisturbed = @ /\ (Settled \/ i = to)]
  /\ UNCHANGED <<transmit, at, n, queue, owing, segments>>

\* Mailbox 0 is opened and isotp_tx_go cleared; then the message is prepared.
SendStart(i, size) ==
  /\ at = "loop" /\ asked < MaxMessages
  /\ asked' = asked + 1
  /\ to' = i /\ opened' = {i}
  /\ go' = 0
  /\ at' = "set"
  /\ message' = [to |-> i, size |-> size, undisturbed |-> Settled]
  /\ segments' = <<>>
  /\ UNCHANGED <<index, length, pci, n, queue, owing>>

SendSet ==
  /\ at = "set"
  /\ index' = 6 /\ length' = message.size /\ pci' = 1
  /\ at' = "first"
  /\ UNCHANGED <<go, to, opened, n, queue, owing, message, segments, asked>>

\* When the first frame finds no room, the host gets an error.
SendFirst ==
  /\ at = "first"
  /\ SendFrame("first", to)
  /\ message' = [message EXCEPT !.undisturbed = @ /\ Room]
  /\ at' = "loop"
  /\ UNCHANGED <<transmit, to, opened, n, owing, segments, asked>>

-----------------------------------------------------------------------------
(***************************************************************************)
(* IsoTP_cb: only frames that mailbox 0 lets in.  The interrupt comes      *)
(* between any two of the steps above.                                     *)
(***************************************************************************)
\* Faulty variant: a separation time is noted, but nothing is started.
GoUnlessDelayed(status) ==
  CASE status = "clear" -> 1 [] status = "wait" -> 0 [] OTHER -> go

\* "delay" is a clear to send with a separation time.  Abort and block size leave
\* isotp_tx_go as it is.
GoAfter(status) ==
  CASE status \in {"clear", "delay"} -> 1 [] status = "wait" -> 0 [] OTHER -> go

\* A receiver that says wait will answer again.
FlowControl(i, status) ==
  /\ i \in owing
  /\ owing' = IF status = "wait" THEN owing ELSE owing \ {i}
  /\ go' = IF i \in opened THEN GoAfter(status) ELSE go
  /\ IF i \in opened /\ status \in {"abort", "blocks"}
       THEN index' = 0 /\ length' = 0 /\ opened' = {}
       ELSE UNCHANGED <<index, length, opened>>
  /\ UNCHANGED <<pci, to, at, n, queue, message, segments, asked>>

\* A first frame of the other side is answered from within the interrupt; nobody
\* sends another before the answer to the last one.
FirstFrame(i) ==
  /\ i \in opened
  /\ \A k \in 1 .. Len(queue) : queue[k].type # "flow"
  /\ SendFrame("flow", to)
  /\ UNCHANGED <<transmit, to, opened, at, n, owing, message, segments, asked>>

Statuses == {"clear", "delay", "wait", "abort", "blocks"}
IsoTPcb == \E i \in Ids : FirstFrame(i) \/ \E s \in Statuses : FlowControl(i, s)

\* loop() sends the head of the queue; a first frame makes its receiver answer.
BusTakes ==
  /\ queue # <<>> /\ at = "loop"
  /\ queue' = Tail(queue)
  /\ owing' = IF Head(queue).type = "first" THEN owing \cup {Head(queue).to} ELSE owing
  /\ UNCHANGED <<transmit, to, opened, at, n, message, segments, asked>>

-----------------------------------------------------------------------------

Command ==
  \/ \E i \in Ids : SendSingle(i) \/ Receive(i) \/ \E l \in Lengths : SendStart(i, l)
  \/ SendSet \/ SendFirst

IsoTpNext == Process \/ Command \/ IsoTPcb \/ BusTakes

IsoTpSpec == IsoTpInit /\ [][IsoTpNext]_isotpVars

\* loop() goes on, and what it offers to the bus and to the queue again and again is
\* taken at last.  No receiver has to answer.
IsoTpFairSpec ==
  /\ IsoTpSpec
  /\ WF_isotpVars(Process) /\ WF_isotpVars(SendSet \/ SendFirst)
  /\ SF_isotpVars(BusTakes) /\ SF_isotpVars(ProcessSend /\ Room)

-----------------------------------------------------------------------------
(***************************************************************************)
(* Properties.                                                             *)
(***************************************************************************)
\* process_isotp cuts a message into exactly its segments, each sent once, to its
\* receiver and with the right PCI byte, whatever the interrupt does meanwhile, if
\* nothing was left of an earlier message and nothing else was asked for.
ExactSegments == message.undisturbed => IsPrefix(segments, Segments(message))

\* The receiver of the message has answered and let it go on.
Cleared ==
  /\ message.undisturbed /\ length > 0 /\ owing = {}
  /\ at \notin {"set", "first"}
  /\ \A i \in 1 .. Len(queue) : queue[i].type # "first"

\* A message that its receiver has cleared goes out to its last byte, with or without
\* a separation time, and nothing is left of it, unless the host asks for something else.
ClearedGoesOut ==
  Cleared ~> \/ ~message.undisturbed
             \/ Segments(message) = segments /\ go = 0 /\ length = 0

=============================================================================
