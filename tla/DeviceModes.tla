----------------------------- MODULE DeviceModes -----------------------------
(***************************************************************************)
(* The M2 firmware with its two CAN controllers: loop() of                 *)
(* M2_CAN_haz_bus.ino, the modes it is put into and the callbacks of       *)
(* sniffing.cpp and citm.cpp that the CAN interrupts run.                  *)
(*                                                                         *)
(* CMD_CAN_MODE stores the mode, which at once decides where SendFrame     *)
(* sends; CMD_CAN_BAUD initialises the controllers for it and sets their   *)
(* callbacks.  What an earlier mode has set on a controller that the new   *)
(* one does not use stays in force, and so do the queues.                  *)
(*                                                                         *)
(* SendFrame puts a frame into up to four queues, each with the accesses   *)
(* of enqueue (queue.h), and a callback may run between any two of them;   *)
(* it fills some of the same queues.  The loop takes a frame from a queue  *)
(* in one step: it alone does so, and FrameQueue has the accesses of that. *)
(* The host sends frames only to a firmware that is initialised.           *)
(***************************************************************************)
EXTENDS Integers, Sequences

CONSTANTS
  Size,        \* num_items of each queue
  MaxFrames,   \* bound: frames of the buses and of the host
  MaxCommands  \* bound: commands CMD_CAN_MODE and CMD_CAN_BAUD

ASSUME ModesBounds == Size \in Nat \ {0} /\ {MaxFrames, MaxCommands} \subseteq Nat

Buses == {"Can0", "Can1"}
Other(b) == CHOOSE c \in Buses : c # b

\* The byte of CMD_CAN_MODE; setCanMode of the host sends the first three only.
Modes == {"SNIFF_CAN0", "SNIFF_CAN1", "CITM", "invalid"}

\* can_rx_frames0 and can_rx_frames1, can_tx_frames0 and can_tx_frames1.
Rx(b) == <<"rx", b>>
Tx(b) == <<"tx", b>>
Queues == {"rx", "tx"} \X Buses
Slots == 0 .. Size - 1

VARIABLES
  mode, initialized,
  callback,   \* for each controller what its callbacks are: "none", "sniff" or "citm"
  head, tail, items,  \* of each queue
  at,         \* where loop() is: 1, 2 sending, 3, 4 reporting, 5 at a command
  pc,         \* what SendFrame does next in the enqueue it is at, or "idle"
  frame, failed, step,  \* SendFrame: its frame, whether an enqueue has failed, and which
              \* of its queues it is at
  reg,        \* the register in which it increments tail
  reported,   \* history: frames reported to the host, and as what
  sent,       \* history: for each controller the frames handed to it
  raced,      \* history: queues that a callback has filled in the middle of an enqueue of
              \* SendFrame into the same queue
  frames, commands

modesVars == <<mode, initialized, callback, head, tail, items, at, pc, frame, failed, step,
               reg, reported, sent, raced, frames, commands>>
Settings == <<mode, initialized, callback, commands>>
Rings == <<head, tail, items, raced>>
Sending == <<pc, frame, failed, step, reg>>

(***************************************************************************)
(* Frames are numbered in the order in which they arrive or are asked for. *)
(* A frame of the host notes the mode it was sent in.                      *)
(***************************************************************************)
Frame(from, m) == [n |-> frames + 1, from |-> from, mode |-> m]
Garbage == [n |-> 0, from |-> "none", mode |-> "none"]

Frames == [n : Nat, from : Buses \cup {"host", "none"}, mode : Modes \cup {"none"}]

ModesTypeOK ==
  /\ mode \in Modes /\ initialized \in BOOLEAN
  /\ callback \in [Buses -> {"none", "sniff", "citm"}]
  /\ head \in [Queues -> Slots] /\ tail \in [Queues -> 0 .. Size]
  /\ items \in [Queues -> [Slots -> Frames]]
  /\ at \in 1 .. 5 /\ pc \in {"idle", "check", "write", "load", "store", "test", "zero"}
  /\ frame \in Frames /\ failed \in BOOLEAN /\ step \in 1 .. 4 /\ reg \in Slots
  /\ reported \subseteq Frames \X {"CMD_CAN_RECV", "CMD_ISO_RECV"}
  /\ sent \in [Buses -> Seq(Frames)] /\ raced \subseteq Queues
  /\ frames \in 0 .. MaxFrames /\ commands \in 0 .. MaxCommands

ModesInit ==
  /\ mode = "SNIFF_CAN0" /\ initialized = FALSE
  /\ callback = [b \in Buses |-> "none"]
  /\ head = [q \in Queues |-> 0] /\ tail = [q \in Queues |-> 0]
  /\ items = [q \in Queues |-> [i \in Slots |-> Garbage]]
  /\ at = 1
  /\ pc = "idle" /\ frame = Garbage /\ failed = FALSE /\ step = 1 /\ reg = 0
  /\ reported = {} /\ sent = [b \in Buses |-> <<>>] /\ raced = {}
  /\ frames = 0 /\ commands = 0

IsEmpty(q) == head[q] = tail[q]
IsFull(q) == (tail[q] + 1) % Size = head[q]

\* Faulty variant: off by one.
WrappedLate(i) == IF i > Size THEN 0 ELSE i
Wrapped(i) == IF i >= Size THEN 0 ELSE i

-----------------------------------------------------------------------------
(***************************************************************************)
(* loop(): the queues one after the other, then a command.                 *)
(***************************************************************************)
Place(b) == IF b = "Can0" THEN 1 ELSE 2

\* Faulty variant: the frame that the controller has taken stays in the queue.
AfterSendKeeps(i) == i
AfterSend(i) == Wrapped(i + 1)

\* The controller takes the first frame; or it has no room for it, or there is none.
Send(b) ==
  /\ at = Place(b) /\ ~IsEmpty(Tx(b))
  /\ sent' = [sent EXCEPT ![b] = Append(@, items[Tx(b)][head[Tx(b)]])]
  /\ head' = [head EXCEPT ![Tx(b)] = AfterSend(@)]
  /\ at' = at + 1
  /\ UNCHANGED <<Settings, tail, items, raced, Sending, reported, frames>>

\* Faulty variant: loop() starts over when a controller has no room.
AfterNoRoomAgain(b) == IF IsEmpty(Tx(b)) THEN at + 1 ELSE 1
AfterNoRoom(b) == at + 1

SendLater(b) ==
  /\ at = Place(b)
  /\ at' = AfterNoRoom(b)
  /\ UNCHANGED <<Settings, Rings, Sending, reported, sent, frames>>

\* In the middle, a frame of Can1 goes to the mailbox of the isolated bus as well.
Report(b) ==
  /\ at = 2 + Place(b)
  /\ IF IsEmpty(Rx(b)) THEN UNCHANGED <<head, reported>>
     ELSE /\ reported' = reported \cup {items[Rx(b)][head[Rx(b)]]} \X
               (IF b = "Can1" /\ mode = "CITM" THEN {"CMD_CAN_RECV", "CMD_ISO_RECV"}
                ELSE {"CMD_CAN_RECV"})
          /\ head' = [head EXCEPT ![Rx(b)] = Wrapped(@ + 1)]
  /\ at' = at + 1
  /\ UNCHANGED <<Settings, tail, items, raced, Sending, sent, frames>>

Command == at = 5 /\ pc = "idle"

Nothing ==
  /\ Command /\ at' = 1
  /\ UNCHANGED <<Settings, Rings, Sending, reported, sent, frames>>

-----------------------------------------------------------------------------
(***************************************************************************)
(* Commands of the host.                                                   *)
(***************************************************************************)
CanMode(m) ==
  /\ Command /\ commands < MaxCommands
  /\ mode' = m
  /\ commands' = commands + 1
  /\ at' = 1
  /\ UNCHANGED <<initialized, callback, Rings, Sending, reported, sent, frames>>

\* Init_Sniff sets callbacks for one controller, Init_CITM for both.
CanBaud ==
  /\ Command /\ commands < MaxCommands
  /\ initialized' = (mode # "invalid")
  /\ callback' = CASE mode = "SNIFF_CAN0" -> [callback EXCEPT !["Can0"] = "sniff"]
                   [] mode = "SNIFF_CAN1" -> [callback EXCEPT !["Can1"] = "sniff"]
                   [] mode = "CITM" -> [b \in Buses |-> "citm"]
                   [] OTHER -> callback
  /\ commands' = commands + 1
  /\ at' = 1
  /\ UNCHANGED <<mode, Rings, Sending, reported, sent, frames>>

-----------------------------------------------------------------------------
(***************************************************************************)
(* CMD_CAN_SEND: SendFrame puts the frame into the queues to be sent, and  *)
(* if none of them has turned it away, among the received ones: in the     *)
(* middle among those of Can1 only if there was room among those of Can0.  *)
(***************************************************************************)
Route(m) ==
  CASE m = "SNIFF_CAN0" -> <<Tx("Can0"), Rx("Can0")>>
    [] m = "SNIFF_CAN1" -> <<Tx("Can1"), Rx("Can1")>>
    [] m = "CITM" -> <<Tx("Can0"), Tx("Can1"), Rx("Can0"), Rx("Can1")>>
    [] OTHER -> <<>>

Target == Route(mode)[step]

\* SendFrame stands in the middle of the enqueue into queue q.
Enqueuing(q) == pc \in {"write", "load", "store", "test", "zero"} /\ q = Target

SendFrame ==
  /\ Command /\ initialized /\ frames < MaxFrames
  /\ IF mode = "invalid" THEN at' = 1 /\ UNCHANGED <<pc, frame>>
     ELSE pc' = "check" /\ frame' = Frame("host", mode) /\ UNCHANGED at
  /\ frames' = frames + 1
  /\ UNCHANGED <<Settings, Rings, failed, step, reg, reported, sent>>

\* An enqueue is done: on to the next queue, or to the end of SendFrame and of loop().
Proceed(fails) ==
  IF step < Len(Route(mode)) /\ (Route(mode)[step + 1][1] = "tx" \/ ~fails)
    THEN /\ step' = step + 1 /\ pc' = "check" /\ failed' = fails
         /\ UNCHANGED <<at, frame>>
    ELSE /\ step' = 1 /\ pc' = "idle" /\ failed' = FALSE /\ frame' = Garbage
         /\ at' = 1

\* Faulty variant: the result of Can1 hides that of Can0.
SucceedLast == Proceed(FALSE)
Succeed == Proceed(failed)

EnqueueCheck ==
  /\ pc = "check"
  /\ IF IsFull(Target) THEN Proceed(TRUE)
     ELSE pc' = "write" /\ UNCHANGED <<at, step, failed, frame>>
  /\ UNCHANGED <<Settings, Rings, reg, reported, sent, frames>>

EnqueueWrite ==
  /\ pc = "write" /\ pc' = "load"
  /\ items' = [items EXCEPT ![Target][tail[Target]] = frame]
  /\ UNCHANGED <<Settings, head, tail, raced, at, frame, failed, step, reg, reported, sent,
                 frames>>

EnqueueLoad ==
  /\ pc = "load" /\ pc' = "store"
  /\ reg' = tail[Target]
  /\ UNCHANGED <<Settings, Rings, at, frame, failed, step, reported, sent, frames>>

EnqueueStore ==
  /\ pc = "store" /\ pc' = "test"
  /\ tail' = [tail EXCEPT ![Target] = reg + 1] /\ reg' = 0
  /\ UNCHANGED <<Settings, head, items, raced, at, frame, failed, step, reported, sent, frames>>

EnqueueTest ==
  /\ pc = "test"
  /\ IF tail[Target] >= Size THEN pc' = "zero" /\ UNCHANGED <<at, step, failed, frame>>
     ELSE Succeed
  /\ UNCHANGED <<Settings, Rings, reg, reported, sent, frames>>

EnqueueZero ==
  /\ pc = "zero" /\ Succeed
  /\ tail' = [tail EXCEPT ![Target] = 0]
  /\ UNCHANGED <<Settings, head, items, raced, reg, reported, sent, frames>>

-----------------------------------------------------------------------------
\* enqueue in an interrupt, whole; a write beyond the buffer changes none of the items.
Deposit(f, queues) ==
  LET room == {q \in queues : ~IsFull(q)} IN
  /\ items' = [q \in Queues |-> IF q \in room /\ tail[q] \in Slots
                                  THEN [items[q] EXCEPT ![tail[q]] = f] ELSE items[q]]
  /\ tail' = [q \in Queues |-> IF q \in room THEN Wrapped(tail[q] + 1) ELSE tail[q]]
  /\ raced' = raced \cup {q \in room : Enqueuing(q)}

\* A frame arrives, at any time: the callback of its controller.
Arrive(b) ==
  /\ callback[b] # "none" /\ frames < MaxFrames
  /\ Deposit(Frame(b, "none"),
             IF callback[b] = "citm" THEN {Rx(b), Tx(Other(b))} ELSE {Rx(b)})
  /\ frames' = frames + 1
  /\ UNCHANGED <<Settings, head, at, Sending, reported, sent>>

-----------------------------------------------------------------------------

Enqueue ==
  \/ EnqueueCheck \/ EnqueueWrite \/ EnqueueLoad \/ EnqueueStore \/ EnqueueTest
  \/ EnqueueZero

Loop ==
  \/ \E b \in Buses : Send(b) \/ SendLater(b) \/ Report(b)
  \/ Nothing
  \/ \E m \in Modes : CanMode(m)
  \/ CanBaud \/ SendFrame \/ Enqueue

ModesNext == Loop \/ \E b \in Buses : Arrive(b)

ModesSpec == ModesInit /\ [][ModesNext]_modesVars

\* loop() goes round, and a controller that is initialised takes a frame in the end.
ModesFairSpec ==
  /\ ModesSpec
  /\ WF_modesVars(Loop)
  /\ \A b \in Buses : SF_modesVars(callback[b] # "none" /\ Send(b))

-----------------------------------------------------------------------------
(***************************************************************************)
(* Properties.  A queue that a callback has filled in the middle of        *)
(* SendFrame's own enqueue may lose frames and hold old ones again         *)
(* (FrameQueue, the run QueueFull); they speak of the others.              *)
(***************************************************************************)

\* The frames in a queue, from head on.
Held(q) == IF tail[q] >= head[q] THEN tail[q] - head[q] ELSE tail[q] - head[q] + Size
Slot(q, i) == IF head[q] + i - 1 >= Size THEN head[q] + i - 1 - Size ELSE head[q] + i - 1
Waiting(q) == [i \in 1 .. Held(q) |-> items[q][Slot(q, i)]]

On(b) == sent[b] \o Waiting(Tx(b))
Members(s) == {s[i] : i \in 1 .. Len(s)}

\* The man in the middle, whatever modes were set meanwhile, sends no frame twice on a
\* bus, none back to the bus it came from, and those of the other bus in the order in which
\* they came, as those of the host in the order in which it asked for them.
InOrderOnce ==
  \A b \in Buses : Tx(b) \notin raced =>
    /\ \A i, j \in 1 .. Len(On(b)) :
         i < j /\ On(b)[i].from = On(b)[j].from => On(b)[i].n < On(b)[j].n
    /\ \A i \in 1 .. Len(On(b)) : On(b)[i].from \in {Other(b), "host"}

\* What the host has read back or is going to.
ReadBack ==
  (UNION {Members(Waiting(Rx(b))) : b \in Buses}) \cup {packet[1] : packet \in reported}

\* The controllers that a frame of the host is meant for.
Targets(m) == {b \in Buses : Tx(b) \in Members(Route(m))}

\* "Send the frame back up to be recorded with the other CAN frames" (SendFrame): what the
\* host reads of its own frames has been sent, or waits to be, on every bus of the mode
\* in which it asked for it, even if the mode has changed since.
EchoMeansSent ==
  \A f \in ReadBack : f.from = "host" =>
    \A b \in Targets(f.mode) : Tx(b) \notin raced => f \in Members(On(b))

\* Frame n waits to be reported, or for a controller that is initialised.
Waits(n, b) ==
  \/ Rx(b) \notin raced /\ \E f \in Members(Waiting(Rx(b))) : f.n = n
  \/ Tx(b) \notin raced /\ callback[b] # "none" /\ \E f \in Members(Waiting(Tx(b))) : f.n = n

\* A frame that waits for an initialised controller leaves its queue, and a received one
\* is reported, whatever the mode is changed to.
QueuesDrain ==
  \A n \in 1 .. MaxFrames : (\E b \in Buses : Waits(n, b)) ~> (\A b \in Buses : ~Waits(n, b))

=============================================================================
