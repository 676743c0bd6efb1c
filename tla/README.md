# CanCat in TLA+

CanCat is a host library (Python, `src/cancatlib/`) and a set of firmware
sketches (C++, `src/sketches/`) for a CAN transceiver on a USB serial line. The
host sends commands, the transceiver puts frames on a CAN bus and reports what
it receives; protocol stacks (ISO-TP, UDS, J1939, CCP) are built on top.

This directory holds models of those parts of CanCat that run concurrently or
that talk a protocol, TLC configurations that check them on small instances, and
proofs of the facts that matter most for instances of any size.

    tlc -workers 2 -config Mailboxes.cfg MCCanMailbox
    tlapm CanMailboxProofs.tla

`PROJECT.json` lists the runs, the theorems, the source lines each definition
stands for, and for every checked property a plausible bug (a definition marked
"Faulty variant" in the modules) that would break it.

Contents: 1 inventory, 2 modules, 3 runs, 4 fairness, 5 findings, 6 proofs, 7 what
is not modelled, 8 plan.

## 1. Inventory

### Threads and how the parts interact

    user threads ── _send ──> serial line ──> loop() of the firmware ──> CAN bus
         ^                                        |        ^ interrupts
         | recv, recvall, genCanMsgs              v        | (Sniff/CITM/IsoTP_cb)
      mailboxes <── _submitMessage <── _rxtx <── serial line
         ^                              |
         |            handler of CMD_CAN_RECV (J1939: _j1939_can_handler)
         └── _submitJ1939Message <── _mhe_runner <── _mhe_queue

* The host has a receive thread (`_rxtx`), any number of user threads, and with
  J1939 the thread of `_mhe_runner`. They share Python objects; `_queuelock`
  guards some accesses to the mailboxes and `_out_lock` the serial output.
* The firmware has a main loop and CAN interrupts, which share ring buffers.
* Host and transceiver share nothing but two byte streams.

### Components

**Mailboxes** (`CanInterface._submitMessage`, `recv`, `recvall`, `clearCanMsgs`).
State: a list of messages and an event for each type of message, and a lock.
Hard: lists are looked up outside the lock and replaced inside it. Correct
when messages come out in order, none twice and none lost, and `recv` never pops
an empty list.

**Message generator** (`genCanMsgs`; behind `CANsniff`, `filterCanMsgs` and
`CANreplay`). State: a reference to a list, two indices. Hard: it reads without
lock a list that others change, and sleeps on an event that another thread sets.
Correct when it yields every message once and in order and never sleeps through one.

**Commands that wait for an answer** (`CANxmit`, `ping`, `setCanBaud`, ...;
`loop()` of `CAN_haz_bus.ino`). State: the packets both ways, the rate on record.
Hard: time-outs race late answers, and nothing ties an answer to its command.
Correct when the error that one time-out makes is bounded, and when the host and
the transceiver agree on the rate.

**Frame queues of the M2 firmware** (`queue.h`; `Sniff_*_cb`, `CITM_*_cb`,
`SendFrame`, `loop()`). State: head, tail and a buffer. Hard: interrupts between any
two instructions of the loop. Correct when frames come out once and in order, and
a full queue turns frames away.

**J1939 transport protocol** (`j1939stack.py`: `ec_handler`, `eb_handler`,
`saveTPmsg`, `_mhe_runner`; sender `_j1939xmit_tp`). State: the parts of an
unfinished message for each pair of addresses. Hard: packets are only counted,
transfers break off, frames are lost. Correct when a message that arrives whole is
filed once, under its own PGN, and an acknowledged one is filed.

**Serial link** (`send`, `log` of the firmware; `_rxtx`). State: the bytes under way,
the buffer and the state of `_rxtx`. `@`-framed packets with a length byte. Hard:
resynchronisation after loss on an `@` that may be data, packets written by an interrupt
inside another. Correct when the host, once in step, takes every sound packet.

**ISO-TP of the M2** (`isotp.cpp`). State: a transmit buffer with an index, a length and
a go flag, shared with an interrupt. Hard: late, repeated or refusing flow control, a new
message while an old one is under way. Correct when a message is cut into exactly its
segments, each sent once, and a message that is cleared goes out.

**ISO-TP and UDS of the host** (`msg_decode`, `_isotp_get_msg`, `UDS.xmit_recv`,
`SendTesterPresent`). State: a start index into a mailbox, the call under way, a second
thread that sends. Hard: everything since the start index is decoded anew, among answers
to earlier calls and to TesterPresent; pending responses restart the time-out. Correct
when a call ends with the whole of its own answer.

**CCP leader** (`ccp/`). A request and a loop that takes the first message after it.

**J1939 cursors** (`J1939recv`, `J1939recv_loc`, `recvRequestPGN`). State: an index
into the J1939 mailbox.

**Firmware modes** (`M2_CAN_haz_bus.ino`, `sniffing.cpp`, `citm.cpp`). State: mode,
whether the bus is initialised, the callbacks of two controllers, four queues. Hard: a
mode changes while frames are queued, and does not undo what another mode has set.
Correct when frames are forwarded once and in order, and none stays behind.

**Interface lifecycle** (`_reconnect`, `_rxtx` after errors), **bookmarks and
sessions** (`placeCanBookmark`, `saveSession`, `restoreSession`), **UDS scans**,
**man-in-the-middle sketch**, **analysis, printing, tools, the J1939 database,
vendored code** (`vstruct`, `envi`, `due_can`, `mcp_can`): see section 7.

The hazards of these parts, each at its line, are the `hazards` of `PROJECT.json`.

## 2. Modules

| module | models | checked by | proofs |
|---|---|---|---|
| `MessageBox` | what the mailboxes promise (abstract) | as `ImplementsMessageBox` | |
| `CanMailbox` | `_submitMessage`, `recv`, `recvall` | `MCCanMailbox` | `CanMailboxProofs` |
| `CanTail` (extends `CanMailbox`) | `genCanMsgs` | `MCCanTail` | `CanMailboxProofs`, last part |
| `CanCommands` (uses `MessageBox`) | `CANxmit`, `ping`, `setCanBaud`, `loop()` | `MCCanCommands` | `CanCommandsProofs` |
| `FrameQueue` | `queue.h` and its uses | `MCFrameQueue` | `FrameQueueProofs` |
| `J1939Transport` | both sides of the transport protocol | `MCJ1939Transport` | `J1939TransportProofs` |
| `DeviceIsoTp` | `isotp.cpp` | `MCDeviceIsoTp` | `DeviceIsoTpProofs` |
| `UdsClient` | `UDS.xmit_recv`, `_isotp_get_msg`, `msg_decode` | `MCUdsClient` | `UdsClientProofs` |
| `SerialLink` | `send`, `log`, `_rxtx` | `MCSerialLink` | `SerialLinkProofs` |
| `DeviceModes` | `loop()` of the M2, its modes and callbacks | itself | `DeviceModesProofs` |

**CanMailbox.** A Python list is an object with references to it, so the model has
`lists`, all list objects ever made, and `messages`, `mbox`, which are references
(numbers of lists; `None` is 0). One action is one access to shared state:
`SubmitLookup` is the `get` of line 483, `SubmitCreate` and `SubmitMakeEvent` lines
485-487, `SubmitAcquire`, `SubmitAppend`, `SubmitNotify` the locked part. `recv` is
`RecvLookup`, `RecvCheck`, then `RecvPop`, or another turn, or `RecvTimeout`. The pop
is one step with its acquire and release: nothing else happens under the lock that
anyone could see. `recvall` is `RecvallLookup`, `RecvallCopy` and `RecvallReplace`,
because the receive thread may look the mailbox up between copy and replacement.
Time stamps and contents are left out; a message is (type, submitter, number).
`raised` has the readers whose `pop(0)` found the list empty
and raised `IndexError`, `NoIndexError` says that there is none. `MCCanMailbox` lets either one
reader take messages, with `recv` and `recvall`, or both with `recv` alone (`rivals`). A session
file, from which a mailbox begins with messages and without an event, is not modelled.

**CanTail.** The variables are the generator's locals; `gpc` is the place where it
stands, with the two `yield`s as places of their own. `start` is 0 or the end of the
mailbox. `GenLoop` is also the turn of a loop without a mailbox: in tail mode it spins
without yielding, although the docstring (lines 899-901) says that the generator
yields None "to allow the caller to decide what to do instead of waiting forever".

**CanCommands.** Time-outs are free: `TimedTimeout` and `BaudTimeout` may happen
whenever a caller waits. The serial line is a pair of FIFO sequences (bytes are not
modelled here), the mailboxes are those of `MessageBox`, which `CanMailbox`
implements for threads that only call `recv`, as far as it does not raise (finding 2). An
exception of the serial line, which `_send` swallows, is left out. The transceiver is `CAN_haz_bus`:
`DevTake` is a complete packet with the test for an initialised bus, `DevBaudFail`
and `DevBaudOk` the KEEP_TRYING loop of `CMD_CAN_BAUD`.

**FrameQueue.** The queue and the two parties that use it: `Callback`, an interrupt,
is the whole of an enqueue in one step; the loop takes one step for each access to
head, tail or the buffer, so that an interrupt fits between any two. `tail++` is a load
and a store: tail is volatile and the increment is no single instruction. `use`
says how a queue is used (see below) and never changes.

**J1939Transport.** `Station` actions are the nodes on the bus. The other ones (external
to the sources) follow the protocol, give up if they like, and each frame reaches the
host or is lost. For an address of ours (`Ours`) the same actions are `_j1939xmit_tp`: an
RTS even to everybody, with the bytes of the PGN reversed (`Pgn`), then the data without
waiting for the CTS; `OtherClears` and `OtherAcknowledges` are what its receiver does.
`queue` is `_mhe_queue` with the filter of `_j1939_can_handler` before it; the `Handle`
actions are the handlers of TP.CM and TP.DT frames, one whole handler in one step: the
thread of `_mhe_runner` is the only one that uses the parts. `Answer` sends CTS or EOM with
`CANxmit`: either the frame goes out (`Answered`) and comes back to the host as well, because
the transceiver reports what it sends (M2, `SendFrame`), or the transceiver refuses it
(`Unanswered`), which `J1939xmit` does not notice; `unanswered` notes the flow. In both
cases `recv` may raise `IndexError` when a caller's `J1939xmit` takes the result of the
handler (finding 2): line 404 raises it again and the thread ends (`running`). The same
exception in the caller's thread ends a transfer of ours in the middle (`BreakOff`). There are
no filters, listeners and command handlers (the default), so that `_submitJ1939Message` files
what it is given. `wiped` notes the transfers that `tp_cm_13` dropped.

**DeviceIsoTp.** A message is a node and a size; a segment is the place it starts at, its
number of bytes and its PCI byte. `process_isotp` and the preparation of a message take
one step for each group of accesses that an interrupt can tell apart (`ProcessStart` to
`ProcessFinish`, `SendStart`, `SendSet`, `SendFirst`); `FlowControl` and `FirstFrame` are
`IsoTP_cb`, whole. Receivers (`owing`) answer each first frame; they may ask for a pause,
a separation time or a block size, or refuse. `message.undisturbed` says that nothing was
left of an earlier message when this one began, that its first frame found room and that
nothing was asked for another node meanwhile: without it, a late flow control frame starts
`process_isotp` for a message that is not there (hazard at `isotp.cpp:147`). `SendFrame` is
one step here, although the flow
control frame that `IsoTP_cb` sends from the interrupt (`isotp.cpp:60`) makes its queue one with
two producers; what that does to a queue is in `FrameQueue` and `DeviceModes`.

**UdsClient.** A frame is a place in an answer, an answer a request with a kind and a
number of frames. `unread` is what `genCanMsgs` yields from the `start_index` of
`_isotp_get_msg` on: the frames of the ECU, each with its index in the mailbox. The other
frames there, the requests that the transceiver reports, are counted only (`filed`), for
they take indices. `msg_decode` counts the frames of the first message in it, and `Poll` is one turn of its
loop together with what `xmit_recv` does with a message; `Skip` goes on behind the index of
the last frame. `Timeout` may happen at any time,
so that answers come late. The ECU works off requests in order; `SendTesterPresent` is
the other thread. `clean` says of a call that nothing of an earlier one was left when it
began and that no frame has been lost since. The result of sending is tied to its request; that
the next call takes a late one (`__init__.py:674`) is what `CanCommands` is about. Requests
for TesterPresent without a response are left out.

**SerialLink.** Bytes have their values, so that an `@` (64) in data or as a length is one
for the host. `Send` and `Write` are the four calls of `Serial.write` in `send`, `Log` a
packet that an interrupt writes between them. `Read` is one turn of `_rxtx`: one byte, and
at most one packet. Bytes note the packet they are of (history), which the host does not
see.

**DeviceModes.** `at` is the place of `loop()`, which goes through the four queues and then
takes a command. `CanMode` changes where `SendFrame` sends at once, `CanBaud` sets the
callbacks. Each queue is a ring with `head`, `tail` and `items`. `SendFrame` goes through its
queues (`Route`, `Target`, `Proceed`), and each enqueue takes a step for each access
(`EnqueueCheck` to `EnqueueZero`; `pc` says which is next, `reg` holds tail between load and
store); `Arrive`, a callback, comes between any two of them and fills one or two of the same
queues. `raced` notes the queues that a callback has filled in the middle of `SendFrame`'s own
enqueue into them. `loop()` alone takes frames, which is one step: `FrameQueue` has the
accesses of that. `CanBaud` is one step as well, and ISO-TP is left out.

## 3. Runs

| run | instance | shows |
|---|---|---|
| `Mailboxes` | 1 receive thread, 2 mailboxes, 3 messages; 1 reader with up to 2 `recvall`, or 2 readers that only `recv` | order, nothing twice; a `recvall` costs one message at most; every call behaves as one step on a queue |
| `MailboxLost` | 1 reader with a `recvall` | finding 1 |
| `MailboxIndexError` | 2 readers that only `recv` | finding 2 |
| `Tail` | generator, receive thread, reader; 3 messages, 1 `recvall` | no lost wake-up, no repetition, everything is yielded |
| `Commands` | 2 callers, 2 rates, 2 transmissions, 1 ping, a failing bus start | lag of answers bounded by time-outs; `setCanBaud` returns and leaves both sides at one rate |
| `QueueUses` | 3 slots, 6 frames, the six uses below | the queues with one producer are sound |
| `QueueFull` | 3 slots, 8 frames, two producers | finding 3 |
| `Transport` | 2 transfers to us, 1 to everybody, 1 of ours; 1 given up, 1 frame lost | what arrives whole is filed once and under its PGN, mixtures need a lost announcement, senders to us reach their end; but for the exceptions below |
| `DeviceIsoTp` | 2 nodes, 3 requests, messages of 8 and 118 bytes, 2 slots in the queue | segments are exact, a cleared message goes out |
| `Uds` | 2 calls, 2 services, answers of up to 3 frames, 1 TesterPresent, 1 pending response, 1 lost frame | a call ends with its own whole answer and meets nothing it cannot read |
| `SerialLink` | 4 packets of 1 to 4 bytes and log packets, 2 lost bytes | once in step the host stays so; a sound packet is missed only when a false one has swallowed its start |
| `DeviceModes` | 2 buses, 4 modes, 3 commands, 3 frames, 3 slots in each queue | forwarding once and in order, honest echoes, queues that drain, but for `raced` queues |

Exceptions that properties state rather than hide:

* `CompleteIsFiled`, `TransfersEnd`: not for a transfer in `wiped`. `tp_cm_13`
  (`j1939stack.py:581`) clears the parts stored for the addresses of the EOM as it
  travels, that is of a transfer in the opposite direction, and not of the acknowledged
  one: with transfers both ways at once a message all of whose frames have arrived may
  never be filed, and its sender waits for an EOM for ever.
* `TransfersEnd`: nor for a transfer one of whose answers did not go out (`unanswered`), nor
  after the thread of `_mhe_runner` has ended; the sender then waits for ever as well.
* `DeliveredInOrder`, `DeliveredOnce`, `LossBounded`, `ImplementsMessageBox`: `Mailboxes` leaves out two
  readers of which one calls `recvall` (section 5). A `recv` that raises takes nothing.
* `InOrderOnce`, `EchoMeansSent`, `QueuesDrain`: not for queues in `raced`. A callback that
  fills a queue in the middle of the loop's enqueue into it can overwrite a frame or be
  overwritten, or overfill the queue so that it looks empty: finding 3, on one queue. The order
  in which frames of different origin get on a bus is not promised: between the queues of
  `SendFrame` a callback may put a later frame before the host's on Can1.
* `FiledUnderItsPgn`: not after a transfer that broke off, whose PGN overwrites that of
  the next announcement (`j1939stack.py:528`), and not for our own transfers, whose PGN
  is packed in the reverse order (`:250`, `:262`).
* `AcknowledgedIsFiled`: not after two transfers that were given up. CTS and EOM go to an
  address (`j1939stack.py:551`, `:675`) and are taken for an answer to whatever its station
  sends at that time. The CTS for a transfer that was given up lets the source go on with
  the next one; if that is given up as well, its own CTS and EOM are taken for those of the
  third, while the packets of the third still wait in the queue. No instance of the runs is
  as large as that: it takes three transfers, two given up, and seven frames in the queue.
* `ExactSegments`, `ClearedGoesOut`: for `message.undisturbed` (section 2).
* `OwnWholeAnswer` and the other two of `UdsClient`: for `clean` calls. After a call
  that timed out, its late answer is that of the next call if the service is the same or
  the answer is negative; and a negative answer to TesterPresent is taken for one to the
  call under way (`__init__.py:711`), which the constant `TesterAnswers` leaves out.
* `StaysInStep`: for packets that lost no byte and were not interrupted, after one that
  was taken whole.

Why the bounds suffice. *Mailboxes*: a reader that pops needs a list with two
messages to get the order wrong, one list that is replaced to hold a stale reference,
a second replacement to hold one two lists old, and one message before and after each.
*Generator*: with three messages it falls asleep, wakes and goes round its
loop again. *Commands*: one time-out shifts all later answers by one, so two
transmissions with time-outs at any point show every offset once; the second caller
only matters where two share a mailbox (`setCanBaud`). *Queues*: three slots are the
smallest buffer that can be empty, partly filled and full, with two frames; six frames
go around it twice. *Transport*: two transfers to us are needed to mix, three packets
to break one off in its middle or to lose one of it; of the other two flows a transfer of
two packets is enough to meet them. *ISO-TP*: 8 bytes leave a last segment of two, 118
make the sequence number go round (16 segments); with three requests an unanswered
message, its successor and a disturbance of that meet; two slots are a queue that a flow
control frame fills. *UDS*: three frames have a first, a middle and a last one, two calls
leave something for one another. *Serial*: the packets contain an `@`, a zero and a byte
that reads as a length longer than what follows; two losses can hit the `@` of one packet
and the length of another. *Modes*: three commands put the device into a mode, initialise it
and change the mode; three slots hold two frames, so that three frames fill a queue and turn
one away, and the tail goes round.

The uses of queues in `MCFrameQueue`: frames received by interrupts and dequeued by the
loop (`Received`); forwarded ones, peeked, sent and removed (`Forwarded`); frames that
the loop itself puts in (`Sent`, while sniffing); both producers (`Echoed`; in
man-in-the-middle mode `SendFrame` makes the forwarding queues such queues too, see `raced` of
`DeviceModes`); and
two with two interrupts between two accesses, which `IndicesInside` covers and the
ordering properties exclude. With two interrupts between `head++` and its wrap-around even a queue with one producer can
be overfilled, so `DeliversInOrder`, `SoleProducerStopsAtFull` and
`EverythingDelivered` are stated for one interrupt between two accesses of the loop;
the interrupts must come within a few instructions of the loop for it to matter.

`CHECK_DEADLOCK FALSE` is set where the bounded system comes to an end (generator left,
all commands issued, all transfers, messages, calls, packets or frames done). The mailbox
and queue runs check for deadlock.

## 4. Fairness

* `TailFairSpec`: the interpreter runs the generator and the rest of a submission
  again and again. Nothing is assumed of the one second time-out of `wait(1)`, of the
  reader, nor that messages come: `EverythingYielded` holds by the event alone.
* `CommandsFairSpec`: the receive thread, the transceiver's `loop()` and the callers
  go on. No time-out has to happen.
* `QueueFairSpec`: `loop()` is called for ever (weak fairness of its accesses), and a
  frame that is offered to the controller again and again is sent at last (strong
  fairness of a successful `sendFrame`: a bus that never takes a frame stops the queue).
* `TransportFairSpec`: `_mhe_runner` takes what is queued as long as its thread runs; stations,
  we among them, that have started a transfer go on. Nobody has to start one or to give up.
* `IsoTpFairSpec`: `loop()` is called for ever, so `process_isotp` and a command once begun
  go on (weak fairness); what is offered to the bus, or to a queue that has room again and
  again, is taken at last (strong fairness of `BusTakes` and of `ProcessSend` with room).
  The interrupt may keep the queue full for a while, but nobody has to send flow control.
* `UdsFairSpec`: `_isotp_get_msg` polls every 10 ms, the transceiver sends, the ECU answers.
  No time-out has to happen: `CleanCallEnds` holds without it.
* `ModesFairSpec`: `loop()` goes round, and a controller that has been initialised takes a
  frame at last (strong fairness: `sendFrame` may fail any number of times).
* `SerialSpec` states no fairness; its properties are invariants.

## 5. Findings

1. `MailboxLost` / `NothingLost`: `_submitMessage` is called "*threadsafe*", but a
   message whose list was looked up before a `recvall` and appended after it is lost.
2. `MailboxIndexError` / `NoIndexError`: `recv` looks at the length of the list before it
   takes the lock and pops with it. Of two threads that only call `recv`, such as a user's
   `CANxmit` beside that of a J1939 handler, the second pops from an empty list.
3. `QueueFull` / `FullIsDetected`: on the M2, sniffed frames and the record of sent
   ones go into one queue from an interrupt and from the loop. A callback between the loop's
   test for a full queue and its write takes the last slot, and the loop's frame overfills the
   queue, which then looks empty.

Each quotes its line in `PROJECT.json`. Further disagreements, which no run of their own
shows: `recv` keeps the list it looked up across another thread's `recvall` and
returns what that has returned (`DeliveredOnce` fails with two readers and a `recvall`); the
exceptions of section 3; and `setCanMode`'s docstring (`__init__.py:858-863`), which
says that a new mode takes effect with the next `setCanBaud`, while `SendFrame` obeys it
at once and a controller that the new mode does not use is never stopped: after the man
in the middle, a device that sniffs Can0 still forwards what Can1 receives.

## 6. Proofs

For all values of the constants (any number of threads, mailboxes, messages, slots):

* `CanMailboxProofs`: `TypeCorrect` (`TypeOK`) and `LockIsExclusive` (`LockExclusive`, which
  no run repeats). The invariant `LockInv` adds to the types that a thread past its look-up
  holds a list and that the lock is held exactly in the locked parts.
* `CanMailboxProofs` also has `OneReaderInOrder` (`DeliveredInOrder`) and
  `OneReaderOnce` (`DeliveredOnce`), both for one reader. Neither formula is inductive.
  `OrderInv` rests on one idea: a mailbox is always the newest of its lists (`Newest`),
  and submitters and the reader move to newer lists only (`AppendsToNewest`,
  `Oldest`). So messages are ordered within a list and between lists
  (`ListsOrdered`), a message to be appended is newer than all of its submitter's
  (`Older`), and what the reader has comes before all that it can still get
  (`GotFirst`). `CopyIsList` says that what `recvall` returns is still in the list
  when the list is replaced; `ListsOwned` that no list serves two mailboxes.
* After them in `CanMailboxProofs`: `MailboxesAreQueues` (`ImplementsMessageBox`: the initial
  state maps to the initial state, and every step to a step of `MessageBox` or to none),
  `RecvallLosesAtMostOne` (`LossBounded`), `WithoutRecvallNothingIsLost` (`NothingLost`, which
  `MailboxLost` refutes with a `recvall`) and
  `RecvNeverReturnsTwice` (`DeliveredOnce` for any number of readers). On top of the invariant above they need
  two facts: the list a reader has looked up is still the mailbox (`Current`), so its pop
  takes the head of the abstract queue; and a mailbox that a submitter is about to make is
  still missing (`MakesMissing`), so making it changes nothing that can be seen. A message
  is lost only when it is appended to a list that is the mailbox no more (`Stale`);
  `LossInv` counts that one before it happens, against the `recvall` that replaced the list.
* The last part of `CanMailboxProofs` is about `CanTail`: `TailTypeCorrect` (`GenTypeOK`),
  `NeverGoesBack` (`YieldsInOrder`) and `YieldsEverything` (`YieldsConsecutively`), for any number of threads, and `WakesUp`
  (`NoLostWakeup`) and `FailsBeforeTheFirst` (`FailsOnlyAtFirstMessage`) for one receive thread.
  The generator reads a list that others change, but lists change at their ends only
  (`ListChange`): a pop moves newer messages to its index, an append adds newer ones. So what
  is at its `Place` or beyond is newer than what it has yielded (`ReadInv`), and if nobody
  pops, its place says how far it has come (`YieldedLast`). For the wake-up, `EventsMade` says
  that a list without its event is empty and its maker about to make the event; hence whoever has
  appended something that the generator has not seen is still going to set the event, or has
  set it since the generator looked (`WillWake`). The generator clears the event before it
  reads the length again, so it never forgets one that was set in between.
* `FrameQueueProofs`: `QueueTypeCorrect` (`QueueTypeOK`) and `IndicesStayInside`
  (`IndicesInside`), for any size, use and number of interrupts. `IndexInv` adds that
  the loop's register holds an index of the buffer. `PassesOnInOrder` (`DeliversInOrder`) and
  `TurnsAwayAtFull` (`SoleProducerStopsAtFull`), for any size, one producer and one
  interrupt at a time. `FifoInv` counts frames instead of comparing indices: `Taken` and
  `Filled` are how many have been removed and put in so far, the buffer holds what lies
  between them from head on (`Holds`), and their difference is less than the size
  (`Fits`). The hard place is between `head++` and its wrap-around: `enqueue` compares with a
  head outside the buffer, finds room where there is none, and one interrupt may
  use the slack that the frame just taken has left, a second one would overfill.
* `CanCommandsProofs`: `CommandsTypeCorrect` (`CommandsTypeOK`), `NoAnswerVanishes`
  (`AnswersConserved`), `LateByTimeouts` (`LagBounded`) and `RatesAgree` (`BaudAgrees`), for any number of
  callers, commands and failed starts of the bus. For each kind of command a step does
  one of a few things to what is underway (`Moves`: it asks, gives up, gets an answer, ...), and
  each keeps the balance of `AnswersConserved`. The number of time-outs bounds the lag
  because a lone caller's underway commands are the last ones sent, in order
  (`LastOnes`): the head of the mailbox is late by what is underway behind it. For the rate,
  `LoneBaud` follows a `setCanBaud` through the phases of `BaudState`.
* `J1939TransportProofs`: `TransportTypeCorrect` (`TransportTypeOK`), `MixedOnlyThen`
  (`MixedOnlyAfterLoss`), `FiledUnderAnnouncedPgn` (`FiledUnderItsPgn`), `CompleteIsFiledOnce`
  (`CompleteIsFiled`) and `AcknowledgedOnlyWhenFiled` (`AcknowledgedIsFiled`), for any flows,
  transfers, packets and losses. No formula of these is
  inductive: packets are not compared with their announcement, only order keeps transfers
  apart. `OrderInv` says so: frames of a flow are queued in the order in which they were sent
  (`QueueInOrder`), what is stored was sent before what is queued (`PartsBefore`), and an
  announcement that has been handled leaves nothing older (`NothingOlder`). `PgnOfParts` ties
  the PGN that is stored to the last announcement handled, or to the message broken off
  before it. `TrackInv` follows a transfer all of whose frames sent so far have arrived:
  its announcement waits, or its packets are stored in their places with the rest queued behind,
  or it has been filed once (`Follows`). An acknowledgement needs two arguments, for an answer
  names no transfer and packets may be missing. Which transfer it ends: `Clearance` says when
  a frame of an earlier transfer (`Left`) may wait. While nothing was given up, only the
  announcement of the present transfer can clear its source to send (`Clean`). After one
  transfer was given up, its announcement may clear the source to send the next one, but
  a source that had to wait for a CTS has sent no packets of it that could be taken for the
  last of the next (`Orderly`); after two it may have, which is why the property stops there.
  What was stored: once the announcement has been handled, the numbers of the stored packets
  grow and what waits was sent after them (`Gathers`), so as many packets as were announced,
  none of them beyond the number announced, are all of them (`AcknowledgedWhole`).
* `DeviceIsoTpProofs`: `IsoTpTypeCorrect` (`IsoTpTypeOK`) and `SegmentsAreExact`
  (`ExactSegments`), for messages of any length that ISO-TP allows, any number of nodes
  and a queue of any size. `ExactSegments` says nothing of the places where process_isotp
  may be interrupted; the invariant `IsoTpInv` says in which phase an undisturbed message
  is: at rest, being prepared, its first frame in the queue (`OneFirst`: exactly one, to
  its receiver), awaiting flow control, or being sent. While it is sent, `Started` ties
  index and PCI byte to the number of segments sent so far at each place of the loop, and
  nobody owes flow control any more, so the interrupt cannot change go or index. A step
  that is neither the transmission's nor its first frame's keeps the phase
  (`CourseKept`); what the host asks for another node ends `undisturbed`.
* `DeviceModesProofs`: `ModesTypeCorrect` (`ModesTypeOK`), `ForwardsInOrderOnce` (`InOrderOnce`)
  and `EchoIsHonest` (`EchoMeansSent`), for queues of any size and any number of frames and
  commands. `ModesInv` has four parts. `TypeInv`: `SendFrame` stands in a queue of its mode, and
  a tail is outside of its buffer only where `SendFrame` is about to wrap it around. `RingInv`,
  for queues to the buses that were not raced: they hold fewer frames than slots, and what
  `SendFrame` has seen and written in the one it is at is still so. `ForwardInv`: what has gone to
  a bus followed by what waits for it is in order and not of that bus, and older than the
  frame of `SendFrame` as long as that has still to get there (`Ahead`). `EchoInv`: the frame
  of `SendFrame` is in the queues behind it, unless one was full, and whatever is in the buffers
  of received frames, also in slots that are not in use, has been sent or waits to be.
  The last is what makes `EchoMeansSent` hold even where the queue of received frames is
  raced: an old frame that reappears there was accounted for before. Lemmas about rings say what an
  access does to the frames of a queue (`WriteAtTail`, `MoveTail`, `ZeroTail`, `TakeHead`).
* `UdsClientProofs`: `OwnAnswerOrTimeout` (`OwnWholeAnswer`) and `NothingStray`
  (`NoStrayMessage`), for answers of any length and any number of calls, TesterPresent
  requests and pending responses. Both properties look at a call that has ended; the invariant
  `Course` says where its request or its answer is meanwhile: the request is once on the wire
  or with the ECU, or the frames of the answer stand, one after the other, in what is unread
  followed by what the ECU is sending (`AnswerAfter`). Everything else there is a message of one frame
  that the call skips (`Skipped`). `Indexed` says that indices grow, so that skipping a
  frame leaves the answer behind it whole, and `DecodeAnswer` that `msg_decode` finds the
  end of the answer at its last frame, and none before.
* `SerialLinkProofs`: `SerialStaysInStep` (`StaysInStep`) and `SerialMissedIsSwallowed`
  (`MissedIsSwallowed`), for any packets and log message and any number of packets and of lost
  bytes. Both properties speak of packets that have passed; the invariant `SerialInv` speaks of
  the `Stream`, inbuf followed by the line. Bytes enter it at the end (`Begins` for the first
  call of `send` and for `log`, `Extends` for the other calls), leave it at the front
  (`Reads`), or are lost where inbuf ends (`Loses`); each part of the invariant has a lemma for
  each of these. From a byte of a sound packet on, the rest of it follows, as far as
  it has been written (`Contiguous`, which needs `Writing`: what `send` has still to write of
  one packet and that nothing but inner packets has come since); its first byte stays until
  the packet is taken or swallowed (`Kept`); after the last byte of a packet comes the first of the
  next (`Adjacent`), or the next one is inside it (`Nested`). So `InStep` is kept: when a
  packet has been taken as it was sent, the next one is at the front of the stream, and a
  packet at the front is taken when it is complete (`Receiving`). The theorems say nothing of
  packets that log messages were written inside of, or that lost a byte: there the host may
  swallow what follows.

Assumptions: those named in the modules (`BoundsAssumption`, `CmdsAssumption`,
`ThreadsAssumption`, `SizeAssumption`, `UsesAssumption`, `CommandBounds`, `CallersAssumption`,
`BaudsAssumption`, `TransportBounds`, `IsoTpAssumption`, `ModesBounds`, `FramesBound`,
`SourceAssumption`, `UdsAssumption` and `SerialAssumption`), which TLC evaluates in
the runs of these modules, three hypotheses on who uses the mailboxes, and one on the ECU:

* `OneReader`, at most one thread takes messages. It is needed: two readers, one of which
  calls `recvall`, refute the properties.
* `OneSubmitter`, there is exactly one receive thread, as in the program. It is needed for
  the refinement, the losses and the wake-up: of two submitters that find no mailbox, the second would
  replace the one that the first has made and filed into.
* `Unrivalled`, there is one reader, or nobody calls `recvall`: otherwise a reader pops from a list
  that another one has replaced (section 5).
* `NeverRefused`, the ECU does not refuse TesterPresent, as in the run `Uds`: `_isotp_get_msg`
  takes any negative answer for one to its own call (section 3).

Every invariant and every action property that a passing run checks is proved, under the
hypotheses above; `DeliveredInOrder` is proved for one reader, and for two that only call `recv` it
is model-checked (`Mailboxes`). Only model-checked: the liveness properties `EverythingDelivered`, `EverythingYielded`, `QueuesDrain`,
`ClearedGoesOut`, `BaudReturns`, `TransfersEnd` and `CleanCallEnds` (fairness and ENABLED are
outside the proof system). `BaudAgrees` and `LagBounded` speak of lone callers: two threads that
share a kind of command take each other's answers, which the properties exempt and the theorems do not touch.

## 7. Not modelled

* In the modelled parts: `genCanMsgs` with an explicit stop index, an arbitration-id
  filter and time stamps; `setCanMode`, which has the shape of `setCanBaud`; frames
  that violate the transport protocol (they raise in `_mhe_runner`, a hazard listed); J1939
  filters, listeners and command handlers (empty by default), whose errors (`j1939stack.py:425-456`)
  keep a message from being filed; mailboxes that a session file has filled; exceptions of the
  serial line (`__init__.py:577`); two producers in the queue of `DeviceIsoTp`; the
  clock of the separation time and its wrap-around; ISO-TP in the man-in-the-middle mode;
  the host's commands as bytes (two length bytes, no marker), filters, registers, autobaud,
  and commands to an M2 that is not initialised, whose counters wrap around; `msg_encode`
  and `msgs_decode`; downloads and session scans of UDS.
* The reconnection (`_reconnect`, `RXTX_DISCONN`): it cannot happen. The test for it,
  `__init__.py:406`, reads `e.message`, which Python 3 exceptions do not have.
* J1939 cursors, CCP, bookmarks, sessions, replay: one thread that reads what the mailbox
  modules deliver, or formats messages.
* Never: `vstruct`, `envi`, `due_can`, `mcp_can` (third party), `J1939db.py` (data),
  printing and statistics (no state), scripts and file converters (input and output),
  `autocapture.cpp` (a placeholder), test firmware, the older sketches.

## 8. Plan

What could come next, in this order:

1. The host's side of the serial link: the commands of `_send` as bytes, and the buffer
   of `loop()` that has no marker to find its place again.
2. `msg_encode` and `msgs_decode` as functions against a reference definition.
3. Downloads of UDS with the block counter, and the session scans.
4. ISO-TP in the man-in-the-middle mode, composing `DeviceIsoTp` and `DeviceModes`.

Proofs: those of new modules. For the modules there are, only the liveness properties are
left to TLC (section 6).
