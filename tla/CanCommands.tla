---------------------------- MODULE CanCommands ----------------------------
(***************************************************************************)
(* Commands of CanInterface that wait for an answer of the transceiver:    *)
(* CANxmit, ping and setCanBaud (cancatlib/__init__.py), and the part of   *)
(* the transceiver that answers them (loop() of CAN_haz_bus.ino).          *)
(*                                                                         *)
(* A command is one packet and its result is another, and nothing ties the *)
(* one to the other: whoever calls recv on the mailbox of the results      *)
(* takes the oldest one there.  The mailboxes are those of MessageBox,     *)
(* which CanMailbox implements for threads that only call recv.            *)
(***************************************************************************)
EXTENDS Integers, Sequences, FiniteSets

CONSTANTS
  Callers,    \* the threads of the host that issue commands
  Bauds,      \* the baud rates
  MaxSends,   \* bound: packets of each kind that each caller sends
  MaxCount,   \* bound: the argument count of CANxmit
  MaxFails    \* bound: failed attempts of the transceiver to start its bus

(***************************************************************************)
(* The commands: "send" is CANxmit, "ping" ping, and "baud" setCanBaud.    *)
(***************************************************************************)
Kinds == {"send", "ping", "baud"}
Timed == {"send", "ping"}     \* those that wait for 3 seconds
NoBaud == "none"

ASSUME CommandBounds ==
  /\ MaxSends \in [Callers -> [Kinds -> Nat]]
  /\ MaxCount \in Nat \ {0} /\ MaxFails \in Nat

ASSUME CallersAssumption == IsFiniteSet(Callers)
ASSUME BaudsAssumption == Bauds # {} /\ NoBaud \notin Bauds

Numbers == UNION {1 .. MaxSends[c][k] : c \in Callers, k \in Kinds}

Packet == [cmd : Kinds, from : Callers, num : Numbers, baud : Bauds]
Answer == [cmd : Kinds, from : Callers, num : Numbers, try : 0 .. MaxFails,
           ok : BOOLEAN]

VARIABLES
  cpc,         \* caller: "idle", "send" or "recv"
  kind, left, baud,  \* caller: the command, its sends to go, its baud rate
  sends,       \* caller: packets sent so far, for each kind
  serial,      \* packets on their way to the transceiver
  dev,         \* transceiver: the packet it works on: <<>> or <<packet>>
  devBaud,     \* transceiver: the rate its bus runs at, or NoBaud
  fails,       \* transceiver: failed attempts to start the bus
  wire,        \* answers on their way to the host
  boxes, taken,  \* the mailboxes, and what each caller got out of them
  hostBaud,    \* self._config['can_baud']
  timeouts,    \* how many recv have timed out, for each kind
  refused,     \* how many packets the transceiver dropped, for each kind
  log          \* history: <<packet asked, answer got>> for each recv that got one

callerVars == <<cpc, kind, left, baud, sends, hostBaud, timeouts, log>>
deviceVars == <<dev, devBaud, fails, refused>>
cmdVars == <<callerVars, deviceVars, serial, wire, boxes, taken>>

Mailboxes == INSTANCE MessageBox WITH
  Boxes <- Kinds, Messages <- Answer, Clients <- Callers,
  queue <- boxes, returned <- taken

CommandsTypeOK ==
  /\ cpc \in [Callers -> {"idle", "send", "recv"}]
  /\ kind \in [Callers -> Kinds]
  /\ left \in [Callers -> 0 .. MaxCount]
  /\ baud \in [Callers -> Bauds]
  /\ \A c \in Callers : \A k \in Kinds : sends[c][k] \in 0 .. MaxSends[c][k]
  /\ serial \in Seq(Packet)
  /\ dev \in {<<>>} \cup {<<p>> : p \in Packet}
  /\ devBaud \in Bauds \cup {NoBaud} /\ hostBaud \in Bauds \cup {NoBaud}
  /\ fails \in 0 .. MaxFails
  /\ wire \in Seq(Answer)
  /\ boxes \in [Kinds -> Seq(Answer)] /\ taken \in [Callers -> Seq(Answer)]
  /\ timeouts \in [Kinds -> Nat] /\ refused \in [Kinds -> Nat]

CommandsInit ==
  /\ cpc = [c \in Callers |-> "idle"]
  /\ kind = [c \in Callers |-> "send"]
  /\ left = [c \in Callers |-> 0]
  /\ baud = [c \in Callers |-> CHOOSE b \in Bauds : TRUE]
  /\ sends = [c \in Callers |-> [k \in Kinds |-> 0]]
  /\ serial = <<>> /\ wire = <<>>
  /\ dev = <<>> /\ devBaud = NoBaud /\ hostBaud = NoBaud /\ fails = 0
  /\ Mailboxes!BoxInit
  /\ timeouts = [k \in Kinds |-> 0] /\ refused = [k \in Kinds |-> 0]
  /\ log = [c \in Callers |-> <<>>]

-----------------------------------------------------------------------------
(***************************************************************************)
(* The host.                                                               *)
(***************************************************************************)

\* A thread calls CANxmit with some count, ping, or setCanBaud.
Call(c, k, n, b) ==
  /\ cpc[c] = "idle"
  /\ sends[c][k] + n <= MaxSends[c][k]
  /\ k # "send" => n = 1
  /\ cpc' = [cpc EXCEPT ![c] = "send"]
  /\ kind' = [kind EXCEPT ![c] = k]
  /\ left' = [left EXCEPT ![c] = n]
  /\ baud' = [baud EXCEPT ![c] = b]
  /\ UNCHANGED <<sends, hostBaud, timeouts, log, deviceVars, serial,
                 wire, boxes, taken>>

\* self._send(cmd, msg).  That it swallows an exception of the serial line, so that the
\* command is not sent and the caller waits all the same, is left out.
Send(c) ==
  /\ cpc[c] = "send"
  /\ cpc' = [cpc EXCEPT ![c] = "recv"]
  /\ left' = [left EXCEPT ![c] = @ - 1]
  /\ sends' = [sends EXCEPT ![c][kind[c]] = @ + 1]
  /\ serial' = Append(serial, [cmd |-> kind[c], from |-> c,
                               num |-> sends[c][kind[c]] + 1, baud |-> baud[c]])
  /\ UNCHANGED <<kind, baud, hostBaud, timeouts, log, deviceVars, wire,
                 boxes, taken>>

\* Faulty variant: one turn too many.
NextTurnOnceMore(c) ==
  cpc' = [cpc EXCEPT ![c] = IF left[c] >= 0 THEN "send" ELSE "idle"]

\* After a recv: the next turn of the loop over count, or the return.
NextTurn(c) == cpc' = [cpc EXCEPT ![c] = IF left[c] > 0 THEN "send" ELSE "idle"]

\* Faulty variant: the answer stays in the mailbox.
GotKeeps(c) ==
  /\ boxes[kind[c]] # <<>>
  /\ log' = [log EXCEPT ![c] =
               Append(@, <<[cmd |-> kind[c], num |-> sends[c][kind[c]]],
                           Head(boxes[kind[c]])>>)]
  /\ UNCHANGED <<boxes, taken>>

\* self.recv returns the oldest answer in the mailbox of the command.  That it may raise
\* when two callers wait at one mailbox is in CanMailbox.
Got(c) == /\ Mailboxes!Take(c, kind[c])
          /\ log' = [log EXCEPT ![c] =
                       Append(@, <<[cmd |-> kind[c], num |-> sends[c][kind[c]]],
                                   Head(boxes[kind[c]])>>)]

\* ts, result = self.recv(..., timeout)
TimedGot(c) ==
  /\ cpc[c] = "recv" /\ kind[c] \in Timed
  /\ Got(c)
  /\ NextTurn(c)
  /\ UNCHANGED <<kind, left, baud, sends, hostBaud, timeouts, deviceVars, serial,
                 wire>>

\* recv times out; before its last turn, CANxmit just goes on.
TimedTimeout(c) ==
  /\ cpc[c] = "recv" /\ kind[c] \in Timed
  /\ timeouts' = [timeouts EXCEPT ![kind[c]] = @ + 1]
  /\ NextTurn(c)
  /\ UNCHANGED <<kind, left, baud, sends, hostBaud, log, deviceVars, serial, wire,
                 boxes, taken>>

\* setCanBaud stores the rate after the first recv, whatever came out of it; to store it
\* after every recv, as here, makes no difference to a caller that is alone with it.
BaudTimeout(c) ==
  /\ cpc[c] = "recv" /\ kind[c] = "baud"
  /\ hostBaud' = baud[c]
  /\ UNCHANGED <<cpc, kind, left, baud, sends, timeouts, log, deviceVars,
                 serial, wire, boxes, taken>>

\* Faulty variant: any answer will do.
BaudGotAny(c) ==
  /\ cpc[c] = "recv" /\ kind[c] = "baud"
  /\ Got(c)
  /\ hostBaud' = baud[c]
  /\ cpc' = [cpc EXCEPT ![c] = "idle"]
  /\ UNCHANGED <<kind, left, baud, sends, timeouts, deviceVars, serial, wire>>

\* It waits on, without asking again, until an answer says b'\x01'.
BaudGot(c) ==
  /\ cpc[c] = "recv" /\ kind[c] = "baud"
  /\ Got(c)
  /\ hostBaud' = baud[c]
  /\ cpc' = [cpc EXCEPT ![c] = IF Head(boxes["baud"]).ok THEN "idle" ELSE "recv"]
  /\ UNCHANGED <<kind, left, baud, sends, timeouts, deviceVars, serial, wire>>

\* The receive thread files an answer.
File ==
  /\ wire # <<>>
  /\ Mailboxes!Put(Head(wire))
  /\ wire' = Tail(wire)
  /\ UNCHANGED <<callerVars, deviceVars, serial>>

-----------------------------------------------------------------------------
(***************************************************************************)
(* The transceiver: loop() of CAN_haz_bus.ino.                             *)
(***************************************************************************)

\* A whole packet has arrived.  Before the bus runs, everything but CMD_CAN_BAUD
\* is dropped with a log message.
DevTake ==
  /\ dev = <<>> /\ serial # <<>>
  /\ serial' = Tail(serial)
  /\ IF devBaud = NoBaud /\ Head(serial).cmd # "baud"
       THEN /\ refused' = [refused EXCEPT ![Head(serial).cmd] = @ + 1]
            /\ UNCHANGED dev
       ELSE dev' = <<Head(serial)>> /\ UNCHANGED refused
  /\ UNCHANGED <<callerVars, devBaud, fails, wire, boxes, taken>>

DevReply(success) ==
  wire' = Append(wire, [cmd |-> dev[1].cmd, from |-> dev[1].from,
                        num |-> dev[1].num,
                        try |-> IF dev[1].cmd = "baud" THEN fails ELSE 0,
                        ok |-> success])

\* Faulty variant: nothing is reported.
DevTransmitSilently ==
  /\ dev # <<>> /\ dev[1].cmd \in Timed
  /\ dev' = <<>>
  /\ UNCHANGED <<callerVars, devBaud, fails, refused, serial, wire, boxes, taken>>

\* CMD_CAN_SEND (after up to a hundred attempts) and CMD_PING: the result is sent.
DevTransmit ==
  /\ dev # <<>> /\ dev[1].cmd \in Timed
  /\ DevReply(TRUE)
  /\ dev' = <<>>
  /\ UNCHANGED <<callerVars, devBaud, fails, refused, serial, boxes, taken>>

\* Faulty variant: only failures are reported.
DevBaudOkSilently ==
  /\ dev # <<>> /\ dev[1].cmd = "baud"
  /\ devBaud' = dev[1].baud
  /\ dev' = <<>>
  /\ UNCHANGED <<callerVars, fails, refused, serial, wire, boxes, taken>>

\* CMD_CAN_BAUD: KEEP_TRYING until CAN.begin succeeds, a result for each try.
DevBaudOk ==
  /\ dev # <<>> /\ dev[1].cmd = "baud"
  /\ DevReply(TRUE)
  /\ devBaud' = dev[1].baud
  /\ dev' = <<>>
  /\ UNCHANGED <<callerVars, fails, refused, serial, boxes, taken>>

DevBaudFail ==
  /\ dev # <<>> /\ dev[1].cmd = "baud"
  /\ fails < MaxFails
  /\ DevReply(FALSE)
  /\ fails' = fails + 1
  /\ UNCHANGED <<callerVars, dev, devBaud, refused, serial, boxes, taken>>

-----------------------------------------------------------------------------

Device == DevTake \/ DevTransmit \/ DevBaudOk \/ DevBaudFail

Progress(c) == Send(c) \/ TimedGot(c) \/ BaudGot(c)

CommandsNext ==
  \/ \E c \in Callers : \/ \E k \in Kinds, n \in 1 .. MaxCount, b \in Bauds :
                              Call(c, k, n, b)
                        \/ Progress(c)
                        \/ TimedTimeout(c)
                        \/ BaudTimeout(c)
  \/ File
  \/ Device

CommandsSpec == CommandsInit /\ [][CommandsNext]_cmdVars

\* The threads and the transceiver run; nothing is assumed of the time-outs.
CommandsFairSpec ==
  /\ CommandsSpec
  /\ WF_cmdVars(File) /\ WF_cmdVars(Device)
  /\ \A c \in Callers : WF_cmdVars(Progress(c))

-----------------------------------------------------------------------------

Count(k, q) == Cardinality({i \in 1 .. Len(q) : q[i].cmd = k})

\* The answers to commands of kind k that somebody can still receive.
Underway(k) == Count(k, serial) + Count(k, dev)
                 + Count(k, wire) + Len(boxes[k])

Waiting(k) == Cardinality({c \in Callers : cpc[c] = "recv" /\ kind[c] = k})

\* No answer is made up and none vanishes: those that are underway are those of
\* the callers that wait and of the ones that have given up.
AnswersConserved ==
  \A k \in Timed : Underway(k) + refused[k] = Waiting(k) + timeouts[k]

\* No other caller has issued commands of this kind.
Alone(c, k) == \A d \in Callers \ {c} : sends[d][k] = 0

\* A lone caller is never given the answer to a command it has not sent yet, and
\* an answer is late by no more commands than have timed out; before the first
\* time-out each command gets its own answer.
LagBounded ==
  \A c \in Callers : \A i \in 1 .. Len(log[c]) :
    LET asked == log[c][i][1]
        given == log[c][i][2]
    IN  asked.cmd \in Timed /\ Alone(c, asked.cmd) =>
          given.num \in asked.num - timeouts[asked.cmd] .. asked.num

\* When a lone caller is through with setCanBaud the bus runs at the rate that
\* the host has on record.
BaudAgrees ==
  \A c \in Callers :
    Alone(c, "baud") /\ (kind[c] = "baud" => cpc[c] = "idle") => hostBaud = devBaud

\* setCanBaud comes back, however often the transceiver has to try, and whoever
\* else sets the rate at the same time.
BaudReturns ==
  \A c \in Callers : (cpc[c] = "recv" /\ kind[c] = "baud") ~> (cpc[c] = "idle")

=============================================================================
