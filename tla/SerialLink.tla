----------------------------- MODULE SerialLink -----------------------------
(***************************************************************************)
(* The serial line from the transceiver to the host.  The firmware writes  *)
(* a packet as "@", a length byte, a command and data, in four calls (send *)
(* of M2_CAN_haz_bus.ino), and log, called by a CAN interrupt, may write a *)
(* packet of its own in between.  The receive thread (CanInterface._rxtx)  *)
(* takes byte after byte and looks for packets.  Bytes may get lost.       *)
(***************************************************************************)
EXTENDS Integers, Sequences

CONSTANTS
  At,          \* the byte "@", 64
  Packets,     \* command and data, as sequences of bytes, that loop() sends
  LogPacket,   \* the same of the message that an interrupt logs
  MaxPackets,  \* bound: packets sent
  MaxLost      \* bound: bytes lost

ASSUME SerialAssumption ==
  /\ At \in 0 .. 255 /\ LogPacket # <<>>
  /\ \A p \in Packets \cup {LogPacket} : p \in Seq(0 .. 255) /\ Len(p) \in 1 .. 255

VARIABLES
  writing,   \* the calls of Serial.write that send has still to do
  line,      \* bytes under way
  inbuf,     \* self._inbuf
  state,     \* self._rxtx_state
  taken,     \* history: the packets the host has taken, each as a sequence of bytes
  sent,      \* history: of each packet, in the order of their starts, its length with the
             \* first two bytes and whether it was written inside another one
  hurt,      \* history: packets that lost a byte or were interrupted
  lost

serialVars == <<writing, line, inbuf, state, taken, sent, hurt, lost>>

(***************************************************************************)
(* A byte has a value; history notes the packet it is of and its place.    *)
(***************************************************************************)
Byte(v, p, k) == [v |-> v, p |-> p, k |-> k]
NewPacket == Len(sent) + 1

Framed(p, packet) ==
  [k \in 1 .. Len(packet) + 2 |-> Byte((<<At, Len(packet)>> \o packet)[k], p, k)]

\* The bytes of packet p in the chunks in which send writes them.
Chunks(p, packet) ==
  LET bytes == Framed(p, packet) IN
  <<SubSeq(bytes, 1, 1), SubSeq(bytes, 2, 2), SubSeq(bytes, 3, 3),
    SubSeq(bytes, 4, Len(bytes))>>

SerialInit ==
  /\ writing = <<>> /\ line = <<>> /\ inbuf = <<>> /\ state = "sync"
  /\ taken = <<>> /\ sent = <<>> /\ hurt = {} /\ lost = 0

-----------------------------------------------------------------------------
(***************************************************************************)
(* send and log of the firmware.                                           *)
(***************************************************************************)
\* The packet of which some calls of Serial.write are done and others, with bytes, are not.
HalfWritten == {writing[i][1].p : i \in {j \in 1 .. Len(writing) : writing[j] # <<>>}}

\* send begins with its first call.
Send(packet) ==
  /\ writing = <<>> /\ Len(sent) < MaxPackets
  /\ line' = line \o Head(Chunks(NewPacket, packet))
  /\ writing' = Tail(Chunks(NewPacket, packet))
  /\ sent' = Append(sent, [len |-> Len(packet) + 2, inside |-> FALSE])
  /\ UNCHANGED <<inbuf, state, taken, hurt, lost>>

Write ==
  /\ writing # <<>>
  /\ line' = line \o Head(writing)
  /\ writing' = Tail(writing)
  /\ UNCHANGED <<inbuf, state, taken, sent, hurt, lost>>

\* log in an interrupt: a whole packet between two calls of Serial.write.
Log ==
  /\ Len(sent) < MaxPackets
  /\ line' = line \o Framed(NewPacket, LogPacket)
  /\ sent' = Append(sent, [len |-> Len(LogPacket) + 2, inside |-> HalfWritten # {}])
  /\ hurt' = hurt \cup HalfWritten
  /\ UNCHANGED <<writing, inbuf, state, taken, lost>>

LoseByte ==
  /\ line # <<>> /\ lost < MaxLost
  /\ line' = Tail(line)
  /\ lost' = lost + 1
  /\ hurt' = hurt \cup {Head(line).p}
  /\ UNCHANGED <<writing, inbuf, state, taken, sent>>

-----------------------------------------------------------------------------
(***************************************************************************)
(* One turn of _rxtx: a byte is read, then at most one packet is taken.    *)
(***************************************************************************)
Starts(buf) == {i \in 1 .. Len(buf) : buf[i].v = At}

FirstStart(buf) == CHOOSE i \in Starts(buf) : \A j \in Starts(buf) : i <= j

\* Faulty variant: with the garbage the "@" is dropped.
FromAfterStart(buf) ==
  SubSeq(buf, IF FirstStart(buf) = 1 THEN 1 ELSE FirstStart(buf) + 1, Len(buf))

\* Without an "@" there is only garbage; otherwise what is before it is dropped.
FromStart(buf) == SubSeq(buf, FirstStart(buf), Len(buf))

\* Faulty variant: the length byte taken for one that counts the "@" too.
PacketLengthLess(buf) == buf[2].v + 1

\* The number of bytes with the "@" and the length byte.
PacketLength(buf) == buf[2].v + 2

\* After the handler of the packet, or where it raised an exception, as handleLogHexToScreen
\* always does, and left the state as it was.
AfterPacket == {"sync", "go"}

\* The length is looked at when three bytes are there.
Short(buf) == IF Len(buf) < 3 THEN TRUE ELSE buf[1].v = At /\ Len(buf) < PacketLength(buf)

\* RXTX_GO
Go(buf) ==
  \/ /\ Short(buf)
     /\ inbuf' = buf /\ state' = "go"
     /\ UNCHANGED taken
  \/ /\ ~Short(buf) /\ buf[1].v # At
     /\ inbuf' = buf /\ state' = "sync"
     /\ UNCHANGED taken
  \/ /\ ~Short(buf) /\ buf[1].v = At
     /\ inbuf' = SubSeq(buf, PacketLength(buf) + 1, Len(buf))
     /\ taken' = Append(taken, SubSeq(buf, 1, PacketLength(buf)))
     /\ state' \in AfterPacket

Sync(buf) ==
  \/ Starts(buf) # {} /\ Go(FromStart(buf))
  \/ /\ Starts(buf) = {}
     /\ inbuf' = buf
     /\ UNCHANGED <<state, taken>>

Read ==
  /\ line # <<>>
  /\ line' = Tail(line)
  /\ LET buf == Append(inbuf, Head(line)) IN
       IF state = "go" THEN Go(buf) ELSE Sync(buf)
  /\ UNCHANGED <<writing, sent, hurt, lost>>

-----------------------------------------------------------------------------

SerialNext == (\E packet \in Packets : Send(packet)) \/ Write \/ Log \/ LoseByte \/ Read

SerialSpec == SerialInit /\ [][SerialNext]_serialVars

-----------------------------------------------------------------------------
(***************************************************************************)
(* Properties.                                                             *)
(***************************************************************************)
\* Packet p is among those taken, as it was sent.
Whole(p) ==
  \E i \in 1 .. Len(taken) :
    /\ Len(taken[i]) = sent[p].len
    /\ \A k \in 1 .. sent[p].len : taken[i][k].p = p /\ taken[i][k].k = k

\* All of packet p has been written and read, or lost.
Passed(p) ==
  /\ \A i \in 1 .. Len(writing) : \A j \in 1 .. Len(writing[i]) : writing[i][j].p # p
  /\ \A i \in 1 .. Len(line) : line[i].p # p

\* A packet that starts where one ends that was taken whole is taken whole as well, unless
\* it is hurt itself: once in step, the host stays in step, whatever the bytes.
StaysInStep ==
  \A p \in 1 .. Len(sent) :
    p \notin hurt /\ Passed(p) /\ (p = 1 \/ (Whole(p - 1) /\ ~sent[p - 1].inside)) => Whole(p)

\* A sound packet is missed only if a false one has swallowed its start.
MissedIsSwallowed ==
  \A p \in 1 .. Len(sent) : p \notin hurt /\ Passed(p) /\ ~Whole(p) =>
    \E i \in 1 .. Len(taken) \cup {0} :
      LET false == IF i = 0 THEN inbuf ELSE taken[i] IN
      \E k \in 2 .. Len(false) : false[k].p = p /\ false[k].k = 1

=============================================================================
