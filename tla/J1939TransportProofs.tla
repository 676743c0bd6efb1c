------------------------ MODULE J1939TransportProofs ------------------------
(***************************************************************************)
(* Theorems about J1939Transport, for any flows, numbers of transfers and  *)
(* packets, and any number of lost frames and of transfers given up.       *)
(*                                                                         *)
(* The frames of a flow are queued in the order in which they are sent,    *)
(* those of a transfer after its announcement.  So once an announcement    *)
(* has been handled, nothing of an earlier transfer is left: neither in    *)
(* the queue nor among the parts.                                          *)
(*                                                                         *)
(* Answers name no transfer: a source takes any of them for one to the     *)
(* transfer it sends.  So the last theorem is also about what may wait     *)
(* when an answer comes.                                                   *)
(***************************************************************************)
EXTENDS J1939Transport, FiniteSetTheorems, TLAPS

-----------------------------------------------------------------------------
(***************************************************************************)
(* The parts of the invariant.                                             *)
(***************************************************************************)

Announces(x) == x.type \in {"RTS", "BAM"}

\* The frames that belong to a transfer; the others only steer it.
Carrier(x) == x.type \in {"RTS", "BAM", "DT"}
Carries(x, f) == Carrier(x) /\ x.flow = f

Senders == [st : {"idle", "rts", "data", "eom", "sent"}, t : 0 .. MaxTransfers,
            n : 0 .. MaxPackets, k : 0 .. MaxPackets]

QueueFrames == [type : {"RTS", "BAM", "DT", "CTS", "EOM", "ABORT"},
                flow : Flows \cup {Reverse(f) : f \in Flows}, t : 0 .. MaxTransfers,
                n : 0 .. MaxPackets, k : 0 .. MaxPackets]

Parts == [length : PacketCounts, pgn : Nat, msgs : Seq(Transfers \X Nat)]

Filings == [flow : Flows, pgn : Nat, length : PacketCounts, content : Seq(Transfers \X Nat)]

\* Who sends has packets left.
SendersOK ==
  /\ sender \in [Flows -> Senders]
  /\ \A f \in Flows :
       /\ sender[f].st \in {"rts", "data"} => sender[f].k < sender[f].n /\ sender[f].t > 0
       /\ sender[f].st # "idle" => sender[f].t > 0

\* What is queued of a transfer has been sent, the announcement as its packet 0.
QueueOK ==
  /\ queue \in Seq(QueueFrames)
  /\ \A i \in 1 .. Len(queue) : Carrier(queue[i]) => queue[i].flow \in Flows
  /\ \A i \in 1 .. Len(queue), f \in Flows : Carries(queue[i], f) =>
       /\ queue[i].t \in 1 .. sender[f].t
       /\ queue[i].t = sender[f].t => queue[i].k <= sender[f].k
       /\ queue[i].k = 0 <=> Announces(queue[i])
       /\ Announces(queue[i]) =>
            /\ queue[i].n \in PacketCounts
            /\ queue[i].t = sender[f].t => queue[i].n = sender[f].n

PartsOK ==
  /\ parts \in [Flows -> {<<>>} \cup {<<p>> : p \in Parts}]
  /\ \A f \in Flows : parts[f] # <<>> =>
       /\ Len(parts[f][1].msgs) < parts[f][1].length
       /\ parts[f][1].pgn \in {Pgn(f, t) : t \in Transfers}

HistoryOK ==
  /\ arrived \in [Flows -> [Transfers -> SUBSET Nat]]
  /\ filed \in Seq(Filings)
  /\ \A i \in 1 .. Len(filed) : filed[i].content # <<>>
  /\ giveups \in 0 .. MaxGiveUps /\ lost \in 0 .. MaxLost

StationsInv == SendersOK /\ QueueOK /\ PartsOK /\ HistoryOK

\* The frames of a flow are queued in the order in which they were sent, ...
Sent(x, y) == x.t < y.t \/ (x.t = y.t /\ x.k < y.k)

QueueInOrder ==
  \A f \in Flows : \A i, j \in 1 .. Len(queue) :
    i < j /\ Carries(queue[i], f) /\ Carries(queue[j], f) => Sent(queue[i], queue[j])

InQueue(f, t, k) ==
  \E i \in 1 .. Len(queue) : Carries(queue[i], f) /\ queue[i].t = t /\ queue[i].k = k

\* ... and have arrived; nothing has that is still to be sent.
QueuedArrived ==
  \A f \in Flows, t \in Transfers, k \in Nat : InQueue(f, t, k) => k \in arrived[f][t]

ArrivedSent ==
  \A f \in Flows, t \in Transfers :
    /\ t > sender[f].t => arrived[f][t] = {}
    /\ t = sender[f].t => arrived[f][t] \subseteq 0 .. sender[f].k

\* An announcement that has arrived and been handled.
Passed(f, t) == 0 \in arrived[f][t] /\ ~InQueue(f, t, 0)

Msgs(f) == IF parts[f] = <<>> THEN <<>> ELSE parts[f][1].msgs

\* The parts were sent before what is queued of their flow, ...
PartsBefore ==
  \A f \in Flows : \A m \in 1 .. Len(Msgs(f)) :
    /\ Msgs(f)[m][1] <= sender[f].t
    /\ \A i \in 1 .. Len(queue) : Carries(queue[i], f) =>
         /\ Msgs(f)[m][1] <= queue[i].t
         /\ Announces(queue[i]) => Msgs(f)[m][1] < queue[i].t

\* ... and an announcement that has been handled leaves nothing older.
NothingOlder ==
  \A f \in Flows, t \in Transfers : Passed(f, t) =>
    /\ \A i \in 1 .. Len(queue) : Carries(queue[i], f) => t <= queue[i].t
    /\ \A m \in 1 .. Len(Msgs(f)) : t <= Msgs(f)[m][1]

OrderInv == QueueInOrder /\ QueuedArrived /\ ArrivedSent /\ PartsBefore /\ NothingOlder

FiledSent ==
  \A i \in 1 .. Len(filed) : \A j \in 1 .. Len(filed[i].content) :
    filed[i].content[j][1] <= sender[filed[i].flow].t

MixedParts ==
  \A f \in Flows : \A j \in 2 .. Len(Msgs(f)) :
    Msgs(f)[j][1] # Msgs(f)[1][1] => 0 \notin arrived[f][Msgs(f)[j][1]]

MixedInv == FiledSent /\ MixedParts /\ MixedOnlyAfterLoss

\* The message filed last for a flow was broken off, and had that PGN.
BrokenOff(f, pgn) ==
  \E j \in 1 .. Len(filed) :
    /\ filed[j].flow = f /\ filed[j].pgn = pgn
    /\ Len(filed[j].content) < filed[j].length
    /\ \A l \in 1 .. Len(filed) : filed[l].flow = f => l <= j

\* The announcement of transfer t is the last that has been handled.
LastPassed(f, t) == Passed(f, t) /\ \A u \in Transfers : Passed(f, u) => u <= t

PgnOfParts ==
  \A f \in Flows : parts[f] # <<>> =>
    \/ BrokenOff(f, parts[f][1].pgn)
    \/ \E t \in Transfers : LastPassed(f, t) /\ parts[f][1].pgn = Pgn(f, t)

PgnInv == PgnOfParts /\ FiledUnderItsPgn

\* All that was sent of the present transfer has arrived, and no EOM has dropped its
\* parts: its announcement is in the queue, its packets are being put together, or the
\* whole of it has been filed.
At(f, t, k, n) == sender[f].t = t /\ sender[f].k = k /\ sender[f].n = n

Tracked(f, t, k) ==
  arrived[f][t] = 0 .. k /\ (f \notin wiped \/ InQueue(f, t, 0))

FiledOf(f, t) ==
  {i \in 1 .. Len(filed) : filed[i].flow = f /\ filed[i].content[1][1] = t}

Waiting(f, t, k) ==
  /\ InQueue(f, t, 0) /\ \A l \in 1 .. k : InQueue(f, t, l)
  /\ FiledOf(f, t) = {}

Collecting(f, t, k, n) ==
  /\ Passed(f, t) /\ parts[f] # <<>> /\ parts[f][1].length = n
  /\ Len(Msgs(f)) <= k /\ \A m \in 1 .. Len(Msgs(f)) : Msgs(f)[m] = <<t, m>>
  /\ \A l \in 1 .. k : InQueue(f, t, l) <=> l > Len(Msgs(f))
  /\ FiledOf(f, t) = {}

Whole(f, t, k, n) ==
  /\ Passed(f, t) /\ parts[f] = <<>> /\ k = n
  /\ \A l \in 1 .. k : ~InQueue(f, t, l)
  /\ \E i \in 1 .. Len(filed) : FiledOf(f, t) = {i} /\ filed[i].content = Exact(t, n)

Followed(f, t, k, n) == Waiting(f, t, k) \/ Collecting(f, t, k, n) \/ Whole(f, t, k, n)

Follows ==
  \A f \in Flows, t \in Transfers, k \in Nat, n \in Nat :
    At(f, t, k, n) /\ Tracked(f, t, k) => Followed(f, t, k, n)

CountsInOrder == \A f \in Flows : sender[f].k <= sender[f].n

TrackInv == CountsInOrder /\ Follows

\* Who waits for an acknowledgement, and who has sent nothing yet.
SenderStates ==
  \A f \in Flows :
    /\ sender[f].st = "sent" => Ours(f)
    /\ sender[f].st = "eom" => ~Ours(f) /\ Dest(f) # Everybody
    /\ sender[f].st = "rts" /\ ~Ours(f) => sender[f].k = 0

\* Once the present announcement has been handled, the parts are of packets sent since, in
\* order, and what waits was sent after them.
Gathers(f) ==
  LET l == Len(Msgs(f)) IN
  /\ parts[f][1].length = sender[f].n /\ l <= sender[f].k
  /\ \A m \in 1 .. l : m <= Msgs(f)[m][2] /\ Msgs(f)[m][2] + (l - m) <= sender[f].k
  /\ \A i \in 1 .. Len(queue) : Carries(queue[i], f) =>
       /\ l < queue[i].k
       /\ \A m \in 1 .. l : Msgs(f)[m][2] + (l - m) < queue[i].k

Gathered ==
  \A f \in Flows, t \in Transfers :
    t = sender[f].t /\ Passed(f, t) /\ parts[f] # <<>> => Gathers(f)

\* What other stations send to us, and acknowledgements are for.
Inbound == {f \in Flows : ~Ours(f) /\ Dest(f) \in MyIDs \ {Everybody}}

\* A frame that waits, of a transfer that the source has left; an announcement that waits.
Left(f, i) == Carries(queue[i], f) /\ queue[i].t < sender[f].t
Opening(f, i) == Carries(queue[i], f) /\ Announces(queue[i])

Cleared(f) == sender[f].st \in {"data", "eom"}

\* While no transfer has been given up, nothing but the announcement of the present one
\* can clear its source to send.
Clean(f) ==
  /\ \A i \in 1 .. Len(queue) :
       Opening(f, i) => sender[f].st = "rts" /\ queue[i].t = sender[f].t
  /\ Cleared(f) => \A i \in 1 .. Len(queue) : ~Left(f, i)

\* After one has, its announcement may, but it leaves no packets that could be taken for
\* the last ones of the transfer that it lets the source send.
Orderly(f) ==
  /\ Cleared(f) => \A i \in 1 .. Len(queue) : ~Left(f, i)
  /\ sender[f].st = "rts" =>
       \A i, j \in 1 .. Len(queue) : i < j /\ Opening(f, i) /\ Left(f, i) => ~Left(f, j)
  /\ sender[f].st = "idle" =>
       \A i, j \in 1 .. Len(queue) : i < j /\ Opening(f, i) => ~Carries(queue[j], f)

Clearance ==
  \A f \in Inbound : (giveups = 0 => Clean(f)) /\ (giveups < 2 => Orderly(f))

AckedSent == \A x \in acked : x[1] \in Inbound /\ x[2] \in 1 .. sender[x[1]].t

AckInv == SenderStates /\ Gathered /\ Clearance /\ AckedSent /\ AcknowledgedIsFiled

-----------------------------------------------------------------------------
(***************************************************************************)
(* The steps, by what they do to the frames that belong to transfers.      *)
(***************************************************************************)

SameCounts ==
  \A f \in Flows : /\ sender'[f].t = sender[f].t /\ sender'[f].n = sender[f].n
                   /\ sender'[f].k = sender[f].k

\* The first d frames have gone, the others have kept their order; what has come behind
\* them belongs to no transfer.
Kept(d) ==
  /\ \A i \in 1 .. Len(queue') :
       Carrier(queue'[i]) => i + d \in 1 .. Len(queue) /\ queue'[i] = queue[i + d]
  /\ \A i \in 1 + d .. Len(queue) :
       i - d \in 1 .. Len(queue') /\ queue'[i - d] = queue[i]

Steering == SameCounts /\ Kept(0) /\ UNCHANGED <<parts, filed, arrived, wiped>>

Handling == queue # <<>> /\ SameCounts /\ Kept(1) /\ UNCHANGED arrived

\* A flow goes on to the packet k of its transfer t of n packets.
Sending(f, t, n, k) ==
  /\ sender'[f].t = t /\ sender'[f].n = n /\ sender'[f].k = k
  /\ \A g \in Flows \ {f} : sender'[g] = sender[g]
  /\ UNCHANGED <<parts, filed, wiped>>
  /\ \/ queue' = queue /\ arrived' = arrived
     \/ \E x \in QueueFrames :
          /\ Carries(x, f) /\ x.t = t /\ x.k = k
          /\ Announces(x) <=> k = 0
          /\ k = 0 => x.n = n
          /\ queue' = Append(queue, x)
          /\ arrived' = [arrived EXCEPT ![f][t] = @ \cup {k}]

Announcing(f) ==
  \E n \in PacketCounts : sender[f].t < MaxTransfers /\ Sending(f, sender[f].t + 1, n, 0)

SendingData(f) ==
  /\ sender[f].t > 0 /\ sender[f].k < sender[f].n
  /\ Sending(f, sender[f].t, sender[f].n, sender[f].k + 1)

LEMMA Bounds == /\ MaxTransfers \in Nat /\ MaxTransfers > 0 /\ MaxPackets \in Nat
                /\ MaxGiveUps \in Nat /\ MaxLost \in Nat
BY TransportBounds DEF TransportBounds

LEMMA FrameFacts ==
  ASSUME NEW type \in {"RTS", "BAM", "DT", "CTS", "EOM", "ABORT"}, NEW f \in Flows,
         NEW g \in {f, Reverse(f)}, NEW t \in 0 .. MaxTransfers, NEW n \in 0 .. MaxPackets,
         NEW k \in 0 .. MaxPackets
  PROVE  /\ Frame(type, g, t, n, k) \in QueueFrames
         /\ Frame(type, g, t, n, k).type = type /\ Frame(type, g, t, n, k).flow = g
         /\ Frame(type, g, t, n, k).t = t /\ Frame(type, g, t, n, k).n = n
         /\ Frame(type, g, t, n, k).k = k
BY DEF Frame, QueueFrames

\* A frame behind the others, that belongs to no transfer; the first frame goes.
LEMMA KeptBehind ==
  ASSUME queue \in Seq(QueueFrames), NEW x \in QueueFrames, ~Carrier(x),
         queue' = queue \/ queue' = Append(queue, x)
  PROVE  Kept(0) /\ queue' \in Seq(QueueFrames)
<1>1. CASE queue' = queue
  BY <1>1 DEF Kept
<1>2. CASE queue' = Append(queue, x)
  BY <1>2 DEF Kept
<1>. QED BY <1>1, <1>2

LEMMA KeptTail ==
  ASSUME queue \in Seq(QueueFrames), queue # <<>>, NEW x \in QueueFrames, ~Carrier(x),
         queue' = Tail(queue) \/ queue' = Append(Tail(queue), x)
  PROVE  Kept(1) /\ queue' \in Seq(QueueFrames)
<1>1. CASE queue' = Tail(queue)
  BY <1>1 DEF Kept
<1>2. CASE queue' = Append(Tail(queue), x)
  <2>1. /\ queue' \in Seq(QueueFrames) /\ Len(queue') = Len(queue)
        /\ queue'[Len(queue)] = x
        /\ \A i \in 1 .. Len(queue) - 1 : queue'[i] = queue[i + 1]
    BY <1>2
  <2>2. ASSUME NEW i \in 1 .. Len(queue'), Carrier(queue'[i])
        PROVE  i + 1 \in 1 .. Len(queue) /\ queue'[i] = queue[i + 1]
    <3>1. i # Len(queue)
      BY <2>1, <2>2
    <3>. QED BY <3>1, <2>1
  <2>3. ASSUME NEW i \in 1 + 1 .. Len(queue)
        PROVE  i - 1 \in 1 .. Len(queue') /\ queue'[i - 1] = queue[i]
    <3>1. i - 1 \in 1 .. Len(queue) - 1 /\ (i - 1) + 1 = i
      OBVIOUS
    <3>2. queue'[i - 1] = queue[(i - 1) + 1]
      BY <3>1, <2>1
    <3>. QED BY <3>1, <3>2, <2>1
  <2>. QED BY <2>1, <2>2, <2>3 DEF Kept
<1>. QED BY <1>1, <1>2

LEMMA TransmitOther ==
  ASSUME queue \in Seq(QueueFrames), NEW x \in QueueFrames, ~Carrier(x), Transmit(x)
  PROVE  Kept(0) /\ queue' \in Seq(QueueFrames) /\ UNCHANGED arrived
<1>1. queue' = queue \/ queue' = Append(queue, x)
  BY DEF Transmit
<1>2. UNCHANGED arrived
  BY DEF Transmit, Carrier
<1>. QED BY <1>1, <1>2, KeptBehind

LEMMA TransmitCarrier ==
  ASSUME NEW x \in QueueFrames, Carrier(x), x.flow \in Flows, Transmit(x)
  PROVE  \/ queue' = queue /\ arrived' = arrived
         \/ /\ queue' = Append(queue, x)
            /\ arrived' = [arrived EXCEPT ![x.flow][x.t] = @ \cup {x.k}]
BY DEF Transmit, Carrier

LEMMA TransmitLoss ==
  ASSUME NEW x, lost \in 0 .. MaxLost, Transmit(x)
  PROVE  lost' \in 0 .. MaxLost
BY Bounds DEF Transmit

-----------------------------------------------------------------------------
\* The other station, and the source that gives up, only steer.
LEMMA OthersSteer ==
  ASSUME StationsInv, NEW f \in Flows,
         OtherClears(f) \/ OtherAcknowledges(f) \/ GiveUp(f) \/ BreakOff(f)
  PROVE  /\ Steering /\ sender' \in [Flows -> Senders]
         /\ queue' \in Seq(QueueFrames)
         /\ \A g \in Flows : sender'[g].st # sender[g].st =>
              sender'[g].st = "idle" \/ (sender'[g].st = "data" /\ sender[g].st = "rts")
         /\ giveups' \in 0 .. MaxGiveUps /\ lost' \in 0 .. MaxLost
<1>. DEFINE x(type, g) == Frame(type, g, sender[f].t, 0, 0)
<1>1. /\ sender \in [Flows -> Senders] /\ queue \in Seq(QueueFrames)
      /\ giveups \in 0 .. MaxGiveUps /\ lost \in 0 .. MaxLost
  BY DEF StationsInv, SendersOK, QueueOK, HistoryOK
<1>2. sender[f].t \in 0 .. MaxTransfers
  BY <1>1 DEF Senders
<1>3. \E st \in {"idle", "data"} :
        /\ sender' = [sender EXCEPT ![f].st = st]
        /\ st = "data" => sender[f].st = "rts"
  BY DEF OtherClears, OtherAcknowledges, GiveUp, BreakOff
<1>4. SameCounts /\ sender' \in [Flows -> Senders]
  BY <1>1, <1>3 DEF SameCounts, Senders
<1>5. \A g \in Flows : sender'[g].st # sender[g].st =>
        sender'[g].st = "idle" \/ (sender'[g].st = "data" /\ sender[g].st = "rts")
  BY <1>1, <1>3 DEF Senders
<1>6. UNCHANGED <<parts, filed, wiped>> /\ giveups' \in 0 .. MaxGiveUps
  BY <1>1, Bounds DEF OtherClears, OtherAcknowledges, GiveUp, BreakOff, Host
<1>7. \/ \E type \in {"CTS", "EOM", "ABORT"}, g \in {f, Reverse(f)} : Transmit(x(type, g))
      \/ UNCHANGED <<queue, arrived, lost>>
  BY DEF OtherClears, OtherAcknowledges, GiveUp, BreakOff
<1>8. Kept(0) /\ queue' \in Seq(QueueFrames) /\ UNCHANGED arrived /\ lost' \in 0 .. MaxLost
  <2>. CASE UNCHANGED <<queue, arrived, lost>>
    BY <1>1 DEF Kept
  <2>. SUFFICES ASSUME ~UNCHANGED <<queue, arrived, lost>>
                PROVE  /\ Kept(0) /\ queue' \in Seq(QueueFrames) /\ UNCHANGED arrived
                       /\ lost' \in 0 .. MaxLost
    OBVIOUS
  <2>1. PICK type \in {"CTS", "EOM", "ABORT"}, g \in {f, Reverse(f)} : Transmit(x(type, g))
    BY <1>7
  <2>2. x(type, g) \in QueueFrames /\ ~Carrier(x(type, g))
    BY <1>2, FrameFacts, Bounds DEF Carrier
  <2>. QED BY <2>1, <2>2, <1>1, TransmitOther, TransmitLoss
<1>. QED BY <1>4, <1>5, <1>6, <1>8 DEF Steering

LEMMA AnnounceSends ==
  ASSUME StationsInv, NEW f \in Flows, NEW n \in PacketCounts, Announce(f, n)
  PROVE  /\ Announcing(f) /\ sender' \in [Flows -> Senders]
         /\ sender'[f].st \in {"rts", "data"} /\ queue' \in Seq(QueueFrames)
         /\ lost' \in 0 .. MaxLost /\ UNCHANGED giveups
<1>. DEFINE x == Frame(Announcement(f), f, sender[f].t + 1, n, 0)
<1>1. /\ sender \in [Flows -> Senders] /\ queue \in Seq(QueueFrames)
      /\ giveups \in 0 .. MaxGiveUps /\ lost \in 0 .. MaxLost
  BY DEF StationsInv, SendersOK, QueueOK, HistoryOK
<1>2. sender[f].t \in 0 .. MaxTransfers /\ n \in 2 .. MaxPackets
  BY <1>1 DEF Senders, PacketCounts
<1>3. sender[f].t < MaxTransfers
  BY <1>2, Bounds DEF Announce
<1>4. /\ sender' \in [Flows -> Senders] /\ sender'[f].st \in {"rts", "data"}
      /\ sender'[f].t = sender[f].t + 1 /\ sender'[f].n = n /\ sender'[f].k = 0
      /\ \A g \in Flows \ {f} : sender'[g] = sender[g]
  BY <1>1, <1>2, <1>3, Bounds DEF Announce, Senders
<1>5. Transmit(x) /\ UNCHANGED <<parts, filed, wiped, giveups>>
  BY DEF Announce, Host
<1>6. /\ x \in QueueFrames /\ x.type \in {"RTS", "BAM"} /\ x.flow = f
      /\ x.t = sender[f].t + 1 /\ x.n = n /\ x.k = 0
  <2>1. Announcement(f) \in {"RTS", "BAM"}
    BY DEF Announcement
  <2>2. /\ Announcement(f) \in {"RTS", "BAM", "DT", "CTS", "EOM", "ABORT"}
        /\ f \in {f, Reverse(f)} /\ sender[f].t + 1 \in 0 .. MaxTransfers
        /\ n \in 0 .. MaxPackets /\ 0 \in 0 .. MaxPackets
    BY <2>1, <1>2, <1>3, Bounds
  <2>. HIDE DEF Announcement
  <2>. QED BY <2>1, <2>2, FrameFacts
<1>7. Carrier(x) /\ Announces(x) /\ Carries(x, f)
  BY <1>6 DEF Carrier, Carries, Announces
<1>. HIDE DEF x
<1>8. \/ queue' = queue /\ arrived' = arrived
      \/ /\ queue' = Append(queue, x)
         /\ arrived' = [arrived EXCEPT ![f][sender[f].t + 1] = @ \cup {0}]
  BY <1>5, <1>6, <1>7, TransmitCarrier
<1>9. Sending(f, sender[f].t + 1, n, 0)
  BY <1>4, <1>5, <1>6, <1>7, <1>8 DEF Sending
<1>10. queue' \in Seq(QueueFrames)
  <2>1. queue' = queue \/ queue' = Append(queue, x)
    BY <1>8
  <2>. QED BY <2>1, <1>1, <1>6
<1>. QED BY <1>3, <1>4, <1>5, <1>9, <1>10, <1>1, TransmitLoss DEF Announcing

LEMMA SendDataSends ==
  ASSUME StationsInv, NEW f \in Flows, SendData(f)
  PROVE  /\ SendingData(f) /\ sender' \in [Flows -> Senders]
         /\ sender'[f].st \in {"rts", "data"} => sender'[f].k < sender'[f].n
         /\ queue' \in Seq(QueueFrames)
         /\ lost' \in 0 .. MaxLost /\ UNCHANGED giveups
<1>. DEFINE k == sender[f].k + 1
            x == Frame("DT", f, sender[f].t, 0, k)
<1>1. /\ sender \in [Flows -> Senders] /\ queue \in Seq(QueueFrames)
      /\ giveups \in 0 .. MaxGiveUps /\ lost \in 0 .. MaxLost
  BY DEF StationsInv, SendersOK, QueueOK, HistoryOK
<1>2. /\ sender[f].t > 0 /\ sender[f].k < sender[f].n
  BY DEF StationsInv, SendersOK, SendData
<1>3. /\ sender[f].t \in 0 .. MaxTransfers /\ sender[f].n \in 0 .. MaxPackets
      /\ sender[f].k \in 0 .. MaxPackets
  BY <1>1 DEF Senders
<1>4. k \in 0 .. MaxPackets /\ k # 0
  BY <1>2, <1>3, Bounds
<1>5. \E st \in {"rts", "data", "eom", "sent", "idle"} :
        /\ sender' = [sender EXCEPT ![f].k = k, ![f].st = st]
        /\ st \in {"rts", "data"} => k # sender[f].n
  <2>. DEFINE st == IF k # sender[f].n THEN sender[f].st
                      ELSE IF Ours(f) THEN "sent"
                      ELSE IF Dest(f) = Everybody THEN "idle" ELSE "eom"
  <2>1. sender[f].st \in {"rts", "data", "eom", "sent", "idle"}
    BY <1>1 DEF Senders
  <2>2. sender' = [sender EXCEPT ![f].k = k, ![f].st = st]
    BY <1>1 DEF SendData, Senders
  <2>. QED BY <2>1, <2>2
<1>6. /\ sender' \in [Flows -> Senders]
      /\ sender'[f].t = sender[f].t /\ sender'[f].n = sender[f].n /\ sender'[f].k = k
      /\ sender'[f].st \in {"rts", "data"} => k # sender[f].n
      /\ \A g \in Flows \ {f} : sender'[g] = sender[g]
  <2>1. PICK st \in {"rts", "data", "eom", "sent", "idle"} :
          /\ sender' = [sender EXCEPT ![f].k = k, ![f].st = st]
          /\ st \in {"rts", "data"} => k # sender[f].n
    BY <1>5
  <2>. HIDE DEF k
  <2>2. /\ sender'[f] = [sender[f] EXCEPT !.k = k, !.st = st]
        /\ sender' = [g \in Flows |-> IF g = f THEN sender'[f] ELSE sender[g]]
    BY <2>1, <1>1
  <2>3. /\ sender'[f] \in Senders /\ sender'[f].st = st /\ sender'[f].t = sender[f].t
        /\ sender'[f].n = sender[f].n /\ sender'[f].k = k
    <3>1. sender[f] \in Senders /\ k \in 0 .. MaxPackets
      BY <1>1, <1>4
    <3>. DEFINE r == sender[f]
                u == [r EXCEPT !.k = k]
                v == [u EXCEPT !.st = st]
    <3>. HIDE DEF r
    <3>2. u \in Senders /\ u.st = r.st /\ u.t = r.t /\ u.n = r.n /\ u.k = k
      BY <3>1 DEF Senders, r
    <3>. HIDE DEF u
    <3>3. v \in Senders /\ v.st = st /\ v.t = u.t /\ v.n = u.n /\ v.k = u.k
      BY <2>1, <3>2 DEF Senders
    <3>4. sender'[f] = v
      BY <2>2 DEF u, r
    <3>. HIDE DEF v
    <3>. QED BY <3>2, <3>3, <3>4 DEF r
  <2>4. sender' \in [Flows -> Senders] /\ \A g \in Flows \ {f} : sender'[g] = sender[g]
    <3>. DEFINE s == sender'[f]
    <3>1. s \in Senders /\ sender' = [g \in Flows |-> IF g = f THEN s ELSE sender[g]]
      BY <2>2, <2>3
    <3>. HIDE DEF s
    <3>. QED BY <3>1, <1>1
  <2>. QED BY <2>1, <2>3, <2>4
<1>7. Transmit(x) /\ UNCHANGED <<parts, filed, wiped, giveups>>
  BY DEF SendData, Host
<1>8. /\ x \in QueueFrames /\ x.type = "DT" /\ x.flow = f
      /\ x.t = sender[f].t /\ x.k = k
  <2>1. /\ "DT" \in {"RTS", "BAM", "DT", "CTS", "EOM", "ABORT"}
        /\ f \in {f, Reverse(f)} /\ sender[f].t \in 0 .. MaxTransfers
        /\ k \in 0 .. MaxPackets /\ 0 \in 0 .. MaxPackets
    BY <1>3, <1>4, Bounds
  <2>. HIDE DEF k
  <2>2. /\ Frame("DT", f, sender[f].t, 0, k) \in QueueFrames
        /\ Frame("DT", f, sender[f].t, 0, k).type = "DT"
        /\ Frame("DT", f, sender[f].t, 0, k).flow = f
        /\ Frame("DT", f, sender[f].t, 0, k).t = sender[f].t
        /\ Frame("DT", f, sender[f].t, 0, k).k = k
    BY <2>1 DEF Frame, QueueFrames
  <2>. QED BY <2>2
<1>9. Carrier(x) /\ ~Announces(x) /\ Carries(x, f)
  BY <1>8 DEF Carrier, Carries, Announces
<1>. HIDE DEF x
<1>10. \/ queue' = queue /\ arrived' = arrived
       \/ /\ queue' = Append(queue, x)
          /\ arrived' = [arrived EXCEPT ![f][sender[f].t] = @ \cup {k}]
  BY <1>7, <1>8, <1>9, TransmitCarrier
<1>11. Sending(f, sender[f].t, sender[f].n, k)
  BY <1>4, <1>6, <1>7, <1>8, <1>9, <1>10 DEF Sending
<1>12. queue' \in Seq(QueueFrames)
  <2>1. queue' = queue \/ queue' = Append(queue, x)
    BY <1>10
  <2>. QED BY <2>1, <1>1, <1>8
<1>13. k < sender[f].n \/ k = sender[f].n
  BY <1>2, <1>3
<1>. QED
  BY <1>1, <1>2, <1>6, <1>7, <1>11, <1>12, <1>13, TransmitLoss DEF SendingData

-----------------------------------------------------------------------------
\* Handling the head of the queue, whatever the answer is.
LEMMA NoAnswerHandles ==
  ASSUME StationsInv, queue # <<>>, UNCHANGED arrived, NoAnswer
  PROVE  /\ Handling /\ sender' \in [Flows -> Senders] /\ queue' \in Seq(QueueFrames)
         /\ \A g \in Flows : sender'[g].st # sender[g].st =>
              sender'[g].st = "idle" \/ (sender'[g].st = "data" /\ sender[g].st = "rts")
<1>1. sender \in [Flows -> Senders] /\ queue \in Seq(QueueFrames)
  BY DEF StationsInv, SendersOK, QueueOK
<1>2. Kept(1) /\ queue' \in Seq(QueueFrames)
  BY <1>1 DEF NoAnswer, Kept
<1>. QED BY <1>1, <1>2 DEF NoAnswer, Handling, SameCounts

LEMMA AnswerHandles ==
  ASSUME StationsInv, queue # <<>>, UNCHANGED arrived, NEW f \in Flows,
         Answer("CTS", f, "rts") \/ Answer("EOM", f, "eom")
  PROVE  /\ Handling /\ sender' \in [Flows -> Senders] /\ queue' \in Seq(QueueFrames)
         /\ \A g \in Flows : sender'[g].st # sender[g].st =>
              sender'[g].st = "idle" \/ (sender'[g].st = "data" /\ sender[g].st = "rts")
<1>1. sender \in [Flows -> Senders] /\ queue \in Seq(QueueFrames)
  BY DEF StationsInv, SendersOK, QueueOK
<1>2. PICK type \in {"CTS", "EOM"} :
        /\ queue' = Tail(queue)
             \/ queue' = Append(Tail(queue), Frame(type, Reverse(f), sender[f].t, 0, 0))
        /\ \/ UNCHANGED sender
           \/ \E st \in {"data", "idle"} :
                /\ sender' = [sender EXCEPT ![f].st = st]
                /\ st = "data" => sender[f].st = "rts"
  BY DEF Answer, Answered, Unanswered
<1>3. Kept(1) /\ queue' \in Seq(QueueFrames)
  <2>. DEFINE x == Frame(type, Reverse(f), sender[f].t, 0, 0)
  <2>1. x \in QueueFrames /\ ~Carrier(x)
    <3>1. sender[f].t \in 0 .. MaxTransfers
      BY <1>1 DEF Senders
    <3>. QED BY <3>1, Bounds DEF Frame, QueueFrames, Carrier
  <2>. HIDE DEF x
  <2>2. queue' = Tail(queue) \/ queue' = Append(Tail(queue), x)
    BY <1>2 DEF x
  <2>. QED BY <1>1, <2>1, <2>2, KeptTail
<1>4. SameCounts /\ sender' \in [Flows -> Senders]
  <2>1. CASE UNCHANGED sender
    BY <1>1, <2>1 DEF SameCounts
  <2>2. ASSUME NEW st \in {"data", "idle"}, sender' = [sender EXCEPT ![f].st = st]
        PROVE  SameCounts /\ sender' \in [Flows -> Senders]
    BY <1>1, <2>2 DEF SameCounts, Senders
  <2>. QED BY <1>2, <2>1, <2>2
<1>5. \A g \in Flows : sender'[g].st # sender[g].st =>
        sender'[g].st = "idle" \/ (sender'[g].st = "data" /\ sender[g].st = "rts")
  BY <1>1, <1>2 DEF Senders
<1>. QED BY <1>3, <1>4, <1>5 DEF Handling

LEMMA HeadFlow ==
  ASSUME StationsInv, queue # <<>>
  PROVE  /\ 1 \in 1 .. Len(queue) /\ Head(queue) = queue[1] /\ queue[1] \in QueueFrames
         /\ Carrier(queue[1]) => queue[1].flow \in Flows /\ Carries(queue[1], queue[1].flow)
<1>1. /\ queue \in Seq(QueueFrames)
      /\ \A i \in 1 .. Len(queue) : Carrier(queue[i]) => queue[i].flow \in Flows
  BY DEF StationsInv, QueueOK
<1>2. 1 \in 1 .. Len(queue) /\ Head(queue) = queue[1] /\ queue[1] \in QueueFrames
  BY <1>1
<1>. QED BY <1>1, <1>2 DEF Carries

LEMMA HandleHandles ==
  ASSUME StationsInv, Handle
  PROVE  /\ Handling /\ sender' \in [Flows -> Senders] /\ queue' \in Seq(QueueFrames)
         /\ \A g \in Flows : sender'[g].st # sender[g].st =>
              sender'[g].st = "idle" \/ (sender'[g].st = "data" /\ sender[g].st = "rts")
         /\ UNCHANGED <<giveups, lost>>
<1>1. queue # <<>> /\ UNCHANGED <<arrived, giveups, lost>>
  BY DEF Handle, HandleAnnouncement, HandleData, HandleEOM, HandleOther
<1>2. CASE NoAnswer
  BY <1>1, <1>2, NoAnswerHandles
<1>3. CASE \E f \in Flows : Answer("CTS", f, "rts") \/ Answer("EOM", f, "eom")
  BY <1>1, <1>3, AnswerHandles
<1>4. NoAnswer \/ \E f \in Flows : Answer("CTS", f, "rts") \/ Answer("EOM", f, "eom")
  <2>1. CASE HandleAnnouncement
    <3>1. Carrier(queue[1])
      BY <1>1, <2>1, HeadFlow DEF HandleAnnouncement, Carrier
    <3>. QED BY <1>1, <2>1, <3>1, HeadFlow DEF HandleAnnouncement
  <2>2. CASE HandleData
    <3>1. Carrier(queue[1])
      BY <1>1, <2>2, HeadFlow DEF HandleData, Carrier
    <3>. QED BY <1>1, <2>2, <3>1, HeadFlow DEF HandleData
  <2>3. CASE HandleEOM \/ HandleOther
    BY <2>3 DEF HandleEOM, HandleOther
  <2>. QED BY <2>1, <2>2, <2>3 DEF Handle
<1>. QED BY <1>1, <1>2, <1>3, <1>4

-----------------------------------------------------------------------------
(***************************************************************************)
(* What handling a frame does to the parts and to what is filed.           *)
(***************************************************************************)

\* The announcement x opens the parts of its flow again, ...
Opens(x, f) ==
  /\ Carries(x, f) /\ Announces(x)
  /\ filed' = IF LeftOver(f)
                THEN Append(filed, [flow |-> f, pgn |-> parts[f][1].pgn,
                                    length |-> parts[f][1].length,
                                    content |-> parts[f][1].msgs])
                ELSE filed
  /\ parts' = [parts EXCEPT ![f] =
                 <<[length |-> x.n, pgn |-> AnnouncedPgn(f, x.t), msgs |-> <<>>]>>]
  /\ wiped' = wiped \ {f}

\* ... a packet is left aside, added to them, ...
Ignores(x, f) == Carries(x, f) /\ ~Announces(x) /\ parts[f] = <<>>
                 /\ UNCHANGED <<parts, filed, wiped>>

MoreMsgs(x, f) == Append(parts[f][1].msgs, <<x.t, x.k>>)

Adds(x, f) ==
  /\ Carries(x, f) /\ ~Announces(x) /\ parts[f] # <<>>
  /\ Len(parts[f][1].msgs) + 1 < parts[f][1].length
  /\ parts' = [parts EXCEPT ![f] = <<[parts[f][1] EXCEPT !.msgs = MoreMsgs(x, f)]>>]
  /\ UNCHANGED <<filed, wiped>>

\* ... or closes them, ...
Closes(x, f) ==
  /\ Carries(x, f) /\ ~Announces(x) /\ parts[f] # <<>>
  /\ Len(parts[f][1].msgs) + 1 = parts[f][1].length
  /\ parts' = [parts EXCEPT ![f] = <<>>]
  /\ filed' = Append(filed, [flow |-> f, pgn |-> parts[f][1].pgn,
                             length |-> parts[f][1].length, content |-> MoreMsgs(x, f)])
  /\ UNCHANGED wiped

\* ... and an EOM may drop them.
Drops(x) ==
  /\ ~Carrier(x)
  /\ \/ UNCHANGED <<parts, wiped>>
     \/ \E f \in Flows : /\ parts' = [parts EXCEPT ![f] = <<>>]
                         /\ wiped' = IF parts[f] # <<>> THEN wiped \cup {f} ELSE wiped
  /\ UNCHANGED filed

Handles(x) ==
  \/ Drops(x)
  \/ \E f \in Flows : Opens(x, f) \/ Ignores(x, f) \/ Adds(x, f) \/ Closes(x, f)

LEMMA HandleDoes ==
  ASSUME StationsInv, Handle
  PROVE  Handles(queue[1])
<1>. DEFINE x == queue[1]
<1>1. queue # <<>>
  BY DEF Handle, HandleAnnouncement, HandleData, HandleEOM, HandleOther
<1>2. Head(queue) = x /\ (Carrier(x) => x.flow \in Flows /\ Carries(x, x.flow))
  BY <1>1, HeadFlow
<1>. HIDE DEF x
<1>3. CASE HandleAnnouncement
  <2>1. Carrier(x) /\ Announces(x)
    BY <1>2, <1>3 DEF HandleAnnouncement, Carrier, Announces
  <2>2. Opens(x, x.flow)
    BY <1>2, <1>3, <2>1 DEF HandleAnnouncement, Opens, Save
  <2>. QED BY <1>2, <2>1, <2>2 DEF Handles, x
<1>4. CASE HandleData
  <2>. DEFINE f == x.flow
              p == [parts[f][1] EXCEPT !.msgs = Append(@, <<x.t, x.k>>)]
  <2>1. x.type = "DT" /\ Carrier(x) /\ ~Announces(x) /\ f \in Flows /\ Carries(x, f)
    BY <1>2, <1>4 DEF HandleData, Carrier, Announces
  <2>2. CASE parts[f] = <<>>
    BY <1>2, <1>4, <2>1, <2>2 DEF HandleData, Ignores, Handles, x
  <2>3. CASE parts[f] # <<>>
    <3>1. /\ parts[f][1] \in Parts
          /\ Len(parts[f][1].msgs) < parts[f][1].length
      BY <2>1, <2>3 DEF StationsInv, PartsOK
    <3>2. /\ p.msgs = MoreMsgs(x, f) /\ p.length = parts[f][1].length
          /\ p.pgn = parts[f][1].pgn
          /\ Len(p.msgs) = Len(parts[f][1].msgs) + 1
      <4>. DEFINE r == parts[f][1]
                  s == Append(r.msgs, <<x.t, x.k>>)
      <4>1. r \in Parts
        BY <3>1
      <4>. HIDE DEF r
      <4>2. Len(s) = Len(r.msgs) + 1
        BY <4>1 DEF Parts
      <4>. HIDE DEF s
      <4>3. /\ [r EXCEPT !.msgs = s].msgs = s /\ [r EXCEPT !.msgs = s].length = r.length
            /\ [r EXCEPT !.msgs = s].pgn = r.pgn
        BY <4>1 DEF Parts
      <4>. QED BY <4>2, <4>3 DEF MoreMsgs, r, s
    <3>3. p = [parts[f][1] EXCEPT !.msgs = MoreMsgs(x, f)]
      BY DEF MoreMsgs
    <3>4. /\ Len(parts[f][1].msgs) \in Nat /\ parts[f][1].length \in Nat
      BY <3>1 DEF Parts, PacketCounts
    <3>. HIDE DEF p, f
    <3>5. CASE Len(p.msgs) < p.length
      <4>1. parts' = [parts EXCEPT ![f] = <<p>>] /\ UNCHANGED <<filed, wiped>>
        BY <1>2, <1>4, <2>3, <3>5 DEF HandleData, p, f
      <4>2. Adds(x, f)
        BY <2>1, <2>3, <3>2, <3>3, <3>5, <4>1 DEF Adds
      <4>. QED BY <2>1, <4>2 DEF Handles, x
    <3>6. CASE ~(Len(p.msgs) < p.length)
      <4>1. /\ parts' = [parts EXCEPT ![f] = <<>>] /\ UNCHANGED wiped
            /\ Save(f, p)
        BY <1>2, <1>4, <2>3, <3>6 DEF HandleData, p, f
      <4>2. Len(parts[f][1].msgs) + 1 = parts[f][1].length
        BY <3>1, <3>2, <3>4, <3>6
      <4>3. Closes(x, f)
        BY <2>1, <2>3, <3>2, <4>1, <4>2 DEF Closes, Save
      <4>. QED BY <2>1, <4>3 DEF Handles, x
    <3>. QED BY <3>5, <3>6
  <2>. QED BY <2>2, <2>3
<1>5. CASE HandleEOM
  <2>1. ~Carrier(x) /\ UNCHANGED filed
    BY <1>2, <1>5 DEF HandleEOM, Carrier
  <2>2. CASE x.flow \in Flows
    BY <1>2, <1>5, <2>1, <2>2 DEF HandleEOM, Drops, Handles, x
  <2>3. CASE x.flow \notin Flows
    BY <1>2, <1>5, <2>1, <2>3 DEF HandleEOM, Drops, Handles, x
  <2>. QED BY <2>2, <2>3
<1>6. CASE HandleOther
  BY <1>2, <1>6 DEF HandleOther, Drops, Handles, Carrier, x
<1>. QED BY <1>3, <1>4, <1>5, <1>6 DEF Handle

-----------------------------------------------------------------------------
(***************************************************************************)
(* Every step is of one of these kinds, and keeps the types.               *)
(***************************************************************************)

Sends == \E f \in Flows : Announcing(f) \/ SendingData(f)

LEMMA Steps ==
  ASSUME StationsInv, TransportNext
  PROVE  Steering \/ Sends \/ (Handling /\ Handles(queue[1]))
BY OthersSteer, AnnounceSends, SendDataSends, HandleHandles, HandleDoes
   DEF TransportNext, Station, Sends

LEMMA SendersKept ==
  ASSUME StationsInv, TransportNext
  PROVE  SendersOK' /\ queue' \in Seq(QueueFrames)
         /\ giveups' \in 0 .. MaxGiveUps /\ lost' \in 0 .. MaxLost
<1>1. SendersOK /\ giveups \in 0 .. MaxGiveUps /\ lost \in 0 .. MaxLost
  BY DEF StationsInv, HistoryOK
<1>2. \A f \in Flows :
        /\ sender[f].st \in {"rts", "data"} => sender[f].k < sender[f].n /\ sender[f].t > 0
        /\ sender[f].st # "idle" => sender[f].t > 0
  BY <1>1 DEF SendersOK
<1>3. ASSUME SameCounts,
             \A g \in Flows : sender'[g].st # sender[g].st =>
               sender'[g].st = "idle" \/ (sender'[g].st = "data" /\ sender[g].st = "rts"),
             sender' \in [Flows -> Senders]
      PROVE  SendersOK'
  <2>1. ASSUME NEW f \in Flows
        PROVE  /\ sender'[f].st \in {"rts", "data"} =>
                    sender'[f].k < sender'[f].n /\ sender'[f].t > 0
               /\ sender'[f].st # "idle" => sender'[f].t > 0
    <3>1. /\ sender'[f].t = sender[f].t /\ sender'[f].n = sender[f].n
          /\ sender'[f].k = sender[f].k
      BY <1>3 DEF SameCounts
    <3>2. CASE sender'[f].st = sender[f].st
      BY <1>2, <3>1, <3>2
    <3>3. CASE sender'[f].st # sender[f].st
      BY <1>2, <1>3, <3>1, <3>3
    <3>. QED BY <3>2, <3>3
  <2>2. sender' \in [Flows -> Senders]
    BY <1>3
  <2>. QED BY <2>1, <2>2 DEF SendersOK
<1>4. CASE \E f \in Flows : OtherClears(f) \/ OtherAcknowledges(f) \/ GiveUp(f) \/ BreakOff(f)
  BY <1>3, <1>4, OthersSteer DEF Steering
<1>5. ASSUME NEW f \in Flows, NEW n \in PacketCounts, Announce(f, n)
      PROVE  SendersOK' /\ queue' \in Seq(QueueFrames) /\ lost' \in 0 .. MaxLost
             /\ UNCHANGED giveups
  <2>1. /\ Announcing(f) /\ sender' \in [Flows -> Senders]
        /\ queue' \in Seq(QueueFrames) /\ lost' \in 0 .. MaxLost /\ UNCHANGED giveups
    BY <1>5, AnnounceSends
  <2>2. PICK m \in PacketCounts : Sending(f, sender[f].t + 1, m, 0)
    BY <2>1 DEF Announcing
  <2>3. sender'[f].t = sender[f].t + 1 /\ sender'[f].n = m /\ sender'[f].k = 0
        /\ \A g \in Flows \ {f} : sender'[g] = sender[g]
    BY <2>2 DEF Sending
  <2>4. sender[f].t \in Nat /\ m > 0
    BY <1>1, Bounds DEF SendersOK, Senders, PacketCounts
  <2>. QED BY <1>2, <2>1, <2>3, <2>4 DEF SendersOK
<1>6. ASSUME NEW f \in Flows, SendData(f)
      PROVE  SendersOK' /\ queue' \in Seq(QueueFrames) /\ lost' \in 0 .. MaxLost
             /\ UNCHANGED giveups
  <2>1. /\ SendingData(f) /\ sender' \in [Flows -> Senders]
        /\ sender'[f].st \in {"rts", "data"} => sender'[f].k < sender'[f].n
        /\ queue' \in Seq(QueueFrames) /\ lost' \in 0 .. MaxLost /\ UNCHANGED giveups
    BY <1>6, SendDataSends
  <2>2. sender'[f].t = sender[f].t /\ sender[f].t > 0
        /\ \A g \in Flows \ {f} : sender'[g] = sender[g]
    BY <2>1 DEF SendingData, Sending
  <2>. QED BY <1>2, <2>1, <2>2 DEF SendersOK
<1>7. CASE Handle
  BY <1>1, <1>3, <1>7, HandleHandles DEF Handling
<1>. QED BY <1>1, <1>4, <1>5, <1>6, <1>7, OthersSteer DEF TransportNext, Station

LEMMA CountsTyped ==
  ASSUME SendersOK, NEW f \in Flows
  PROVE  /\ sender[f].t \in 0 .. MaxTransfers /\ sender[f].t \in Nat
         /\ sender[f].n \in Nat /\ sender[f].k \in Nat
         /\ sender[f].t > 0 => sender[f].t \in Transfers
<1>1. sender[f] \in Senders
  BY DEF SendersOK
<1>2. /\ sender[f].t \in 0 .. MaxTransfers /\ sender[f].n \in 0 .. MaxPackets
      /\ sender[f].k \in 0 .. MaxPackets
  BY <1>1 DEF Senders
<1>. QED BY <1>2, Bounds DEF Transfers

LEMMA FramesTyped ==
  ASSUME QueueOK, NEW i \in 1 .. Len(queue)
  PROVE  /\ queue[i] \in QueueFrames
         /\ queue[i].t \in Nat /\ queue[i].n \in Nat /\ queue[i].k \in Nat
<1>1. queue[i] \in QueueFrames
  BY DEF QueueOK
<1>2. /\ queue[i].t \in 0 .. MaxTransfers /\ queue[i].n \in 0 .. MaxPackets
      /\ queue[i].k \in 0 .. MaxPackets
  BY <1>1 DEF QueueFrames
<1>. QED BY <1>1, <1>2, Bounds

\* Of what is queued nothing is new when frames are only taken.
LEMMA KeptFrames ==
  ASSUME NEW d \in {0, 1}, Kept(d), SameCounts, QueueOK, queue' \in Seq(QueueFrames)
  PROVE  QueueOK'
<1>1. ASSUME NEW i \in 1 .. Len(queue'), Carrier(queue'[i])
      PROVE  queue'[i].flow \in Flows
  BY <1>1 DEF Kept, QueueOK
<1>2. ASSUME NEW i \in 1 .. Len(queue'), NEW f \in Flows, Carries(queue'[i], f)
      PROVE  /\ queue'[i].t \in 1 .. sender'[f].t
             /\ queue'[i].t = sender'[f].t => queue'[i].k <= sender'[f].k
             /\ queue'[i].k = 0 <=> Announces(queue'[i])
             /\ Announces(queue'[i]) =>
                  /\ queue'[i].n \in PacketCounts
                  /\ queue'[i].t = sender'[f].t => queue'[i].n = sender'[f].n
  <2>1. i + d \in 1 .. Len(queue) /\ queue'[i] = queue[i + d]
    BY <1>2 DEF Kept, Carries
  <2>. QED BY <1>2, <2>1 DEF SameCounts, QueueOK
<1>. QED BY <1>1, <1>2 DEF QueueOK

LEMMA SentFrames ==
  ASSUME SendersOK, QueueOK, queue' \in Seq(QueueFrames), Sends
  PROVE  QueueOK'
<1>1. PICK f \in Flows : Announcing(f) \/ SendingData(f)
  BY DEF Sends
<1>2. PICK t \in Nat, n \in Nat, k \in Nat :
        /\ Sending(f, t, n, k) /\ t > 0
        /\ k = 0 => n \in PacketCounts
        /\ t > sender[f].t \/ (t = sender[f].t /\ n = sender[f].n /\ k > sender[f].k)
  <2>1. CASE Announcing(f)
    <3>1. PICK n \in PacketCounts : Sending(f, sender[f].t + 1, n, 0)
      BY <2>1 DEF Announcing
    <3>. QED BY <3>1, CountsTyped DEF PacketCounts
  <2>2. CASE SendingData(f)
    BY <2>2, CountsTyped DEF SendingData
  <2>. QED BY <1>1, <2>1, <2>2
<1>3. /\ sender'[f].t = t /\ sender'[f].n = n /\ sender'[f].k = k
      /\ \A g \in Flows \ {f} : sender'[g] = sender[g]
  BY <1>2 DEF Sending
<1>4. /\ sender[f].t \in Nat /\ sender[f].k \in Nat
  BY CountsTyped
<1>5. ASSUME NEW i \in 1 .. Len(queue), Carrier(queue[i])
      PROVE  queue[i].flow \in Flows
  BY <1>5 DEF QueueOK
<1>6. ASSUME NEW i \in 1 .. Len(queue), NEW g \in Flows, Carries(queue[i], g)
      PROVE  /\ queue[i].t \in 1 .. sender'[g].t
             /\ queue[i].t = sender'[g].t => queue[i].k <= sender'[g].k
             /\ queue[i].k = 0 <=> Announces(queue[i])
             /\ Announces(queue[i]) =>
                  /\ queue[i].n \in PacketCounts
                  /\ queue[i].t = sender'[g].t => queue[i].n = sender'[g].n
  <2>1. /\ queue[i].t \in 1 .. sender[g].t
        /\ queue[i].t = sender[g].t => queue[i].k <= sender[g].k
        /\ queue[i].k = 0 <=> Announces(queue[i])
        /\ Announces(queue[i]) =>
             /\ queue[i].n \in PacketCounts
             /\ queue[i].t = sender[g].t => queue[i].n = sender[g].n
    BY <1>6 DEF QueueOK
  <2>2. CASE g # f
    BY <1>3, <2>1, <2>2
  <2>3. CASE g = f
    <3>1. queue[i].k \in Nat
      BY FramesTyped
    <3>. QED BY <1>2, <1>3, <1>4, <2>1, <2>3, <3>1
  <2>. QED BY <2>2, <2>3
<1>7. CASE queue' = queue
  BY <1>5, <1>6, <1>7 DEF QueueOK
<1>8. ASSUME NEW x \in QueueFrames, Carries(x, f), x.t = t, x.k = k,
             Announces(x) <=> k = 0, k = 0 => x.n = n, queue' = Append(queue, x)
      PROVE  QueueOK'
  <2>1. /\ Len(queue') = Len(queue) + 1 /\ queue'[Len(queue) + 1] = x
        /\ \A i \in 1 .. Len(queue) : queue'[i] = queue[i]
    BY <1>8 DEF QueueOK
  <2>2. Len(queue) \in Nat
    BY DEF QueueOK
  <2>3. ASSUME NEW i \in 1 .. Len(queue')
        PROVE  \/ i \in 1 .. Len(queue) /\ queue'[i] = queue[i]
               \/ queue'[i] = x
    BY <2>1, <2>2
  <2>4. ASSUME NEW g \in Flows, Carries(x, g)
        PROVE  g = f
    BY <1>8, <2>4 DEF Carries
  <2>5. \A i \in 1 .. Len(queue') : Carrier(queue'[i]) => queue'[i].flow \in Flows
    BY <1>5, <1>8, <2>3 DEF Carries
  <2>6. ASSUME NEW i \in 1 .. Len(queue'), NEW g \in Flows, Carries(queue'[i], g)
        PROVE  /\ queue'[i].t \in 1 .. sender'[g].t
               /\ queue'[i].t = sender'[g].t => queue'[i].k <= sender'[g].k
               /\ queue'[i].k = 0 <=> Announces(queue'[i])
               /\ Announces(queue'[i]) =>
                    /\ queue'[i].n \in PacketCounts
                    /\ queue'[i].t = sender'[g].t => queue'[i].n = sender'[g].n
    <3>1. CASE i \in 1 .. Len(queue) /\ queue'[i] = queue[i]
      BY <1>6, <2>6, <3>1
    <3>2. CASE queue'[i] = x
      BY <1>2, <1>3, <1>8, <2>4, <2>6, <3>2
    <3>. QED BY <2>3, <3>1, <3>2
  <2>. QED BY <2>5, <2>6 DEF QueueOK
<1>. QED BY <1>2, <1>7, <1>8 DEF Sending

LEMMA QueueKept ==
  ASSUME StationsInv, TransportNext
  PROVE  QueueOK'
<1>1. SendersOK /\ QueueOK /\ queue' \in Seq(QueueFrames)
  BY SendersKept DEF StationsInv
<1>. QED BY <1>1, Steps, KeptFrames, SentFrames DEF Steering, Handling

LEMMA PgnTyped ==
  ASSUME NEW f, NEW t \in Transfers
  PROVE  Pgn(f, t) \in Nat
BY Bounds DEF Pgn, Transfers

\* The frame that is handled, if it belongs to a transfer.
LEMMA HeadTyped ==
  ASSUME StationsInv, queue # <<>>, NEW f \in Flows, Carries(queue[1], f)
  PROVE  /\ queue[1].t \in Transfers /\ queue[1].t <= sender[f].t /\ queue[1].k \in Nat
         /\ queue[1].t = sender[f].t => queue[1].k <= sender[f].k
         /\ queue[1].k = 0 <=> Announces(queue[1])
         /\ Announces(queue[1]) => /\ queue[1].n \in PacketCounts
                                   /\ queue[1].t = sender[f].t => queue[1].n = sender[f].n
<1>1. 1 \in 1 .. Len(queue) /\ SendersOK /\ QueueOK
  BY HeadFlow DEF StationsInv
<1>2. /\ queue[1].t \in 1 .. sender[f].t /\ queue[1].k \in Nat
      /\ sender[f].t \in 0 .. MaxTransfers
  BY <1>1, CountsTyped, FramesTyped DEF QueueOK
<1>3. queue[1].t \in Transfers /\ queue[1].t <= sender[f].t
  BY <1>2, Bounds DEF Transfers
<1>. QED BY <1>1, <1>2, <1>3 DEF QueueOK

LEMMA PartsTyped ==
  ASSUME PartsOK, NEW f \in Flows, parts[f] # <<>>
  PROVE  /\ parts[f][1] \in Parts /\ parts[f] = <<parts[f][1]>>
         /\ parts[f][1].length \in PacketCounts /\ parts[f][1].length \in Nat
         /\ parts[f][1].pgn \in Nat /\ parts[f][1].msgs \in Seq(Transfers \X Nat)
         /\ Len(parts[f][1].msgs) < parts[f][1].length
         /\ parts[f][1].pgn \in {Pgn(f, t) : t \in Transfers}
<1>1. PICK p \in Parts : parts[f] = <<p>>
  BY DEF PartsOK
<1>2. parts[f][1] = p
  BY <1>1
<1>3. p.length \in PacketCounts /\ p.pgn \in Nat /\ p.msgs \in Seq(Transfers \X Nat)
  BY DEF Parts
<1>. QED BY <1>1, <1>2, <1>3 DEF PartsOK, PacketCounts

LEMMA MoreMsgsTyped ==
  ASSUME StationsInv, queue # <<>>, NEW f \in Flows, Carries(queue[1], f), parts[f] # <<>>
  PROVE  /\ MoreMsgs(queue[1], f) \in Seq(Transfers \X Nat)
         /\ Len(MoreMsgs(queue[1], f)) = Len(parts[f][1].msgs) + 1
         /\ MoreMsgs(queue[1], f)[Len(parts[f][1].msgs) + 1] = <<queue[1].t, queue[1].k>>
         /\ \A m \in 1 .. Len(parts[f][1].msgs) :
              MoreMsgs(queue[1], f)[m] = parts[f][1].msgs[m]
<1>1. <<queue[1].t, queue[1].k>> \in Transfers \X Nat
  BY HeadTyped
<1>2. parts[f][1].msgs \in Seq(Transfers \X Nat)
  BY PartsTyped DEF StationsInv
<1>. QED BY <1>1, <1>2 DEF MoreMsgs

LEMMA OnePartsOK ==
  ASSUME PartsOK, NEW f \in Flows, NEW p \in Parts, Len(p.msgs) < p.length,
         p.pgn \in {Pgn(f, t) : t \in Transfers}, parts' = [parts EXCEPT ![f] = <<p>>]
  PROVE  PartsOK'
<1>1. parts' \in [Flows -> {<<>>} \cup {<<q>> : q \in Parts}]
  BY DEF PartsOK
<1>2. ASSUME NEW g \in Flows, parts'[g] # <<>>
      PROVE  /\ Len(parts'[g][1].msgs) < parts'[g][1].length
             /\ parts'[g][1].pgn \in {Pgn(g, t) : t \in Transfers}
  <2>1. CASE g = f
    <3>1. parts'[g] = <<p>>
      BY <2>1 DEF PartsOK
    <3>. QED BY <2>1, <3>1
  <2>2. CASE g # f
    BY <1>2, <2>2 DEF PartsOK
  <2>. QED BY <2>1, <2>2
<1>. QED BY <1>1, <1>2 DEF PartsOK

LEMMA NoPartsOK ==
  ASSUME PartsOK, NEW f \in Flows, parts' = [parts EXCEPT ![f] = <<>>]
  PROVE  PartsOK'
BY DEF PartsOK

LEMMA AddsTyped ==
  ASSUME StationsInv, queue # <<>>, NEW f \in Flows, Carries(queue[1], f), parts[f] # <<>>
  PROVE  LET p == [parts[f][1] EXCEPT !.msgs = MoreMsgs(queue[1], f)] IN
         /\ p \in Parts /\ p.msgs = MoreMsgs(queue[1], f)
         /\ p.length = parts[f][1].length /\ p.pgn = parts[f][1].pgn
<1>. DEFINE r == parts[f][1]
            s == MoreMsgs(queue[1], f)
<1>1. r \in Parts /\ s \in Seq(Transfers \X Nat)
  BY PartsTyped, MoreMsgsTyped DEF StationsInv
<1>. HIDE DEF r, s
<1>2. /\ [r EXCEPT !.msgs = s] \in Parts /\ [r EXCEPT !.msgs = s].msgs = s
      /\ [r EXCEPT !.msgs = s].length = r.length /\ [r EXCEPT !.msgs = s].pgn = r.pgn
  BY <1>1 DEF Parts
<1>. QED BY <1>2 DEF r, s

LEMMA OpensTyped ==
  ASSUME StationsInv, queue # <<>>, NEW f \in Flows, Opens(queue[1], f)
  PROVE  LET p == [length |-> queue[1].n, pgn |-> AnnouncedPgn(f, queue[1].t),
                   msgs |-> <<>>] IN
         p \in Parts /\ p.pgn \in {Pgn(f, t) : t \in Transfers} /\ Len(p.msgs) < p.length
<1>1. queue[1].t \in Transfers /\ queue[1].n \in PacketCounts /\ queue[1].n > 0
  BY HeadTyped DEF Opens, PacketCounts
<1>2. AnnouncedPgn(f, queue[1].t) \in {Pgn(f, t) : t \in Transfers}
  BY <1>1, PartsTyped DEF AnnouncedPgn, LeftOver, StationsInv
<1>3. AnnouncedPgn(f, queue[1].t) \in Nat
  BY <1>2, PgnTyped
<1>. QED BY <1>1, <1>2, <1>3 DEF Parts

LEMMA PartsKept ==
  ASSUME StationsInv, TransportNext
  PROVE  PartsOK'
<1>1. PartsOK
  BY DEF StationsInv
<1>2. CASE UNCHANGED parts
  BY <1>1, <1>2 DEF PartsOK
<1>3. CASE queue # <<>> /\ Handles(queue[1])
  <2>. DEFINE x == queue[1]
  <2>1. CASE Drops(x)
    BY <1>1, <1>2, <2>1, NoPartsOK DEF Drops
  <2>2. ASSUME NEW f \in Flows, Opens(x, f)
        PROVE  PartsOK'
    <3>. DEFINE p == [length |-> x.n, pgn |-> AnnouncedPgn(f, x.t), msgs |-> <<>>]
    <3>1. p \in Parts /\ p.pgn \in {Pgn(f, t) : t \in Transfers} /\ Len(p.msgs) < p.length
      BY <1>3, <2>2, OpensTyped
    <3>2. parts' = [parts EXCEPT ![f] = <<p>>]
      BY <2>2 DEF Opens
    <3>. HIDE DEF p
    <3>. QED BY <1>1, <3>1, <3>2, OnePartsOK
  <2>3. ASSUME NEW f \in Flows, Adds(x, f)
        PROVE  PartsOK'
    <3>. DEFINE p == [parts[f][1] EXCEPT !.msgs = MoreMsgs(x, f)]
    <3>1. Carries(x, f) /\ parts[f] # <<>> /\ parts' = [parts EXCEPT ![f] = <<p>>]
          /\ Len(parts[f][1].msgs) + 1 < parts[f][1].length
      BY <2>3 DEF Adds
    <3>2. /\ p \in Parts /\ p.msgs = MoreMsgs(x, f)
          /\ p.length = parts[f][1].length /\ p.pgn = parts[f][1].pgn
      BY <1>3, <3>1, AddsTyped
    <3>3. Len(p.msgs) < p.length
      BY <1>3, <3>1, <3>2, MoreMsgsTyped
    <3>4. p.pgn \in {Pgn(f, t) : t \in Transfers}
      BY <1>1, <3>1, <3>2, PartsTyped
    <3>. HIDE DEF p
    <3>. QED BY <1>1, <3>1, <3>2, <3>3, <3>4, OnePartsOK
  <2>4. ASSUME NEW f \in Flows, Ignores(x, f) \/ Closes(x, f)
        PROVE  PartsOK'
    BY <1>1, <1>2, <2>4, NoPartsOK DEF Ignores, Closes
  <2>. QED BY <1>3, <2>1, <2>2, <2>3, <2>4 DEF Handles
<1>4. Handling => queue # <<>>
  BY DEF Handling
<1>. QED BY <1>2, <1>3, <1>4, Steps DEF Steering, Sends, Announcing, SendingData, Sending

LEMMA HistoryKept ==
  ASSUME StationsInv, TransportNext
  PROVE  HistoryOK'
<1>1. /\ PartsOK /\ filed \in Seq(Filings)
      /\ arrived \in [Flows -> [Transfers -> SUBSET Nat]]
      /\ \A i \in 1 .. Len(filed) : filed[i].content # <<>>
  BY DEF StationsInv, HistoryOK
<1>2. arrived' \in [Flows -> [Transfers -> SUBSET Nat]]
  <2>1. CASE UNCHANGED arrived
    BY <1>1, <2>1
  <2>2. ASSUME NEW f \in Flows, NEW t, NEW n, NEW k \in Nat, t \in Transfers,
               Sending(f, t, n, k)
        PROVE  arrived' \in [Flows -> [Transfers -> SUBSET Nat]]
    <3>1. arrived' = arrived \/ arrived' = [arrived EXCEPT ![f][t] = @ \cup {k}]
      BY <2>2 DEF Sending
    <3>2. arrived[f] \in [Transfers -> SUBSET Nat]
      BY <1>1
    <3>3. [arrived[f] EXCEPT ![t] = @ \cup {k}] \in [Transfers -> SUBSET Nat]
      BY <2>2, <3>2
    <3>. QED BY <1>1, <3>1, <3>3
  <2>3. ASSUME NEW f \in Flows, Announcing(f) \/ SendingData(f)
        PROVE  \E t \in Transfers, n, k \in Nat : Sending(f, t, n, k)
    <3>1. CASE Announcing(f)
      <4>1. sender[f].t + 1 \in Transfers
        BY <3>1, Bounds, CountsTyped DEF Announcing, StationsInv, Transfers
      <4>. QED BY <3>1, <4>1 DEF Announcing, PacketCounts
    <3>2. CASE SendingData(f)
      BY <3>2, CountsTyped DEF SendingData, StationsInv
    <3>. QED BY <2>3, <3>1, <3>2
  <2>. QED BY <2>1, <2>2, <2>3, Steps DEF Steering, Handling, Sends
<1>3. ASSUME NEW y \in Filings, y.content # <<>>, filed' = Append(filed, y)
      PROVE  filed' \in Seq(Filings) /\ \A i \in 1 .. Len(filed') : filed'[i].content # <<>>
  BY <1>1, <1>3
<1>4. filed' \in Seq(Filings) /\ \A i \in 1 .. Len(filed') : filed'[i].content # <<>>
  <2>1. CASE UNCHANGED filed
    BY <1>1, <2>1
  <2>2. CASE queue # <<>> /\ Handles(queue[1])
    <3>. DEFINE x == queue[1]
    <3>1. ASSUME NEW f \in Flows, Opens(x, f), LeftOver(f)
          PROVE  \E y \in Filings : y.content # <<>> /\ filed' = Append(filed, y)
      <4>. DEFINE y == [flow |-> f, pgn |-> parts[f][1].pgn, length |-> parts[f][1].length,
                        content |-> parts[f][1].msgs]
      <4>1. filed' = Append(filed, y) /\ y.content # <<>>
        BY <3>1 DEF Opens, LeftOver
      <4>2. y \in Filings
        BY <1>1, <3>1, PartsTyped DEF Filings, LeftOver
      <4>. QED BY <4>1, <4>2
    <3>2. ASSUME NEW f \in Flows, Closes(x, f)
          PROVE  \E y \in Filings : y.content # <<>> /\ filed' = Append(filed, y)
      <4>. DEFINE y == [flow |-> f, pgn |-> parts[f][1].pgn, length |-> parts[f][1].length,
                        content |-> MoreMsgs(x, f)]
      <4>1. filed' = Append(filed, y) /\ Carries(x, f) /\ parts[f] # <<>>
        BY <3>2 DEF Closes
      <4>2. /\ MoreMsgs(x, f) \in Seq(Transfers \X Nat)
            /\ Len(MoreMsgs(x, f)) = Len(parts[f][1].msgs) + 1
            /\ Len(parts[f][1].msgs) \in Nat
        BY <1>1, <2>2, <4>1, MoreMsgsTyped, PartsTyped
      <4>3. y \in Filings
        BY <1>1, <4>1, <4>2, PartsTyped DEF Filings
      <4>4. y.content # <<>>
        BY <4>2
      <4>. QED BY <4>1, <4>3, <4>4
    <3>3. \/ UNCHANGED filed
          \/ \E f \in Flows : (Opens(x, f) /\ LeftOver(f)) \/ Closes(x, f)
      BY <2>2 DEF Handles, Drops, Ignores, Adds, Opens
    <3>. QED BY <1>3, <2>1, <3>1, <3>2, <3>3
  <2>3. Handling => queue # <<>>
    BY DEF Handling
  <2>. QED BY <2>1, <2>2, <2>3, Steps DEF Steering, Sends, Announcing, SendingData, Sending
<1>. QED BY <1>2, <1>4, SendersKept DEF HistoryOK

LEMMA StationsStart == TransportInit => StationsInv
<1>. SUFFICES ASSUME TransportInit PROVE StationsInv
  OBVIOUS
<1>1. SendersOK /\ QueueOK
  BY Bounds DEF TransportInit, SendersOK, QueueOK, Senders
<1>2. PartsOK /\ HistoryOK
  BY Bounds DEF TransportInit, PartsOK, HistoryOK
<1>. QED BY <1>1, <1>2 DEF StationsInv

LEMMA StationsKept == StationsInv /\ [TransportNext]_tpVars => StationsInv'
<1>1. ASSUME StationsInv, TransportNext PROVE StationsInv'
  BY <1>1, SendersKept, QueueKept, PartsKept, HistoryKept DEF StationsInv
<1>2. ASSUME StationsInv, UNCHANGED tpVars PROVE StationsInv'
  BY <1>2 DEF tpVars, StationsInv, SendersOK, QueueOK, PartsOK, HistoryOK
<1>. QED BY <1>1, <1>2

LEMMA StationsAlways == TransportSpec => []StationsInv
BY StationsStart, StationsKept, PTL DEF TransportSpec

\* The sources count their transfers and packets within their bounds, the parts of a
\* message are fewer than announced and its PGN one of the flow's.
THEOREM TransportTypeCorrect == TransportSpec => []TransportTypeOK
<1>1. StationsInv /\ running \in BOOLEAN => TransportTypeOK
  <2>. SUFFICES ASSUME StationsInv, running \in BOOLEAN PROVE TransportTypeOK
    OBVIOUS
  <2>1. sender \in [Flows -> [st : {"idle", "rts", "data", "eom", "sent"},
                              t : 0 .. MaxTransfers, n : 0 .. MaxPackets,
                              k : 0 .. MaxPackets]]
    BY DEF StationsInv, SendersOK, Senders
  <2>. QED BY <2>1, PartsTyped DEF TransportTypeOK, StationsInv, HistoryOK
<1>2. TransportInit => running \in BOOLEAN
  BY DEF TransportInit
<1>3. running \in BOOLEAN /\ [TransportNext]_tpVars => (running \in BOOLEAN)'
  <2>. SUFFICES ASSUME running \in BOOLEAN, [TransportNext]_tpVars
                PROVE  (running \in BOOLEAN)'
    OBVIOUS
  <2>1. CASE UNCHANGED tpVars
    BY <2>1 DEF tpVars
  <2>2. ASSUME NEW f \in Flows, Station(f) PROVE UNCHANGED running
    BY <2>2 DEF Station, Host, Announce, OtherClears, OtherAcknowledges, SendData, GiveUp,
                BreakOff
  <2>3. CASE HandleAnnouncement
    BY <2>3 DEF HandleAnnouncement, Answer, NoAnswer
  <2>4. CASE HandleData
    <3>1. NoAnswer \/ Answer("EOM", Head(queue).flow, "eom")
      BY <2>4 DEF HandleData
    <3>. QED BY <3>1 DEF Answer, NoAnswer
  <2>5. CASE HandleEOM \/ HandleOther
    BY <2>5 DEF HandleEOM, HandleOther, NoAnswer
  <2>. QED BY <2>1, <2>2, <2>3, <2>4, <2>5 DEF TransportNext, Handle
<1>. QED BY <1>1, <1>2, <1>3, StationsAlways, PTL DEF TransportSpec

-----------------------------------------------------------------------------
(***************************************************************************)
(* What a step does to what is queued, and to the parts of a flow.         *)
(***************************************************************************)

LEMMA MsgsTyped ==
  ASSUME PartsOK, NEW f \in Flows
  PROVE  /\ Msgs(f) \in Seq(Transfers \X Nat) /\ Len(Msgs(f)) \in Nat
         /\ \A m \in 1 .. Len(Msgs(f)) : Msgs(f)[m][1] \in Transfers /\ Msgs(f)[m][1] \in Nat
<1>1. Msgs(f) \in Seq(Transfers \X Nat)
  BY PartsTyped DEF Msgs
<1>. QED BY <1>1, Bounds DEF Transfers

LEMMA InQueueKept ==
  ASSUME NEW d \in {0, 1}, Kept(d), NEW f, NEW t, NEW k, queue \in Seq(QueueFrames),
         queue' \in Seq(QueueFrames)
  PROVE  /\ InQueue(f, t, k)' => InQueue(f, t, k)
         /\ d = 0 => (InQueue(f, t, k) => InQueue(f, t, k)')
         /\ InQueue(f, t, k) =>
              InQueue(f, t, k)' \/ (Carries(queue[1], f) /\ queue[1].t = t /\ queue[1].k = k)
<1>1. ASSUME InQueue(f, t, k)' PROVE InQueue(f, t, k)
  <2>1. PICK i \in 1 .. Len(queue') :
          Carries(queue'[i], f) /\ queue'[i].t = t /\ queue'[i].k = k
    BY <1>1 DEF InQueue
  <2>2. i + d \in 1 .. Len(queue) /\ queue'[i] = queue[i + d]
    BY <2>1 DEF Kept, Carries
  <2>. QED BY <2>1, <2>2 DEF InQueue
<1>2. ASSUME InQueue(f, t, k)
      PROVE  InQueue(f, t, k)' \/
             (d = 1 /\ Carries(queue[1], f) /\ queue[1].t = t /\ queue[1].k = k)
  <2>1. PICK i \in 1 .. Len(queue) :
          Carries(queue[i], f) /\ queue[i].t = t /\ queue[i].k = k
    BY <1>2 DEF InQueue
  <2>2. CASE i \in 1 + d .. Len(queue)
    <3>1. i - d \in 1 .. Len(queue') /\ queue'[i - d] = queue[i]
      BY <2>2 DEF Kept
    <3>. QED BY <2>1, <3>1 DEF InQueue
  <2>3. CASE i \notin 1 + d .. Len(queue)
    <3>1. Len(queue) \in Nat
      OBVIOUS
    <3>2. i = 1 /\ d = 1
      BY <2>3, <3>1
    <3>. QED BY <2>1, <3>2
  <2>. QED BY <2>2, <2>3
<1>. QED BY <1>1, <1>2

LEMMA SendsTo ==
  ASSUME SendersOK, Sends
  PROVE  \E f \in Flows, t \in Transfers, n \in Nat, k \in Nat :
           /\ Sending(f, t, n, k)
           /\ \/ t = sender[f].t + 1 /\ k = 0 /\ n \in PacketCounts
              \/ t = sender[f].t /\ n = sender[f].n /\ k = sender[f].k + 1
<1>1. PICK f \in Flows : Announcing(f) \/ SendingData(f)
  BY DEF Sends
<1>2. CASE Announcing(f)
  <2>1. PICK n \in PacketCounts : sender[f].t < MaxTransfers /\ Sending(f, sender[f].t + 1, n, 0)
    BY <1>2 DEF Announcing
  <2>2. sender[f].t + 1 \in Transfers
    BY <2>1, CountsTyped, Bounds DEF Transfers
  <2>. QED BY <2>1, <2>2 DEF PacketCounts
<1>3. CASE SendingData(f)
  BY <1>3, CountsTyped DEF SendingData
<1>. QED BY <1>1, <1>2, <1>3

LEMMA InQueueSent ==
  ASSUME queue \in Seq(QueueFrames), NEW x \in QueueFrames, queue' = Append(queue, x),
         NEW f, Carries(x, f), NEW g, NEW u, NEW l
  PROVE  InQueue(g, u, l)' <=> InQueue(g, u, l) \/ (g = f /\ u = x.t /\ l = x.k)
<1>1. /\ Len(queue) \in Nat /\ Len(queue') = Len(queue) + 1 /\ queue'[Len(queue) + 1] = x
      /\ \A i \in 1 .. Len(queue) : queue'[i] = queue[i]
  OBVIOUS
<1>2. ASSUME InQueue(g, u, l) PROVE InQueue(g, u, l)'
  BY <1>1, <1>2 DEF InQueue
<1>3. ASSUME g = f, u = x.t, l = x.k PROVE InQueue(g, u, l)'
  BY <1>1, <1>3 DEF InQueue
<1>4. ASSUME InQueue(g, u, l)' PROVE InQueue(g, u, l) \/ (g = f /\ u = x.t /\ l = x.k)
  <2>1. PICK i \in 1 .. Len(queue') :
          Carries(queue'[i], g) /\ queue'[i].t = u /\ queue'[i].k = l
    BY <1>4 DEF InQueue
  <2>2. CASE i \in 1 .. Len(queue)
    BY <1>1, <2>1, <2>2 DEF InQueue
  <2>3. CASE i = Len(queue) + 1
    BY <1>1, <2>1, <2>3 DEF Carries
  <2>. QED BY <1>1, <2>2, <2>3
<1>. QED BY <1>2, <1>3, <1>4

\* The announcement leaves no parts, a packet adds itself or changes nothing.
LEMMA HandledMsgs ==
  ASSUME StationsInv, queue # <<>>, Handles(queue[1]), NEW f \in Flows
  PROVE  /\ Carries(queue[1], f) /\ Announces(queue[1]) => Len(Msgs(f)') = 0
         /\ Len(Msgs(f)') \in 0 .. Len(Msgs(f)) + 1
         /\ \A m \in 1 .. Len(Msgs(f)') :
              \/ m \in 1 .. Len(Msgs(f)) /\ (Msgs(f)')[m] = Msgs(f)[m]
              \/ /\ Carries(queue[1], f) /\ ~Announces(queue[1])
                 /\ m = Len(Msgs(f)) + 1 /\ (Msgs(f)')[m] = <<queue[1].t, queue[1].k>>
<1>. DEFINE x == queue[1]
<1>1. PartsOK
  BY DEF StationsInv
<1>2. Len(Msgs(f)) \in Nat
  BY <1>1, MsgsTyped
<1>3. CASE Msgs(f)' = Msgs(f) /\ ~(Carries(x, f) /\ Announces(x))
  BY <1>2, <1>3
<1>4. CASE Msgs(f)' = <<>>
  BY <1>2, <1>4
<1>5. CASE Adds(x, f)
  <2>. DEFINE p == [parts[f][1] EXCEPT !.msgs = MoreMsgs(x, f)]
  <2>1. /\ Carries(x, f) /\ ~Announces(x) /\ parts[f] # <<>>
        /\ parts' = [parts EXCEPT ![f] = <<p>>]
    BY <1>5 DEF Adds
  <2>2. p.msgs = MoreMsgs(x, f)
    BY <2>1, AddsTyped
  <2>3. parts'[f] = <<p>>
    BY <1>1, <2>1 DEF PartsOK
  <2>4. Msgs(f)' = MoreMsgs(x, f) /\ Msgs(f) = parts[f][1].msgs
    <3>. HIDE DEF p
    <3>. QED BY <2>1, <2>2, <2>3 DEF Msgs
  <2>5. /\ Len(MoreMsgs(x, f)) = Len(parts[f][1].msgs) + 1
        /\ MoreMsgs(x, f)[Len(parts[f][1].msgs) + 1] = <<x.t, x.k>>
        /\ \A m \in 1 .. Len(parts[f][1].msgs) : MoreMsgs(x, f)[m] = parts[f][1].msgs[m]
    BY <2>1, MoreMsgsTyped
  <2>6. /\ Len(Msgs(f)') = Len(Msgs(f)) + 1 /\ (Msgs(f)')[Len(Msgs(f)) + 1] = <<x.t, x.k>>
        /\ \A m \in 1 .. Len(Msgs(f)) : (Msgs(f)')[m] = Msgs(f)[m]
    BY <2>4, <2>5
  <2>. QED BY <1>2, <2>1, <2>6
<1>6. \/ Msgs(f)' = Msgs(f) /\ ~(Carries(x, f) /\ Announces(x))
      \/ Msgs(f)' = <<>>
      \/ Adds(x, f)
  <2>1. CASE Drops(x)
    <3>1. parts' = parts \/ \E g \in Flows : parts' = [parts EXCEPT ![g] = <<>>]
      BY <2>1 DEF Drops
    <3>2. parts'[f] = parts[f] \/ parts'[f] = <<>>
      BY <1>1, <3>1 DEF PartsOK
    <3>. QED BY <2>1, <3>2 DEF Drops, Carries, Msgs
  <2>2. ASSUME NEW g \in Flows, g # f, Opens(x, g) \/ Ignores(x, g) \/ Adds(x, g) \/ Closes(x, g)
        PROVE  Msgs(f)' = Msgs(f) /\ ~(Carries(x, f) /\ Announces(x))
    <3>1. ~Carries(x, f)
      BY <2>2 DEF Opens, Ignores, Adds, Closes, Carries
    <3>2. parts'[f] = parts[f]
      BY <1>1, <2>2 DEF Opens, Ignores, Adds, Closes, PartsOK
    <3>. QED BY <3>1, <3>2 DEF Msgs
  <2>3. CASE Opens(x, f)
    <3>1. parts'[f] = <<[length |-> x.n, pgn |-> AnnouncedPgn(f, x.t), msgs |-> <<>>]>>
      BY <1>1, <2>3 DEF Opens, PartsOK
    <3>. QED BY <3>1 DEF Msgs
  <2>4. CASE Ignores(x, f)
    BY <2>4 DEF Ignores, Msgs
  <2>5. CASE Closes(x, f)
    <3>1. parts'[f] = <<>>
      BY <1>1, <2>5 DEF Closes, PartsOK
    <3>. QED BY <3>1 DEF Msgs
  <2>. QED BY <2>1, <2>2, <2>3, <2>4, <2>5 DEF Handles
<1>. QED BY <1>3, <1>4, <1>5, <1>6

-----------------------------------------------------------------------------
(***************************************************************************)
(* The order of frames and parts is kept.                                  *)
(***************************************************************************)

LEMMA OrderStarts == TransportInit => OrderInv
<1>. SUFFICES ASSUME TransportInit PROVE OrderInv
  OBVIOUS
<1>1. QueueInOrder /\ QueuedArrived /\ ArrivedSent
  BY DEF TransportInit, QueueInOrder, QueuedArrived, ArrivedSent, InQueue
<1>2. PartsBefore /\ NothingOlder
  BY DEF TransportInit, PartsBefore, NothingOlder, Passed, Msgs
<1>. QED BY <1>1, <1>2 DEF OrderInv

\* Frames are only taken from the queue: what held for all of it holds for the rest.
LEMMA KeptOrder ==
  ASSUME NEW d \in {0, 1}, Kept(d), StationsInv, queue' \in Seq(QueueFrames), OrderInv,
         SameCounts, UNCHANGED arrived
  PROVE  QueueInOrder' /\ QueuedArrived' /\ ArrivedSent'
<1>1. QueueInOrder'
  <2>. SUFFICES ASSUME NEW f \in Flows, NEW i \in 1 .. Len(queue'), NEW j \in 1 .. Len(queue'),
                       i < j, Carries(queue'[i], f), Carries(queue'[j], f)
                PROVE  Sent(queue'[i], queue'[j])
    BY DEF QueueInOrder, Sent
  <2>1. /\ i + d \in 1 .. Len(queue) /\ queue'[i] = queue[i + d]
        /\ j + d \in 1 .. Len(queue) /\ queue'[j] = queue[j + d]
    BY DEF Kept, Carries
  <2>2. i + d < j + d
    OBVIOUS
  <2>. QED BY <2>1, <2>2 DEF OrderInv, QueueInOrder
<1>2. QueuedArrived'
  <2>. SUFFICES ASSUME NEW f \in Flows, NEW t \in Transfers, NEW k \in Nat, InQueue(f, t, k)'
                PROVE  k \in arrived[f][t]
    BY DEF QueuedArrived
  <2>1. InQueue(f, t, k)
    BY InQueueKept DEF StationsInv, QueueOK
  <2>. QED BY <2>1 DEF OrderInv, QueuedArrived
<1>3. ArrivedSent'
  BY DEF OrderInv, ArrivedSent, SameCounts
<1>. QED BY <1>1, <1>2, <1>3

LEMMA SentOrder ==
  ASSUME StationsInv, StationsInv', OrderInv, Sends
  PROVE  QueueInOrder' /\ QueuedArrived' /\ ArrivedSent'
<1>. USE DEF OrderInv
<1>1. SendersOK /\ QueueOK /\ HistoryOK /\ queue \in Seq(QueueFrames) /\ Len(queue) \in Nat
  BY DEF StationsInv, QueueOK
<1>2. PICK f \in Flows, t \in Transfers, n \in Nat, k \in Nat :
        /\ Sending(f, t, n, k)
        /\ \/ t = sender[f].t + 1 /\ k = 0 /\ n \in PacketCounts
           \/ t = sender[f].t /\ n = sender[f].n /\ k = sender[f].k + 1
  BY <1>1, SendsTo
<1>3. /\ sender[f].t \in Nat /\ sender[f].k \in Nat /\ t \in Nat
  BY <1>1, CountsTyped DEF Transfers
<1>4. /\ sender'[f].t = t /\ sender'[f].k = k
      /\ \A g \in Flows \ {f} : sender'[g] = sender[g]
  BY <1>2 DEF Sending
<1>5. ArrivedSent'
  <2>. SUFFICES ASSUME NEW g \in Flows, NEW u \in Transfers
                PROVE  /\ u > sender'[g].t => arrived'[g][u] = {}
                       /\ u = sender'[g].t => arrived'[g][u] \subseteq 0 .. sender'[g].k
    BY DEF ArrivedSent
  <2>1. /\ u > sender[g].t => arrived[g][u] = {}
        /\ u = sender[g].t => arrived[g][u] \subseteq 0 .. sender[g].k
    BY DEF ArrivedSent
  <2>2. u \in Nat
    BY DEF Transfers
  <2>3. arrived'[g][u] = arrived[g][u] \/ (g = f /\ u = t /\ arrived'[g][u] = arrived[g][u] \cup {k})
    BY <1>1, <1>2 DEF Sending, HistoryOK
  <2>4. CASE g # f
    BY <1>4, <2>1, <2>3, <2>4
  <2>5. CASE g = f
    BY <1>2, <1>3, <1>4, <2>1, <2>2, <2>3, <2>5
  <2>. QED BY <2>4, <2>5
<1>6. CASE queue' = queue /\ arrived' = arrived
  BY <1>5, <1>6 DEF QueueInOrder, QueuedArrived, InQueue, Sent
<1>7. ASSUME NEW x \in QueueFrames, Carries(x, f), x.t = t, x.k = k, queue' = Append(queue, x),
             arrived' = [arrived EXCEPT ![f][t] = @ \cup {k}]
      PROVE  QueueInOrder' /\ QueuedArrived'
  <2>1. /\ Len(queue') = Len(queue) + 1 /\ queue'[Len(queue) + 1] = x
        /\ \A i \in 1 .. Len(queue) : queue'[i] = queue[i]
    BY <1>1, <1>7
  <2>2. QueueInOrder'
    <3>. SUFFICES ASSUME NEW g \in Flows,
                         NEW i \in 1 .. Len(queue'), NEW j \in 1 .. Len(queue'),
                         i < j, Carries(queue'[i], g), Carries(queue'[j], g)
                  PROVE  Sent(queue'[i], queue'[j])
      BY DEF QueueInOrder, Sent
    <3>1. i \in 1 .. Len(queue) /\ queue'[i] = queue[i] /\ Carries(queue[i], g)
      BY <1>1, <2>1
    <3>2. CASE j \in 1 .. Len(queue)
      <4>1. queue'[j] = queue[j]
        BY <2>1, <3>2
      <4>. QED BY <3>1, <3>2, <4>1 DEF QueueInOrder
    <3>3. CASE j = Len(queue) + 1
      <4>1. queue'[j] = x /\ g = f
        BY <1>7, <2>1, <3>3 DEF Carries
      <4>2. /\ queue[i].t \in 1 .. sender[f].t
            /\ queue[i].t = sender[f].t => queue[i].k <= sender[f].k
            /\ queue[i].k \in Nat
        BY <1>1, <3>1, <4>1, FramesTyped DEF QueueOK
      <4>3. queue[i].t < t \/ (queue[i].t = t /\ queue[i].k < k)
        BY <1>2, <1>3, <4>2
      <4>. QED BY <1>7, <3>1, <4>1, <4>3 DEF Sent
    <3>. QED BY <1>1, <2>1, <3>2, <3>3
  <2>3. QueuedArrived'
    <3>. SUFFICES ASSUME NEW g \in Flows, NEW u \in Transfers, NEW l \in Nat, InQueue(g, u, l)'
                  PROVE  l \in arrived'[g][u]
      BY DEF QueuedArrived
    <3>1. InQueue(g, u, l) \/ (g = f /\ u = t /\ l = k)
      BY <1>1, <1>7, InQueueSent
    <3>2. arrived[g][u] \subseteq arrived'[g][u] /\ k \in arrived'[f][t]
      BY <1>1, <1>7 DEF HistoryOK
    <3>. QED BY <3>1, <3>2 DEF QueuedArrived
  <2>. QED BY <2>2, <2>3
<1>. QED BY <1>2, <1>5, <1>6, <1>7 DEF Sending

LEMMA OrderOfQueueKept ==
  ASSUME StationsInv, StationsInv', OrderInv, TransportNext
  PROVE  QueueInOrder' /\ QueuedArrived' /\ ArrivedSent'
<1>1. queue' \in Seq(QueueFrames)
  BY SendersKept
<1>. QED BY <1>1, Steps, KeptOrder, SentOrder DEF Steering, Handling

\* The first frame of a flow was sent before those behind it.
LEMMA HeadBefore ==
  ASSUME StationsInv, QueueInOrder, queue # <<>>, Kept(1), NEW f \in Flows,
         Carries(queue[1], f), NEW i \in 1 .. Len(queue'), Carries(queue'[i], f)
  PROVE  /\ Sent(queue[1], queue'[i]) /\ queue[1].t <= queue'[i].t
         /\ Announces(queue'[i]) => queue[1].t < queue'[i].t
<1>1. /\ i + 1 \in 1 .. Len(queue) /\ queue'[i] = queue[i + 1] /\ 1 \in 1 .. Len(queue)
  BY HeadFlow DEF Kept, Carries
<1>2. Sent(queue[1], queue'[i])
  BY <1>1 DEF QueueInOrder
<1>3. /\ queue[1].t \in Nat /\ queue[1].k \in Nat
      /\ queue'[i].t \in Nat /\ queue'[i].k \in Nat
      /\ queue'[i].k = 0 <=> Announces(queue'[i])
  BY <1>1, FramesTyped DEF StationsInv, QueueOK
<1>. QED BY <1>2, <1>3 DEF Sent

\* A handled announcement was handled before, or is at the head.
LEMMA PassedHandled ==
  ASSUME Kept(1), UNCHANGED arrived, queue \in Seq(QueueFrames), queue' \in Seq(QueueFrames),
         NEW f, NEW t, Passed(f, t)'
  PROVE  \/ Passed(f, t)
         \/ Carries(queue[1], f) /\ queue[1].t = t /\ queue[1].k = 0
BY InQueueKept DEF Passed

LEMMA PartsBeforeHandled ==
  ASSUME StationsInv, StationsInv', OrderInv, Handling, Handles(queue[1])
  PROVE  PartsBefore' /\ NothingOlder'
<1>. USE DEF OrderInv
<1>1. /\ queue # <<>> /\ Kept(1) /\ SameCounts /\ UNCHANGED arrived
      /\ queue \in Seq(QueueFrames) /\ queue' \in Seq(QueueFrames)
      /\ PartsOK /\ PartsOK' /\ QueueOK /\ QueueOK' /\ SendersOK
  BY DEF Handling, StationsInv, QueueOK
<1>2. PartsBefore'
  <2>. SUFFICES ASSUME NEW f \in Flows, NEW m \in 1 .. Len(Msgs(f)')
                PROVE  /\ (Msgs(f)')[m][1] <= sender'[f].t
                       /\ \A i \in 1 .. Len(queue') : Carries(queue'[i], f) =>
                            /\ (Msgs(f)')[m][1] <= queue'[i].t
                            /\ Announces(queue'[i]) => (Msgs(f)')[m][1] < queue'[i].t
    BY DEF PartsBefore
  <2>1. sender'[f].t = sender[f].t
    BY <1>1 DEF SameCounts
  <2>2. CASE m \in 1 .. Len(Msgs(f)) /\ (Msgs(f)')[m] = Msgs(f)[m]
    <3>1. ASSUME NEW i \in 1 .. Len(queue'), Carries(queue'[i], f)
          PROVE  i + 1 \in 1 .. Len(queue) /\ queue'[i] = queue[i + 1]
      BY <1>1, <3>1 DEF Kept, Carries
    <3>. QED BY <2>1, <2>2, <3>1 DEF PartsBefore
  <2>3. CASE Carries(queue[1], f) /\ (Msgs(f)')[m] = <<queue[1].t, queue[1].k>>
    BY <1>1, <2>1, <2>3, HeadTyped, HeadBefore
  <2>. QED BY <1>1, <2>2, <2>3, HandledMsgs
<1>3. NothingOlder'
  <2>. SUFFICES ASSUME NEW f \in Flows, NEW t \in Transfers, Passed(f, t)'
                PROVE  /\ \A i \in 1 .. Len(queue') : Carries(queue'[i], f) => t <= queue'[i].t
                       /\ \A m \in 1 .. Len(Msgs(f)') : t <= (Msgs(f)')[m][1]
    BY DEF NothingOlder
  <2>1. CASE Passed(f, t)
    <3>1. ASSUME NEW i \in 1 .. Len(queue'), Carries(queue'[i], f)
          PROVE  t <= queue'[i].t
      BY <1>1, <2>1, <3>1 DEF Kept, Carries, NothingOlder
    <3>2. ASSUME NEW m \in 1 .. Len(Msgs(f)') PROVE t <= (Msgs(f)')[m][1]
      <4>1. CASE m \in 1 .. Len(Msgs(f)) /\ (Msgs(f)')[m] = Msgs(f)[m]
        BY <2>1, <4>1 DEF NothingOlder
      <4>2. CASE Carries(queue[1], f) /\ (Msgs(f)')[m] = <<queue[1].t, queue[1].k>>
        BY <1>1, <2>1, <4>2, HeadFlow DEF NothingOlder
      <4>. QED BY <1>1, <4>1, <4>2, HandledMsgs
    <3>. QED BY <3>1, <3>2
  <2>2. CASE Carries(queue[1], f) /\ queue[1].t = t /\ queue[1].k = 0
    <3>1. Announces(queue[1])
      BY <1>1, <2>2, HeadTyped
    <3>2. Len(Msgs(f)') = 0
      BY <1>1, <2>2, <3>1, HandledMsgs
    <3>. QED BY <1>1, <2>2, <3>2, HeadBefore
  <2>. QED BY <1>1, <2>1, <2>2, PassedHandled
<1>. QED BY <1>2, <1>3

LEMMA PartsBeforeSteered ==
  ASSUME StationsInv, StationsInv', OrderInv, Steering
  PROVE  PartsBefore' /\ NothingOlder'
<1>. USE DEF OrderInv
<1>1. /\ Kept(0) /\ SameCounts /\ UNCHANGED <<parts, arrived>>
      /\ queue \in Seq(QueueFrames) /\ queue' \in Seq(QueueFrames)
  BY DEF Steering, StationsInv, QueueOK
<1>2. \A f \in Flows : Msgs(f)' = Msgs(f) /\ sender'[f].t = sender[f].t
  BY <1>1 DEF Msgs, SameCounts
<1>3. ASSUME NEW f \in Flows, NEW i \in 1 .. Len(queue'), Carries(queue'[i], f)
      PROVE  i \in 1 .. Len(queue) /\ queue'[i] = queue[i]
  BY <1>1, <1>3 DEF Kept, Carries
<1>4. \A f, t : Passed(f, t)' => Passed(f, t)
  BY <1>1, InQueueKept DEF Passed
<1>5. PartsBefore'
  BY <1>2, <1>3 DEF PartsBefore
<1>6. NothingOlder'
  BY <1>2, <1>3, <1>4 DEF NothingOlder
<1>. QED BY <1>5, <1>6

LEMMA PassedSent ==
  ASSUME HistoryOK, queue \in Seq(QueueFrames), NEW f \in Flows, NEW t \in Transfers,
         NEW n, NEW k, Sending(f, t, n, k), NEW g \in Flows, NEW u \in Transfers
  PROVE  Passed(g, u)' => Passed(g, u)
<1>1. CASE queue' = queue /\ arrived' = arrived
  BY <1>1 DEF Passed, InQueue
<1>2. ASSUME NEW x \in QueueFrames, Carries(x, f), x.t = t, x.k = k, queue' = Append(queue, x),
             arrived' = [arrived EXCEPT ![f][t] = @ \cup {k}]
      PROVE  Passed(g, u)' => Passed(g, u)
  <2>1. InQueue(g, u, 0)' <=> InQueue(g, u, 0) \/ (g = f /\ u = t /\ 0 = k)
    BY <1>2, InQueueSent
  <2>2. arrived'[g][u] = arrived[g][u] \/ (g = f /\ u = t /\ arrived'[g][u] = arrived[g][u] \cup {k})
    BY <1>2 DEF HistoryOK
  <2>. QED BY <2>1, <2>2 DEF Passed
<1>. QED BY <1>1, <1>2 DEF Sending

LEMMA PartsBeforeSent ==
  ASSUME StationsInv, StationsInv', OrderInv, Sends
  PROVE  PartsBefore' /\ NothingOlder'
<1>. USE DEF OrderInv
<1>1. /\ SendersOK /\ QueueOK /\ HistoryOK /\ queue \in Seq(QueueFrames)
      /\ Len(queue) \in Nat /\ PartsOK
  BY DEF StationsInv, QueueOK
<1>2. PICK f \in Flows, t \in Transfers, n \in Nat, k \in Nat :
        /\ Sending(f, t, n, k)
        /\ \/ t = sender[f].t + 1 /\ k = 0 /\ n \in PacketCounts
           \/ t = sender[f].t /\ n = sender[f].n /\ k = sender[f].k + 1
  BY <1>1, SendsTo
<1>3. /\ sender[f].t \in Nat /\ sender[f].k \in Nat /\ t \in Nat
  BY <1>1, CountsTyped DEF Transfers
<1>4. /\ sender'[f].t = t /\ \A g \in Flows \ {f} : sender'[g] = sender[g]
      /\ UNCHANGED parts
  BY <1>2 DEF Sending
<1>5. \A g \in Flows : Msgs(g)' = Msgs(g)
  BY <1>4 DEF Msgs
<1>6. ASSUME NEW i \in 1 .. Len(queue'), NEW g \in Flows, Carries(queue'[i], g)
      PROVE  \/ i \in 1 .. Len(queue) /\ queue'[i] = queue[i]
             \/ g = f /\ queue'[i].t = t /\ (Announces(queue'[i]) => t = sender[f].t + 1)
  <2>1. CASE queue' = queue
    BY <1>6, <2>1
  <2>2. ASSUME NEW x \in QueueFrames, Carries(x, f), x.t = t, x.k = k, Announces(x) <=> k = 0,
               queue' = Append(queue, x)
        PROVE  \/ i \in 1 .. Len(queue) /\ queue'[i] = queue[i]
               \/ g = f /\ queue'[i].t = t /\ (Announces(queue'[i]) => t = sender[f].t + 1)
    <3>1. (i \in 1 .. Len(queue) /\ queue'[i] = queue[i]) \/ queue'[i] = x
      BY <1>1, <2>2
    <3>2. k = 0 => t = sender[f].t + 1
      BY <1>2, <1>3
    <3>. QED BY <1>6, <2>2, <3>1, <3>2 DEF Carries
  <2>. QED BY <1>2, <2>1, <2>2 DEF Sending
<1>7. PartsBefore'
  <2>. SUFFICES ASSUME NEW g \in Flows, NEW m \in 1 .. Len(Msgs(g))
                PROVE  /\ Msgs(g)[m][1] <= sender'[g].t
                       /\ \A i \in 1 .. Len(queue') : Carries(queue'[i], g) =>
                            /\ Msgs(g)[m][1] <= queue'[i].t
                            /\ Announces(queue'[i]) => Msgs(g)[m][1] < queue'[i].t
    BY <1>5 DEF PartsBefore
  <2>1. /\ Msgs(g)[m][1] \in Nat /\ Msgs(g)[m][1] <= sender[g].t
    BY <1>1, MsgsTyped DEF PartsBefore
  <2>2. Msgs(g)[m][1] <= sender'[g].t
    BY <1>2, <1>3, <1>4, <2>1
  <2>3. ASSUME NEW i \in 1 .. Len(queue'), Carries(queue'[i], g)
        PROVE  /\ Msgs(g)[m][1] <= queue'[i].t
               /\ Announces(queue'[i]) => Msgs(g)[m][1] < queue'[i].t
    <3>1. CASE i \in 1 .. Len(queue) /\ queue'[i] = queue[i]
      BY <2>3, <3>1 DEF PartsBefore
    <3>2. CASE g = f /\ queue'[i].t = t /\ (Announces(queue'[i]) => t = sender[f].t + 1)
      BY <1>2, <1>3, <2>1, <3>2
    <3>. QED BY <1>6, <2>3, <3>1, <3>2
  <2>. QED BY <2>2, <2>3
<1>8. NothingOlder'
  <2>. SUFFICES ASSUME NEW g \in Flows, NEW u \in Transfers, Passed(g, u)'
                PROVE  /\ \A i \in 1 .. Len(queue') : Carries(queue'[i], g) => u <= queue'[i].t
                       /\ \A m \in 1 .. Len(Msgs(g)) : u <= Msgs(g)[m][1]
    BY <1>5 DEF NothingOlder
  <2>1. Passed(g, u)
    BY <1>1, <1>2, PassedSent
  <2>2. u <= sender[g].t
    <3>1. ~(u > sender[g].t)
      BY <2>1 DEF Passed, ArrivedSent
    <3>. QED BY <1>1, <3>1, CountsTyped DEF Transfers
  <2>3. ASSUME NEW i \in 1 .. Len(queue'), Carries(queue'[i], g)
        PROVE  u <= queue'[i].t
    <3>1. CASE i \in 1 .. Len(queue) /\ queue'[i] = queue[i]
      BY <2>1, <2>3, <3>1 DEF NothingOlder
    <3>2. CASE g = f /\ queue'[i].t = t
      <4>1. u \in Nat
        BY DEF Transfers
      <4>. QED BY <1>2, <1>3, <2>2, <3>2, <4>1
    <3>. QED BY <1>6, <2>3, <3>1, <3>2
  <2>. QED BY <2>1, <2>3 DEF NothingOlder
<1>. QED BY <1>7, <1>8

LEMMA OrderKept ==
  ASSUME StationsInv, OrderInv, [TransportNext]_tpVars
  PROVE  OrderInv'
<1>1. CASE TransportNext
  <2>1. StationsInv'
    BY StationsKept
  <2>. QED BY <1>1, <2>1, Steps, OrderOfQueueKept, PartsBeforeHandled, PartsBeforeSteered,
              PartsBeforeSent DEF OrderInv
<1>2. CASE UNCHANGED tpVars
  BY <1>2 DEF tpVars, OrderInv, QueueInOrder, QueuedArrived, ArrivedSent, PartsBefore,
              NothingOlder, Passed, InQueue, Msgs
<1>. QED BY <1>1, <1>2

-----------------------------------------------------------------------------
(***************************************************************************)
(* What is filed, and the transfers its packets are of.                    *)
(***************************************************************************)

\* The head y is filed, broken off by the announcement x or completed by the packet x.
Files(x, f, y) ==
  /\ filed' = Append(filed, y) /\ Carries(x, f) /\ parts[f] # <<>>
  /\ y.flow = f /\ y.pgn = parts[f][1].pgn /\ y.length = parts[f][1].length
  /\ \/ Announces(x) /\ y.content = Msgs(f)
     \/ /\ ~Announces(x) /\ y.content = MoreMsgs(x, f)
        /\ Len(Msgs(f)) + 1 = parts[f][1].length
        /\ parts' = [parts EXCEPT ![f] = <<>>]

LEMMA HandledFiles ==
  ASSUME StationsInv, queue # <<>>, Handles(queue[1])
  PROVE  \/ UNCHANGED filed
         \/ \E f \in Flows, y \in Filings : Files(queue[1], f, y)
<1>. DEFINE x == queue[1]
<1>1. PartsOK
  BY DEF StationsInv
<1>2. ASSUME NEW f \in Flows, Opens(x, f), LeftOver(f)
      PROVE  \E y \in Filings : Files(x, f, y)
  <2>. DEFINE y == [flow |-> f, pgn |-> parts[f][1].pgn, length |-> parts[f][1].length,
                    content |-> parts[f][1].msgs]
  <2>1. y \in Filings
    BY <1>1, <1>2, PartsTyped DEF Filings, LeftOver
  <2>. QED BY <1>2, <2>1 DEF Opens, LeftOver, Files, Msgs
<1>3. ASSUME NEW f \in Flows, Closes(x, f)
      PROVE  \E y \in Filings : Files(x, f, y)
  <2>. DEFINE y == [flow |-> f, pgn |-> parts[f][1].pgn, length |-> parts[f][1].length,
                    content |-> MoreMsgs(x, f)]
  <2>1. /\ filed' = Append(filed, y) /\ Carries(x, f) /\ parts[f] # <<>>
        /\ ~Announces(x) /\ Len(parts[f][1].msgs) + 1 = parts[f][1].length
        /\ parts' = [parts EXCEPT ![f] = <<>>]
    BY <1>3 DEF Closes
  <2>2. MoreMsgs(x, f) \in Seq(Transfers \X Nat)
    BY <2>1, MoreMsgsTyped
  <2>3. y \in Filings
    BY <1>1, <2>1, <2>2, PartsTyped DEF Filings
  <2>4. Msgs(f) = parts[f][1].msgs
    BY <2>1 DEF Msgs
  <2>. QED BY <2>1, <2>3, <2>4 DEF Files
<1>. QED BY <1>2, <1>3 DEF Handles, Drops, Ignores, Adds, Opens

LEMMA FilesTyped ==
  ASSUME StationsInv, queue # <<>>, NEW f \in Flows, NEW y \in Filings, Files(queue[1], f, y)
  PROVE  /\ Len(filed) \in Nat /\ Len(filed') = Len(filed) + 1 /\ filed'[Len(filed) + 1] = y
         /\ \A i \in 1 .. Len(filed) : filed'[i] = filed[i]
         /\ Announces(queue[1]) => y.content = Msgs(f)
         /\ ~Announces(queue[1]) => Len(y.content) = Len(Msgs(f)) + 1
         /\ \A m \in 1 .. Len(y.content) :
              \/ m \in 1 .. Len(Msgs(f)) /\ y.content[m] = Msgs(f)[m]
              \/ /\ ~Announces(queue[1]) /\ m = Len(Msgs(f)) + 1
                 /\ y.content[m] = <<queue[1].t, queue[1].k>>
<1>1. filed \in Seq(Filings) /\ filed' = Append(filed, y)
  BY DEF StationsInv, HistoryOK, Files
<1>2. Len(Msgs(f)) \in Nat
  BY MsgsTyped DEF StationsInv
<1>3. CASE Announces(queue[1])
  BY <1>1, <1>2, <1>3 DEF Files
<1>4. CASE ~Announces(queue[1])
  <2>1. y.content = MoreMsgs(queue[1], f) /\ Msgs(f) = parts[f][1].msgs
    BY <1>4 DEF Files, Msgs
  <2>2. /\ Len(MoreMsgs(queue[1], f)) = Len(Msgs(f)) + 1
        /\ MoreMsgs(queue[1], f)[Len(Msgs(f)) + 1] = <<queue[1].t, queue[1].k>>
        /\ \A m \in 1 .. Len(Msgs(f)) : MoreMsgs(queue[1], f)[m] = Msgs(f)[m]
    BY <2>1, MoreMsgsTyped DEF Files
  <2>. HIDE DEF Msgs
  <2>3. \A m \in 1 .. Len(y.content) : m \in 1 .. Len(Msgs(f)) \/ m = Len(Msgs(f)) + 1
    BY <1>2, <2>1, <2>2
  <2>. QED BY <1>1, <1>4, <2>1, <2>2, <2>3
<1>. QED BY <1>3, <1>4

\* At a packet the announcement of its transfer has been handled, or has not arrived.
LEMMA PacketIsAnnounced ==
  ASSUME StationsInv, OrderInv, queue # <<>>, NEW f \in Flows, Carries(queue[1], f),
         ~Announces(queue[1]), 0 \in arrived[f][queue[1].t]
  PROVE  /\ Passed(f, queue[1].t)
         /\ \A m \in 1 .. Len(Msgs(f)) : Msgs(f)[m][1] = queue[1].t
<1>1. queue[1].t \in Transfers /\ queue[1].k \in Nat /\ queue[1].k # 0 /\ 1 \in 1 .. Len(queue)
  BY HeadTyped, HeadFlow
<1>2. ASSUME InQueue(f, queue[1].t, 0) PROVE FALSE
  <2>1. PICK i \in 1 .. Len(queue) :
          Carries(queue[i], f) /\ queue[i].t = queue[1].t /\ queue[i].k = 0
    BY <1>2 DEF InQueue
  <2>2. 1 < i
    BY <1>1, <2>1
  <2>3. Sent(queue[1], queue[i])
    BY <1>1, <2>1, <2>2 DEF OrderInv, QueueInOrder
  <2>. QED BY <1>1, <2>1, <2>3, Bounds DEF Sent, Transfers
<1>3. Passed(f, queue[1].t)
  BY <1>2 DEF Passed
<1>4. ASSUME NEW m \in 1 .. Len(Msgs(f)) PROVE Msgs(f)[m][1] = queue[1].t
  <2>1. queue[1].t <= Msgs(f)[m][1]
    BY <1>1, <1>3 DEF OrderInv, NothingOlder
  <2>2. Msgs(f)[m][1] <= queue[1].t /\ Msgs(f)[m][1] \in Nat
    BY <1>1, MsgsTyped DEF OrderInv, PartsBefore, StationsInv
  <2>3. queue[1].t \in Nat
    BY <1>1 DEF Transfers
  <2>. QED BY <2>1, <2>2, <2>3
<1>. QED BY <1>3, <1>4

\* Transfers are announced one after the other, each of them once.
LEMMA AnnouncedOnce ==
  ASSUME StationsInv, [TransportNext]_tpVars, NEW f \in Flows
  PROVE  /\ sender[f].t <= sender'[f].t
         /\ \A t \in Transfers : t <= sender[f].t =>
              (0 \in arrived'[f][t] <=> 0 \in arrived[f][t])
<1>1. SendersOK /\ HistoryOK
  BY DEF StationsInv
<1>2. sender[f].t \in Nat
  BY <1>1, CountsTyped
<1>3. CASE SameCounts /\ UNCHANGED arrived
  BY <1>2, <1>3 DEF SameCounts
<1>4. CASE Sends
  <2>1. PICK g \in Flows, u \in Transfers, n \in Nat, k \in Nat :
          /\ Sending(g, u, n, k)
          /\ \/ u = sender[g].t + 1 /\ k = 0 /\ n \in PacketCounts
             \/ u = sender[g].t /\ n = sender[g].n /\ k = sender[g].k + 1
    BY <1>1, <1>4, SendsTo
  <2>2. /\ sender'[g].t = u /\ \A h \in Flows \ {g} : sender'[h] = sender[h]
        /\ arrived' = arrived \/ arrived' = [arrived EXCEPT ![g][u] = @ \cup {k}]
    BY <2>1 DEF Sending
  <2>3. sender[g].t \in Nat /\ sender[g].k \in Nat /\ u \in Nat
    BY <1>1, CountsTyped DEF Transfers
  <2>4. sender[f].t <= sender'[f].t
    <3>1. CASE f = g
      BY <2>1, <2>2, <2>3, <3>1
    <3>2. CASE f # g
      BY <1>2, <2>2, <3>2
    <3>. QED BY <3>1, <3>2
  <2>5. ASSUME NEW t \in Transfers, t <= sender[f].t
        PROVE  0 \in arrived'[f][t] <=> 0 \in arrived[f][t]
    <3>1. \/ arrived'[f][t] = arrived[f][t]
          \/ f = g /\ t = u /\ arrived'[f][t] = arrived[f][t] \cup {k}
      BY <1>1, <2>2 DEF HistoryOK
    <3>2. t \in Nat
      BY DEF Transfers
    <3>3. f = g /\ t = u => k # 0
      BY <2>1, <2>3, <2>5, <3>2
    <3>. QED BY <3>1, <3>3
  <2>. QED BY <2>4, <2>5
<1>5. CASE UNCHANGED tpVars
  BY <1>2, <1>5 DEF tpVars
<1>. QED BY <1>3, <1>4, <1>5, Steps DEF Steering, Handling

LEMMA FiledTyped ==
  ASSUME HistoryOK, NEW i \in 1 .. Len(filed)
  PROVE  /\ filed[i] \in Filings /\ filed[i].flow \in Flows /\ filed[i].content # <<>>
         /\ Len(filed[i].content) \in Nat /\ Len(filed[i].content) > 0
         /\ \A j \in 1 .. Len(filed[i].content) :
              filed[i].content[j][1] \in Transfers /\ filed[i].content[j][1] \in Nat
<1>1. filed[i] \in Filings /\ filed[i].content # <<>>
  BY DEF HistoryOK
<1>2. filed[i].flow \in Flows /\ filed[i].content \in Seq(Transfers \X Nat)
  BY <1>1 DEF Filings
<1>. DEFINE content == filed[i].content
<1>3. content \in Seq(Transfers \X Nat) /\ content # <<>>
  BY <1>1, <1>2
<1>. HIDE DEF content
<1>4. Len(content) \in Nat /\ Len(content) > 0
  BY <1>3
<1>5. \A j \in 1 .. Len(content) : content[j][1] \in Transfers /\ content[j][1] \in Nat
  BY <1>3, <1>4, Bounds DEF Transfers
<1>. QED BY <1>1, <1>2, <1>4, <1>5 DEF content

\* What a step leaves of the filed messages, and adds to them.
LEMMA FiledChange ==
  ASSUME StationsInv, [TransportNext]_tpVars
  PROVE  \/ UNCHANGED filed
         \/ /\ queue # <<>> /\ Handling /\ Handles(queue[1])
            /\ \E f \in Flows, y \in Filings : Files(queue[1], f, y)
<1>1. CASE UNCHANGED tpVars
  BY <1>1 DEF tpVars
<1>2. CASE TransportNext
  BY <1>2, Steps, HandledFiles
     DEF Steering, Handling, Sends, Announcing, SendingData, Sending
<1>. QED BY <1>1, <1>2

LEMMA FiledSentKept ==
  ASSUME StationsInv, OrderInv, FiledSent, [TransportNext]_tpVars
  PROVE  FiledSent'
<1>1. /\ HistoryOK /\ PartsOK
  BY DEF StationsInv
<1>2. ASSUME NEW i \in 1 .. Len(filed), filed'[i] = filed[i],
             NEW j \in 1 .. Len(filed'[i].content)
      PROVE  filed'[i].content[j][1] <= sender'[filed'[i].flow].t
  <2>1. /\ filed[i].content[j][1] <= sender[filed[i].flow].t
        /\ sender[filed[i].flow].t <= sender'[filed[i].flow].t
        /\ filed[i].content[j][1] \in Nat
    BY <1>1, <1>2, FiledTyped, AnnouncedOnce DEF FiledSent
  <2>2. sender[filed[i].flow].t \in Nat /\ sender'[filed[i].flow].t \in Nat
    <3>1. SendersOK /\ SendersOK'
      BY StationsKept DEF StationsInv
    <3>. QED BY <1>1, <3>1, CountsTyped, FiledTyped, Bounds DEF SendersOK, Senders
  <2>. QED BY <1>2, <2>1, <2>2
<1>3. CASE UNCHANGED filed
  BY <1>2, <1>3 DEF FiledSent
<1>4. ASSUME queue # <<>>, Handling, NEW f \in Flows, NEW y \in Filings, Files(queue[1], f, y)
      PROVE  FiledSent'
  <2>1. ASSUME NEW j \in 1 .. Len(y.content)
        PROVE  y.content[j][1] <= sender'[f].t
    <3>1. sender'[f].t = sender[f].t
      BY <1>4 DEF Handling, SameCounts
    <3>2. CASE j \in 1 .. Len(Msgs(f)) /\ y.content[j] = Msgs(f)[j]
      BY <3>1, <3>2 DEF OrderInv, PartsBefore
    <3>3. CASE y.content[j] = <<queue[1].t, queue[1].k>>
      BY <1>4, <3>1, <3>3, HeadTyped DEF Files
    <3>. QED BY <1>4, <3>2, <3>3, FilesTyped
  <2>2. /\ Len(filed) \in Nat /\ Len(filed') = Len(filed) + 1 /\ filed'[Len(filed) + 1] = y
        /\ \A i \in 1 .. Len(filed) : filed'[i] = filed[i]
        /\ y.flow = f
    BY <1>4, FilesTyped DEF Files
  <2>. SUFFICES ASSUME NEW i \in 1 .. Len(filed'), NEW j \in 1 .. Len(filed'[i].content)
                PROVE  filed'[i].content[j][1] <= sender'[filed'[i].flow].t
    BY DEF FiledSent
  <2>3. CASE i \in 1 .. Len(filed)
    BY <1>2, <2>2, <2>3
  <2>4. CASE i = Len(filed) + 1
    BY <2>1, <2>2, <2>4
  <2>. QED BY <2>2, <2>3, <2>4
<1>. QED BY <1>3, <1>4, FiledChange

\* The first packet of the parts stays the first as long as others join it.
LEMMA MixedPartsKept ==
  ASSUME StationsInv, OrderInv, MixedParts, [TransportNext]_tpVars
  PROVE  MixedParts'
<1>1. PartsOK
  BY DEF StationsInv
<1>. SUFFICES ASSUME NEW f \in Flows, NEW j \in 2 .. Len(Msgs(f)'),
                     (Msgs(f)')[j][1] # (Msgs(f)')[1][1], 0 \in arrived'[f][(Msgs(f)')[j][1]]
              PROVE  FALSE
  BY DEF MixedParts
<1>2. ASSUME j \in 1 .. Len(Msgs(f)), (Msgs(f)')[j] = Msgs(f)[j], (Msgs(f)')[1] = Msgs(f)[1]
      PROVE  FALSE
  <2>1. /\ Msgs(f)[j][1] <= sender[f].t /\ Msgs(f)[j][1] \in Transfers
    BY <1>1, <1>2, MsgsTyped DEF OrderInv, PartsBefore
  <2>2. 0 \in arrived[f][Msgs(f)[j][1]]
    BY <1>2, <2>1, AnnouncedOnce
  <2>3. j \in 2 .. Len(Msgs(f))
    BY <1>1, <1>2, MsgsTyped
  <2>. QED BY <1>2, <2>2, <2>3 DEF MixedParts
<1>3. CASE UNCHANGED parts
  <2>1. Msgs(f)' = Msgs(f)
    BY <1>3 DEF Msgs
  <2>2. j \in 1 .. Len(Msgs(f))
    BY <1>1, <2>1, MsgsTyped
  <2>. QED BY <1>2, <2>1, <2>2
<1>4. CASE Handling /\ Handles(queue[1])
  <2>1. /\ queue # <<>> /\ UNCHANGED arrived
    BY <1>4 DEF Handling
  <2>2. /\ Len(Msgs(f)) \in Nat /\ Len(Msgs(f)') \in 0 .. Len(Msgs(f)) + 1
        /\ \A m \in 1 .. Len(Msgs(f)') :
             \/ m \in 1 .. Len(Msgs(f)) /\ (Msgs(f)')[m] = Msgs(f)[m]
             \/ /\ Carries(queue[1], f) /\ ~Announces(queue[1])
                /\ m = Len(Msgs(f)) + 1 /\ (Msgs(f)')[m] = <<queue[1].t, queue[1].k>>
    BY <1>1, <1>4, <2>1, HandledMsgs, MsgsTyped
  <2>3. 1 \in 1 .. Len(Msgs(f)) /\ (Msgs(f)')[1] = Msgs(f)[1]
    BY <2>2
  <2>4. CASE j \in 1 .. Len(Msgs(f)) /\ (Msgs(f)')[j] = Msgs(f)[j]
    BY <1>2, <2>3, <2>4
  <2>5. CASE /\ Carries(queue[1], f) /\ ~Announces(queue[1])
             /\ (Msgs(f)')[j] = <<queue[1].t, queue[1].k>>
    <3>1. 0 \in arrived[f][queue[1].t]
      BY <2>1, <2>5
    <3>2. Msgs(f)[1][1] = queue[1].t
      BY <2>1, <2>3, <2>5, <3>1, PacketIsAnnounced
    <3>. QED BY <2>3, <2>5, <3>2
  <2>. QED BY <2>2, <2>4, <2>5
<1>. QED BY <1>3, <1>4, Steps
        DEF Steering, Sends, Announcing, SendingData, Sending, tpVars

LEMMA MixedFiledKept ==
  ASSUME StationsInv, OrderInv, MixedInv, [TransportNext]_tpVars
  PROVE  MixedOnlyAfterLoss'
<1>1. HistoryOK /\ PartsOK /\ FiledSent /\ MixedParts
  BY DEF StationsInv, MixedInv
<1>2. ASSUME NEW i \in 1 .. Len(filed), filed'[i] = filed[i],
             NEW j \in 2 .. Len(filed'[i].content),
             filed'[i].content[j][1] # filed'[i].content[1][1]
      PROVE  0 \notin arrived'[filed'[i].flow][filed'[i].content[j][1]]
  <2>1. j \in 1 .. Len(filed[i].content)
    BY <1>1, <1>2, FiledTyped
  <2>2. /\ filed[i].content[j][1] <= sender[filed[i].flow].t /\ filed[i].flow \in Flows
        /\ filed[i].content[j][1] \in Transfers
    BY <1>1, <2>1, FiledTyped DEF FiledSent
  <2>3. 0 \notin arrived[filed[i].flow][filed[i].content[j][1]]
    BY <1>2 DEF MixedInv, MixedOnlyAfterLoss
  <2>. QED BY <1>2, <2>2, <2>3, AnnouncedOnce
<1>3. CASE UNCHANGED filed
  BY <1>2, <1>3 DEF MixedOnlyAfterLoss
<1>4. ASSUME queue # <<>>, Handling, NEW f \in Flows, NEW y \in Filings, Files(queue[1], f, y)
      PROVE  MixedOnlyAfterLoss'
  <2>1. /\ Len(filed) \in Nat /\ Len(filed') = Len(filed) + 1 /\ filed'[Len(filed) + 1] = y
        /\ \A i \in 1 .. Len(filed) : filed'[i] = filed[i]
        /\ y.flow = f /\ Carries(queue[1], f) /\ UNCHANGED arrived
    BY <1>4, FilesTyped DEF Files, Handling
  <2>2. ASSUME NEW j \in 2 .. Len(y.content), y.content[j][1] # y.content[1][1],
               0 \in arrived[f][y.content[j][1]]
        PROVE  FALSE
    <3>1. /\ Len(Msgs(f)) \in Nat /\ Len(y.content) <= Len(Msgs(f)) + 1 /\ Len(y.content) \in Nat
          /\ \A m \in 1 .. Len(y.content) :
               \/ m \in 1 .. Len(Msgs(f)) /\ y.content[m] = Msgs(f)[m]
               \/ /\ ~Announces(queue[1]) /\ m = Len(Msgs(f)) + 1
                  /\ y.content[m] = <<queue[1].t, queue[1].k>>
      <4>1. y.content \in Seq(Transfers \X Nat)
        BY DEF Filings
      <4>2. Len(y.content) \in Nat /\ Len(Msgs(f)) \in Nat
        BY <1>1, <4>1, MsgsTyped
      <4>. QED BY <1>4, <4>2, FilesTyped
    <3>2. 1 \in 1 .. Len(Msgs(f)) /\ y.content[1] = Msgs(f)[1]
      BY <3>1
    <3>3. CASE j \in 1 .. Len(Msgs(f)) /\ y.content[j] = Msgs(f)[j]
      BY <1>1, <2>2, <3>1, <3>2, <3>3 DEF MixedParts
    <3>4. CASE ~Announces(queue[1]) /\ y.content[j] = <<queue[1].t, queue[1].k>>
      <4>1. Msgs(f)[1][1] = queue[1].t
        BY <1>4, <2>1, <2>2, <3>2, <3>4, PacketIsAnnounced
      <4>. QED BY <2>2, <3>2, <3>4, <4>1
    <3>. QED BY <3>1, <3>3, <3>4
  <2>. SUFFICES ASSUME NEW i \in 1 .. Len(filed'), NEW j \in 2 .. Len(filed'[i].content),
                       filed'[i].content[j][1] # filed'[i].content[1][1]
                PROVE  0 \notin arrived'[filed'[i].flow][filed'[i].content[j][1]]
    BY DEF MixedOnlyAfterLoss
  <2>3. CASE i \in 1 .. Len(filed)
    BY <1>2, <2>1, <2>3
  <2>4. CASE i = Len(filed) + 1
    BY <2>1, <2>2, <2>4
  <2>. QED BY <2>1, <2>3, <2>4
<1>. QED BY <1>3, <1>4, FiledChange

LEMMA MixedStarts == TransportInit => MixedInv
BY DEF TransportInit, MixedInv, FiledSent, MixedParts, MixedOnlyAfterLoss, Msgs

LEMMA MixedKept ==
  StationsInv /\ OrderInv /\ MixedInv /\ [TransportNext]_tpVars => MixedInv'
BY FiledSentKept, MixedPartsKept, MixedFiledKept DEF MixedInv

OrderedInv == StationsInv /\ OrderInv /\ MixedInv

LEMMA OrderedAlways == TransportSpec => []OrderedInv
<1>1. TransportInit => OrderedInv
  BY StationsStart, OrderStarts, MixedStarts DEF OrderedInv
<1>2. OrderedInv /\ [TransportNext]_tpVars => OrderedInv'
  BY StationsKept, OrderKept, MixedKept DEF OrderedInv
<1>. QED BY <1>1, <1>2, PTL DEF TransportSpec

\* Packets of two transfers end up in one message only if the announcement of the later
\* one was lost: at a packet whose announcement arrived, that has been handled and has
\* closed all that is older, and what is younger waits behind it.
THEOREM MixedOnlyThen == TransportSpec => []MixedOnlyAfterLoss
<1>1. OrderedInv => MixedOnlyAfterLoss
  BY DEF OrderedInv, MixedInv
<1>. QED BY <1>1, OrderedAlways, PTL

-----------------------------------------------------------------------------
(***************************************************************************)
(* The PGN of a message.                                                   *)
(***************************************************************************)

\* No announcement of the flow is handled.
Awaits(f) ==
  \/ Steering \/ Sends \/ UNCHANGED tpVars
  \/ Handling /\ ~(Carries(queue[1], f) /\ Announces(queue[1]))

\* Which announcements have been handled changes with those at the head only.
LEMMA PassedKept ==
  ASSUME StationsInv, OrderInv, [TransportNext]_tpVars, NEW f \in Flows,
         NEW u \in Transfers, Awaits(f)
  PROVE  Passed(f, u)' <=> Passed(f, u)
<1>1. /\ SendersOK /\ HistoryOK /\ PartsOK
      /\ queue \in Seq(QueueFrames) /\ queue' \in Seq(QueueFrames)
  BY StationsKept DEF StationsInv, QueueOK
<1>2. CASE UNCHANGED tpVars
  BY <1>2 DEF tpVars, Passed, InQueue
<1>3. CASE Steering
  BY <1>1, <1>3, InQueueKept DEF Steering, Passed
<1>4. CASE Handling /\ ~(Carries(queue[1], f) /\ Announces(queue[1]))
  <2>1. Kept(1) /\ queue # <<>> /\ UNCHANGED arrived
    BY <1>4 DEF Handling
  <2>2. ~(Carries(queue[1], f) /\ queue[1].t = u /\ queue[1].k = 0)
    BY <1>4, <2>1, HeadTyped
  <2>. QED BY <1>1, <2>1, <2>2, InQueueKept DEF Passed
<1>5. CASE Sends
  <2>1. PICK g \in Flows, t \in Transfers, n \in Nat, k \in Nat :
          /\ Sending(g, t, n, k)
          /\ \/ t = sender[g].t + 1 /\ k = 0 /\ n \in PacketCounts
             \/ t = sender[g].t /\ n = sender[g].n /\ k = sender[g].k + 1
    BY <1>1, <1>5, SendsTo
  <2>2. Passed(f, u)' => Passed(f, u)
    BY <1>1, <2>1, PassedSent
  <2>3. ASSUME Passed(f, u) PROVE Passed(f, u)'
    <3>1. ~(f = g /\ u = t /\ 0 = k)
      <4>1. ~(u > sender[f].t)
        BY <2>3 DEF Passed, OrderInv, ArrivedSent
      <4>2. sender[g].t \in Nat /\ sender[g].k \in Nat
        BY <1>1, CountsTyped
      <4>. QED BY <2>1, <4>1, <4>2
    <3>2. InQueue(f, u, 0)' => InQueue(f, u, 0)
      <4>1. CASE queue' = queue
        BY <4>1 DEF InQueue
      <4>2. ASSUME NEW x \in QueueFrames, Carries(x, g), x.t = t, x.k = k,
                   queue' = Append(queue, x)
            PROVE  InQueue(f, u, 0)' => InQueue(f, u, 0)
        BY <1>1, <3>1, <4>2, InQueueSent
      <4>. QED BY <2>1, <4>1, <4>2 DEF Sending
    <3>3. arrived[f][u] \subseteq arrived'[f][u]
      BY <1>1, <2>1 DEF Sending, HistoryOK
    <3>. QED BY <2>3, <3>2, <3>3 DEF Passed
  <2>. QED BY <2>2, <2>3
<1>. QED BY <1>2, <1>3, <1>4, <1>5 DEF Awaits

\* The announcement at the head is the last one once it is handled.
LEMMA HeadIsLastPassed ==
  ASSUME StationsInv, OrderInv, Handling, NEW f \in Flows, Carries(queue[1], f),
         Announces(queue[1]), queue' \in Seq(QueueFrames), NEW t, t = queue[1].t
  PROVE  LastPassed(f, t)' /\ t \in Transfers
<1>1. /\ queue # <<>> /\ Kept(1) /\ UNCHANGED arrived /\ queue \in Seq(QueueFrames)
      /\ 1 \in 1 .. Len(queue)
  BY HeadFlow DEF Handling, StationsInv, QueueOK
<1>2. t \in Transfers /\ t \in Nat /\ queue[1].k = 0
  BY <1>1, HeadTyped DEF Transfers
<1>3. 0 \in arrived[f][t]
  BY <1>1, <1>2 DEF OrderInv, QueuedArrived, InQueue
<1>4. ASSUME NEW i \in 1 .. Len(queue'), Carries(queue'[i], f), queue'[i].t = t
      PROVE  queue'[i].k # 0
  <2>1. Announces(queue'[i]) => t < queue'[i].t
    BY <1>1, <1>4, HeadBefore DEF OrderInv
  <2>2. i + 1 \in 1 .. Len(queue) /\ queue'[i] = queue[i + 1]
    BY <1>1, <1>4 DEF Kept, Carries
  <2>3. queue'[i].k = 0 => Announces(queue'[i])
    BY <1>4, <2>2 DEF StationsInv, QueueOK
  <2>. QED BY <1>2, <1>4, <2>1, <2>3
<1>5. Passed(f, t)'
  BY <1>1, <1>3, <1>4 DEF Passed, InQueue
<1>6. ASSUME NEW u \in Transfers, Passed(f, u)' PROVE u <= t
  <2>1. CASE Passed(f, u)
    BY <1>1, <2>1 DEF OrderInv, NothingOlder
  <2>2. CASE queue[1].t = u
    BY <1>2, <2>2
  <2>. QED BY <1>1, <1>6, <2>1, <2>2, PassedHandled
<1>. QED BY <1>2, <1>5, <1>6 DEF LastPassed

LEMMA BrokenOffKept ==
  ASSUME StationsInv, [TransportNext]_tpVars, NEW f \in Flows, NEW pgn, BrokenOff(f, pgn),
         UNCHANGED filed \/ \E g \in Flows \ {f}, y \in Filings : Files(queue[1], g, y)
  PROVE  BrokenOff(f, pgn)'
<1>1. CASE UNCHANGED filed
  BY <1>1 DEF BrokenOff
<1>2. ASSUME NEW g \in Flows \ {f}, NEW y \in Filings, Files(queue[1], g, y), queue # <<>>
      PROVE  BrokenOff(f, pgn)'
  <2>1. /\ Len(filed) \in Nat /\ Len(filed') = Len(filed) + 1 /\ filed'[Len(filed) + 1] = y
        /\ \A i \in 1 .. Len(filed) : filed'[i] = filed[i]
        /\ y.flow # f
    BY <1>2, FilesTyped DEF Files
  <2>. QED BY <2>1 DEF BrokenOff
<1>3. UNCHANGED filed \/ queue # <<>>
  BY FiledChange
<1>. QED BY <1>1, <1>2, <1>3

LEMMA PgnOfPartsKept ==
  ASSUME StationsInv, OrderInv, PgnOfParts, [TransportNext]_tpVars
  PROVE  PgnOfParts'
<1>1. /\ PartsOK /\ HistoryOK /\ StationsInv' /\ queue' \in Seq(QueueFrames)
  BY StationsKept DEF StationsInv, QueueOK
<1>. SUFFICES ASSUME NEW f \in Flows, parts'[f] # <<>>
              PROVE  \/ BrokenOff(f, parts[f][1].pgn)'
                     \/ \E t \in Transfers : LastPassed(f, t)' /\ parts'[f][1].pgn = Pgn(f, t)
  BY DEF PgnOfParts
<1>2. ASSUME parts[f] # <<>>, parts'[f][1].pgn = parts[f][1].pgn,
             UNCHANGED filed \/ \E g \in Flows \ {f}, y \in Filings : Files(queue[1], g, y),
             Awaits(f)
      PROVE  \/ BrokenOff(f, parts[f][1].pgn)'
             \/ \E t \in Transfers : LastPassed(f, t)' /\ parts'[f][1].pgn = Pgn(f, t)
  <2>1. CASE BrokenOff(f, parts[f][1].pgn)
    <3>1. \A pgn : pgn = parts[f][1].pgn => BrokenOff(f, pgn)'
      BY <1>2, <2>1, BrokenOffKept
    <3>. QED BY <1>2, <3>1 DEF BrokenOff
  <2>2. ASSUME NEW t \in Transfers, LastPassed(f, t), parts[f][1].pgn = Pgn(f, t)
        PROVE  LastPassed(f, t)' /\ parts'[f][1].pgn = Pgn(f, t)
    BY <1>2, <2>2, PassedKept DEF LastPassed
  <2>. QED BY <1>2, <2>1, <2>2 DEF PgnOfParts
<1>3. CASE UNCHANGED <<parts, filed>> /\ Awaits(f)
  BY <1>2, <1>3
<1>4. CASE Handling /\ Handles(queue[1])
  <2>. DEFINE x == queue[1]
  <2>1. queue # <<>>
    BY <1>4 DEF Handling
  <2>2. CASE Drops(x)
    <3>1. UNCHANGED filed /\ ~Carries(x, f) /\ parts'[f] = parts[f]
      BY <1>1, <2>2 DEF Drops, Carries, PartsOK
    <3>. QED BY <1>2, <1>4, <3>1 DEF Awaits
  <2>3. ASSUME NEW g \in Flows, g # f, Opens(x, g) \/ Ignores(x, g) \/ Adds(x, g) \/ Closes(x, g)
        PROVE  \/ BrokenOff(f, parts[f][1].pgn)'
               \/ \E t \in Transfers : LastPassed(f, t)' /\ parts'[f][1].pgn = Pgn(f, t)
    <3>1. ~Carries(x, f) /\ Carries(x, g)
      BY <2>3 DEF Opens, Ignores, Adds, Closes, Carries
    <3>2. parts'[f] = parts[f]
      BY <1>1, <2>3 DEF Opens, Ignores, Adds, Closes, PartsOK
    <3>3. UNCHANGED filed \/ \E h \in Flows \ {f}, y \in Filings : Files(x, h, y)
      <4>1. ASSUME NEW h \in Flows, NEW y \in Filings, Files(x, h, y)
            PROVE  h # f
        BY <3>1, <4>1 DEF Files, Carries
      <4>. QED BY <1>4, <2>1, <4>1, HandledFiles
    <3>. QED BY <1>2, <1>4, <3>1, <3>2, <3>3 DEF Awaits
  <2>4. CASE Opens(x, f)
    <3>1. /\ Carries(x, f) /\ Announces(x)
          /\ parts'[f] = <<[length |-> x.n, pgn |-> AnnouncedPgn(f, x.t), msgs |-> <<>>]>>
      BY <1>1, <2>4 DEF Opens, PartsOK
    <3>2. parts'[f][1].pgn = AnnouncedPgn(f, x.t)
      BY <3>1
    <3>3. CASE ~LeftOver(f)
      <4>1. parts'[f][1].pgn = Pgn(f, x.t)
        BY <3>2, <3>3 DEF AnnouncedPgn
      <4>. QED BY <1>1, <1>4, <3>1, <4>1, HeadIsLastPassed
    <3>4. CASE LeftOver(f)
      <4>. DEFINE y == [flow |-> f, pgn |-> parts[f][1].pgn, length |-> parts[f][1].length,
                        content |-> parts[f][1].msgs]
      <4>1. parts[f] # <<>> /\ parts'[f][1].pgn = parts[f][1].pgn /\ filed' = Append(filed, y)
        BY <2>4, <3>2, <3>4 DEF Opens, LeftOver, AnnouncedPgn
      <4>2. /\ y.flow = f /\ y.pgn = parts[f][1].pgn /\ Len(y.content) < y.length
        BY <1>1, <4>1, PartsTyped
      <4>. HIDE DEF y
      <4>3. /\ Len(filed) \in Nat /\ Len(filed') = Len(filed) + 1 /\ filed'[Len(filed) + 1] = y
        BY <1>1, <4>1 DEF HistoryOK
      <4>. QED BY <4>1, <4>2, <4>3 DEF BrokenOff
    <3>. QED BY <3>3, <3>4
  <2>5. CASE Ignores(x, f)
    BY <2>5 DEF Ignores
  <2>6. CASE Adds(x, f)
    <3>. DEFINE p == [parts[f][1] EXCEPT !.msgs = MoreMsgs(x, f)]
    <3>1. /\ Carries(x, f) /\ ~Announces(x) /\ parts[f] # <<>> /\ UNCHANGED filed
          /\ parts' = [parts EXCEPT ![f] = <<p>>]
      BY <2>6 DEF Adds
    <3>2. p.pgn = parts[f][1].pgn
      BY <2>1, <3>1, AddsTyped
    <3>. HIDE DEF p
    <3>3. parts'[f][1].pgn = parts[f][1].pgn
      BY <1>1, <3>1, <3>2 DEF PartsOK
    <3>. QED BY <1>2, <1>4, <3>1, <3>3 DEF Awaits
  <2>7. CASE Closes(x, f)
    BY <1>1, <2>7 DEF Closes, PartsOK
  <2>. QED BY <1>4, <2>2, <2>3, <2>4, <2>5, <2>6, <2>7 DEF Handles
<1>5. \/ UNCHANGED <<parts, filed>> /\ Awaits(f)
      \/ Handling /\ Handles(queue[1])
  BY Steps DEF Steering, Sends, Announcing, SendingData, Sending, tpVars, Awaits
<1>. QED BY <1>3, <1>4, <1>5

\* The transfer of the first packet of parts or of a filed message has been announced.
LEMMA PartsArePassed ==
  ASSUME StationsInv, OrderInv, NEW f \in Flows, NEW m \in 1 .. Len(Msgs(f)),
         0 \in arrived[f][Msgs(f)[m][1]]
  PROVE  Passed(f, Msgs(f)[m][1])
<1>1. ASSUME NEW i \in 1 .. Len(queue), Carries(queue[i], f), queue[i].t = Msgs(f)[m][1],
             queue[i].k = 0
      PROVE  FALSE
  <2>1. Announces(queue[i])
    BY <1>1 DEF StationsInv, QueueOK
  <2>2. Msgs(f)[m][1] < queue[i].t /\ Msgs(f)[m][1] \in Nat
    BY <1>1, <2>1, MsgsTyped DEF OrderInv, PartsBefore, StationsInv
  <2>. QED BY <1>1, <2>2
<1>. QED BY <1>1 DEF Passed, InQueue

LEMMA FiledUnderItsPgnKept ==
  ASSUME StationsInv, OrderInv, FiledSent, PgnInv, [TransportNext]_tpVars
  PROVE  FiledUnderItsPgn'
<1>1. HistoryOK /\ PartsOK
  BY DEF StationsInv
<1>. DEFINE Earlier(i, f) == {j \in 1 .. i - 1 : filed[j].flow = f}
<1>2. ASSUME NEW i \in 1 .. Len(filed), \A j \in 1 .. Len(filed) : filed'[j] = filed[j],
             ~Ours(filed'[i].flow), filed'[i].pgn # filed'[i].content[1][1],
             0 \in arrived'[filed'[i].flow][filed'[i].content[1][1]]
      PROVE  \E j \in 1 .. i - 1 :
               /\ filed'[j].flow = filed'[i].flow
               /\ \A l \in 1 .. i - 1 : filed'[l].flow = filed'[i].flow => l <= j
               /\ Len(filed'[j].content) < filed'[j].length /\ filed'[i].pgn = filed'[j].pgn
  <2>1. Len(filed) \in Nat /\ 1 \in 1 .. Len(filed[i].content) /\ i \in Nat
    BY <1>1, FiledTyped DEF HistoryOK
  <2>2. /\ filed[i].content[1][1] <= sender[filed[i].flow].t /\ filed[i].flow \in Flows
        /\ filed[i].content[1][1] \in Transfers
    BY <1>1, <2>1, FiledTyped DEF FiledSent
  <2>3. 0 \in arrived[filed[i].flow][filed[i].content[1][1]]
    BY <1>2, <2>2, AnnouncedOnce
  <2>4. PICK j \in Earlier(i, filed[i].flow) :
          /\ \A l \in Earlier(i, filed[i].flow) : l <= j
          /\ Len(filed[j].content) < filed[j].length /\ filed[i].pgn = filed[j].pgn
    BY <1>2, <2>3 DEF PgnInv, FiledUnderItsPgn
  <2>5. \A l \in 1 .. i - 1 : l \in 1 .. Len(filed)
    BY <2>1
  <2>6. /\ j \in 1 .. i - 1 /\ filed[j].flow = filed[i].flow
        /\ \A l \in 1 .. i - 1 : filed[l].flow = filed[i].flow => l <= j
    BY <2>4
  <2>. QED BY <1>2, <2>4, <2>5, <2>6
<1>3. ASSUME NEW f \in Flows, NEW y \in Filings, queue # <<>>, Files(queue[1], f, y),
             ~Ours(f), y.pgn # y.content[1][1], 0 \in arrived[f][y.content[1][1]],
             y.content # <<>>
      PROVE  BrokenOff(f, y.pgn)
  <2>. DEFINE t == y.content[1][1]
  <2>1. /\ parts[f] # <<>> /\ y.pgn = parts[f][1].pgn /\ Carries(queue[1], f)
    BY <1>3 DEF Files
  <2>2. y.content \in Seq(Transfers \X Nat)
    BY DEF Filings
  <2>3. 1 \in 1 .. Len(y.content) /\ t \in Transfers
    BY <1>3, <2>2
  <2>4. \/ 1 \in 1 .. Len(Msgs(f)) /\ y.content[1] = Msgs(f)[1]
        \/ ~Announces(queue[1]) /\ y.content[1] = <<queue[1].t, queue[1].k>>
    BY <1>3, <2>3, FilesTyped
  <2>5. Passed(f, t)
    BY <1>3, <2>1, <2>4, PartsArePassed, PacketIsAnnounced
  <2>6. ASSUME NEW u \in Transfers, LastPassed(f, u), parts[f][1].pgn = Pgn(f, u)
        PROVE  FALSE
    <3>1. t <= u
      BY <2>3, <2>5, <2>6 DEF LastPassed
    <3>2. u <= t
      <4>1. CASE 1 \in 1 .. Len(Msgs(f)) /\ y.content[1] = Msgs(f)[1]
        BY <2>6, <4>1 DEF LastPassed, OrderInv, NothingOlder
      <4>2. CASE y.content[1] = <<queue[1].t, queue[1].k>>
        BY <1>3, <2>1, <2>6, <4>2, HeadFlow DEF LastPassed, OrderInv, NothingOlder
      <4>. QED BY <2>4, <4>1, <4>2
    <3>3. t = u
      BY <2>3, <3>1, <3>2 DEF Transfers
    <3>. QED BY <1>3, <2>1, <2>6, <3>3 DEF Pgn
  <2>. QED BY <2>1, <2>6 DEF PgnInv, PgnOfParts
<1>4. CASE UNCHANGED filed
  <2>. SUFFICES ASSUME NEW i \in 1 .. Len(filed),
                       ~Ours(filed'[i].flow), filed'[i].pgn # filed'[i].content[1][1],
                       0 \in arrived'[filed'[i].flow][filed'[i].content[1][1]]
                PROVE  \E j \in {l \in 1 .. i - 1 : filed'[l].flow = filed'[i].flow} :
                         /\ \A l \in {l \in 1 .. i - 1 : filed'[l].flow = filed'[i].flow} : l <= j
                         /\ Len(filed'[j].content) < filed'[j].length
                         /\ filed'[i].pgn = filed'[j].pgn
    BY <1>4 DEF FiledUnderItsPgn
  <2>. QED BY <1>2, <1>4
<1>5. ASSUME queue # <<>>, Handling, NEW f \in Flows, NEW y \in Filings, Files(queue[1], f, y)
      PROVE  FiledUnderItsPgn'
  <2>1. /\ Len(filed) \in Nat /\ Len(filed') = Len(filed) + 1 /\ filed'[Len(filed) + 1] = y
        /\ \A i \in 1 .. Len(filed) : filed'[i] = filed[i]
        /\ y.flow = f /\ UNCHANGED arrived
    BY <1>5, FilesTyped DEF Files, Handling
  <2>2. y.content # <<>>
    <3>1. HistoryOK'
      BY StationsKept DEF StationsInv
    <3>2. Len(filed) + 1 \in 1 .. Len(filed')
      BY <2>1
    <3>. QED BY <2>1, <3>1, <3>2 DEF HistoryOK
  <2>. SUFFICES ASSUME NEW i \in 1 .. Len(filed'),
                       ~Ours(filed'[i].flow), filed'[i].pgn # filed'[i].content[1][1],
                       0 \in arrived'[filed'[i].flow][filed'[i].content[1][1]]
                PROVE  \E j \in {l \in 1 .. i - 1 : filed'[l].flow = filed'[i].flow} :
                         /\ \A l \in {l \in 1 .. i - 1 : filed'[l].flow = filed'[i].flow} : l <= j
                         /\ Len(filed'[j].content) < filed'[j].length
                         /\ filed'[i].pgn = filed'[j].pgn
    BY DEF FiledUnderItsPgn
  <2>3. CASE i \in 1 .. Len(filed)
    BY <1>2, <2>1, <2>3
  <2>4. CASE i = Len(filed) + 1
    <3>1. BrokenOff(f, y.pgn)
      BY <1>3, <1>5, <2>1, <2>2, <2>4
    <3>2. i - 1 = Len(filed) /\ filed'[i] = y
      BY <2>1, <2>4
    <3>. QED BY <2>1, <3>1, <3>2 DEF BrokenOff
  <2>. QED BY <2>1, <2>3, <2>4
<1>. QED BY <1>4, <1>5, FiledChange

LEMMA PgnStarts == TransportInit => PgnInv
BY DEF TransportInit, PgnInv, PgnOfParts, FiledUnderItsPgn

LEMMA PgnKept ==
  OrderedInv /\ PgnInv /\ [TransportNext]_tpVars => PgnInv'
BY PgnOfPartsKept, FiledUnderItsPgnKept DEF PgnInv, OrderedInv, MixedInv

\* What another station has sent is filed under the PGN that the announcement of its
\* packets gave, or under that of the message before it, which had been broken off: the
\* parts have the PGN of the last announcement that was handled, or took over the old one.
THEOREM FiledUnderAnnouncedPgn == TransportSpec => []FiledUnderItsPgn
<1>1. PgnInv => FiledUnderItsPgn
  BY DEF PgnInv
<1>. QED BY <1>1, OrderedAlways, PgnStarts, PgnKept, PTL DEF TransportSpec

-----------------------------------------------------------------------------
(***************************************************************************)
(* A transfer of which nothing is lost.                                    *)
(***************************************************************************)

LEMMA CountsInOrderKept ==
  ASSUME StationsInv, CountsInOrder, [TransportNext]_tpVars
  PROVE  CountsInOrder'
<1>1. SendersOK
  BY DEF StationsInv
<1>2. CASE SameCounts
  BY <1>2 DEF CountsInOrder, SameCounts
<1>3. ASSUME NEW f \in Flows, Announcing(f) \/ SendingData(f)
      PROVE  CountsInOrder'
  <2>1. sender[f].k \in Nat /\ sender[f].n \in Nat
    BY <1>1, CountsTyped
  <2>2. sender'[f].k <= sender'[f].n /\ \A g \in Flows \ {f} : sender'[g] = sender[g]
    BY <1>3, <2>1 DEF Announcing, SendingData, Sending, PacketCounts
  <2>. QED BY <2>2 DEF CountsInOrder
<1>4. CASE UNCHANGED tpVars
  BY <1>4 DEF tpVars, CountsInOrder
<1>. QED BY <1>2, <1>3, <1>4, Steps DEF Steering, Handling, Sends

\* What is filed of a transfer: nothing new, or the one message.
LEMMA FiledOfKept ==
  ASSUME StationsInv, [TransportNext]_tpVars, NEW f \in Flows, NEW t,
         \/ UNCHANGED filed
         \/ \E g \in Flows, y \in Filings :
              Files(queue[1], g, y) /\ (g # f \/ y.content[1][1] # t)
  PROVE  /\ FiledOf(f, t)' = FiledOf(f, t)
         /\ \A i \in FiledOf(f, t) : filed'[i] = filed[i]
<1>1. CASE UNCHANGED filed
  BY <1>1 DEF FiledOf
<1>2. ASSUME NEW g \in Flows, NEW y \in Filings, Files(queue[1], g, y),
             g # f \/ y.content[1][1] # t, queue # <<>>
      PROVE  /\ FiledOf(f, t)' = FiledOf(f, t)
             /\ \A i \in FiledOf(f, t) : filed'[i] = filed[i]
  <2>1. /\ Len(filed) \in Nat /\ Len(filed') = Len(filed) + 1 /\ filed'[Len(filed) + 1] = y
        /\ \A i \in 1 .. Len(filed) : filed'[i] = filed[i]
        /\ y.flow = g
    BY <1>2, FilesTyped DEF Files
  <2>2. ASSUME NEW i \in FiledOf(f, t)' PROVE i \in FiledOf(f, t)
    <3>1. i \in 1 .. Len(filed) + 1 /\ filed'[i].flow = f /\ filed'[i].content[1][1] = t
      BY <2>1, <2>2 DEF FiledOf
    <3>2. i # Len(filed) + 1
      BY <1>2, <2>1, <3>1
    <3>. QED BY <2>1, <3>1, <3>2 DEF FiledOf
  <2>3. ASSUME NEW i \in FiledOf(f, t) PROVE i \in FiledOf(f, t)' /\ filed'[i] = filed[i]
    BY <2>1, <2>3 DEF FiledOf
  <2>. QED BY <2>2, <2>3
<1>3. UNCHANGED filed \/ queue # <<>>
  BY FiledChange
<1>. QED BY <1>1, <1>2, <1>3

LEMMA FiledOfGrows ==
  ASSUME StationsInv, queue # <<>>, NEW f \in Flows, NEW y \in Filings,
         Files(queue[1], f, y), NEW t, y.content[1][1] = t, FiledOf(f, t) = {}
  PROVE  /\ Len(filed) + 1 \in 1 .. Len(filed') /\ filed'[Len(filed) + 1] = y
         /\ FiledOf(f, t)' = {Len(filed) + 1}
<1>1. /\ Len(filed) \in Nat /\ Len(filed') = Len(filed) + 1 /\ filed'[Len(filed) + 1] = y
      /\ \A i \in 1 .. Len(filed) : filed'[i] = filed[i]
      /\ y.flow = f
  BY FilesTyped DEF Files
<1>2. ASSUME NEW i \in FiledOf(f, t)' PROVE i = Len(filed) + 1
  <2>1. i \in 1 .. Len(filed) + 1 /\ filed'[i].flow = f /\ filed'[i].content[1][1] = t
    BY <1>1, <1>2 DEF FiledOf
  <2>2. i \notin 1 .. Len(filed)
    BY <1>1, <2>1 DEF FiledOf
  <2>. QED BY <1>1, <2>1, <2>2
<1>3. Len(filed) + 1 \in FiledOf(f, t)'
  BY <1>1 DEF FiledOf
<1>. QED BY <1>1, <1>2, <1>3

\* Nothing of the flow's changes but what others do not see.
LEMMA FollowsSame ==
  ASSUME StationsInv, Follows, NEW f \in Flows, NEW t \in Transfers, NEW k \in Nat, NEW n \in Nat,
         At(f, t, k, n), Tracked(f, t, k),
         \A l : InQueue(f, t, l)' <=> InQueue(f, t, l),
         parts'[f] = parts[f], arrived'[f] = arrived[f],
         FiledOf(f, t)' = FiledOf(f, t), \A i \in FiledOf(f, t) : filed'[i] = filed[i],
         Len(filed) <= Len(filed'), Len(filed') \in Nat
  PROVE  Followed(f, t, k, n)'
<1>1. Msgs(f)' = Msgs(f) /\ (Passed(f, t)' <=> Passed(f, t))
  BY DEF Msgs, Passed
<1>2. CASE Waiting(f, t, k)
  BY <1>2 DEF Waiting, Followed
<1>3. CASE Collecting(f, t, k, n)
  BY <1>1, <1>3 DEF Collecting, Followed
<1>4. CASE Whole(f, t, k, n)
  <2>1. PICK i \in 1 .. Len(filed) : FiledOf(f, t) = {i} /\ filed[i].content = Exact(t, n)
    BY <1>4 DEF Whole
  <2>2. i \in 1 .. Len(filed') /\ filed'[i].content = Exact(t, n)
    <3>1. Len(filed) \in Nat
      BY DEF StationsInv, HistoryOK
    <3>. QED BY <2>1, <3>1
  <2>. QED BY <1>1, <1>4, <2>1, <2>2 DEF Whole, Followed, Exact
<1>. QED BY <1>2, <1>3, <1>4 DEF Follows, Followed

LEMMA FollowsSteered ==
  ASSUME StationsInv, Follows, Steering \/ UNCHANGED tpVars, queue' \in Seq(QueueFrames)
  PROVE  Follows'
<1>1. queue \in Seq(QueueFrames) /\ Len(filed) \in Nat
  BY DEF StationsInv, QueueOK, HistoryOK
<1>. SUFFICES ASSUME NEW f \in Flows, NEW t \in Transfers, NEW k \in Nat, NEW n \in Nat,
                     At(f, t, k, n)', Tracked(f, t, k)'
              PROVE  Followed(f, t, k, n)'
  BY DEF Follows
<1>2. \A l : InQueue(f, t, l)' <=> InQueue(f, t, l)
  <2>1. CASE Steering
    BY <1>1, <2>1, InQueueKept DEF Steering
  <2>2. CASE UNCHANGED tpVars
    BY <2>2 DEF tpVars, InQueue
  <2>. QED BY <2>1, <2>2
<1>3. At(f, t, k, n)
  BY DEF Steering, tpVars, At, SameCounts
<1>4. UNCHANGED <<parts, filed, arrived, wiped>>
  BY DEF Steering, tpVars
<1>5. Tracked(f, t, k)
  BY <1>2, <1>4 DEF Tracked
<1>6. FiledOf(f, t)' = FiledOf(f, t)
  BY <1>4 DEF FiledOf
<1>. QED BY <1>1, <1>2, <1>3, <1>4, <1>5, <1>6, FollowsSame

\* The source's next announcement waits, its next packet goes behind those that wait.
LEMMA FollowsSent ==
  ASSUME StationsInv, OrderInv, MixedInv, TrackInv, Sends, [TransportNext]_tpVars,
         queue' \in Seq(QueueFrames)
  PROVE  Follows'
<1>1. /\ SendersOK /\ HistoryOK /\ PartsOK /\ Follows /\ FiledSent
      /\ queue \in Seq(QueueFrames) /\ Len(filed) \in Nat
  BY DEF StationsInv, QueueOK, HistoryOK, TrackInv, MixedInv
<1>. SUFFICES ASSUME NEW f \in Flows, NEW t \in Transfers, NEW k \in Nat, NEW n \in Nat,
                     At(f, t, k, n)', Tracked(f, t, k)'
              PROVE  Followed(f, t, k, n)'
  BY DEF Follows
<1>2. PICK g \in Flows, u \in Transfers, m \in Nat, l \in Nat :
        /\ Sending(g, u, m, l)
        /\ \/ u = sender[g].t + 1 /\ l = 0 /\ m \in PacketCounts
           \/ u = sender[g].t /\ m = sender[g].n /\ l = sender[g].k + 1
  BY <1>1, SendsTo
<1>3. /\ sender'[g].t = u /\ sender'[g].n = m /\ sender'[g].k = l
      /\ \A h \in Flows \ {g} : sender'[h] = sender[h]
      /\ UNCHANGED <<parts, filed, wiped>>
  BY <1>2 DEF Sending
<1>4. \/ queue' = queue /\ arrived' = arrived
      \/ /\ arrived' = [arrived EXCEPT ![g][u] = @ \cup {l}]
         /\ \A h, v, j : InQueue(h, v, j)' <=> InQueue(h, v, j) \/ (h = g /\ v = u /\ j = l)
  <2>1. ASSUME NEW x \in QueueFrames, Carries(x, g), x.t = u, x.k = l, queue' = Append(queue, x)
        PROVE  \A h, v, j : InQueue(h, v, j)' <=> InQueue(h, v, j) \/ (h = g /\ v = u /\ j = l)
    BY <1>1, <2>1, InQueueSent
  <2>. QED BY <1>2, <2>1 DEF Sending
<1>5. FiledOf(f, t)' = FiledOf(f, t) /\ \A i \in FiledOf(f, t) : filed'[i] = filed[i]
  BY <1>3 DEF FiledOf
<1>6. CASE f # g
  <2>1. At(f, t, k, n)
    BY <1>3, <1>6 DEF At
  <2>2. arrived'[f] = arrived[f]
    BY <1>1, <1>4, <1>6 DEF HistoryOK
  <2>3. \A j : InQueue(f, t, j)' <=> InQueue(f, t, j)
    <3>1. CASE queue' = queue
      BY <3>1 DEF InQueue
    <3>2. CASE \A h, v, j : InQueue(h, v, j)' <=> InQueue(h, v, j) \/ (h = g /\ v = u /\ j = l)
      BY <1>6, <3>2
    <3>. QED BY <1>4, <3>1, <3>2
  <2>4. Tracked(f, t, k)
    BY <1>3, <2>2, <2>3 DEF Tracked
  <2>. QED BY <1>1, <1>3, <1>5, <2>1, <2>2, <2>3, <2>4, FollowsSame
<1>7. CASE f = g
  <2>1. t = u /\ k = l /\ n = m
    BY <1>3, <1>7 DEF At
  <2>2. sender[f].t \in Nat /\ sender[f].k \in Nat /\ t \in Nat
    BY <1>1, CountsTyped DEF Transfers
  <2>3. /\ t > sender[f].t => arrived[f][t] = {}
        /\ t = sender[f].t => arrived[f][t] \subseteq 0 .. sender[f].k
    BY DEF OrderInv, ArrivedSent
  <2>4. /\ arrived'[f][t] = arrived[f][t] \cup {k}
        /\ \A h, v, j : InQueue(h, v, j)' <=> InQueue(h, v, j) \/ (h = f /\ v = t /\ j = k)
    <3>1. k \in arrived'[f][t]
      BY DEF Tracked
    <3>2. k \notin arrived[f][t]
      BY <1>2, <1>7, <2>1, <2>2, <2>3
    <3>. QED BY <1>1, <1>4, <1>7, <2>1, <3>1, <3>2 DEF HistoryOK
  <2>5. CASE t = sender[f].t + 1 /\ k = 0
    <3>1. FiledOf(f, t) = {}
      <4>1. ASSUME NEW i \in 1 .. Len(filed), filed[i].flow = f
            PROVE  filed[i].content[1][1] # t
        <5>1. 1 \in 1 .. Len(filed[i].content) /\ filed[i].content[1][1] \in Nat
          BY <1>1, FiledTyped
        <5>2. filed[i].content[1][1] <= sender[f].t
          BY <1>1, <4>1, <5>1 DEF FiledSent
        <5>. QED BY <2>2, <2>5, <5>1, <5>2
      <4>. QED BY <4>1 DEF FiledOf
    <3>2. InQueue(f, t, 0)'
      BY <2>4, <2>5
    <3>. QED BY <1>5, <2>5, <3>1, <3>2 DEF Waiting, Followed
  <2>6. CASE t = sender[f].t /\ n = sender[f].n /\ k = sender[f].k + 1
    <3>. DEFINE k0 == sender[f].k
    <3>1. k0 \in Nat /\ k = k0 + 1 /\ arrived[f][t] \subseteq 0 .. k0
      BY <2>2, <2>3, <2>6
    <3>. HIDE DEF k0
    <3>2. arrived[f][t] = 0 .. k0
      <4>1. arrived[f][t] \cup {k} = 0 .. k
        BY <2>4 DEF Tracked
      <4>2. ASSUME NEW j \in 0 .. k0 PROVE j \in arrived[f][t]
        <5>1. j \in 0 .. k /\ j # k
          BY <3>1
        <5>. QED BY <4>1, <5>1
      <4>. QED BY <3>1, <4>2
    <3>3. InQueue(f, t, 0)' <=> InQueue(f, t, 0)
      BY <2>4, <3>1
    <3>4. At(f, t, k0, n) /\ Tracked(f, t, k0)
      BY <1>3, <2>6, <3>2, <3>3 DEF At, Tracked, k0
    <3>5. Followed(f, t, k0, n)
      BY <1>1, <3>1, <3>4 DEF Follows
    <3>6. Msgs(f)' = Msgs(f) /\ parts' = parts
      BY <1>3 DEF Msgs
    <3>7. CASE Waiting(f, t, k0)
      <4>1. \A j \in 1 .. k : j \in 1 .. k0 \/ j = k
        BY <3>1
      <4>. QED BY <1>5, <2>4, <3>7, <4>1 DEF Waiting, Followed
    <3>8. CASE Collecting(f, t, k0, n)
      <4>1. \A j \in 1 .. k : j \in 1 .. k0 \/ j = k
        BY <3>1
      <4>2. Len(Msgs(f)) \in Nat /\ Len(Msgs(f)) <= k0
        BY <1>1, <3>8, MsgsTyped DEF Collecting
      <4>3. Len(Msgs(f)) <= k /\ k > Len(Msgs(f)) /\ \A j \in 1 .. k0 : j # k
        BY <3>1, <4>2
      <4>4. Passed(f, t)'
        BY <2>4, <3>3, <3>8 DEF Collecting, Passed
      <4>5. \A j \in 1 .. k : InQueue(f, t, j)' <=> j > Len(Msgs(f))
        BY <2>4, <3>8, <4>1, <4>3 DEF Collecting
      <4>. QED BY <1>5, <3>6, <3>8, <4>3, <4>4, <4>5 DEF Collecting, Followed
    <3>9. ~Whole(f, t, k0, n)
      <4>1. sender'[f].k <= sender'[f].n
        BY CountsInOrderKept DEF CountsInOrder, TrackInv
      <4>2. k <= n
        BY <1>3, <1>7, <2>1, <4>1
      <4>. QED BY <3>1, <4>2 DEF Whole
    <3>. QED BY <3>5, <3>7, <3>8, <3>9 DEF Followed
  <2>. QED BY <1>2, <1>7, <2>1, <2>5, <2>6
<1>. QED BY <1>6, <1>7

\* What a handled frame leaves in the queue.
LEMMA InQueueHandled ==
  ASSUME StationsInv, OrderInv, Handling, queue' \in Seq(QueueFrames), NEW f \in Flows,
         NEW t, NEW l
  PROVE  InQueue(f, t, l)' <=>
           InQueue(f, t, l) /\ ~(Carries(queue[1], f) /\ queue[1].t = t /\ queue[1].k = l)
<1>1. /\ queue # <<>> /\ Kept(1) /\ queue \in Seq(QueueFrames)
  BY DEF Handling, StationsInv, QueueOK
<1>2. ASSUME InQueue(f, t, l)', Carries(queue[1], f), queue[1].t = t, queue[1].k = l
      PROVE  FALSE
  <2>1. PICK i \in 1 .. Len(queue') :
          Carries(queue'[i], f) /\ queue'[i].t = t /\ queue'[i].k = l
    BY <1>2 DEF InQueue
  <2>2. Sent(queue[1], queue'[i])
    BY <1>1, <1>2, <2>1, HeadBefore DEF OrderInv
  <2>3. queue[1].t \in Nat /\ queue[1].k \in Nat
    BY <1>1, <1>2, HeadTyped DEF Transfers
  <2>. QED BY <1>2, <2>1, <2>2, <2>3 DEF Sent
<1>. QED BY <1>1, <1>2, InQueueKept

\* Handling frames of another flow, or an EOM.
LEMMA FollowsElsewhere ==
  ASSUME StationsInv, OrderInv, Follows, Handling, Handles(queue[1]), TransportNext,
         queue' \in Seq(QueueFrames), NEW f \in Flows, NEW t \in Transfers, NEW k \in Nat,
         NEW n \in Nat, At(f, t, k, n)', Tracked(f, t, k)', ~Carries(queue[1], f)
  PROVE  Followed(f, t, k, n)'
<1>1. /\ PartsOK /\ HistoryOK /\ SameCounts /\ UNCHANGED arrived /\ queue # <<>>
      /\ Len(filed) \in Nat
  BY DEF StationsInv, Handling, HistoryOK
<1>2. \A l : InQueue(f, t, l)' <=> InQueue(f, t, l)
  BY InQueueHandled
<1>3. At(f, t, k, n)
  BY <1>1 DEF At, SameCounts
<1>4. \/ UNCHANGED filed
      \/ \E g \in Flows, y \in Filings : Files(queue[1], g, y) /\ g # f
  BY <1>1, HandledFiles DEF Files
<1>5. FiledOf(f, t)' = FiledOf(f, t) /\ \A i \in FiledOf(f, t) : filed'[i] = filed[i]
  BY <1>4, FiledOfKept
<1>6. Len(filed) <= Len(filed') /\ Len(filed') \in Nat
  BY <1>1, <1>4, FilesTyped
<1>7. \/ parts'[f] = parts[f] /\ (f \in wiped' <=> f \in wiped)
      \/ f \in wiped' /\ parts[f] # <<>>
  <2>. DEFINE x == queue[1]
  <2>1. CASE Drops(x)
    <3>1. CASE UNCHANGED <<parts, wiped>>
      BY <3>1
    <3>2. ASSUME NEW g \in Flows, parts' = [parts EXCEPT ![g] = <<>>],
                 wiped' = IF parts[g] # <<>> THEN wiped \cup {g} ELSE wiped
          PROVE  \/ parts'[f] = parts[f] /\ (f \in wiped' <=> f \in wiped)
                 \/ f \in wiped' /\ parts[f] # <<>>
      BY <1>1, <3>2 DEF PartsOK
    <3>. QED BY <2>1, <3>1, <3>2 DEF Drops
  <2>2. ASSUME NEW g \in Flows, Opens(x, g) \/ Ignores(x, g) \/ Adds(x, g) \/ Closes(x, g)
        PROVE  parts'[f] = parts[f] /\ (f \in wiped' <=> f \in wiped)
    <3>1. g # f
      BY <2>2 DEF Opens, Ignores, Adds, Closes
    <3>. QED BY <1>1, <2>2, <3>1 DEF Opens, Ignores, Adds, Closes, PartsOK
  <2>. QED BY <2>1, <2>2 DEF Handles
<1>8. CASE parts'[f] = parts[f] /\ (f \in wiped' <=> f \in wiped)
  <2>1. Tracked(f, t, k)
    BY <1>1, <1>2, <1>8 DEF Tracked
  <2>. QED BY <1>1, <1>2, <1>3, <1>5, <1>6, <1>8, <2>1, FollowsSame
<1>9. CASE f \in wiped'
  <2>1. InQueue(f, t, 0) /\ arrived[f][t] = 0 .. k
    BY <1>1, <1>2, <1>9 DEF Tracked
  <2>2. Waiting(f, t, k)
    <3>1. Tracked(f, t, k)
      BY <2>1 DEF Tracked
    <3>. QED BY <1>3, <2>1, <3>1 DEF Follows, Followed, Collecting, Whole, Passed
  <2>. QED BY <1>2, <1>5, <2>2 DEF Waiting, Followed
<1>. QED BY <1>7, <1>8, <1>9

\* A message filed of older packets is none of a transfer that still waits.
LEMMA OlderFiled ==
  ASSUME StationsInv, OrderInv, Handling, NEW f \in Flows, NEW y \in Filings,
         Files(queue[1], f, y), y.content # <<>>, NEW t \in Transfers, InQueue(f, t, 0),
         queue[1].t < t \/ Announces(queue[1])
  PROVE  y.content[1][1] # t
<1>1. queue # <<>> /\ PartsOK /\ t \in Nat
  BY DEF Handling, StationsInv, Transfers
<1>2. y.content \in Seq(Transfers \X Nat)
  BY DEF Filings
<1>3. 1 \in 1 .. Len(y.content)
  BY <1>2
<1>4. CASE 1 \in 1 .. Len(Msgs(f)) /\ y.content[1] = Msgs(f)[1]
  <2>1. PICK i \in 1 .. Len(queue) : Carries(queue[i], f) /\ queue[i].t = t /\ queue[i].k = 0
    BY DEF InQueue
  <2>2. Announces(queue[i])
    BY <2>1 DEF StationsInv, QueueOK
  <2>3. Msgs(f)[1][1] < t /\ Msgs(f)[1][1] \in Nat
    BY <1>1, <1>4, <2>1, <2>2, MsgsTyped DEF OrderInv, PartsBefore
  <2>. QED BY <1>1, <1>4, <2>3
<1>5. CASE ~Announces(queue[1]) /\ y.content[1] = <<queue[1].t, queue[1].k>>
  <2>1. queue[1].t \in Nat
    BY <1>1, HeadTyped DEF Files, Transfers
  <2>. QED BY <1>1, <1>5, <2>1
<1>. QED BY <1>1, <1>3, <1>4, <1>5, FilesTyped

LEMMA FilesSomething ==
  ASSUME StationsInv, TransportNext, queue # <<>>, NEW f \in Flows, NEW y \in Filings,
         Files(queue[1], f, y)
  PROVE  y.content # <<>>
<1>1. HistoryOK'
  BY StationsKept DEF StationsInv
<1>2. /\ Len(filed) \in Nat /\ Len(filed') = Len(filed) + 1 /\ filed'[Len(filed) + 1] = y
  BY FilesTyped
<1>3. Len(filed) + 1 \in 1 .. Len(filed')
  BY <1>2
<1>. QED BY <1>1, <1>2, <1>3 DEF HistoryOK

\* A frame of the flow that is older than the announcement of the transfer.
LEMMA FollowsOlder ==
  ASSUME StationsInv, OrderInv, Handling, Handles(queue[1]), TransportNext,
         queue' \in Seq(QueueFrames), NEW f \in Flows, NEW t \in Transfers, NEW k \in Nat,
         NEW n \in Nat, Carries(queue[1], f), queue[1].t # t, Waiting(f, t, k)
  PROVE  Followed(f, t, k, n)'
<1>1. queue # <<>> /\ InQueue(f, t, 0) /\ 1 \in 1 .. Len(queue)
  BY HeadFlow DEF Handling, Waiting
<1>2. queue[1].t < t
  <2>1. PICK i \in 1 .. Len(queue) : Carries(queue[i], f) /\ queue[i].t = t /\ queue[i].k = 0
    BY <1>1 DEF InQueue
  <2>2. i # 1
    BY <2>1
  <2>3. Sent(queue[1], queue[i])
    BY <1>1, <2>1, <2>2 DEF OrderInv, QueueInOrder
  <2>. QED BY <2>1, <2>3 DEF Sent
<1>3. \A l : InQueue(f, t, l)' <=> InQueue(f, t, l)
  BY InQueueHandled
<1>4. \/ UNCHANGED filed
      \/ \E y \in Filings : Files(queue[1], f, y) /\ y.content[1][1] # t
  <2>1. ASSUME NEW g \in Flows, NEW y \in Filings, Files(queue[1], g, y)
        PROVE  g = f /\ y.content[1][1] # t
    <3>1. g = f
      BY <2>1 DEF Files, Carries
    <3>. QED BY <1>1, <1>2, <2>1, <3>1, OlderFiled, FilesSomething
  <2>. QED BY <1>1, <2>1, HandledFiles
<1>5. FiledOf(f, t)' = FiledOf(f, t)
  BY <1>4, FiledOfKept
<1>. QED BY <1>3, <1>5 DEF Waiting, Followed

\* The announcement of the transfer opens its parts.
LEMMA FollowsAnnouncement ==
  ASSUME StationsInv, OrderInv, Handling, Handles(queue[1]), TransportNext,
         queue' \in Seq(QueueFrames), NEW f \in Flows, NEW t \in Transfers, NEW k \in Nat,
         NEW n \in Nat, At(f, t, k, n), Carries(queue[1], f), Announces(queue[1]),
         queue[1].t = t, Waiting(f, t, k)
  PROVE  Followed(f, t, k, n)'
<1>. DEFINE x == queue[1]
<1>1. queue # <<>> /\ InQueue(f, t, 0) /\ PartsOK
  BY DEF Handling, Waiting, StationsInv
<1>2. x.k = 0 /\ x.n = n
  BY <1>1, HeadTyped DEF At
<1>3. Opens(x, f)
  <2>1. ~Drops(x)
    BY DEF Drops, Carries
  <2>2. ASSUME NEW g \in Flows, Carries(x, g) PROVE g = f
    BY <2>2 DEF Carries
  <2>. QED BY <2>1, <2>2 DEF Handles, Opens, Ignores, Adds, Closes
<1>4. parts'[f] = <<[length |-> x.n, pgn |-> AnnouncedPgn(f, x.t), msgs |-> <<>>]>>
  BY <1>1, <1>3 DEF Opens, PartsOK
<1>5. parts'[f] # <<>> /\ parts'[f][1].length = n /\ Len(Msgs(f)') = 0
  BY <1>2, <1>4 DEF Msgs
<1>6. Passed(f, t)'
  BY HeadIsLastPassed DEF LastPassed
<1>7. ASSUME NEW l \in 1 .. k PROVE InQueue(f, t, l)'
  BY <1>2, <1>7, InQueueHandled DEF Waiting
<1>8. \/ UNCHANGED filed
      \/ \E y \in Filings : Files(x, f, y) /\ y.content[1][1] # t
  <2>1. ASSUME NEW g \in Flows, NEW y \in Filings, Files(x, g, y)
        PROVE  g = f /\ y.content[1][1] # t
    <3>1. g = f
      BY <2>1 DEF Files, Carries
    <3>. QED BY <1>1, <2>1, <3>1, OlderFiled, FilesSomething
  <2>. QED BY <1>1, <2>1, HandledFiles
<1>9. FiledOf(f, t)' = {}
  BY <1>8, FiledOfKept DEF Waiting
<1>. QED BY <1>5, <1>6, <1>7, <1>9 DEF Collecting, Followed

\* A packet of the transfer is the next one, and joins its parts or completes them.
LEMMA FollowsPacket ==
  ASSUME StationsInv, OrderInv, CountsInOrder, Handling, Handles(queue[1]), TransportNext,
         queue' \in Seq(QueueFrames), NEW f \in Flows, NEW t \in Transfers, NEW k \in Nat,
         NEW n \in Nat, At(f, t, k, n), Carries(queue[1], f), ~Announces(queue[1]),
         queue[1].t = t, Collecting(f, t, k, n)
  PROVE  Followed(f, t, k, n)'
<1>. DEFINE x == queue[1]
            j == Len(Msgs(f))
<1>1. /\ queue # <<>> /\ PartsOK /\ 1 \in 1 .. Len(queue) /\ k <= n /\ t \in Nat
      /\ queue \in Seq(QueueFrames)
  BY HeadFlow DEF Handling, StationsInv, QueueOK, At, CountsInOrder, Transfers
<1>2. j \in Nat /\ x.k \in Nat /\ x.k # 0 /\ x.k <= k
  BY <1>1, HeadTyped, MsgsTyped DEF At
<1>3. x.k > j
  <2>1. InQueue(f, t, x.k)
    BY <1>1 DEF InQueue
  <2>. QED BY <1>2, <2>1 DEF Collecting
<1>4. x.k = j + 1
  <2>1. j + 1 \in 1 .. k
    BY <1>2, <1>3
  <2>2. InQueue(f, t, j + 1)
    BY <1>2, <2>1 DEF Collecting
  <2>3. PICK i \in 1 .. Len(queue) : Carries(queue[i], f) /\ queue[i].t = t /\ queue[i].k = j + 1
    BY <2>2 DEF InQueue
  <2>4. i = 1 \/ Sent(queue[1], queue[i])
    BY <1>1, <2>3 DEF OrderInv, QueueInOrder
  <2>. QED BY <1>1, <1>2, <1>3, <2>3, <2>4 DEF Sent
<1>5. Passed(f, t)'
  BY PassedKept DEF Awaits, Collecting
<1>6. ASSUME NEW l \in 1 .. k PROVE InQueue(f, t, l)' <=> l > j + 1
  <2>1. InQueue(f, t, l)' <=> l > j /\ l # j + 1
    BY <1>4, InQueueHandled DEF Collecting
  <2>. QED BY <1>2, <2>1
<1>7. /\ parts[f] # <<>> /\ parts[f][1].length = n /\ Msgs(f) = parts[f][1].msgs
      /\ FiledOf(f, t) = {}
  BY DEF Collecting, Msgs
<1>8. /\ Len(MoreMsgs(x, f)) = j + 1
      /\ MoreMsgs(x, f) \in Seq(Transfers \X Nat)
      /\ \A m \in 1 .. j + 1 : MoreMsgs(x, f)[m] = <<t, m>>
  <2>1. /\ Len(MoreMsgs(x, f)) = j + 1 /\ MoreMsgs(x, f)[j + 1] = <<t, j + 1>>
        /\ MoreMsgs(x, f) \in Seq(Transfers \X Nat)
        /\ \A m \in 1 .. j : MoreMsgs(x, f)[m] = <<t, m>>
    BY <1>1, <1>4, <1>7, MoreMsgsTyped DEF Collecting
  <2>2. \A m \in 1 .. j + 1 : m \in 1 .. j \/ m = j + 1
    BY <1>2
  <2>. QED BY <2>1, <2>2
<1>. HIDE DEF j
<1>9. Adds(x, f) \/ Closes(x, f)
  <2>1. ~Drops(x)
    BY DEF Drops, Carries
  <2>2. ASSUME NEW g \in Flows, Carries(x, g) PROVE g = f
    BY <2>2 DEF Carries
  <2>. QED BY <1>7, <2>1, <2>2 DEF Handles, Opens, Ignores, Adds, Closes
<1>10. CASE Adds(x, f)
  <2>. DEFINE p == [parts[f][1] EXCEPT !.msgs = MoreMsgs(x, f)]
  <2>1. /\ UNCHANGED filed /\ parts' = [parts EXCEPT ![f] = <<p>>]
    BY <1>10 DEF Adds
  <2>2. p.msgs = MoreMsgs(x, f) /\ p.length = n
    BY <1>1, <1>7, AddsTyped
  <2>. HIDE DEF p
  <2>3. parts'[f] = <<p>>
    BY <1>1, <2>1 DEF PartsOK
  <2>4. Msgs(f)' = MoreMsgs(x, f) /\ parts'[f] # <<>> /\ parts'[f][1].length = n
    BY <2>2, <2>3 DEF Msgs
  <2>5. FiledOf(f, t)' = {}
    BY <1>7, <2>1 DEF FiledOf
  <2>6. Len(Msgs(f)') = j + 1 /\ j + 1 <= k
        /\ \A m \in 1 .. Len(Msgs(f)') : (Msgs(f)')[m] = <<t, m>>
    BY <1>2, <1>4, <1>8, <2>4
  <2>. QED BY <1>5, <1>6, <2>4, <2>5, <2>6 DEF Collecting, Followed
<1>11. CASE Closes(x, f)
  <2>. DEFINE y == [flow |-> f, pgn |-> parts[f][1].pgn, length |-> parts[f][1].length,
                    content |-> MoreMsgs(x, f)]
  <2>1. /\ parts' = [parts EXCEPT ![f] = <<>>] /\ filed' = Append(filed, y)
        /\ Len(parts[f][1].msgs) + 1 = n
    BY <1>7, <1>11 DEF Closes
  <2>2. j + 1 = n /\ k = n
    BY <1>1, <1>2, <1>4, <1>7, <2>1 DEF j
  <2>3. parts'[f] = <<>>
    BY <1>1, <2>1 DEF PartsOK
  <2>4. \A l \in 1 .. k : ~InQueue(f, t, l)'
    BY <1>2, <1>6, <2>2
  <2>5. y \in Filings /\ Files(x, f, y)
    <3>1. y \in Filings
      BY <1>1, <1>7, <1>8, PartsTyped DEF Filings
    <3>. QED BY <1>7, <2>1, <3>1 DEF Files
  <2>6. y.content = Exact(t, n)
    <3>1. MoreMsgs(x, f) = [m \in 1 .. n |-> <<t, m>>]
      <4>. DEFINE s == MoreMsgs(x, f)
      <4>1. s \in Seq(Transfers \X Nat) /\ Len(s) = n /\ \A m \in 1 .. n : s[m] = <<t, m>>
        BY <1>8, <2>2
      <4>. HIDE DEF s
      <4>2. s = [m \in 1 .. Len(s) |-> s[m]]
        BY <4>1
      <4>3. s = [m \in 1 .. n |-> s[m]]
        BY <4>1, <4>2
      <4>4. s = [m \in 1 .. n |-> <<t, m>>]
        BY <4>1, <4>3
      <4>. QED BY <4>4 DEF s
    <3>. QED BY <3>1 DEF Exact
  <2>7. y.content[1][1] = t
    <3>1. 1 \in 1 .. j + 1
      BY <1>2
    <3>. QED BY <1>8, <3>1
  <2>. HIDE DEF y
  <2>8. /\ Len(filed) + 1 \in 1 .. Len(filed') /\ filed'[Len(filed) + 1] = y
        /\ FiledOf(f, t)' = {Len(filed) + 1}
    BY <1>1, <1>7, <2>5, <2>7, FiledOfGrows
  <2>9. \E i \in 1 .. Len(filed') : FiledOf(f, t)' = {i} /\ filed'[i].content = Exact(t, n)
    BY <2>6, <2>8
  <2>. QED BY <1>5, <2>2, <2>3, <2>4, <2>9 DEF Whole, Followed, Exact
<1>. QED BY <1>9, <1>10, <1>11

LEMMA FollowsHandled ==
  ASSUME StationsInv, OrderInv, TrackInv, Handling, Handles(queue[1]), TransportNext,
         queue' \in Seq(QueueFrames)
  PROVE  Follows'
<1>1. /\ PartsOK /\ SameCounts /\ UNCHANGED arrived /\ queue # <<>> /\ Follows /\ CountsInOrder
  BY DEF StationsInv, Handling, TrackInv
<1>. SUFFICES ASSUME NEW f \in Flows, NEW t \in Transfers, NEW k \in Nat, NEW n \in Nat,
                     At(f, t, k, n)', Tracked(f, t, k)'
              PROVE  Followed(f, t, k, n)'
  BY DEF Follows
<1>2. At(f, t, k, n)
  BY <1>1 DEF At, SameCounts
<1>3. CASE ~Carries(queue[1], f)
  BY <1>1, <1>3, FollowsElsewhere
<1>4. CASE Carries(queue[1], f)
  <2>1. /\ queue[1].t \in Nat /\ queue[1].t <= t /\ queue[1].k \in Nat /\ t \in Nat
        /\ queue[1].k = 0 <=> Announces(queue[1])
        /\ queue[1].t = t => queue[1].k <= k
        /\ 1 \in 1 .. Len(queue)
    BY <1>1, <1>2, <1>4, HeadTyped, HeadFlow DEF At, Transfers
  <2>2. 0 \in arrived[f][t]
    BY <1>1 DEF Tracked
  <2>3. Tracked(f, t, k)
    <3>1. InQueue(f, t, 0)' => InQueue(f, t, 0)
      BY InQueueHandled
    <3>2. CASE Announces(queue[1])
      <4>1. ~Passed(f, t) \/ t <= queue[1].t
        BY <1>4, <2>1 DEF OrderInv, NothingOlder
      <4>2. Passed(f, t) => InQueue(f, t, 0)
        BY <1>4, <2>1, <3>2, <4>1 DEF InQueue
      <4>. QED BY <1>1, <2>2, <4>2 DEF Tracked, Passed
    <3>3. CASE ~Announces(queue[1])
      <4>1. UNCHANGED wiped
        BY <1>4, <3>3 DEF Handles, Drops, Carries, Opens, Ignores, Adds, Closes
      <4>. QED BY <1>1, <3>1, <4>1 DEF Tracked
    <3>. QED BY <3>2, <3>3
  <2>4. Followed(f, t, k, n)
    BY <1>1, <1>2, <2>3 DEF Follows
  <2>5. CASE queue[1].t # t
    <3>1. ~Passed(f, t)
      BY <1>4, <2>1, <2>5 DEF OrderInv, NothingOlder
    <3>2. Waiting(f, t, k)
      BY <2>4, <3>1 DEF Followed, Collecting, Whole
    <3>. QED BY <1>4, <2>5, <3>2, FollowsOlder
  <2>6. CASE queue[1].t = t /\ Announces(queue[1])
    <3>1. InQueue(f, t, 0)
      BY <1>4, <2>1, <2>6 DEF InQueue
    <3>2. Waiting(f, t, k)
      BY <2>4, <3>1 DEF Followed, Collecting, Whole, Passed
    <3>. QED BY <1>2, <1>4, <2>6, <3>2, FollowsAnnouncement
  <2>7. CASE queue[1].t = t /\ ~Announces(queue[1])
    <3>1. Passed(f, t)
      BY <1>1, <1>4, <2>2, <2>7, PacketIsAnnounced
    <3>2. queue[1].k \in 1 .. k /\ InQueue(f, t, queue[1].k)
      BY <1>4, <2>1, <2>7 DEF InQueue
    <3>3. Collecting(f, t, k, n)
      BY <2>4, <3>1, <3>2 DEF Followed, Waiting, Whole, Passed
    <3>. QED BY <1>1, <1>2, <1>4, <2>7, <3>3, FollowsPacket
  <2>. QED BY <2>5, <2>6, <2>7
<1>. QED BY <1>3, <1>4

LEMMA TrackStarts == TransportInit => TrackInv
<1>. SUFFICES ASSUME TransportInit PROVE TrackInv
  OBVIOUS
<1>1. CountsInOrder
  BY DEF TransportInit, CountsInOrder
<1>2. Follows
  BY DEF TransportInit, Follows, At, Transfers
<1>. QED BY <1>1, <1>2 DEF TrackInv

LEMMA TrackKept ==
  OrderedInv /\ TrackInv /\ [TransportNext]_tpVars => TrackInv'
<1>. SUFFICES ASSUME StationsInv, OrderInv, MixedInv, TrackInv, [TransportNext]_tpVars
              PROVE  TrackInv'
  BY DEF OrderedInv
<1>1. queue' \in Seq(QueueFrames)
  BY StationsKept DEF StationsInv, QueueOK
<1>2. CountsInOrder' /\ Follows
  BY CountsInOrderKept DEF TrackInv
<1>3. CASE TransportNext
  BY <1>1, <1>2, <1>3, Steps, FollowsSteered, FollowsSent, FollowsHandled DEF TrackInv
<1>4. CASE UNCHANGED tpVars
  BY <1>1, <1>2, <1>4, FollowsSteered DEF TrackInv
<1>. QED BY <1>3, <1>4

\* Once all is sent, has arrived and is handled, the transfer cannot be waiting, nor be
\* one packet short: it has been filed, once.
LEMMA FollowedIsFiled ==
  OrderedInv /\ TrackInv => CompleteIsFiled
<1>. SUFFICES ASSUME OrderedInv, TrackInv, NEW f \in Flows \ wiped,
                     Handled(f), sender[f].t > 0, sender[f].k = sender[f].n,
                     arrived[f][sender[f].t] = 0 .. sender[f].n
              PROVE  TimesFiled(f, sender[f].t, sender[f].n) = 1
  BY DEF CompleteIsFiled
<1>. DEFINE t == sender[f].t
            n == sender[f].n
<1>1. /\ SendersOK /\ PartsOK /\ f \in Flows
      /\ t \in Transfers /\ n \in Nat
  BY CountsTyped DEF OrderedInv, StationsInv
<1>2. At(f, t, n, n) /\ Tracked(f, t, n)
  BY DEF At, Tracked
<1>. HIDE DEF t, n
<1>3. Followed(f, t, n, n)
  BY <1>1, <1>2 DEF TrackInv, Follows
<1>4. \A l : ~InQueue(f, t, l)
  BY DEF InQueue, Handled, Carries
<1>5. ~Waiting(f, t, n)
  BY <1>4 DEF Waiting
<1>6. ~Collecting(f, t, n, n)
  <2>. SUFFICES ASSUME Collecting(f, t, n, n) PROVE FALSE
    OBVIOUS
  <2>1. /\ parts[f] # <<>> /\ parts[f][1].length = n /\ Msgs(f) = parts[f][1].msgs
        /\ Len(Msgs(f)) \in Nat
    BY <1>1, MsgsTyped DEF Collecting, Msgs
  <2>2. Len(Msgs(f)) < n
    BY <1>1, <2>1, PartsTyped
  <2>3. n \in 1 .. n
    BY <1>1, <2>1, <2>2
  <2>. QED BY <1>4, <2>2, <2>3 DEF Collecting
<1>7. PICK i \in 1 .. Len(filed) : FiledOf(f, t) = {i} /\ filed[i].content = Exact(t, n)
  BY <1>3, <1>5, <1>6 DEF Followed, Whole
<1>8. {j \in 1 .. Len(filed) : filed[j].flow = f /\ filed[j].content = Exact(t, n)} = {i}
  <2>1. n > 0
    <3>1. Len(filed[i].content) > 0
      BY <1>7, FiledTyped DEF OrderedInv, StationsInv
    <3>2. Len(Exact(t, n)) = n
      BY <1>1 DEF Exact
    <3>. QED BY <1>7, <3>1, <3>2
  <2>2. Exact(t, n)[1][1] = t
    BY <1>1, <2>1 DEF Exact
  <2>. QED BY <1>7, <2>2 DEF FiledOf
<1>9. TimesFiled(f, t, n) = Cardinality({i})
  BY <1>8 DEF TimesFiled
<1>. QED BY <1>9, FS_Singleton DEF t, n

\* A transfer whose frames have all arrived is filed once, with all its packets in their
\* places, unless an EOM has dropped its parts: whatever was lost of earlier transfers or
\* given up does it no harm.
THEOREM CompleteIsFiledOnce == TransportSpec => []CompleteIsFiled
BY OrderedAlways, TrackStarts, TrackKept, FollowedIsFiled, PTL DEF TransportSpec

-----------------------------------------------------------------------------
(***************************************************************************)
(* What is acknowledged.                                                   *)
(***************************************************************************)

\* With its last packet a source of ours is done, and another one waits.
LEMMA SendDataStates ==
  ASSUME StationsInv, NEW f \in Flows, SendData(f)
  PROVE  /\ sender[f].st = "data" \/ (Ours(f) /\ sender[f].st = "rts")
         /\ \/ sender'[f].st = sender[f].st
            \/ sender'[f].st = "sent" /\ Ours(f)
            \/ sender'[f].st = "idle" /\ ~Ours(f) /\ Dest(f) = Everybody
            \/ sender'[f].st = "eom" /\ ~Ours(f) /\ Dest(f) # Everybody
         /\ sender'[f].t = sender[f].t
<1>. DEFINE k == sender[f].k + 1
            st == IF k # sender[f].n THEN sender[f].st
                  ELSE IF Ours(f) THEN "sent"
                  ELSE IF Dest(f) = Everybody THEN "idle" ELSE "eom"
<1>1. sender \in [Flows -> Senders] /\ sender[f] \in Senders
  BY DEF StationsInv, SendersOK
<1>2. sender' = [sender EXCEPT ![f].k = k, ![f].st = st]
  BY <1>1 DEF SendData, Senders
<1>3. sender'[f] = [sender[f] EXCEPT !.k = k, !.st = st]
  <2>. HIDE DEF k, st
  <2>. QED BY <1>1, <1>2
<1>4. sender'[f].st = st /\ sender'[f].t = sender[f].t
  <2>. HIDE DEF k, st
  <2>. QED BY <1>1, <1>3 DEF Senders
<1>5. sender[f].st = "data" \/ (Ours(f) /\ sender[f].st = "rts")
  BY DEF SendData
<1>. QED BY <1>4, <1>5

LEMMA SenderStatesKept ==
  ASSUME StationsInv, SenderStates, [TransportNext]_tpVars
  PROVE  SenderStates'
<1>1. CASE UNCHANGED tpVars
  BY <1>1 DEF tpVars, SenderStates
<1>2. ASSUME SameCounts,
             \A g \in Flows : sender'[g].st # sender[g].st =>
               sender'[g].st = "idle" \/ (sender'[g].st = "data" /\ sender[g].st = "rts")
      PROVE  SenderStates'
  BY <1>2 DEF SenderStates, SameCounts
<1>3. ASSUME NEW f \in Flows, NEW n \in PacketCounts, Announce(f, n)
      PROVE  SenderStates'
  <2>1. /\ sender'[f].st \in {"rts", "data"} /\ sender'[f].k = 0
        /\ \A g \in Flows \ {f} : sender'[g] = sender[g]
    BY <1>3, AnnounceSends DEF Announcing, Sending
  <2>. QED BY <2>1 DEF SenderStates
<1>4. ASSUME NEW f \in Flows, SendData(f)
      PROVE  SenderStates'
  <2>1. \A g \in Flows \ {f} : sender'[g] = sender[g]
    BY <1>4, SendDataSends DEF SendingData, Sending
  <2>2. /\ sender'[f].st = "sent" => Ours(f)
        /\ sender'[f].st = "eom" => ~Ours(f) /\ Dest(f) # Everybody
        /\ sender'[f].st = "rts" => Ours(f)
    BY <1>4, SendDataStates
  <2>. QED BY <2>1, <2>2 DEF SenderStates
<1>5. CASE TransportNext
  <2>1. CASE Handle
    BY <1>2, <2>1, HandleHandles DEF Handling
  <2>2. ASSUME NEW f \in Flows,
               OtherClears(f) \/ OtherAcknowledges(f) \/ GiveUp(f) \/ BreakOff(f)
        PROVE  SenderStates'
    BY <1>2, <2>2, OthersSteer DEF Steering
  <2>. QED BY <1>3, <1>4, <1>5, <2>1, <2>2 DEF TransportNext, Station
<1>. QED BY <1>1, <1>5

-----------------------------------------------------------------------------
(***************************************************************************)
(* The steps, by what they do to one flow to us.                           *)
(***************************************************************************)

\* Of what waits of the flow there is nothing new, ...
KeepsQueued(f) ==
  \E d \in {0, 1} : \A i \in 1 .. Len(queue') :
    Carries(queue'[i], f) => i + d \in 1 .. Len(queue) /\ queue'[i] = queue[i + d]

Stays(f) == KeepsQueued(f) /\ sender'[f].st = sender[f].st /\ sender'[f].t = sender[f].t

\* ... the source is cleared to send by an announcement, or has its answer, ...
IsCleared(f) ==
  /\ Handling /\ Carries(queue[1], f) /\ Announces(queue[1])
  /\ sender[f].st = "rts" /\ sender'[f].st = "data" /\ sender'[f].t = sender[f].t

IsAcknowledged(f) ==
  /\ Handling /\ Carries(queue[1], f) /\ ~Announces(queue[1])
  /\ sender[f].st = "eom" /\ sender'[f].st = "idle" /\ sender'[f].t = sender[f].t

\* ... or it sends something itself.
BeginsNext(f) == Announcing(f) /\ sender[f].st = "idle" /\ sender'[f].st = "rts"

GoesOn(f) == SendingData(f) /\ sender[f].st = "data" /\ Cleared(f)'

LEMMA KeptKeepsQueued ==
  ASSUME NEW d \in {0, 1}, Kept(d), NEW f
  PROVE  KeepsQueued(f)
BY DEF Kept, KeepsQueued, Carries

LEMMA SendingQueued ==
  ASSUME queue \in Seq(QueueFrames), NEW f, NEW t, NEW n, NEW k, Sending(f, t, n, k),
         NEW g, NEW i \in 1 .. Len(queue'), Carries(queue'[i], g)
  PROVE  \/ i \in 1 .. Len(queue) /\ queue'[i] = queue[i]
         \/ /\ g = f /\ i = Len(queue) + 1 /\ queue'[i].t = t /\ queue'[i].k = k
            /\ Announces(queue'[i]) <=> k = 0
<1>1. Len(queue) \in Nat
  OBVIOUS
<1>2. CASE queue' = queue
  BY <1>2
<1>3. ASSUME NEW x \in QueueFrames, Carries(x, f), x.t = t, x.k = k, Announces(x) <=> k = 0,
             queue' = Append(queue, x)
      PROVE  \/ i \in 1 .. Len(queue) /\ queue'[i] = queue[i]
             \/ /\ g = f /\ i = Len(queue) + 1 /\ queue'[i].t = t /\ queue'[i].k = k
                /\ Announces(queue'[i]) <=> k = 0
  <2>1. (i \in 1 .. Len(queue) /\ queue'[i] = queue[i]) \/ (i = Len(queue) + 1 /\ queue'[i] = x)
    BY <1>1, <1>3
  <2>2. CASE i = Len(queue) + 1 /\ queue'[i] = x
    <3>1. g = f
      BY <1>3, <2>2 DEF Carries
    <3>. QED BY <1>3, <2>2, <3>1
  <2>. QED BY <2>1, <2>2
<1>. QED BY <1>2, <1>3 DEF Sending

LEMMA OthersSendStays ==
  ASSUME queue \in Seq(QueueFrames), NEW g, NEW t, NEW n, NEW k, Sending(g, t, n, k),
         NEW f \in Flows \ {g}
  PROVE  Stays(f)
<1>1. sender'[f] = sender[f]
  BY DEF Sending
<1>2. \A i \in 1 .. Len(queue') : Carries(queue'[i], f) =>
        i + 0 \in 1 .. Len(queue) /\ queue'[i] = queue[i + 0]
  <2>. SUFFICES ASSUME NEW i \in 1 .. Len(queue'), Carries(queue'[i], f)
                PROVE  i + 0 \in 1 .. Len(queue) /\ queue'[i] = queue[i + 0]
    OBVIOUS
  <2>1. i \in 1 .. Len(queue) /\ queue'[i] = queue[i]
    BY SendingQueued
  <2>2. i + 0 = i
    BY <2>1
  <2>. QED BY <2>1, <2>2
<1>. QED BY <1>1, <1>2 DEF Stays, KeepsQueued

\* An answer goes to the source of the frame at the head.
LEMMA AnswerStates ==
  ASSUME StationsInv, Handle, NEW f \in Inbound, sender'[f].st # sender[f].st
  PROVE  IsCleared(f) \/ IsAcknowledged(f)
<1>1. /\ Handling /\ queue # <<>> /\ sender \in [Flows -> Senders] /\ f \in Flows
      /\ sender'[f].t = sender[f].t
  BY HandleHandles DEF StationsInv, SendersOK, Handling, SameCounts, Inbound
<1>. DEFINE x == Head(queue)
<1>2. x = queue[1] /\ (Carrier(x) => x.flow \in Flows /\ Carries(x, x.flow))
  BY <1>1, HeadFlow
<1>3. ~NoAnswer
  BY DEF NoAnswer
<1>4. CASE HandleAnnouncement
  <2>1. /\ x.type \in {"RTS", "BAM"} /\ Carrier(x) /\ Announces(x)
        /\ Answer("CTS", x.flow, "rts")
    BY <1>3, <1>4 DEF HandleAnnouncement, Carrier, Announces
  <2>2. x.flow = f /\ sender[f].st = "rts" /\ sender'[f].st = "data"
    BY <1>1, <1>2, <2>1 DEF Answer, Answered, Unanswered, Senders
  <2>. QED BY <1>1, <1>2, <2>1, <2>2 DEF IsCleared
<1>5. CASE HandleData
  <2>1. /\ x.type = "DT" /\ Carrier(x) /\ ~Announces(x)
        /\ Answer("EOM", x.flow, "eom")
    BY <1>3, <1>5 DEF HandleData, Carrier, Announces
  <2>2. x.flow = f /\ sender[f].st = "eom" /\ sender'[f].st = "idle"
    BY <1>1, <1>2, <2>1 DEF Answer, Answered, Unanswered, Senders
  <2>. QED BY <1>1, <1>2, <2>1, <2>2 DEF IsAcknowledged
<1>6. CASE HandleEOM \/ HandleOther
  BY <1>3, <1>6 DEF HandleEOM, HandleOther
<1>. QED BY <1>4, <1>5, <1>6 DEF Handle

LEMMA InboundSteps ==
  ASSUME StationsInv, SenderStates, [TransportNext]_tpVars, NEW f \in Inbound
  PROVE  /\ \/ Stays(f) \/ GiveUp(f) \/ IsCleared(f) \/ IsAcknowledged(f)
            \/ BeginsNext(f) \/ GoesOn(f)
         /\ giveups' >= giveups /\ (GiveUp(f) => giveups' = giveups + 1)
<1>1. /\ f \in Flows /\ ~Ours(f) /\ Dest(f) \in MyIDs /\ Dest(f) # Everybody
      /\ queue \in Seq(QueueFrames) /\ giveups \in Nat
  BY Bounds DEF StationsInv, QueueOK, HistoryOK, Inbound
<1>2. giveups' >= giveups /\ (GiveUp(f) => giveups' = giveups + 1)
  <2>1. giveups' = giveups \/ giveups' = giveups + 1
    BY DEF TransportNext, tpVars, Station, Announce, OtherClears, OtherAcknowledges, SendData,
           GiveUp, BreakOff, Handle, HandleAnnouncement, HandleData, HandleEOM, HandleOther
  <2>. QED BY <1>1, <2>1 DEF GiveUp
<1>3. CASE UNCHANGED tpVars
  <2>1. \A i \in 1 .. Len(queue') : i + 0 \in 1 .. Len(queue) /\ queue'[i] = queue[i + 0]
    BY <1>1, <1>3 DEF tpVars
  <2>. QED BY <1>2, <1>3, <2>1 DEF tpVars, Stays, KeepsQueued
<1>4. CASE Handle
  <2>1. Handling
    BY <1>4, HandleHandles
  <2>2. CASE sender'[f].st = sender[f].st
    BY <1>1, <1>2, <2>1, <2>2, KeptKeepsQueued DEF Handling, SameCounts, Stays
  <2>. QED BY <1>2, <1>4, <2>2, AnswerStates
<1>5. ASSUME NEW g \in Flows, NEW n \in PacketCounts, Announce(g, n)
      PROVE  Stays(f) \/ BeginsNext(f)
  <2>1. Announcing(g)
    BY <1>5, AnnounceSends
  <2>2. CASE g # f
    BY <1>1, <2>1, <2>2, OthersSendStays DEF Announcing
  <2>3. CASE g = f
    <3>1. sender[f].st = "idle"
      BY <1>1, <1>5, <2>3 DEF Announce, SenderStates
    <3>2. sender'[f].st = "rts"
      <4>1. sender \in [Flows -> Senders]
        BY DEF StationsInv, SendersOK
      <4>. QED BY <1>1, <1>5, <2>3, <4>1 DEF Announce
    <3>. QED BY <2>1, <2>3, <3>1, <3>2 DEF BeginsNext
  <2>. QED BY <2>2, <2>3
<1>6. ASSUME NEW g \in Flows, SendData(g)
      PROVE  Stays(f) \/ GoesOn(f)
  <2>1. SendingData(g)
    BY <1>6, SendDataSends
  <2>2. CASE g # f
    BY <1>1, <2>1, <2>2, OthersSendStays DEF SendingData
  <2>3. CASE g = f
    BY <1>1, <1>6, <2>1, <2>3, SendDataStates DEF GoesOn, Cleared
  <2>. QED BY <2>2, <2>3
<1>7. ASSUME NEW g \in Flows, ~GiveUp(f),
             OtherClears(g) \/ OtherAcknowledges(g) \/ GiveUp(g) \/ BreakOff(g)
      PROVE  Stays(f)
  <2>1. Steering
    BY <1>7, OthersSteer
  <2>2. sender'[f].st = sender[f].st
    <3>1. g # f
      BY <1>1, <1>7 DEF OtherClears, OtherAcknowledges, BreakOff
    <3>2. \E st : sender' = [sender EXCEPT ![g].st = st]
      BY <1>7 DEF OtherClears, OtherAcknowledges, GiveUp, BreakOff
    <3>3. sender \in [Flows -> Senders]
      BY DEF StationsInv, SendersOK
    <3>. QED BY <1>1, <3>1, <3>2, <3>3
  <2>. QED BY <1>1, <2>1, <2>2, KeptKeepsQueued DEF Steering, SameCounts, Stays
<1>. QED BY <1>2, <1>3, <1>4, <1>5, <1>6, <1>7 DEF TransportNext, Station

LEMMA QueuedTyped ==
  ASSUME StationsInv, NEW f \in Flows, NEW i \in 1 .. Len(queue), Carries(queue[i], f)
  PROVE  /\ queue[i].t \in Nat /\ queue[i].k \in Nat /\ queue[i].t <= sender[f].t
         /\ queue[i].t = sender[f].t => queue[i].k <= sender[f].k
         /\ queue[i].k = 0 <=> Announces(queue[i])
         /\ sender[f].t \in Nat /\ sender[f].k \in Nat
BY FramesTyped, CountsTyped DEF StationsInv, QueueOK

\* What is behind the head of the queue was there before, and was sent after it.
LEMMA BehindHead ==
  ASSUME StationsInv, OrderInv, Handling, queue' \in Seq(QueueFrames), NEW f \in Flows,
         Carries(queue[1], f), NEW i \in 1 .. Len(queue'), Carries(queue'[i], f)
  PROVE  /\ i + 1 \in 1 .. Len(queue) /\ queue'[i] = queue[i + 1]
         /\ 1 \in 1 .. Len(queue) /\ 1 < i + 1
         /\ queue[1].t \in Nat /\ queue[1].t <= queue'[i].t
         /\ Announces(queue'[i]) => queue[1].t < queue'[i].t
<1>1. queue # <<>> /\ Kept(1)
  BY DEF Handling
<1>2. /\ i + 1 \in 1 .. Len(queue) /\ queue'[i] = queue[i + 1]
      /\ 1 \in 1 .. Len(queue) /\ 1 < i + 1
  BY <1>1, HeadFlow DEF Kept, Carries
<1>3. queue[1].t \in Nat
  BY <1>1, <1>2, QueuedTyped
<1>. QED BY <1>1, <1>2, <1>3, HeadBefore DEF OrderInv

LEMMA StaysOrderly ==
  ASSUME NEW f, Stays(f), queue \in Seq(QueueFrames)
  PROVE  (Clean(f) => Clean(f)') /\ (Orderly(f) => Orderly(f)')
<1>1. PICK d \in {0, 1} : \A i \in 1 .. Len(queue') :
        Carries(queue'[i], f) => i + d \in 1 .. Len(queue) /\ queue'[i] = queue[i + d]
  BY DEF Stays, KeepsQueued
<1>2. sender'[f].st = sender[f].st /\ sender'[f].t = sender[f].t
  BY DEF Stays
<1>3. \A i \in 1 .. Len(queue') :
        /\ Left(f, i)' => i + d \in 1 .. Len(queue) /\ Left(f, i + d)
        /\ Opening(f, i)' => /\ i + d \in 1 .. Len(queue) /\ Opening(f, i + d)
                             /\ queue'[i].t = queue[i + d].t
        /\ Carries(queue'[i], f) => i + d \in 1 .. Len(queue) /\ Carries(queue[i + d], f)
  BY <1>1, <1>2 DEF Left, Opening
<1>4. Cleared(f)' <=> Cleared(f)
  BY <1>2 DEF Cleared
<1>5. ASSUME Clean(f) PROVE Clean(f)'
  BY <1>2, <1>3, <1>4, <1>5 DEF Clean
<1>6. ASSUME Orderly(f) PROVE Orderly(f)'
  <2>1. \A i, j \in 1 .. Len(queue') : i < j => i + d < j + d
    OBVIOUS
  <2>2. Cleared(f)' => \A i \in 1 .. Len(queue') : ~Left(f, i)'
    BY <1>3, <1>4, <1>6 DEF Orderly
  <2>3. sender'[f].st = "rts" =>
          \A i, j \in 1 .. Len(queue') : i < j /\ Opening(f, i)' /\ Left(f, i)' => ~Left(f, j)'
    BY <1>2, <1>3, <1>6, <2>1 DEF Orderly
  <2>4. sender'[f].st = "idle" =>
          \A i, j \in 1 .. Len(queue') : i < j /\ Opening(f, i)' => ~Carries(queue'[j], f)
    BY <1>2, <1>3, <1>6, <2>1 DEF Orderly
  <2>. QED BY <2>2, <2>3, <2>4 DEF Orderly
<1>. QED BY <1>5, <1>6

\* The announcement that clears the source leaves nothing older behind it.
LEMMA ClearedOrderly ==
  ASSUME StationsInv, OrderInv, queue' \in Seq(QueueFrames), NEW f \in Inbound, IsCleared(f)
  PROVE  (Clean(f) => Clean(f)') /\ (Orderly(f) => Orderly(f)')
<1>1. /\ f \in Flows /\ Handling /\ Carries(queue[1], f) /\ Opening(f, 1)
      /\ sender[f].st = "rts" /\ sender'[f].st = "data" /\ sender'[f].t = sender[f].t
  BY DEF IsCleared, Opening, Inbound
<1>2. ASSUME NEW i \in 1 .. Len(queue'), Carries(queue'[i], f), queue[1].t = sender[f].t
      PROVE  ~Left(f, i)' /\ ~Announces(queue'[i])
  <2>1. /\ queue[1].t <= queue'[i].t /\ queue[1].t \in Nat
        /\ Announces(queue'[i]) => queue[1].t < queue'[i].t
        /\ i + 1 \in 1 .. Len(queue) /\ queue'[i] = queue[i + 1]
    BY <1>1, <1>2, BehindHead
  <2>2. queue'[i].t <= sender[f].t /\ queue'[i].t \in Nat
    BY <1>1, <1>2, <2>1, QueuedTyped
  <2>. QED BY <1>1, <1>2, <2>1, <2>2 DEF Left
<1>3. ASSUME Clean(f) PROVE Clean(f)'
  <2>1. CASE Len(queue') = 0
    BY <1>1, <2>1 DEF Clean
  <2>2. 1 \in 1 .. Len(queue)
    BY <1>1, HeadFlow DEF Handling
  <2>3. queue[1].t = sender[f].t
    BY <1>1, <1>3, <2>2 DEF Clean
  <2>. QED BY <1>2, <2>3 DEF Clean, Opening, Left
<1>4. ASSUME Orderly(f) PROVE Orderly(f)'
  <2>1. ASSUME NEW i \in 1 .. Len(queue'), Left(f, i)' PROVE FALSE
    <3>1. Carries(queue'[i], f) /\ queue'[i].t < sender[f].t
      BY <1>1, <2>1 DEF Left
    <3>2. /\ i + 1 \in 1 .. Len(queue) /\ queue'[i] = queue[i + 1]
          /\ 1 \in 1 .. Len(queue) /\ 1 < i + 1
      BY <1>1, <3>1, BehindHead
    <3>3. queue[1].t < sender[f].t
      <4>1. queue[1].t <= sender[f].t /\ queue[1].t \in Nat /\ sender[f].t \in Nat
        BY <1>1, <3>2, QueuedTyped
      <4>. QED BY <1>2, <2>1, <3>1, <4>1
    <3>4. Left(f, 1) /\ Left(f, i + 1)
      BY <1>1, <3>1, <3>2, <3>3 DEF Left
    <3>. QED BY <1>1, <1>4, <3>2, <3>4 DEF Orderly
  <2>. QED BY <1>1, <2>1 DEF Orderly
<1>. QED BY <1>3, <1>4

\* An answer ends a transfer behind whose packets no announcement waits.
LEMMA AcknowledgedOrderly ==
  ASSUME StationsInv, OrderInv, queue' \in Seq(QueueFrames), NEW f \in Inbound,
         IsAcknowledged(f)
  PROVE  (Clean(f) => Clean(f)') /\ (Orderly(f) => Orderly(f)')
<1>1. /\ f \in Flows /\ Handling /\ Carries(queue[1], f) /\ Cleared(f)
      /\ sender[f].st = "eom" /\ sender'[f].st = "idle" /\ sender'[f].t = sender[f].t
  BY DEF IsAcknowledged, Inbound, Cleared
<1>2. ~Cleared(f)'
  BY <1>1 DEF Cleared
<1>3. Clean(f) \/ Orderly(f) => \A i \in 1 .. Len(queue') : ~Opening(f, i)'
  <2>. SUFFICES ASSUME Clean(f) \/ Orderly(f), NEW i \in 1 .. Len(queue'), Opening(f, i)'
                PROVE  FALSE
    OBVIOUS
  <2>1. Carries(queue'[i], f) /\ Announces(queue'[i])
    BY DEF Opening
  <2>2. /\ i + 1 \in 1 .. Len(queue) /\ queue'[i] = queue[i + 1] /\ 1 \in 1 .. Len(queue)
        /\ queue[1].t \in Nat /\ queue[1].t < queue'[i].t
    BY <1>1, <2>1, BehindHead
  <2>3. queue'[i].t <= sender[f].t /\ queue'[i].t \in Nat /\ sender[f].t \in Nat
    BY <1>1, <2>1, <2>2, QueuedTyped
  <2>4. Left(f, 1)
    BY <1>1, <2>2, <2>3 DEF Left
  <2>. QED BY <1>1, <2>2, <2>4 DEF Clean, Orderly
<1>. QED BY <1>1, <1>2, <1>3 DEF Clean, Orderly

LEMMA BeginsOrderly ==
  ASSUME StationsInv, NEW f \in Inbound, BeginsNext(f)
  PROVE  (Clean(f) => Clean(f)') /\ (Orderly(f) => Orderly(f)')
<1>1. /\ f \in Flows /\ queue \in Seq(QueueFrames) /\ Len(queue) \in Nat
      /\ sender[f].st = "idle" /\ sender'[f].st = "rts" /\ sender[f].t \in Nat
  BY CountsTyped DEF StationsInv, QueueOK, BeginsNext, Inbound
<1>2. PICK n \in PacketCounts : Sending(f, sender[f].t + 1, n, 0)
  BY DEF BeginsNext, Announcing
<1>3. sender'[f].t = sender[f].t + 1 /\ ~Cleared(f)'
  BY <1>1, <1>2 DEF Sending, Cleared
<1>4. ASSUME NEW i \in 1 .. Len(queue'), Carries(queue'[i], f)
      PROVE  \/ i \in 1 .. Len(queue) /\ queue'[i] = queue[i]
             \/ i = Len(queue) + 1 /\ queue'[i].t = sender'[f].t
  <2>1. PICK t, k : t = sender[f].t + 1 /\ k = 0 /\ Sending(f, t, n, k)
    BY <1>2
  <2>2. queue \in Seq(QueueFrames) /\ Sending(f, t, n, k) /\ Carries(queue'[i], f)
    BY <1>1, <1>4, <2>1
  <2>3. \/ i \in 1 .. Len(queue) /\ queue'[i] = queue[i]
        \/ i = Len(queue) + 1 /\ queue'[i].t = t
    BY <2>2, SendingQueued
  <2>. QED BY <1>3, <2>1, <2>3
<1>5. ASSUME Clean(f) PROVE Clean(f)'
  <2>1. ASSUME NEW i \in 1 .. Len(queue'), Opening(f, i)' PROVE queue'[i].t = sender'[f].t
    BY <1>1, <1>4, <1>5, <2>1 DEF Clean, Opening
  <2>. QED BY <1>1, <1>3, <2>1 DEF Clean
<1>6. ASSUME Orderly(f) PROVE Orderly(f)'
  <2>1. ASSUME NEW i \in 1 .. Len(queue'), NEW j \in 1 .. Len(queue'), i < j,
               Opening(f, i)', Left(f, i)', Left(f, j)'
        PROVE  FALSE
    <3>1. /\ i \in 1 .. Len(queue) /\ queue'[i] = queue[i]
          /\ j \in 1 .. Len(queue) /\ queue'[j] = queue[j]
      BY <1>1, <1>3, <1>4, <2>1 DEF Left
    <3>2. Opening(f, i) /\ Carries(queue[j], f)
      BY <2>1, <3>1 DEF Opening, Left
    <3>. QED BY <1>1, <1>6, <2>1, <3>1, <3>2 DEF Orderly
  <2>. QED BY <1>1, <1>3, <2>1 DEF Orderly
<1>. QED BY <1>5, <1>6

LEMMA GoesOnOrderly ==
  ASSUME StationsInv, NEW f \in Inbound, GoesOn(f)
  PROVE  (Clean(f) => Clean(f)') /\ (Orderly(f) => Orderly(f)')
<1>1. /\ f \in Flows /\ queue \in Seq(QueueFrames) /\ Len(queue) \in Nat
      /\ sender[f].st = "data" /\ Cleared(f) /\ Cleared(f)'
      /\ sender[f].t \in Nat /\ sender[f].k \in Nat
  BY CountsTyped DEF StationsInv, QueueOK, GoesOn, Inbound, Cleared
<1>2. Sending(f, sender[f].t, sender[f].n, sender[f].k + 1)
  BY DEF GoesOn, SendingData
<1>3. sender'[f].t = sender[f].t
  BY <1>2 DEF Sending
<1>4. ASSUME NEW i \in 1 .. Len(queue'), Carries(queue'[i], f)
      PROVE  \/ i \in 1 .. Len(queue) /\ queue'[i] = queue[i]
             \/ queue'[i].t = sender[f].t /\ ~Announces(queue'[i])
  <2>1. PICK t, n, k : t = sender[f].t /\ k = sender[f].k + 1 /\ Sending(f, t, n, k)
    BY <1>2
  <2>2. k # 0
    BY <1>1, <2>1
  <2>3. queue \in Seq(QueueFrames) /\ Sending(f, t, n, k) /\ Carries(queue'[i], f)
    BY <1>1, <1>4, <2>1
  <2>4. \/ i \in 1 .. Len(queue) /\ queue'[i] = queue[i]
        \/ queue'[i].t = t /\ (Announces(queue'[i]) <=> k = 0)
    BY <2>3, SendingQueued
  <2>. QED BY <2>1, <2>2, <2>4
<1>5. ASSUME Clean(f) \/ Orderly(f), NEW i \in 1 .. Len(queue') PROVE ~Left(f, i)'
  <2>. SUFFICES ASSUME Left(f, i)' PROVE FALSE
    OBVIOUS
  <2>1. Carries(queue'[i], f) /\ queue'[i].t < sender[f].t
    BY <1>3 DEF Left
  <2>2. i \in 1 .. Len(queue) /\ queue'[i] = queue[i]
    BY <1>1, <1>4, <2>1
  <2>3. Left(f, i)
    BY <2>1, <2>2 DEF Left
  <2>. QED BY <1>1, <1>5, <2>2, <2>3 DEF Clean, Orderly
<1>6. ASSUME Clean(f), NEW i \in 1 .. Len(queue'), Opening(f, i)' PROVE FALSE
  BY <1>1, <1>4, <1>6 DEF Clean, Opening
<1>7. sender'[f].st # "rts" /\ sender'[f].st # "idle"
  BY <1>1 DEF Cleared
<1>. QED BY <1>5, <1>6, <1>7 DEF Clean, Orderly

\* A source that gives up leaves, if it has an announcement waiting, no packets behind it.
LEMMA GiveUpOrderly ==
  ASSUME StationsInv, OrderInv, SenderStates, NEW f \in Inbound, GiveUp(f), Clean(f)
  PROVE  Orderly(f)'
<1>1. /\ f \in Flows /\ ~Ours(f) /\ Kept(0) /\ sender'[f].st = "idle"
  <2>1. f \in Flows /\ ~Ours(f)
    BY DEF Inbound
  <2>2. sender \in [Flows -> Senders]
    BY DEF StationsInv, SendersOK
  <2>3. sender' = [sender EXCEPT ![f].st = "idle"]
    BY DEF GiveUp
  <2>4. sender'[f].st = "idle"
    BY <2>1, <2>2, <2>3 DEF Senders
  <2>. QED BY <2>1, <2>4, OthersSteer DEF Steering
<1>2. ~Cleared(f)' /\ sender'[f].st # "rts"
  BY <1>1 DEF Cleared
<1>3. ASSUME NEW i \in 1 .. Len(queue'), NEW j \in 1 .. Len(queue'), i < j, Opening(f, i)',
             Carries(queue'[j], f)
      PROVE  FALSE
  <2>1. Carries(queue'[i], f) /\ Announces(queue'[i])
    BY <1>3 DEF Opening
  <2>2. /\ i + 0 \in 1 .. Len(queue) /\ queue'[i] = queue[i + 0]
        /\ j + 0 \in 1 .. Len(queue) /\ queue'[j] = queue[j + 0]
    BY <1>1, <1>3, <2>1 DEF Kept, Carries
  <2>3. i + 0 = i /\ j + 0 = j
    OBVIOUS
  <2>4. /\ i \in 1 .. Len(queue) /\ Carries(queue[i], f) /\ Announces(queue[i])
        /\ j \in 1 .. Len(queue) /\ Carries(queue[j], f)
    BY <1>3, <2>1, <2>2, <2>3
  <2>5. sender[f].st = "rts" /\ queue[i].t = sender[f].t
    BY <2>4 DEF Clean, Opening
  <2>6. sender[f].k = 0
    BY <1>1, <2>5 DEF SenderStates
  <2>7. Sent(queue[i], queue[j])
    BY <1>1, <1>3, <2>4 DEF OrderInv, QueueInOrder
  <2>8. queue[i].k = 0 /\ queue[i].t \in Nat
    BY <1>1, <2>4, QueuedTyped
  <2>9. /\ queue[j].t \in Nat /\ queue[j].k \in Nat /\ queue[j].t <= sender[f].t
        /\ queue[j].t = sender[f].t => queue[j].k <= 0
    BY <1>1, <2>4, <2>6, QueuedTyped
  <2>. QED BY <2>5, <2>7, <2>8, <2>9 DEF Sent
<1>. QED BY <1>2, <1>3 DEF Orderly

LEMMA ClearanceKept ==
  ASSUME StationsInv, OrderInv, SenderStates, Clearance, [TransportNext]_tpVars
  PROVE  Clearance'
<1>. SUFFICES ASSUME NEW f \in Inbound
              PROVE  (giveups' = 0 => Clean(f)') /\ (giveups' < 2 => Orderly(f)')
  BY DEF Clearance, Inbound, Ours
<1>1. giveups \in Nat /\ giveups' \in Nat /\ queue \in Seq(QueueFrames)
      /\ queue' \in Seq(QueueFrames)
  BY StationsKept, Bounds DEF StationsInv, HistoryOK, QueueOK
<1>2. (giveups = 0 => Clean(f)) /\ (giveups < 2 => Orderly(f))
  BY DEF Clearance
<1>3. giveups' >= giveups /\ (GiveUp(f) => giveups' = giveups + 1)
  BY InboundSteps
<1>4. CASE GiveUp(f)
  <2>1. giveups' # 0 /\ (giveups' < 2 => giveups = 0)
    BY <1>1, <1>3, <1>4
  <2>. QED BY <1>2, <1>4, <2>1, GiveUpOrderly
<1>5. CASE ~GiveUp(f)
  <2>1. (giveups' = 0 => giveups = 0) /\ (giveups' < 2 => giveups < 2)
    BY <1>1, <1>3
  <2>2. Stays(f) \/ IsCleared(f) \/ IsAcknowledged(f) \/ BeginsNext(f) \/ GoesOn(f)
    BY <1>5, InboundSteps
  <2>3. (Clean(f) => Clean(f)') /\ (Orderly(f) => Orderly(f)')
    BY <1>1, <2>2, StaysOrderly, ClearedOrderly, AcknowledgedOrderly, BeginsOrderly,
       GoesOnOrderly
  <2>. QED BY <1>2, <2>1, <2>3
<1>. QED BY <1>4, <1>5

-----------------------------------------------------------------------------
(***************************************************************************)
(* The parts of a transfer whose announcement has been handled.            *)
(***************************************************************************)

LEMMA PacketsTyped ==
  ASSUME PartsOK, NEW f \in Flows, NEW m \in 1 .. Len(Msgs(f))
  PROVE  Msgs(f)[m][2] \in Nat
BY MsgsTyped

\* The parts stay, and what comes to the queue was sent after them.
LEMMA GathersStays ==
  ASSUME StationsInv, StationsInv', NEW f \in Flows, Gathers(f), parts'[f] = parts[f],
         sender'[f].n = sender[f].n, sender'[f].k >= sender[f].k,
         \A i \in 1 .. Len(queue') : Carries(queue'[i], f) =>
           \/ \E j \in 1 .. Len(queue) : Carries(queue[j], f) /\ queue'[i] = queue[j]
           \/ queue'[i].k > sender[f].k
  PROVE  Gathers(f)'
<1>. DEFINE l == Len(Msgs(f))
<1>1. /\ l \in Nat /\ Msgs(f)' = Msgs(f)
      /\ sender[f].k \in Nat /\ sender'[f].k \in Nat
      /\ \A m \in 1 .. l : Msgs(f)[m][2] \in Nat
  <2>1. SendersOK /\ SendersOK' /\ PartsOK
    BY DEF StationsInv
  <2>2. sender[f].k \in Nat
    BY <2>1, CountsTyped
  <2>3. sender'[f].k \in Nat
    <3>1. sender'[f] \in Senders
      BY <2>1 DEF SendersOK
    <3>2. sender'[f].k \in 0 .. MaxPackets
      BY <3>1 DEF Senders
    <3>. QED BY <3>2, Bounds
  <2>. QED BY <2>1, <2>2, <2>3, MsgsTyped, PacketsTyped DEF Msgs
<1>2. /\ parts[f][1].length = sender[f].n /\ l <= sender[f].k
      /\ \A m \in 1 .. l : m <= Msgs(f)[m][2] /\ Msgs(f)[m][2] + (l - m) <= sender[f].k
      /\ \A i \in 1 .. Len(queue) : Carries(queue[i], f) =>
           /\ l < queue[i].k
           /\ \A m \in 1 .. l : Msgs(f)[m][2] + (l - m) < queue[i].k
  BY DEF Gathers
<1>3. l <= sender'[f].k
  BY <1>1, <1>2
<1>4. ASSUME NEW m \in 1 .. l PROVE Msgs(f)[m][2] + (l - m) <= sender'[f].k
  <2>1. Msgs(f)[m][2] \in Nat /\ Msgs(f)[m][2] + (l - m) <= sender[f].k
    BY <1>1, <1>2
  <2>. HIDE DEF l
  <2>. QED BY <1>1, <2>1
<1>5. ASSUME NEW i \in 1 .. Len(queue'), Carries(queue'[i], f)
      PROVE  /\ l < queue'[i].k
             /\ \A m \in 1 .. l : Msgs(f)[m][2] + (l - m) < queue'[i].k
  <2>1. CASE \E j \in 1 .. Len(queue) : Carries(queue[j], f) /\ queue'[i] = queue[j]
    BY <1>2, <2>1
  <2>2. CASE queue'[i].k > sender[f].k
    <3>1. queue'[i].k \in Nat
      <4>1. queue'[i] \in QueueFrames
        BY DEF StationsInv, QueueOK
      <4>2. queue'[i].k \in 0 .. MaxPackets
        BY <4>1 DEF QueueFrames
      <4>. QED BY <4>2, Bounds
    <3>2. l < queue'[i].k
      BY <1>1, <1>2, <2>2, <3>1
    <3>3. ASSUME NEW m \in 1 .. l PROVE Msgs(f)[m][2] + (l - m) < queue'[i].k
      <4>1. Msgs(f)[m][2] \in Nat /\ Msgs(f)[m][2] + (l - m) <= sender[f].k
        BY <1>1, <1>2
      <4>. HIDE DEF l
      <4>. QED BY <1>1, <2>2, <3>1, <4>1
    <3>. QED BY <3>2, <3>3
  <2>. QED BY <1>5, <2>1, <2>2
<1>. HIDE DEF l
<1>6. Len(Msgs(f)') = l
  BY <1>1 DEF l
<1>. QED BY <1>1, <1>2, <1>3, <1>4, <1>5, <1>6 DEF Gathers

\* An announcement opens them anew.
LEMMA OpensGathers ==
  ASSUME StationsInv, StationsInv', OrderInv, Handling, NEW f \in Flows, Opens(queue[1], f),
         NEW t \in Transfers, t = sender[f].t, Passed(f, t)'
  PROVE  Gathers(f)'
<1>1. /\ queue # <<>> /\ SameCounts /\ Kept(1) /\ PartsOK /\ SendersOK
      /\ Carries(queue[1], f) /\ Announces(queue[1])
      /\ queue' \in Seq(QueueFrames)
  BY DEF Handling, StationsInv, QueueOK, Opens
<1>2. /\ queue[1].t \in Transfers /\ queue[1].t <= t /\ t \in Nat /\ queue[1].t \in Nat
      /\ queue[1].t = t => queue[1].n = sender[f].n
  BY <1>1, HeadTyped DEF Transfers
<1>3. queue[1].t = t
  <2>1. PICK u : u = queue[1].t
    OBVIOUS
  <2>2. LastPassed(f, u)'
    BY <1>1, <2>1, HeadIsLastPassed
  <2>3. t <= u
    BY <2>2 DEF LastPassed
  <2>. QED BY <1>2, <2>1, <2>3
<1>4. parts'[f] = <<[length |-> sender[f].n, pgn |-> AnnouncedPgn(f, queue[1].t),
                     msgs |-> <<>>]>>
  BY <1>1, <1>2, <1>3 DEF Opens, PartsOK
<1>5. Msgs(f)' = <<>> /\ parts'[f][1].length = sender[f].n
  BY <1>4 DEF Msgs
<1>6. Len(Msgs(f)') = 0
  BY <1>5
<1>7. ASSUME NEW i \in 1 .. Len(queue'), Carries(queue'[i], f)
      PROVE  0 < queue'[i].k
  <2>1. i + 1 \in 1 .. Len(queue) /\ queue'[i] = queue[i + 1]
        /\ (Announces(queue'[i]) => queue[1].t < queue'[i].t)
    BY <1>1, <1>7, BehindHead
  <2>2. /\ queue'[i].t \in Nat /\ queue'[i].k \in Nat /\ queue'[i].t <= sender[f].t
        /\ queue'[i].k = 0 <=> Announces(queue'[i])
    BY <1>7, <2>1, QueuedTyped
  <2>. QED BY <1>2, <1>3, <2>1, <2>2
<1>8. sender'[f].n = sender[f].n /\ sender'[f].k = sender[f].k /\ sender[f].k \in Nat
  BY <1>1, CountsTyped DEF SameCounts
<1>. QED BY <1>5, <1>6, <1>7, <1>8 DEF Gathers

\* A packet joins them: it was sent after them, and before what waits behind it.
LEMMA AddsGathers ==
  ASSUME StationsInv, StationsInv', OrderInv, Handling, NEW f \in Flows, Adds(queue[1], f),
         queue[1].t = sender[f].t, Gathers(f)
  PROVE  Gathers(f)'
<1>. DEFINE x == queue[1]
            l == Len(Msgs(f))
            p == [parts[f][1] EXCEPT !.msgs = MoreMsgs(x, f)]
<1>1. /\ queue # <<>> /\ SameCounts /\ Kept(1) /\ PartsOK /\ SendersOK
      /\ Carries(x, f) /\ ~Announces(x) /\ parts[f] # <<>>
      /\ parts' = [parts EXCEPT ![f] = <<p>>]
      /\ queue' \in Seq(QueueFrames) /\ 1 \in 1 .. Len(queue)
  BY HeadFlow DEF Handling, StationsInv, QueueOK, Adds
<1>2. l \in Nat /\ \A m \in 1 .. l : Msgs(f)[m][2] \in Nat
  BY <1>1, MsgsTyped, PacketsTyped
<1>3. /\ x.k \in Nat /\ x.k <= sender[f].k /\ l < x.k
      /\ \A m \in 1 .. l : m <= Msgs(f)[m][2] /\ Msgs(f)[m][2] + (l - m) < x.k
      /\ parts[f][1].length = sender[f].n
  BY <1>1, HeadTyped DEF Gathers
<1>4. sender'[f].n = sender[f].n /\ sender'[f].k = sender[f].k /\ sender[f].k \in Nat
  BY <1>1, CountsTyped DEF SameCounts
<1>5. /\ Len(MoreMsgs(x, f)) = l + 1 /\ MoreMsgs(x, f)[l + 1] = <<x.t, x.k>>
      /\ \A m \in 1 .. l : MoreMsgs(x, f)[m] = Msgs(f)[m]
  <2>1. Msgs(f) = parts[f][1].msgs
    BY <1>1 DEF Msgs
  <2>. QED BY <1>1, <2>1, MoreMsgsTyped
<1>6. p.msgs = MoreMsgs(x, f) /\ p.length = sender[f].n
  BY <1>1, <1>3, AddsTyped
<1>7. parts'[f] = <<p>>
  BY <1>1 DEF PartsOK
<1>8. Msgs(f)' = MoreMsgs(x, f) /\ parts'[f][1].length = sender[f].n
  <2>. HIDE DEF p
  <2>. QED BY <1>6, <1>7 DEF Msgs
<1>9. ASSUME NEW i \in 1 .. Len(queue'), Carries(queue'[i], f)
      PROVE  queue'[i].k \in Nat /\ x.k < queue'[i].k
  <2>1. /\ i + 1 \in 1 .. Len(queue) /\ queue'[i] = queue[i + 1]
        /\ x.t <= queue'[i].t /\ x.t \in Nat
    BY <1>1, <1>9, BehindHead
  <2>2. queue'[i].t \in Nat /\ queue'[i].k \in Nat /\ queue'[i].t <= sender[f].t
    BY <1>9, <2>1, QueuedTyped
  <2>3. Sent(x, queue'[i])
    BY <1>1, <1>9, HeadBefore DEF OrderInv
  <2>. QED BY <2>1, <2>2, <2>3 DEF Sent
<1>. HIDE DEF l, p, x
<1>10. ASSUME NEW m \in 1 .. l + 1
       PROVE  /\ m <= MoreMsgs(x, f)[m][2]
              /\ MoreMsgs(x, f)[m][2] \in Nat
              /\ MoreMsgs(x, f)[m][2] + ((l + 1) - m) <= x.k
  <2>1. CASE m \in 1 .. l
    <3>1. MoreMsgs(x, f)[m][2] = Msgs(f)[m][2]
      BY <1>5, <2>1
    <3>2. Msgs(f)[m][2] \in Nat /\ m <= Msgs(f)[m][2] /\ Msgs(f)[m][2] + (l - m) < x.k
      BY <1>2, <1>3, <2>1
    <3>. QED BY <1>2, <1>3, <2>1, <3>1, <3>2
  <2>2. CASE m = l + 1
    <3>1. MoreMsgs(x, f)[m][2] = x.k
      BY <1>5, <2>2
    <3>. QED BY <1>2, <1>3, <2>2, <3>1
  <2>. QED BY <1>2, <2>1, <2>2
<1>11. /\ l + 1 <= sender[f].k
       /\ \A m \in 1 .. l + 1 : /\ m <= MoreMsgs(x, f)[m][2]
                                /\ MoreMsgs(x, f)[m][2] + ((l + 1) - m) <= sender[f].k
  <2>1. ASSUME NEW m \in 1 .. l + 1
        PROVE  MoreMsgs(x, f)[m][2] + ((l + 1) - m) <= sender[f].k
    <3>1. MoreMsgs(x, f)[m][2] \in Nat /\ MoreMsgs(x, f)[m][2] + ((l + 1) - m) <= x.k
      BY <1>10
    <3>. QED BY <1>2, <1>3, <1>4, <3>1
  <2>. QED BY <1>2, <1>3, <1>4, <1>10, <2>1
<1>12. ASSUME NEW i \in 1 .. Len(queue'), Carries(queue'[i], f)
       PROVE  /\ l + 1 < queue'[i].k
              /\ \A m \in 1 .. l + 1 : MoreMsgs(x, f)[m][2] + ((l + 1) - m) < queue'[i].k
  <2>1. queue'[i].k \in Nat /\ x.k < queue'[i].k
    BY <1>9, <1>12
  <2>2. ASSUME NEW m \in 1 .. l + 1
        PROVE  MoreMsgs(x, f)[m][2] + ((l + 1) - m) < queue'[i].k
    <3>1. MoreMsgs(x, f)[m][2] \in Nat /\ MoreMsgs(x, f)[m][2] + ((l + 1) - m) <= x.k
      BY <1>10
    <3>. QED BY <1>2, <1>3, <2>1, <3>1
  <2>. QED BY <1>2, <1>3, <2>1, <2>2
<1>. QED BY <1>4, <1>5, <1>8, <1>11, <1>12 DEF Gathers

LEMMA GatheredSent ==
  ASSUME StationsInv, StationsInv', OrderInv, Gathered, TransportNext, Sends
  PROVE  Gathered'
<1>. SUFFICES ASSUME NEW f \in Flows, NEW t \in Transfers, t = sender'[f].t, Passed(f, t)',
                     parts'[f] # <<>>
              PROVE  Gathers(f)'
  BY DEF Gathered
<1>1. SendersOK /\ HistoryOK /\ queue \in Seq(QueueFrames)
  BY DEF StationsInv, QueueOK
<1>2. Passed(f, t)
  BY PassedKept DEF Awaits
<1>3. PICK g \in Flows, u \in Transfers, n \in Nat, k \in Nat :
        /\ Sending(g, u, n, k)
        /\ \/ u = sender[g].t + 1 /\ k = 0 /\ n \in PacketCounts
           \/ u = sender[g].t /\ n = sender[g].n /\ k = sender[g].k + 1
  BY <1>1, SendsTo
<1>4. /\ sender'[g].t = u /\ sender'[g].n = n /\ sender'[g].k = k
      /\ \A h \in Flows \ {g} : sender'[h] = sender[h]
      /\ parts' = parts
  BY <1>3 DEF Sending
<1>5. /\ sender[f].t \in Nat /\ sender[f].k \in Nat
  BY <1>1, CountsTyped
<1>6. ~(t > sender[f].t)
  BY <1>2 DEF Passed, OrderInv, ArrivedSent
<1>7. /\ sender[f].t = t /\ sender'[f].n = sender[f].n /\ sender'[f].k >= sender[f].k
      /\ f = g => k = sender[f].k + 1
  <2>1. CASE f = g
    BY <1>3, <1>4, <1>5, <1>6, <2>1
  <2>2. CASE f # g
    BY <1>4, <1>5, <2>2
  <2>. QED BY <2>1, <2>2
<1>8. Gathers(f)
  BY <1>2, <1>4, <1>7 DEF Gathered
<1>9. ASSUME NEW i \in 1 .. Len(queue'), Carries(queue'[i], f)
      PROVE  \/ \E j \in 1 .. Len(queue) : Carries(queue[j], f) /\ queue'[i] = queue[j]
             \/ queue'[i].k > sender[f].k
  <2>1. queue \in Seq(QueueFrames) /\ Sending(g, u, n, k) /\ Carries(queue'[i], f)
    BY <1>1, <1>3, <1>9
  <2>2. \/ i \in 1 .. Len(queue) /\ queue'[i] = queue[i]
        \/ /\ f = g /\ i = Len(queue) + 1 /\ queue'[i].t = u /\ queue'[i].k = k
           /\ Announces(queue'[i]) <=> k = 0
    BY <1>9, <2>1, SendingQueued, ZenonT(60)
  <2>3. CASE i \in 1 .. Len(queue) /\ queue'[i] = queue[i]
    BY <1>9, <2>3
  <2>4. CASE f = g /\ queue'[i].k = k
    BY <1>5, <1>7, <2>4
  <2>. QED BY <2>2, <2>3, <2>4
<1>10. parts'[f] = parts[f]
  BY <1>4
<1>. QED BY <1>7, <1>8, <1>9, <1>10, GathersStays

LEMMA GatheredSteered ==
  ASSUME StationsInv, StationsInv', OrderInv, Gathered, [TransportNext]_tpVars,
         Steering \/ UNCHANGED tpVars
  PROVE  Gathered'
<1>. SUFFICES ASSUME NEW f \in Flows, NEW t \in Transfers, t = sender'[f].t, Passed(f, t)',
                     parts'[f] # <<>>
              PROVE  Gathers(f)'
  BY DEF Gathered
<1>1. Passed(f, t)
  BY PassedKept DEF Awaits
<1>2. CASE UNCHANGED tpVars
  BY <1>1, <1>2 DEF tpVars, Gathered, Gathers, Msgs
<1>3. CASE Steering
  <2>1. /\ sender'[f].t = sender[f].t /\ sender'[f].n = sender[f].n
        /\ sender'[f].k = sender[f].k /\ sender[f].k \in Nat /\ parts' = parts /\ Kept(0)
    BY <1>3, CountsTyped DEF Steering, SameCounts, StationsInv
  <2>2. Gathers(f)
    BY <1>1, <2>1 DEF Gathered
  <2>3. ASSUME NEW i \in 1 .. Len(queue'), Carries(queue'[i], f)
        PROVE  \E j \in 1 .. Len(queue) : Carries(queue[j], f) /\ queue'[i] = queue[j]
    BY <2>1, <2>3 DEF Kept, Carries
  <2>4. parts'[f] = parts[f] /\ sender'[f].k >= sender[f].k
    BY <2>1
  <2>. QED BY <2>1, <2>2, <2>3, <2>4, GathersStays
<1>. QED BY <1>2, <1>3

LEMMA GatheredHandled ==
  ASSUME StationsInv, StationsInv', OrderInv, Gathered, TransportNext, Handling,
         Handles(queue[1])
  PROVE  Gathered'
<1>. SUFFICES ASSUME NEW f \in Flows, NEW t \in Transfers, t = sender'[f].t, Passed(f, t)',
                     parts'[f] # <<>>
              PROVE  Gathers(f)'
  BY DEF Gathered
<1>. DEFINE x == queue[1]
<1>1. /\ queue # <<>> /\ SameCounts /\ Kept(1) /\ PartsOK /\ SendersOK
      /\ sender'[f].t = sender[f].t /\ sender'[f].n = sender[f].n
      /\ sender'[f].k = sender[f].k /\ 1 \in 1 .. Len(queue)
  BY HeadFlow DEF Handling, StationsInv, SameCounts
<1>2. sender[f].k \in Nat
  BY <1>1, CountsTyped
<1>3. ASSUME parts'[f] = parts[f], ~(Carries(x, f) /\ Announces(x))
      PROVE  Gathers(f)'
  <2>1. Passed(f, t)
    BY <1>3, PassedKept DEF Awaits
  <2>2. Gathers(f)
    BY <1>1, <1>3, <2>1 DEF Gathered
  <2>3. ASSUME NEW i \in 1 .. Len(queue'), Carries(queue'[i], f)
        PROVE  \E j \in 1 .. Len(queue) : Carries(queue[j], f) /\ queue'[i] = queue[j]
    BY <1>1, <2>3 DEF Kept, Carries
  <2>4. sender'[f].k >= sender[f].k
    BY <1>1, <1>2
  <2>. QED BY <1>1, <1>3, <2>2, <2>3, <2>4, GathersStays
<1>4. CASE Drops(x)
  <2>1. ~Carries(x, f)
    BY <1>4 DEF Drops, Carries
  <2>2. parts' = parts \/ \E g \in Flows : parts' = [parts EXCEPT ![g] = <<>>]
    BY <1>4 DEF Drops
  <2>3. parts'[f] = parts[f]
    BY <1>1, <2>2 DEF PartsOK
  <2>. QED BY <1>3, <2>1, <2>3
<1>5. ASSUME NEW g \in Flows, g # f, Opens(x, g) \/ Ignores(x, g) \/ Adds(x, g) \/ Closes(x, g)
      PROVE  Gathers(f)'
  <2>1. ~Carries(x, f)
    BY <1>5 DEF Opens, Ignores, Adds, Closes, Carries
  <2>2. parts'[f] = parts[f]
    BY <1>1, <1>5 DEF Opens, Ignores, Adds, Closes, PartsOK
  <2>. QED BY <1>3, <2>1, <2>2
<1>6. CASE Opens(x, f)
  BY <1>1, <1>6, OpensGathers
<1>7. CASE Ignores(x, f)
  BY <1>3, <1>7 DEF Ignores
<1>8. CASE Adds(x, f)
  <2>1. Carries(x, f) /\ ~Announces(x) /\ parts[f] # <<>>
    BY <1>8 DEF Adds
  <2>2. Passed(f, t)
    BY <2>1, PassedKept DEF Awaits
  <2>3. Gathers(f)
    BY <1>1, <2>1, <2>2 DEF Gathered
  <2>4. x.t = sender[f].t
    <3>1. t <= x.t
      BY <1>1, <2>1, <2>2 DEF OrderInv, NothingOlder
    <3>2. x.t <= sender[f].t /\ x.t \in Transfers
      BY <1>1, <2>1, HeadTyped
    <3>3. x.t \in Nat /\ t \in Nat
      BY <3>2 DEF Transfers
    <3>. QED BY <1>1, <3>1, <3>2, <3>3
  <2>. QED BY <1>8, <2>3, <2>4, AddsGathers
<1>9. CASE Closes(x, f)
  BY <1>1, <1>9 DEF Closes, PartsOK
<1>. QED BY <1>4, <1>5, <1>6, <1>7, <1>8, <1>9 DEF Handles

LEMMA GatheredKept ==
  ASSUME StationsInv, OrderInv, Gathered, [TransportNext]_tpVars
  PROVE  Gathered'
<1>1. StationsInv'
  BY StationsKept
<1>. QED BY <1>1, Steps, GatheredSent, GatheredSteered, GatheredHandled

-----------------------------------------------------------------------------
(***************************************************************************)
(* What an acknowledgement stands for.                                     *)
(***************************************************************************)

\* A message is acknowledged with the packet that completes it.
LEMMA AckedChange ==
  ASSUME StationsInv, SenderStates, [TransportNext]_tpVars
  PROVE  \/ UNCHANGED acked
         \/ \E f \in Inbound, t \in Transfers :
              /\ Handling /\ Closes(queue[1], f)
              /\ sender[f].st = "eom" /\ sender[f].t = t
              /\ acked' = acked \cup {<<f, t>>}
<1>1. CASE UNCHANGED tpVars
  BY <1>1 DEF tpVars
<1>2. ASSUME NEW f \in Flows, Station(f) PROVE UNCHANGED acked
  BY <1>2 DEF Station, Host, Announce, OtherClears, OtherAcknowledges, SendData, GiveUp,
              BreakOff
<1>3. CASE Handle
  <2>. SUFFICES ASSUME acked' # acked
                PROVE  \E f \in Inbound, t \in Transfers :
                         /\ Handling /\ Closes(queue[1], f)
                         /\ sender[f].st = "eom" /\ sender[f].t = t
                         /\ acked' = acked \cup {<<f, t>>}
    OBVIOUS
  <2>. DEFINE x == Head(queue)
              f == x.flow
              p == [parts[f][1] EXCEPT !.msgs = Append(@, <<x.t, x.k>>)]
  <2>1. /\ Handling /\ queue # <<>> /\ Handles(queue[1])
        /\ filed \in Seq(Filings) /\ SendersOK
    BY <1>3, HandleHandles, HandleDoes DEF Handling, StationsInv, HistoryOK
  <2>2. x = queue[1] /\ (Carrier(x) => f \in Flows /\ Carries(x, f))
    BY <2>1, HeadFlow
  <2>3. HandleData
    BY <1>3 DEF Handle, HandleAnnouncement, HandleEOM, HandleOther
  <2>4. /\ x.type = "DT" /\ parts[f] # <<>> /\ Save(f, p) /\ Dest(f) \in MyIDs
        /\ sender[f].st = "eom" /\ acked' = acked \cup {<<f, sender[f].t>>}
    BY <2>3 DEF HandleData, Answer, Answered, Unanswered
  <2>5. Carries(x, f) /\ f \in Flows /\ ~Announces(x)
    BY <2>2, <2>4 DEF Carrier, Announces
  <2>6. \E y : filed' = Append(filed, y)
    BY <2>4 DEF Save
  <2>. HIDE DEF f, p
  <2>7. filed' # filed
    BY <2>1, <2>6
  <2>8. Closes(queue[1], f)
    <3>1. ASSUME NEW g \in Flows, Carries(x, g) PROVE g = f
      BY <2>5, <3>1 DEF Carries
    <3>2. ~Drops(queue[1])
      BY <2>2, <2>5 DEF Drops, Carries
    <3>. QED BY <2>1, <2>2, <2>4, <2>5, <2>7, <3>1, <3>2
             DEF Handles, Opens, Ignores, Adds, Closes
  <2>9. f \in Inbound
    BY <2>4, <2>5 DEF SenderStates, Inbound
  <2>10. sender[f].t \in Transfers
    <3>1. sender[f].t > 0
      BY <2>1, <2>4, <2>5 DEF SendersOK
    <3>. QED BY <2>1, <2>5, <3>1, CountsTyped
  <2>. QED BY <2>1, <2>4, <2>8, <2>9, <2>10
<1>. QED BY <1>1, <1>2, <1>3 DEF TransportNext

LEMMA AckedSentKept ==
  ASSUME StationsInv, SenderStates, AckedSent, [TransportNext]_tpVars
  PROVE  AckedSent'
<1>. SUFFICES ASSUME NEW x \in acked' PROVE x[1] \in Inbound /\ x[2] \in 1 .. sender'[x[1]].t
  BY DEF AckedSent, Inbound, Ours
<1>1. SendersOK
  BY DEF StationsInv
<1>2. ASSUME NEW f \in Inbound
      PROVE  sender[f].t \in Nat /\ sender'[f].t \in Nat /\ sender[f].t <= sender'[f].t
  <2>1. f \in Flows
    BY DEF Inbound
  <2>2. sender'[f] \in Senders
    BY <2>1, StationsKept DEF StationsInv, SendersOK
  <2>3. sender'[f].t \in 0 .. MaxTransfers
    BY <2>2 DEF Senders
  <2>. QED BY <1>1, <2>1, <2>3, Bounds, CountsTyped, AnnouncedOnce
<1>3. x[1] \in Inbound /\ x[2] \in 1 .. sender[x[1]].t
  <2>1. CASE x \in acked
    BY <2>1 DEF AckedSent
  <2>2. CASE x \notin acked
    <3>1. PICK f \in Inbound, t \in Transfers :
            sender[f].t = t /\ acked' = acked \cup {<<f, t>>}
      BY <2>2, AckedChange
    <3>2. x = <<f, t>>
      BY <2>2, <3>1
    <3>3. t \in 1 .. t
      BY DEF Transfers
    <3>. QED BY <3>1, <3>2, <3>3
  <2>. QED BY <2>1, <2>2
<1>. QED BY <1>2, <1>3

\* Of the transfer that its source waits to have acknowledged, the parts are complete.
LEMMA AcknowledgedWhole ==
  ASSUME StationsInv, OrderInv, CountsInOrder, Gathered, Clearance, giveups < 2, Handling,
         NEW f \in Inbound, Closes(queue[1], f), sender[f].st = "eom",
         NEW t \in Transfers, sender[f].t = t, 0 \in arrived[f][t]
  PROVE  \E n \in PacketCounts : MoreMsgs(queue[1], f) = Exact(t, n)
<1>. DEFINE x == queue[1]
            j == Len(Msgs(f))
            n == parts[f][1].length
            s == MoreMsgs(x, f)
<1>1. /\ queue # <<>> /\ f \in Flows /\ 1 \in 1 .. Len(queue) /\ PartsOK /\ SendersOK
      /\ Carries(x, f) /\ ~Announces(x) /\ parts[f] # <<>>
  BY HeadFlow DEF Handling, Inbound, Closes, StationsInv
<1>2. x.t = t
  <2>1. ~Left(f, 1)
    BY <1>1 DEF Clearance, Orderly, Cleared
  <2>2. x.t <= sender[f].t /\ x.t \in Nat /\ sender[f].t \in Nat
    BY <1>1, QueuedTyped
  <2>. QED BY <1>1, <2>1, <2>2 DEF Left
<1>3. Passed(f, t) /\ \A m \in 1 .. j : Msgs(f)[m][1] = t
  BY <1>1, <1>2, PacketIsAnnounced
<1>4. Gathers(f)
  BY <1>1, <1>3 DEF Gathered
<1>5. n \in PacketCounts /\ n \in Nat /\ Msgs(f) = parts[f][1].msgs /\ j + 1 = n
  BY <1>1, PartsTyped DEF Msgs, Closes
<1>6. /\ x.k \in Nat /\ x.k <= sender[f].k /\ sender[f].k \in Nat /\ sender[f].k <= n
  <2>1. x.k \in Nat /\ sender[f].k \in Nat /\ x.k <= sender[f].k
    BY <1>1, <1>2, QueuedTyped
  <2>. QED BY <1>1, <1>4, <2>1 DEF CountsInOrder, Gathers
<1>7. /\ j < x.k
      /\ \A m \in 1 .. j : m <= Msgs(f)[m][2] /\ Msgs(f)[m][2] + (j - m) < x.k
  BY <1>1, <1>4 DEF Gathers
<1>8. j \in Nat /\ Msgs(f) \in Seq(Transfers \X Nat)
  BY <1>1, MsgsTyped
<1>. HIDE DEF j, n, x
<1>9. x.k = n
  BY <1>5, <1>6, <1>7, <1>8
<1>10. ASSUME NEW m \in 1 .. j PROVE Msgs(f)[m] = <<t, m>>
  <2>1. Msgs(f)[m] \in Transfers \X Nat
    BY <1>8 DEF j
  <2>2. Msgs(f)[m][2] \in Nat /\ Msgs(f)[m] = <<Msgs(f)[m][1], Msgs(f)[m][2]>>
    BY <2>1
  <2>3. m <= Msgs(f)[m][2] /\ Msgs(f)[m][2] + (j - m) < j + 1
    BY <1>5, <1>7, <1>9
  <2>4. Msgs(f)[m][2] = m
    BY <1>8, <2>2, <2>3
  <2>. QED BY <1>3, <2>2, <2>4
<1>11. /\ Len(s) = n /\ s \in Seq(Transfers \X Nat) /\ s[n] = <<t, n>>
       /\ \A m \in 1 .. j : s[m] = <<t, m>>
  BY <1>1, <1>2, <1>5, <1>9, <1>10, MoreMsgsTyped DEF j, x
<1>. HIDE DEF s
<1>12. \A m \in 1 .. n : s[m] = <<t, m>>
  <2>1. \A m \in 1 .. n : m \in 1 .. j \/ m = n
    BY <1>5, <1>8
  <2>. QED BY <1>11, <2>1
<1>13. s = [m \in 1 .. Len(s) |-> s[m]]
  BY <1>11
<1>14. s = [m \in 1 .. n |-> <<t, m>>]
  BY <1>11, <1>12, <1>13
<1>. QED BY <1>5, <1>14 DEF Exact, s, x

LEMMA AcknowledgedIsFiledKept ==
  ASSUME StationsInv, OrderInv, CountsInOrder, AckInv, [TransportNext]_tpVars
  PROVE  AcknowledgedIsFiled'
<1>. USE DEF AckInv
<1>. SUFFICES ASSUME giveups' < 2, NEW x \in acked', 0 \in arrived'[x[1]][x[2]]
              PROVE  \E i \in 1 .. Len(filed'), n \in PacketCounts :
                       filed'[i].flow = x[1] /\ filed'[i].content = Exact(x[2], n)
  BY DEF AcknowledgedIsFiled
<1>1. filed \in Seq(Filings) /\ giveups \in Nat /\ giveups' \in Nat /\ SendersOK
  BY StationsKept, Bounds DEF StationsInv, HistoryOK
<1>2. ASSUME NEW f \in Inbound PROVE giveups < 2
  BY <1>1, <1>2, InboundSteps
<1>3. CASE x \in acked
  <2>1. x[1] \in Inbound /\ x[1] \in Flows /\ x[2] \in 1 .. sender[x[1]].t
    BY <1>3 DEF AckedSent, Inbound
  <2>2. x[2] \in Transfers /\ x[2] <= sender[x[1]].t
    <3>1. sender[x[1]].t \in 0 .. MaxTransfers
      BY <1>1, <2>1, CountsTyped
    <3>. QED BY <2>1, <3>1, Bounds DEF Transfers
  <2>3. 0 \in arrived[x[1]][x[2]]
    BY <2>1, <2>2, AnnouncedOnce
  <2>4. giveups < 2
    BY <1>2, <2>1
  <2>5. PICK i \in 1 .. Len(filed), n \in PacketCounts :
          filed[i].flow = x[1] /\ filed[i].content = Exact(x[2], n)
    BY <1>3, <2>3, <2>4 DEF AcknowledgedIsFiled
  <2>6. i \in 1 .. Len(filed') /\ filed'[i] = filed[i]
    <3>1. CASE UNCHANGED filed
      BY <3>1
    <3>2. ASSUME queue # <<>>, NEW f \in Flows, NEW y \in Filings, Files(queue[1], f, y)
          PROVE  i \in 1 .. Len(filed') /\ filed'[i] = filed[i]
      <4>1. /\ Len(filed) \in Nat /\ Len(filed') = Len(filed) + 1
            /\ \A m \in 1 .. Len(filed) : filed'[m] = filed[m]
        BY <3>2, FilesTyped
      <4>. QED BY <4>1
    <3>. QED BY <3>1, <3>2, FiledChange
  <2>. QED BY <2>5, <2>6
<1>4. CASE x \notin acked
  <2>1. PICK f \in Inbound, t \in Transfers :
          /\ Handling /\ Closes(queue[1], f) /\ sender[f].st = "eom" /\ sender[f].t = t
          /\ acked' = acked \cup {<<f, t>>}
    BY <1>4, AckedChange
  <2>2. x[1] = f /\ x[2] = t
    BY <1>4, <2>1
  <2>3. 0 \in arrived[f][t] /\ giveups < 2
    BY <1>2, <2>1, <2>2 DEF Handling
  <2>4. PICK n \in PacketCounts : MoreMsgs(queue[1], f) = Exact(t, n)
    BY <2>1, <2>3, AcknowledgedWhole
  <2>. DEFINE y == [flow |-> f, pgn |-> parts[f][1].pgn, length |-> parts[f][1].length,
                    content |-> MoreMsgs(queue[1], f)]
  <2>5. filed' = Append(filed, y) /\ y.flow = f /\ y.content = Exact(t, n)
    BY <2>1, <2>4 DEF Closes
  <2>. HIDE DEF y
  <2>6. Len(filed) + 1 \in 1 .. Len(filed') /\ filed'[Len(filed) + 1] = y
    BY <1>1, <2>5
  <2>. QED BY <2>2, <2>5, <2>6
<1>. QED BY <1>3, <1>4

LEMMA AckStarts == TransportInit => AckInv
<1>. SUFFICES ASSUME TransportInit PROVE AckInv
  OBVIOUS
<1>1. /\ sender = [f \in Flows |-> [st |-> "idle", t |-> 0, n |-> 0, k |-> 0]]
      /\ parts = [f \in Flows |-> <<>>] /\ Len(queue) = 0 /\ acked = {}
  BY DEF TransportInit
<1>2. SenderStates /\ Gathered
  BY <1>1 DEF SenderStates, Gathered
<1>3. \A f \in Flows : Clean(f) /\ Orderly(f)
  BY <1>1 DEF Clean, Orderly
<1>4. Clearance
  BY <1>3 DEF Clearance, Inbound
<1>5. AckedSent /\ AcknowledgedIsFiled
  BY <1>1 DEF AckedSent, AcknowledgedIsFiled
<1>. QED BY <1>2, <1>4, <1>5 DEF AckInv

LEMMA AckKept ==
  OrderedInv /\ TrackInv /\ AckInv /\ [TransportNext]_tpVars => AckInv'
<1>. SUFFICES ASSUME StationsInv, OrderInv, CountsInOrder, AckInv, [TransportNext]_tpVars
              PROVE  AckInv'
  BY DEF OrderedInv, TrackInv
<1>1. SenderStates /\ Gathered /\ Clearance /\ AckedSent
  BY DEF AckInv
<1>2. SenderStates' /\ AckedSent'
  BY <1>1, SenderStatesKept, AckedSentKept
<1>3. Gathered' /\ Clearance'
  BY <1>1, GatheredKept, ClearanceKept
<1>. QED BY <1>2, <1>3, AcknowledgedIsFiledKept DEF AckInv

\* What we acknowledge to its source has been filed in full, however many frames were lost,
\* if its announcement got through and at most one transfer was given up: a frame of
\* another transfer cannot stand for its last packet, and as many packets as announced, all
\* of them sent since, in order, are all of them.
THEOREM AcknowledgedOnlyWhenFiled == TransportSpec => []AcknowledgedIsFiled
<1>1. AckInv => AcknowledgedIsFiled
  BY DEF AckInv
<1>. QED BY <1>1, OrderedAlways, TrackStarts, TrackKept, AckStarts, AckKept, PTL
         DEF TransportSpec

=============================================================================
