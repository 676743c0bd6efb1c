--------------------------- MODULE J1939Transport ---------------------------
(***************************************************************************)
(* The transport protocol of the J1939 stack (cancatlib/j1939stack.py):    *)
(* messages of more than eight bytes, announced by a TP.CM frame (RTS to   *)
(* one address, BAM to all) and carried by TP.DT frames.                   *)
(*                                                                         *)
(* The receive thread queues each frame (_j1939_can_handler); the thread   *)
(* of _mhe_runner takes the frames from the queue one by one, collects the *)
(* parts of each pair of addresses, files what is complete and answers     *)
(* what is meant for an address of ours.  A caller of J1939xmit sends a    *)
(* transfer of ours from its own thread (_j1939xmit_tp); its frames come   *)
(* back to the host as well.  The other stations of the bus follow the     *)
(* protocol; they may give up, and frames may be lost on the way to the    *)
(* host.                                                                   *)
(*                                                                         *)
(* Both threads send with CANxmit: the transceiver may refuse a frame, and *)
(* recv may raise an IndexError when another thread takes the result first *)
(* (CanMailbox).  There are no filters, listeners and handlers of messages *)
(* (the defaults): _submitJ1939Message files what it is given.             *)
(***************************************************************************)
EXTENDS Naturals, Sequences, FiniteSets

CONSTANTS
  Flows,         \* pairs <<source address, destination address>>
  MyIDs,         \* self._config['myIDs']
  Everybody,     \* the global address
  Promiscuous,   \* self.promisc
  MaxTransfers,  \* bound: transfers of each flow
  Small,         \* bound: flows of one transfer of two packets only
  MaxPackets,    \* bound: packets of a transfer
  MaxGiveUps,    \* bound: transfers a sender gives up
  MaxLost,       \* bound: frames lost on the way to the host
  MaxQueue       \* bound: frames in the queue when a station sends

ASSUME TransportBounds ==
  /\ Promiscuous \in BOOLEAN
  /\ MaxTransfers \in Nat \ {0}
  /\ {MaxPackets, MaxGiveUps, MaxLost, MaxQueue} \subseteq Nat

VARIABLES
  sender,   \* what each flow's source does
  queue,    \* _mhe_queue
  parts,    \* _TPmsgParts: for each flow <<>>, or <<record>>
  filed,    \* the messages _submitJ1939Message has filed
  arrived,  \* history: for each flow and transfer, the frames that got through
  acked,    \* history: <<flow, transfer>> acknowledged by us to the source
  wiped,    \* history: flows whose parts an EOM of the same direction has dropped since
            \* their last announcement
  unanswered,  \* history: flows for which an answer of ours did not go out since their
               \* present transfer was announced
  running,  \* the thread of _mhe_runner is alive
  giveups, lost

tpVars == <<sender, queue, parts, filed, arrived, acked, wiped, unanswered, running,
            giveups, lost>>

(***************************************************************************)
(* A frame is of the transfer t of a flow.  An announcement carries the    *)
(* number of packets and the PGN of the message, for which the number of   *)
(* the transfer stands; the packet k of a transfer is <<t, k>>.            *)
(***************************************************************************)
Transfers == 1 .. MaxTransfers
PacketCounts == 2 .. MaxPackets
Source(f) == f[1]
Dest(f) == f[2]
Reverse(f) == <<f[2], f[1]>>
Ours(f) == Source(f) \in MyIDs

\* Of ours, even one to everybody is announced with RTS.
Announcement(f) == IF Dest(f) = Everybody /\ ~Ours(f) THEN "BAM" ELSE "RTS"

\* Our announcements pack the bytes of the PGN in the reverse of the order in which
\* ec_handler unpacks them: what it reads is another PGN.
Pgn(f, t) == IF Ours(f) THEN MaxTransfers + t ELSE t

TransportTypeOK ==
  /\ sender \in [Flows -> [st : {"idle", "rts", "data", "eom", "sent"},
                           t : 0 .. MaxTransfers, n : 0 .. MaxPackets,
                           k : 0 .. MaxPackets]]
  /\ \A f \in Flows : parts[f] # <<>> =>
       /\ parts[f][1].length \in PacketCounts
       /\ parts[f][1].pgn \in {Pgn(f, t) : t \in Transfers}
       /\ Len(parts[f][1].msgs) < parts[f][1].length
  /\ running \in BOOLEAN
  /\ giveups \in 0 .. MaxGiveUps /\ lost \in 0 .. MaxLost

TransportInit ==
  /\ sender = [f \in Flows |-> [st |-> "idle", t |-> 0, n |-> 0, k |-> 0]]
  /\ queue = <<>>
  /\ parts = [f \in Flows |-> <<>>]
  /\ filed = <<>>
  /\ arrived = [f \in Flows |-> [t \in Transfers |-> {}]]
  /\ acked = {} /\ wiped = {} /\ unanswered = {}
  /\ running = TRUE
  /\ giveups = 0 /\ lost = 0

-----------------------------------------------------------------------------
(***************************************************************************)
(* The bus.  _j1939_can_handler drops what is not for us unless the stack  *)
(* is promiscuous: TP frames have a destination, 0xff for a BAM.           *)
(***************************************************************************)
Wanted(f) == Dest(f) \in MyIDs \/ Promiscuous

Frame(type, f, t, n, k) == [type |-> type, flow |-> f, t |-> t, n |-> n, k |-> k]

\* A station sends a frame: it gets into the queue, or is lost.
Transmit(frame) ==
  /\ Len(queue) < MaxQueue
  /\ \/ /\ Wanted(frame.flow)
        /\ queue' = Append(queue, frame)
        /\ UNCHANGED lost
        /\ arrived' = IF frame.flow \in Flows /\ frame.type \in {"RTS", "BAM", "DT"}
                        THEN [arrived EXCEPT ![frame.flow][frame.t] = @ \cup {frame.k}]
                        ELSE arrived
     \/ /\ Wanted(frame.flow) => lost < MaxLost
        /\ lost' = IF Wanted(frame.flow) THEN lost + 1 ELSE lost
        /\ UNCHANGED <<queue, arrived>>

Host == <<parts, filed, acked, wiped, unanswered, running>>

\* RTS or BAM: the source announces its next transfer; we do so when the last one is sent.
Announce(f, n) ==
  /\ sender[f].st \in {"idle", "sent"} /\ sender[f].t < (IF f \in Small THEN 1 ELSE MaxTransfers)
  /\ sender' = [sender EXCEPT ![f] =
       [st |-> IF Dest(f) = Everybody THEN "data" ELSE "rts",
        t |-> sender[f].t + 1, n |-> n, k |-> 0]]
  /\ Transmit(Frame(Announcement(f), f, sender[f].t + 1, n, 0))
  /\ unanswered' = unanswered \ {f}
  /\ UNCHANGED <<parts, filed, acked, wiped, running, giveups>>

\* Another station answers an RTS with CTS, and the end of the data with EOM.
OtherClears(f) ==
  /\ Dest(f) \notin MyIDs /\ sender[f].st = "rts"
  /\ sender' = [sender EXCEPT ![f].st = "data"]
  /\ Transmit(Frame("CTS", Reverse(f), sender[f].t, 0, 0))
  /\ UNCHANGED <<Host, giveups>>

OtherAcknowledges(f) ==
  /\ Dest(f) \notin MyIDs \cup {Everybody} /\ sender[f].st \in {"eom", "sent"}
  /\ sender' = [sender EXCEPT ![f].st = "idle"]
  /\ Transmit(Frame("EOM", Reverse(f), sender[f].t, 0, 0))
  /\ UNCHANGED <<Host, giveups>>

\* A packet; the loop of _j1939xmit_tp for a transfer of ours, that waits for no CTS.
SendData(f) ==
  LET k == sender[f].k + 1
      last == k = sender[f].n
  IN  /\ sender[f].st = "data" \/ (Ours(f) /\ sender[f].st = "rts")
      /\ sender' = [sender EXCEPT ![f].k = k,
                      ![f].st = IF ~last THEN @
                                ELSE IF Ours(f) THEN "sent"
                                ELSE IF Dest(f) = Everybody THEN "idle" ELSE "eom"]
      /\ Transmit(Frame("DT", f, sender[f].t, 0, k))
      /\ UNCHANGED <<Host, giveups>>

\* The source gives its transfer up, with an abort.
GiveUp(f) ==
  /\ ~Ours(f) /\ sender[f].st # "idle" /\ giveups < MaxGiveUps
  /\ giveups' = giveups + 1
  /\ sender' = [sender EXCEPT ![f].st = "idle"]
  /\ Transmit(Frame("ABORT", f, sender[f].t, 0, 0))
  /\ UNCHANGED Host

\* CANxmit raises in the middle of _j1939xmit_tp: the rest of the transfer is not sent.
BreakOff(f) ==
  /\ Ours(f) /\ sender[f].st \in {"rts", "data"}
  /\ sender' = [sender EXCEPT ![f].st = "idle"]
  /\ UNCHANGED <<Host, queue, arrived, giveups, lost>>

-----------------------------------------------------------------------------
(***************************************************************************)
(* The handlers, run by the thread of _mhe_runner on the head of its queue.*)
(***************************************************************************)

\* saveTPmsg: the message is filed under the PGN of its announcement.
Save(f, p) == filed' = Append(filed, [flow |-> f, pgn |-> p.pgn, length |-> p.length,
                                        content |-> p.msgs])

\* An answer of ours reaches the source, and comes back to the host as well: the
\* transceiver puts what it sends among what it receives.
Answered(type, f, st) ==
  /\ queue' = IF Wanted(Reverse(f))
                THEN Append(Tail(queue), Frame(type, Reverse(f), sender[f].t, 0, 0))
                ELSE Tail(queue)
  /\ sender' = IF sender[f].st = st
                 THEN [sender EXCEPT ![f].st = IF type = "CTS" THEN "data" ELSE "idle"]
                 ELSE sender
  /\ unanswered' = unanswered \ {f}

\* The transceiver has refused it: J1939xmit does not look at the result.
Unanswered(f) ==
  /\ queue' = Tail(queue) /\ UNCHANGED sender
  /\ unanswered' = unanswered \cup {f}

\* The last step of a handler.  Either way recv may raise, and _mhe_runner raises it again.
Answer(type, f, st) ==
  /\ Answered(type, f, st) \/ Unanswered(f)
  /\ running' \in BOOLEAN

NoAnswer == queue' = Tail(queue) /\ UNCHANGED <<sender, unanswered, running>>

\* Faulty variants: old parts are kept for the new message; an RTS is not answered; the
\* PGN of old parts is taken over even if there is nothing of them to file.
HandleAnnouncementKeeps ==
  /\ running /\ queue # <<>> /\ Head(queue).type \in {"RTS", "BAM"}
  /\ LET frame == Head(queue)
         f == frame.flow
     IN  /\ parts' = [parts EXCEPT ![f] =
              <<[length |-> frame.n, pgn |-> Pgn(f, frame.t),
                 msgs |-> IF parts[f] = <<>> THEN <<>> ELSE parts[f][1].msgs]>>]
         /\ IF frame.type = "RTS" /\ Dest(f) \in MyIDs
              THEN Answer("CTS", f, "rts")
              ELSE NoAnswer
         /\ wiped' = wiped \ {f}
  /\ UNCHANGED <<filed, arrived, acked, giveups, lost>>

HandleAnnouncementSilently ==
  /\ running /\ queue # <<>> /\ Head(queue).type \in {"RTS", "BAM"}
  /\ LET frame == Head(queue) IN
       /\ parts' = [parts EXCEPT ![frame.flow] =
                     <<[length |-> frame.n, pgn |-> Pgn(frame.flow, frame.t), msgs |-> <<>>]>>]
       /\ wiped' = wiped \ {frame.flow}
  /\ NoAnswer
  /\ UNCHANGED <<filed, arrived, acked, giveups, lost>>

AnnouncedPgnAlwaysOld(f, t) == IF parts[f] # <<>> THEN parts[f][1].pgn ELSE Pgn(f, t)

\* tp_cm_10 and tp_cm_20.  Old parts are filed, broken off as they are, and the
\* variables pgn2, pgn1 and pgn0 of the announcement are overwritten with theirs.
LeftOver(f) == parts[f] # <<>> /\ parts[f][1].msgs # <<>>

AnnouncedPgn(f, t) == IF LeftOver(f) THEN parts[f][1].pgn ELSE Pgn(f, t)

HandleAnnouncement ==
  /\ running /\ queue # <<>> /\ Head(queue).type \in {"RTS", "BAM"}
  /\ LET frame == Head(queue)
         f == frame.flow
     IN  /\ IF LeftOver(f) THEN Save(f, parts[f][1]) ELSE UNCHANGED filed
         /\ parts' = [parts EXCEPT ![f] =
              <<[length |-> frame.n, pgn |-> AnnouncedPgn(f, frame.t), msgs |-> <<>>]>>]
         /\ IF frame.type = "RTS" /\ Dest(f) \in MyIDs
              THEN Answer("CTS", f, "rts")
              ELSE NoAnswer
         /\ wiped' = wiped \ {f}
  /\ UNCHANGED <<arrived, acked, giveups, lost>>

\* Faulty variants: one packet more is waited for; what is complete is not filed.
HandleDataOffByOne ==
  /\ running /\ queue # <<>> /\ Head(queue).type = "DT"
  /\ LET frame == Head(queue)
         f == frame.flow
         p == [parts[f][1] EXCEPT !.msgs = Append(@, <<frame.t, frame.k>>)]
     IN  IF parts[f] = <<>>
           THEN UNCHANGED <<parts, filed>>
           ELSE IF Len(p.msgs) <= p.length
           THEN parts' = [parts EXCEPT ![f] = <<p>>] /\ UNCHANGED filed
           ELSE parts' = [parts EXCEPT ![f] = <<>>] /\ Save(f, p)
  /\ NoAnswer
  /\ UNCHANGED <<arrived, acked, wiped, giveups, lost>>

HandleDataUnfiled ==
  /\ running /\ queue # <<>> /\ Head(queue).type = "DT"
  /\ LET frame == Head(queue)
         f == frame.flow
         p == [parts[f][1] EXCEPT !.msgs = Append(@, <<frame.t, frame.k>>)]
     IN  IF parts[f] = <<>> \/ Len(p.msgs) < p.length
           THEN /\ parts' = IF parts[f] = <<>> THEN parts
                              ELSE [parts EXCEPT ![f] = <<p>>]
                /\ NoAnswer /\ UNCHANGED acked
           ELSE /\ parts' = [parts EXCEPT ![f] = <<>>]
                /\ IF Dest(f) \in MyIDs
                     THEN /\ Answer("EOM", f, "eom")
                          /\ acked' = IF sender' # sender
                                        THEN acked \cup {<<f, sender[f].t>>} ELSE acked
                     ELSE NoAnswer /\ UNCHANGED acked
  /\ UNCHANGED <<filed, arrived, wiped, giveups, lost>>

\* eb_handler: a packet is added to the parts of its pair, whatever its number;
\* when there are as many as announced, the message is filed, and acknowledged
\* if it was for us.
HandleData ==
  /\ running /\ queue # <<>> /\ Head(queue).type = "DT"
  /\ LET frame == Head(queue)
         f == frame.flow
         p == [parts[f][1] EXCEPT !.msgs = Append(@, <<frame.t, frame.k>>)]
     IN  IF parts[f] = <<>>
           THEN NoAnswer /\ UNCHANGED <<parts, filed, acked>>
           ELSE IF Len(p.msgs) < p.length
           THEN /\ parts' = [parts EXCEPT ![f] = <<p>>]
                /\ NoAnswer /\ UNCHANGED <<filed, acked>>
           ELSE /\ parts' = [parts EXCEPT ![f] = <<>>]
                /\ Save(f, p)
                /\ IF Dest(f) \in MyIDs
                     THEN /\ Answer("EOM", f, "eom")
                          /\ acked' = IF sender' # sender
                                        THEN acked \cup {<<f, sender[f].t>>} ELSE acked
                     ELSE NoAnswer /\ UNCHANGED acked
  /\ UNCHANGED <<arrived, wiped, giveups, lost>>

\* tp_cm_13: the parts of the pair that sent the EOM are dropped.
HandleEOM ==
  /\ running /\ queue # <<>> /\ Head(queue).type = "EOM"
  /\ LET f == Head(queue).flow IN
       /\ parts' = IF f \in Flows THEN [parts EXCEPT ![f] = <<>>] ELSE parts
       /\ wiped' = IF f \in Flows /\ parts[f] # <<>> THEN wiped \cup {f} ELSE wiped
  /\ NoAnswer
  /\ UNCHANGED <<filed, arrived, acked, giveups, lost>>

\* tp_cm_11 only takes note of a CTS; an abort has no handler.
HandleOther ==
  /\ running /\ queue # <<>> /\ Head(queue).type \in {"CTS", "ABORT"}
  /\ NoAnswer
  /\ UNCHANGED <<parts, filed, arrived, acked, wiped, giveups, lost>>

-----------------------------------------------------------------------------

Handle == HandleAnnouncement \/ HandleData \/ HandleEOM \/ HandleOther

Station(f) ==
  \/ \E n \in PacketCounts : (f \in Small => n = 2) /\ Announce(f, n)
  \/ OtherClears(f) \/ OtherAcknowledges(f)
  \/ SendData(f)
  \/ GiveUp(f) \/ BreakOff(f)

TransportNext == (\E f \in Flows : Station(f)) \/ Handle

TransportSpec == TransportInit /\ [][TransportNext]_tpVars

\* The thread of _mhe_runner takes what is queued, and stations go on with a
\* transfer; no station has to start one or to give up.
TransportFairSpec ==
  /\ TransportSpec
  /\ WF_tpVars(Handle)
  /\ \A f \in Flows : WF_tpVars(OtherClears(f) \/ OtherAcknowledges(f) \/ SendData(f))

-----------------------------------------------------------------------------

Exact(t, n) == [k \in 1 .. n |-> <<t, k>>]

\* How often the whole of transfer t of a flow has been filed.
TimesFiled(f, t, n) ==
  Cardinality({i \in 1 .. Len(filed) :
                 filed[i].flow = f /\ filed[i].content = Exact(t, n)})

Handled(f) == \A i \in 1 .. Len(queue) : queue[i].flow # f

\* A transfer whose frames have all arrived is filed once, with all its packets
\* in their places: what was lost or broken off before it does no harm.  The exception
\* is a transfer whose parts tp_cm_13 took for those of one in the other direction.
CompleteIsFiled ==
  \A f \in Flows \ wiped :
    LET s == sender[f] IN
    Handled(f) /\ s.t > 0 /\ s.k = s.n /\ arrived[f][s.t] = 0 .. s.n
      => TimesFiled(f, s.t, s.n) = 1

\* Packets of two transfers end up in one message only if the announcement of the
\* later one was lost.
MixedOnlyAfterLoss ==
  \A i \in 1 .. Len(filed) : \A j \in 2 .. Len(filed[i].content) :
    LET t == filed[i].content[j][1] IN
    t # filed[i].content[1][1] => 0 \notin arrived[filed[i].flow][t]

\* What we acknowledge to its source has been filed in full, even on a lossy bus,
\* if at least its announcement got through.  The exception needs two transfers that were
\* given up while their frames waited in the queue: a CTS for the first lets the source
\* go on with the second, and an EOM for that one is taken for the third, which is
\* still waiting, for both are known by their addresses only.
AcknowledgedIsFiled ==
  giveups < 2 =>
  \A x \in acked : 0 \in arrived[x[1]][x[2]] =>
    \E i \in 1 .. Len(filed), n \in PacketCounts :
      filed[i].flow = x[1] /\ filed[i].content = Exact(x[2], n)

\* Without losses, a station that sends to us gets to the end of its transfer, unless an
\* answer of ours did not go out, the thread that handles its frames has ended, or an
\* acknowledgement of a transfer of ours has dropped the parts of it.
TransfersEnd ==
  \A f \in Flows :
    (sender[f].st = "rts" /\ Dest(f) \in MyIDs) ~>
      (sender[f].st = "idle" \/ lost > 0 \/ f \in unanswered \/ ~running \/ f \in wiped)

\* "pgn2 is PS/DA, pgn1 is PF, pgn0 is prio/edp/dp" (ec_handler): what another station
\* has sent is filed under the PGN that the announcement of its packets gave, if that
\* arrived, unless the message filed before it for the same addresses had been broken off.
\* Then it gets the PGN of that one.
FiledUnderItsPgn ==
  \A i \in 1 .. Len(filed) :
    LET f == filed[i].flow
        t == filed[i].content[1][1]
        earlier == {j \in 1 .. i - 1 : filed[j].flow = f}
    IN  ~Ours(f) /\ filed[i].pgn # t /\ 0 \in arrived[f][t] =>
          \E j \in earlier : /\ \A l \in earlier : l <= j
                             /\ Len(filed[j].content) < filed[j].length
                             /\ filed[i].pgn = filed[j].pgn

=============================================================================
