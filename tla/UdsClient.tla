------------------------------ MODULE UdsClient ------------------------------
(***************************************************************************)
(* A UDS client (cancatlib/uds/__init__.py) on ISO-TP messages pieced      *)
(* together from the mailbox of received frames (CanInterface              *)
(* .ISOTPxmit_recv and _isotp_get_msg, iso_tp.msg_decode).                 *)
(*                                                                         *)
(* A call sends its request and then decodes, again and again, what has    *)
(* come since.  The ECU works off the requests one after the other; it may *)
(* take longer than the client waits, and frames may be lost on the way.   *)
(* The thread of SendTesterPresent sends requests in between.              *)
(***************************************************************************)
EXTENDS Integers, Sequences

CONSTANTS
  Services,       \* the first bytes of positive answers that calls ask for
  TesterAnswers,  \* kinds of answers to TesterPresent: "positive", "negative"
  MaxParts,       \* bound: frames of an answer
  MaxCalls,       \* bound: calls of xmit_recv
  MaxTester,      \* bound: TesterPresent requests
  MaxPending,     \* bound: answers "response pending"
  MaxLost         \* bound: frames lost

ASSUME UdsAssumption ==
  /\ TesterAnswers \subseteq {"positive", "negative"}
  /\ {MaxParts, MaxCalls, MaxTester, MaxPending, MaxLost} \subseteq Nat

VARIABLES
  st,        \* what the client does
  filed,     \* the frames in the mailbox, counted from the beginning of the call
  unread,    \* those of the ECU from start_index of _isotp_get_msg on, as genCanMsgs
             \* yields them, each with its index in the mailbox
  call,      \* the last call: its number, service, and whether it named the service
  ended,     \* history: how the last call ended, and the message it ended with
  clean,     \* history: nothing of an earlier call was left when this one began,
             \* and no frame has been lost since
  wire,      \* requests handed to the transceiver
  requests,  \* requests the ECU has not answered yet
  sending,   \* frames of the answer the ECU is sending
  tested, pendings, lost

ecuVars == <<requests, sending>>
counters == <<tested, pendings, lost>>
mailbox == <<filed, unread>>
udsVars == <<st, mailbox, call, ended, clean, wire, ecuVars, counters>>

(***************************************************************************)
(* A request is numbered by its call, and 0 stands for TesterPresent.  An  *)
(* answer has one frame, or a first frame and consecutive ones.            *)
(***************************************************************************)
Request(i, s) == [call |-> i, service |-> s]
TesterPresent == Request(0, "TesterPresent")
Answer(r, kind, parts) == [to |-> r, kind |-> kind, parts |-> parts]
Frames(a) == [k \in 1 .. a.parts |-> [answer |-> a, k |-> k]]

UdsInit ==
  /\ st = "idle" /\ filed = 0 /\ unread = <<>>
  /\ call = [request |-> TesterPresent, named |-> TRUE]
  /\ ended = [how |-> "none", call |-> 0, message |-> <<>>]
  /\ clean = TRUE
  /\ wire = <<>> /\ requests = <<>> /\ sending = <<>>
  /\ tested = 0 /\ pendings = 0 /\ lost = 0

-----------------------------------------------------------------------------
(***************************************************************************)
(* The ECU and the link.  The transceiver puts the request on the bus and  *)
(* reports it among the received frames.  No call looks at what comes when *)
(* none is under way.                                                      *)
(***************************************************************************)
Receive == filed' = IF st = "idle" THEN 0 ELSE filed + 1

SendRequest ==
  /\ wire # <<>>
  /\ wire' = Tail(wire)
  /\ requests' = Append(requests, Head(wire))
  /\ Receive
  /\ st' = IF st = "sending" /\ Head(wire) = call.request THEN "waiting" ELSE st
  /\ UNCHANGED <<unread, call, ended, clean, sending, counters>>

Kinds(r) == IF r = TesterPresent THEN TesterAnswers ELSE {"positive", "negative"}

\* Only positive answers to calls take more than one frame.
Replies ==
  /\ requests # <<>> /\ sending = <<>>
  /\ \E kind \in Kinds(Head(requests)), parts \in 1 .. MaxParts :
       /\ parts > 1 => kind = "positive" /\ Head(requests) # TesterPresent
       /\ sending' = Frames(Answer(Head(requests), kind, parts))
  /\ requests' = Tail(requests)
  /\ UNCHANGED <<st, mailbox, call, ended, clean, wire, counters>>

RepliesPending ==
  /\ requests # <<>> /\ sending = <<>> /\ Head(requests) # TesterPresent
  /\ pendings < MaxPending
  /\ pendings' = pendings + 1
  /\ sending' = Frames(Answer(Head(requests), "pending", 1))
  /\ UNCHANGED <<st, mailbox, call, ended, clean, wire, requests, tested, lost>>

FrameArrives ==
  /\ sending # <<>>
  /\ sending' = Tail(sending)
  /\ Receive
  /\ unread' = IF st = "idle" THEN <<>>
               ELSE Append(unread, [frame |-> Head(sending), idx |-> filed + 1])
  /\ UNCHANGED <<st, call, ended, clean, wire, requests, counters>>

FrameLost ==
  /\ sending # <<>> /\ lost < MaxLost
  /\ sending' = Tail(sending)
  /\ lost' = lost + 1 /\ clean' = FALSE
  /\ UNCHANGED <<st, mailbox, call, ended, wire, requests, tested, pendings>>

\* SendTesterPresent of StartTesterPresent's thread.
SendTesterPresent ==
  /\ tested < MaxTester
  /\ tested' = tested + 1
  /\ wire' = Append(wire, TesterPresent)
  /\ UNCHANGED <<st, mailbox, call, ended, clean, ecuVars, pendings, lost>>

-----------------------------------------------------------------------------
(***************************************************************************)
(* msg_decode takes frames until a message is complete.  The remaining     *)
(* length counts in frames; a wrong index is only reported.                *)
(***************************************************************************)
IsSingle(f) == f.k = 1 /\ f.answer.parts = 1
IsFirst(f) == f.k = 1 /\ f.answer.parts > 1

\* Faulty variants: the last frame of a message is not waited for, or one more is.
LengthReachedEarly(frames, i) ==
  \E j \in 1 .. i : /\ IsFirst(frames[j]) /\ i - j = frames[j].answer.parts - 2
                    /\ \A m \in j + 1 .. i : frames[m].k > 1

LengthReachedLate(frames, i) ==
  \E j \in 1 .. i : /\ IsFirst(frames[j]) /\ i - j = frames[j].answer.parts
                    /\ \A m \in j + 1 .. i : frames[m].k > 1

\* The frame i is the last one that the last first frame before it announced.
LengthReached(frames, i) ==
  \E j \in 1 .. i : /\ IsFirst(frames[j]) /\ i - j = frames[j].answer.parts - 1
                    /\ \A m \in j + 1 .. i : frames[m].k > 1

\* A single frame ends a message that is not complete.
CutOff(frames, i) == i < Len(frames) /\ IsSingle(frames[i + 1])

Ends(frames) == {i \in 1 .. Len(frames) : LengthReached(frames, i) \/ CutOff(frames, i)}

\* The number of frames of the message, 0 while it is incomplete.
msg_decode(frames) ==
  IF frames = <<>> THEN 0
  ELSE IF IsSingle(frames[1]) THEN 1
  ELSE IF Ends(frames) = {} THEN 0
  ELSE CHOOSE i \in Ends(frames) : \A j \in Ends(frames) : i <= j

(***************************************************************************)
(* The client.                                                             *)
(***************************************************************************)
\* ISOTPxmit_recv notes the end of the mailbox before it sends.  The result of sending is
\* tied to the request here; that the next call takes a late one is in CanCommands.
Call(s, named) ==
  /\ st = "idle" /\ call.request.call < MaxCalls
  /\ call' = [request |-> Request(call.request.call + 1, s), named |-> named]
  /\ filed' = 0 /\ unread' = <<>>
  /\ wire' = Append(wire, call'.request)
  /\ st' = "sending"
  /\ clean' = (sending = <<>> /\ \A q \in {wire, requests} :
                                 \A i \in 1 .. Len(q) : q[i] = TesterPresent)
  /\ UNCHANGED <<ended, ecuVars, counters>>

End(how, message) ==
  /\ st' = "idle"
  /\ ended' = [how |-> how, call |-> call.request.call, message |-> message]
  /\ filed' = 0 /\ unread' = <<>>
  /\ UNCHANGED <<call, clean, wire, ecuVars, counters>>

\* Without the transceiver's result, ord(None) raises; later there is UDSTimeout.
Timeout == st \in {"sending", "waiting"} /\ End("timeout", <<>>)

\* What genCanMsgs yields of the ECU, from start_index on.
FromEcu == [i \in 1 .. Len(unread) |-> unread[i].frame]

\* Faulty variant: the frame after the message is skipped as well.
LastOfAndNext(count) == unread[count].idx + 1

\* The index of the last frame of a message.
LastOf(count) == unread[count].idx

\* _isotp_get_msg goes on with the index behind the answer, as does xmit_recv after a
\* "pending".
Skip(count) ==
  /\ \E n \in 0 .. Len(unread) :
       /\ \A i \in 1 .. Len(unread) : i > n <=> unread[i].idx > LastOf(count)
       /\ unread' = SubSeq(unread, n + 1, Len(unread))
  /\ UNCHANGED <<st, filed, call, ended, clean, wire, ecuVars, counters>>

ToTester(a) == a.to = TesterPresent /\ a.kind = "positive"

\* Any negative answer is taken for one to this call.
Matches(a) == a.kind = "positive" /\ a.to.service = call.request.service

IsPending(a) == a.kind = "pending"

\* A consecutive frame without a first one cannot be decoded.
Stray(frames) == frames # <<>> /\ frames[1].k > 1

\* A message that does not match, when no service was named, is read as a negative
\* answer, whose code is any byte or missing.
Outcome(message) ==
  LET a == message[1].answer IN
  IF ToTester(a) THEN "skip"
  ELSE IF Matches(a) THEN "returned"
  ELSE IF IsPending(a) THEN "skip"
  ELSE IF a.kind # "positive" THEN "refused"
  ELSE IF call.named THEN "skip" ELSE "misread"

Poll ==
  /\ st = "waiting"
  /\ \E frames \in {FromEcu} : \E count \in {msg_decode(frames)} :
       IF Stray(frames) THEN End("raised", <<>>)
       ELSE /\ count > 0
            /\ \E how \in {Outcome(frames)} :
                 \/ how # "skip" /\ End(how, SubSeq(frames, 1, count))
                 \/ how \in {"skip", "misread"} /\ Skip(count)

Client == Poll \/ Timeout \/ \E s \in Services, named \in BOOLEAN : Call(s, named)
Ecu == Replies \/ RepliesPending \/ FrameArrives \/ FrameLost

UdsNext == Client \/ Ecu \/ SendRequest \/ SendTesterPresent

UdsSpec == UdsInit /\ [][UdsNext]_udsVars

\* The client polls, the transceiver sends, and the ECU goes on; no time-out has to
\* happen.
UdsFairSpec ==
  /\ UdsSpec
  /\ WF_udsVars(Poll) /\ WF_udsVars(SendRequest)
  /\ WF_udsVars(Replies) /\ WF_udsVars(FrameArrives)

-----------------------------------------------------------------------------
(***************************************************************************)
(* Properties.                                                             *)
(***************************************************************************)
\* A call that begins when the ECU is done with earlier ones, and loses no frame,
\* ends with the whole of a final answer to its own request, or by time-out: answers
\* to TesterPresent, "pending" and what earlier calls have left in the mailbox do not
\* get in its way.
OwnWholeAnswer ==
  ended.call = call.request.call /\ clean /\ ended.how \in {"returned", "refused"} =>
    \E parts \in 1 .. MaxParts, kind \in {"positive", "negative"} :
      /\ ended.message = Frames(Answer(call.request, kind, parts))
      /\ (kind = "positive") = (ended.how = "returned")

\* Such a call never meets a frame that it cannot decode, nor a message that it reads
\* as an error.
NoStrayMessage ==
  ended.call = call.request.call /\ clean => ended.how \notin {"raised", "misread"}

\* It ends without a time-out, if the ECU answers.
CleanCallEnds == (st # "idle" /\ clean) ~> (st = "idle" \/ ~clean)

=============================================================================
