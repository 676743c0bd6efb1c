--------------------------- MODULE UdsClientProofs ---------------------------
(***************************************************************************)
(* Theorems about UdsClient, for any number of calls, services, frames of  *)
(* an answer, TesterPresent requests and pending responses.                *)
(*                                                                         *)
(* What a clean call finds in the mailbox, followed by what the ECU is     *)
(* sending, are single frames that it skips, and among them the frames of  *)
(* the final answer to its request, one after the other, once the ECU has  *)
(* taken that request.  The frames that it skips leave the answer as it    *)
(* is, so the first message that it does not skip is the whole answer.     *)
(***************************************************************************)
EXTENDS UdsClient, TLAPS

\* The ECU does not refuse TesterPresent.
NeverRefused == "negative" \notin TesterAnswers

-----------------------------------------------------------------------------
(***************************************************************************)
(* The parts of the invariant.                                             *)
(***************************************************************************)
Requests == [call : Nat, service : Services \cup {"TesterPresent"}]
Kind == {"positive", "negative", "pending"}
Frame == [answer : [to : Requests, kind : Kind, parts : Nat], k : Nat]

\* What genCanMsgs yields.
Entry == [frame : Frame, idx : Nat]

UdsTypes ==
  /\ st \in {"idle", "sending", "waiting"}
  /\ filed \in Nat
  /\ unread \in Seq(Entry)
  /\ call \in [request : Requests, named : BOOLEAN]
  /\ clean \in BOOLEAN
  /\ wire \in Seq(Requests) /\ requests \in Seq(Requests) /\ sending \in Seq(Frame)
  /\ ended.call \in Nat

\* Calls are numbered; the last to end is the one under way, or one before it.
Numbered ==
  /\ ended.call <= call.request.call
  /\ st # "idle" => ended.call < call.request.call

\* genCanMsgs yields the frames in the order of the mailbox.
Indexed ==
  /\ st = "idle" => filed = 0
  /\ \A i \in 1 .. Len(unread) : unread[i].idx <= filed
  /\ \A i, j \in 1 .. Len(unread) : i < j => unread[i].idx < unread[j].idx

OnlyTesters(q) == \A i \in 1 .. Len(q) : q[i] = TesterPresent

\* Request r is in q once, with none of another call.
Once(q, r) ==
  \E j \in 1 .. Len(q) : q[j] = r /\ \A i \in 1 .. Len(q) : i # j => q[i] = TesterPresent

AskedIn(q) == Once(q, call.request)

\* A message that the call skips.
Skipped(f) ==
  /\ IsSingle(f)
  /\ \/ f.answer.to = TesterPresent /\ f.answer.kind = "positive"
     \/ f.answer.to = call.request /\ f.answer.kind = "pending"

AllSkipped ==
  /\ \A i \in 1 .. Len(unread) : Skipped(unread[i].frame)
  /\ \A i \in 1 .. Len(sending) : Skipped(sending[i])

\* With before frames before it, answer a stands among frames that are skipped.
Amidst(f, n, before, a) ==
  IF n \in before + 1 .. before + a.parts
    THEN f = [answer |-> a, k |-> n - before]
    ELSE Skipped(f)

AnswerAfter(before, a) ==
  /\ \A i \in 1 .. Len(unread) : Amidst(unread[i].frame, i, before, a)
  /\ \A i \in 1 .. Len(sending) : Amidst(sending[i], Len(unread) + i, before, a)
  /\ before + a.parts <= Len(unread) + Len(sending)

Final == {Answer(call.request, kind, parts) : kind \in {"positive", "negative"},
                                              parts \in 1 .. MaxParts}

Answered == \E before \in Nat, a \in Final : AnswerAfter(before, a)

\* Where the request is, or its answer.
Course ==
  clean /\ st # "idle" =>
    \/ AskedIn(wire) /\ OnlyTesters(requests) /\ AllSkipped
    \/ OnlyTesters(wire) /\ AskedIn(requests) /\ AllSkipped
    \/ OnlyTesters(wire) /\ OnlyTesters(requests) /\ Answered

Typed == UdsTypes /\ Numbered /\ Indexed

UdsInv == Typed /\ Course /\ OwnWholeAnswer /\ NoStrayMessage

-----------------------------------------------------------------------------
(***************************************************************************)
(* What msg_decode makes of the frames.                                    *)
(***************************************************************************)
LEMMA NonEmpty ==
  ASSUME NEW S, NEW q \in Seq(S), q # <<>>
  PROVE  Len(q) \in Nat /\ Len(q) >= 1 /\ 1 \in 1 .. Len(q)
OBVIOUS

LEMMA SubSeqRest ==
  ASSUME NEW S, NEW q \in Seq(S), NEW n \in 0 .. Len(q)
  PROVE  LET r == SubSeq(q, n + 1, Len(q)) IN
         /\ r \in Seq(S) /\ Len(r) = Len(q) - n
         /\ \A i \in 1 .. Len(r) : i + n \in 1 .. Len(q) /\ r[i] = q[i + n]
<1> DEFINE r == SubSeq(q, n + 1, Len(q))
<1>1. Len(q) \in Nat /\ n \in Nat /\ n <= Len(q)
      OBVIOUS
<1>2. r = [i \in 1 .. Len(q) - n |-> q[i + n]]
      BY <1>1
<1>3. \A i \in 1 .. Len(q) - n : i + n \in 1 .. Len(q) /\ q[i + n] \in S
      BY <1>1
<1> HIDE DEF r
<1>4. r \in Seq(S) /\ Len(r) = Len(q) - n
      BY <1>1, <1>2, <1>3
<1>. QED  BY <1>2, <1>3, <1>4 DEF r

LEMMA DecodeSingle ==
  ASSUME NEW frames, frames # <<>>, IsSingle(frames[1])
  PROVE  msg_decode(frames) = 1
BY DEF msg_decode

\* The frames of an answer are one message, and an incomplete one before the last.
LEMMA DecodeAnswer ==
  ASSUME NEW frames \in Seq(Frame), NEW a, a.parts \in Nat, a.parts > 1, frames # <<>>,
         \A i \in 1 .. Len(frames) : i <= a.parts => frames[i] = [answer |-> a, k |-> i]
  PROVE  msg_decode(frames) = IF a.parts <= Len(frames) THEN a.parts ELSE 0
<1> DEFINE n == a.parts
<1>a. Len(frames) \in Nat /\ Len(frames) >= 1 /\ n \in Nat /\ n > 1
  <2>1. Len(frames) \in Nat /\ Len(frames) >= 1
        BY NonEmpty
  <2>2. n \in Nat /\ n > 1
        OBVIOUS
  <2>. QED  BY <2>1, <2>2
<1>b. \A i \in 1 .. Len(frames) : i <= n =>
        /\ frames[i].k = i /\ frames[i].answer.parts = n
        /\ IsFirst(frames[i]) <=> i = 1
        /\ ~IsSingle(frames[i])
  <2> SUFFICES ASSUME NEW i \in 1 .. Len(frames), i <= n
               PROVE  /\ frames[i].k = i /\ frames[i].answer.parts = n
                      /\ IsFirst(frames[i]) <=> i = 1
                      /\ ~IsSingle(frames[i])
      OBVIOUS
  <2>1. frames[i] = [answer |-> a, k |-> i]
        OBVIOUS
  <2>2. frames[i].k = i /\ frames[i].answer = a
        BY <2>1
  <2>. QED  BY <1>a, <2>2 DEF IsFirst, IsSingle
<1>1. ASSUME NEW i \in Ends(frames) PROVE i >= n
  <2>1. SUFFICES ASSUME i < n PROVE FALSE
        BY <1>a DEF Ends
  <2>2. i \in 1 .. Len(frames)
        BY DEF Ends
  <2>3. ~CutOff(frames, i)
        BY <1>a, <1>b, <2>1, <2>2 DEF CutOff
  <2>4. ~LengthReached(frames, i)
    <3> SUFFICES ASSUME NEW j \in 1 .. i, IsFirst(frames[j]), i - j = frames[j].answer.parts - 1
                 PROVE  FALSE
        BY DEF LengthReached
    <3>1. j \in 1 .. Len(frames) /\ j <= n
          BY <1>a, <2>1, <2>2
    <3>2. j = 1 /\ frames[j].answer.parts = n
          BY <1>b, <3>1
    <3>. QED  BY <1>a, <2>1, <2>2, <3>2
  <2>. QED  BY <2>3, <2>4 DEF Ends
<1>2. CASE n <= Len(frames)
  <2>1. LengthReached(frames, n)
    <3>1. IsFirst(frames[1]) /\ n - 1 = frames[1].answer.parts - 1 /\ 1 \in 1 .. n
          BY <1>a, <1>b
    <3>2. \A m \in 1 + 1 .. n : frames[m].k > 1
          BY <1>a, <1>b, <1>2
    <3>. QED  BY <3>1, <3>2 DEF LengthReached
  <2>2. n \in Ends(frames)
        BY <1>a, <1>2, <2>1 DEF Ends
  <2>3. \A i \in Ends(frames) : i \in Nat
        BY <1>a DEF Ends
  <2> DEFINE c == CHOOSE i \in Ends(frames) : \A j \in Ends(frames) : i <= j
  <2>4. c \in Ends(frames) /\ \A j \in Ends(frames) : c <= j
    <3>1. \E i \in Ends(frames) : \A j \in Ends(frames) : i <= j
          BY <1>1, <2>2
    <3>. QED  BY <3>1
  <2>5. c = n
    <3>1. c <= n /\ c >= n /\ c \in Nat
          BY <1>1, <2>2, <2>3, <2>4
    <3> HIDE DEF c
    <3>. QED  BY <1>a, <3>1
  <2>6. ~IsSingle(frames[1]) /\ Ends(frames) # {}
        BY <1>a, <1>b, <2>2
  <2>. QED  BY <1>2, <2>5, <2>6 DEF msg_decode
<1>3. CASE ~(n <= Len(frames))
  <2>1. Ends(frames) = {}
    <3>1. \A i \in Ends(frames) : i \in 1 .. Len(frames)
          BY DEF Ends
    <3>. QED  BY <1>1, <1>3, <1>a, <3>1
  <2>2. ~IsSingle(frames[1])
        BY <1>a, <1>b
  <2>. QED  BY <1>3, <2>1, <2>2 DEF msg_decode
<1>. QED  BY <1>2, <1>3

-----------------------------------------------------------------------------
(***************************************************************************)
(* Requests in their queues.                                               *)
(***************************************************************************)
LEMMA QueueAppend ==
  ASSUME NEW q \in Seq(Requests), NEW x \in Requests, NEW r
  PROVE  /\ x = TesterPresent /\ OnlyTesters(q) => OnlyTesters(Append(q, x))
         /\ x = TesterPresent /\ Once(q, r) => Once(Append(q, x), r)
         /\ x = r /\ OnlyTesters(q) => Once(Append(q, x), r)
<1> DEFINE t == Append(q, x)
<1>1. /\ Len(t) = Len(q) + 1 /\ Len(q) \in Nat /\ t[Len(q) + 1] = x
      /\ \A i \in 1 .. Len(q) : t[i] = q[i]
      OBVIOUS
<1> HIDE DEF t
<1>2. \A i \in 1 .. Len(t) : i \in 1 .. Len(q) \/ i = Len(q) + 1
      BY <1>1
<1>3. ASSUME OnlyTesters(q), x = TesterPresent PROVE OnlyTesters(t)
      BY <1>1, <1>2, <1>3 DEF OnlyTesters
<1>4. ASSUME Once(q, r), x = TesterPresent PROVE Once(t, r)
  <2>1. PICK j \in 1 .. Len(q) : q[j] = r /\ \A i \in 1 .. Len(q) : i # j => q[i] = TesterPresent
        BY <1>4 DEF Once
  <2>2. j \in 1 .. Len(t) /\ t[j] = r
        BY <1>1, <2>1
  <2>3. \A i \in 1 .. Len(t) : i # j => t[i] = TesterPresent
        BY <1>1, <1>2, <1>4, <2>1
  <2>. QED  BY <2>2, <2>3 DEF Once
<1>5. ASSUME OnlyTesters(q), x = r PROVE Once(t, r)
  <2>1. Len(q) + 1 \in 1 .. Len(t)
        BY <1>1
  <2>. QED  BY <1>1, <1>2, <1>5, <2>1 DEF OnlyTesters, Once
<1>. QED  BY <1>3, <1>4, <1>5 DEF t

LEMMA QueueTail ==
  ASSUME NEW q \in Seq(Requests), q # <<>>, NEW r
  PROVE  /\ OnlyTesters(q) => Head(q) = TesterPresent /\ OnlyTesters(Tail(q))
         /\ Once(q, r) => \/ Head(q) = TesterPresent /\ Once(Tail(q), r)
                          \/ Head(q) = r /\ OnlyTesters(Tail(q))
<1> DEFINE t == Tail(q)
<1>1. /\ Len(q) \in Nat /\ Len(q) >= 1 /\ Len(t) = Len(q) - 1 /\ Head(q) = q[1]
      /\ \A i \in 1 .. Len(t) : t[i] = q[i + 1] /\ i + 1 \in 1 .. Len(q) /\ i + 1 # 1
      OBVIOUS
<1> HIDE DEF t
<1>2. 1 \in 1 .. Len(q)
      BY <1>1
<1>3. ASSUME OnlyTesters(q) PROVE Head(q) = TesterPresent /\ OnlyTesters(t)
      BY <1>1, <1>2, <1>3 DEF OnlyTesters
<1>4. ASSUME Once(q, r)
      PROVE  \/ Head(q) = TesterPresent /\ Once(t, r)
             \/ Head(q) = r /\ OnlyTesters(t)
  <2>1. PICK j \in 1 .. Len(q) : q[j] = r /\ \A i \in 1 .. Len(q) : i # j => q[i] = TesterPresent
        BY <1>4 DEF Once
  <2>2. CASE j = 1
        BY <1>1, <2>1, <2>2 DEF OnlyTesters
  <2>3. CASE j # 1
    <3>1. j - 1 \in 1 .. Len(t) /\ t[j - 1] = r
      <4>1. j - 1 \in 1 .. Len(t) /\ (j - 1) + 1 = j
            BY <1>1, <2>1, <2>3
      <4>. QED  BY <1>1, <2>1, <4>1
    <3>2. \A i \in 1 .. Len(t) : i # j - 1 => t[i] = TesterPresent
      <4>1. \A i \in 1 .. Len(t) : i # j - 1 => i + 1 # j
            BY <1>1, <2>1
      <4>. QED  BY <1>1, <2>1, <4>1
    <3>3. Head(q) = TesterPresent
          BY <1>1, <1>2, <2>1, <2>3
    <3>. QED  BY <3>1, <3>2, <3>3 DEF Once
  <2>. QED  BY <2>2, <2>3
<1>. QED  BY <1>3, <1>4 DEF t

-----------------------------------------------------------------------------
(***************************************************************************)
(* Types and order of the mailbox.                                         *)
(***************************************************************************)
LEMMA InitTyped == UdsInit => Typed
<1> SUFFICES ASSUME UdsInit PROVE Typed
    OBVIOUS
<1>1. UdsTypes
      BY DEF UdsInit, UdsTypes, Requests, TesterPresent, Request
<1>2. Numbered /\ Indexed
      BY DEF UdsInit, Numbered, Indexed, TesterPresent, Request
<1>. QED  BY <1>1, <1>2 DEF Typed

LEMMA FramesTyped ==
  ASSUME NEW r \in Requests, NEW kind \in Kind, NEW parts \in Nat
  PROVE  LET a == Answer(r, kind, parts) IN
         /\ a.to = r /\ a.kind = kind /\ a.parts = parts
         /\ Frames(a) \in Seq(Frame) /\ Len(Frames(a)) = parts
         /\ \A i \in 1 .. parts : Frames(a)[i] = [answer |-> a, k |-> i]
<1> DEFINE a == Answer(r, kind, parts)
<1>1. /\ a.to = r /\ a.kind = kind /\ a.parts = parts
      /\ a \in [to : Requests, kind : Kind, parts : Nat]
      BY DEF Answer
<1> HIDE DEF a
<1>2. \A i \in 1 .. parts : [answer |-> a, k |-> i] \in Frame
      BY <1>1 DEF Frame
<1>3. Frames(a) = [i \in 1 .. parts |-> [answer |-> a, k |-> i]]
      BY <1>1 DEF Frames
<1>. QED  BY <1>1, <1>2, <1>3 DEF a

LEMMA OneFrame ==
  ASSUME NEW r \in Requests, NEW kind \in Kind, NEW a, a = Answer(r, kind, 1)
  PROVE  /\ a.to = r /\ a.kind = kind /\ a.parts = 1
         /\ Len(Frames(a)) = 1 /\ Frames(a)[1] = [answer |-> a, k |-> 1]
<1>1. PICK parts \in Nat : parts = 1
      OBVIOUS
<1>2. a = Answer(r, kind, parts)
      BY <1>1
<1>3. /\ a.to = r /\ a.kind = kind /\ a.parts = parts /\ Len(Frames(a)) = parts
      /\ \A i \in 1 .. parts : Frames(a)[i] = [answer |-> a, k |-> i]
      BY <1>2, FramesTyped
<1>. QED  BY <1>1, <1>3

\* What is skipped leaves the order of the rest.
LEMMA SkipTyped ==
  ASSUME Typed, NEW count, Skip(count)
  PROVE  Typed'
<1>1. PICK n \in 0 .. Len(unread) : unread' = SubSeq(unread, n + 1, Len(unread))
      BY DEF Skip
<1>2. /\ unread \in Seq(Entry) /\ Len(unread) \in Nat
      BY DEF Typed, UdsTypes
<1>3. /\ unread' \in Seq(Entry) /\ Len(unread') = Len(unread) - n
      /\ \A i \in 1 .. Len(unread') : unread'[i] = unread[i + n] /\ i + n \in 1 .. Len(unread)
      BY <1>1, <1>2, SubSeqRest
<1>4. UNCHANGED <<st, filed, call, ended, clean, wire, requests, sending>>
      BY DEF Skip, ecuVars
<1>5. UdsTypes' /\ Numbered'
      BY <1>3, <1>4 DEF Typed, UdsTypes, Numbered
<1>6. Indexed'
  <2>1. \A i, j \in 1 .. Len(unread') : i < j => i + n < j + n
        BY <1>1, <1>2
  <2>. QED  BY <1>3, <1>4, <2>1 DEF Typed, Indexed
<1>. QED  BY <1>5, <1>6 DEF Typed

LEMMA EndTyped ==
  ASSUME Typed, st # "idle", NEW how, NEW message, End(how, message)
  PROVE  /\ Typed'
         /\ st' = "idle" /\ call' = call /\ clean' = clean
         /\ ended' = [how |-> how, call |-> call.request.call, message |-> message]
<1>1. call.request.call \in Nat
      BY DEF Typed, UdsTypes, Requests
<1>2. /\ st' = "idle" /\ filed' = 0 /\ unread' = <<>>
      /\ ended' = [how |-> how, call |-> call.request.call, message |-> message]
      /\ UNCHANGED <<call, clean, wire, requests, sending>>
      BY DEF End, ecuVars
<1>3. UdsTypes' /\ Numbered'
      BY <1>1, <1>2 DEF Typed, UdsTypes, Numbered
<1>4. Indexed'
      BY <1>2 DEF Indexed
<1>. QED  BY <1>2, <1>3, <1>4 DEF Typed

\* A frame is filed behind those that are there.
LEMMA ArrivesTyped ==
  ASSUME Typed, FrameArrives
  PROVE  Typed'
<1>1. /\ unread \in Seq(Entry) /\ Len(unread) \in Nat /\ filed \in Nat
      /\ sending \in Seq(Frame) /\ sending # <<>>
      BY DEF Typed, UdsTypes, FrameArrives
<1>2. Head(sending) \in Frame /\ Tail(sending) \in Seq(Frame)
      BY <1>1
<1>3. UNCHANGED <<st, call, ended, clean, wire, requests>> /\ sending' = Tail(sending)
      BY DEF FrameArrives
<1>4. CASE st = "idle"
  <2>1. filed' = 0 /\ unread' = <<>>
        BY <1>4 DEF FrameArrives, Receive
  <2>. QED  BY <1>2, <1>3, <2>1 DEF Typed, UdsTypes, Numbered, Indexed
<1>5. CASE st # "idle"
  <2> DEFINE new == [frame |-> Head(sending), idx |-> filed + 1]
  <2>1. filed' = filed + 1 /\ unread' = Append(unread, new)
        BY <1>5 DEF FrameArrives, Receive
  <2>2. new \in Entry /\ new.idx = filed + 1
        BY <1>1, <1>2 DEF Entry
  <2> HIDE DEF new
  <2>3. /\ unread' \in Seq(Entry) /\ Len(unread') = Len(unread) + 1
        /\ \A i \in 1 .. Len(unread) : unread'[i] = unread[i]
        /\ unread'[Len(unread) + 1] = new
        BY <1>1, <2>1, <2>2
  <2>4. \A i \in 1 .. Len(unread') : i \in 1 .. Len(unread) \/ i = Len(unread) + 1
        BY <1>1, <2>3
  <2>5. \A i \in 1 .. Len(unread) : unread[i].idx \in Nat /\ unread[i].idx <= filed
    <3>1. \A i \in 1 .. Len(unread) : unread[i] \in Entry
          BY <1>1
    <3>. QED  BY <3>1 DEF Typed, Indexed, Entry
  <2>6. Indexed'
    <3>1. \A i \in 1 .. Len(unread') : unread'[i].idx <= filed'
          BY <1>1, <2>1, <2>2, <2>3, <2>4, <2>5
    <3>2. ASSUME NEW i \in 1 .. Len(unread'), NEW j \in 1 .. Len(unread'), i < j
          PROVE  unread'[i].idx < unread'[j].idx
      <4>1. i \in 1 .. Len(unread)
            BY <1>1, <2>3, <3>2
      <4>2. CASE j \in 1 .. Len(unread)
        <5>1. unread[i].idx < unread[j].idx
              BY <3>2, <4>1, <4>2 DEF Typed, Indexed
        <5>. QED  BY <2>3, <4>1, <4>2, <5>1
      <4>3. CASE j = Len(unread) + 1
            BY <1>1, <2>2, <2>3, <2>5, <4>1, <4>3
      <4>. QED  BY <2>4, <4>2, <4>3
    <3>. QED  BY <1>3, <1>5, <3>1, <3>2 DEF Indexed
  <2>7. UdsTypes' /\ Numbered'
        BY <1>1, <1>2, <1>3, <2>1, <2>3 DEF Typed, UdsTypes, Numbered
  <2>. QED  BY <2>6, <2>7 DEF Typed
<1>. QED  BY <1>4, <1>5

LEMMA CallTyped ==
  ASSUME Typed, NEW s \in Services, NEW named \in BOOLEAN, Call(s, named)
  PROVE  Typed' /\ ended'.call < call'.request.call
<1>1. /\ call.request.call \in Nat /\ ended.call \in Nat /\ ended.call <= call.request.call
      /\ wire \in Seq(Requests)
      BY DEF Typed, UdsTypes, Requests, Numbered
<1>2. /\ call' = [request |-> Request(call.request.call + 1, s), named |-> named]
      /\ filed' = 0 /\ unread' = <<>> /\ st' = "sending" /\ wire' = Append(wire, call'.request)
      /\ clean' \in BOOLEAN /\ UNCHANGED <<ended, requests, sending>>
      BY DEF Call, ecuVars
<1>3. /\ call' \in [request : Requests, named : BOOLEAN] /\ call'.request \in Requests
      /\ call'.request.call = call.request.call + 1
      BY <1>1, <1>2 DEF Requests, Request
<1>4. UdsTypes' /\ Numbered' /\ ended'.call < call'.request.call
      BY <1>1, <1>2, <1>3 DEF Typed, UdsTypes, Numbered
<1>5. Indexed'
      BY <1>2 DEF Indexed
<1>. QED  BY <1>4, <1>5 DEF Typed

LEMMA StepTyped ==
  ASSUME Typed, [UdsNext]_udsVars
  PROVE  Typed'
<1>a. /\ wire \in Seq(Requests) /\ requests \in Seq(Requests) /\ sending \in Seq(Frame)
      /\ filed \in Nat /\ TesterPresent \in Requests /\ unread \in Seq(Entry)
      BY DEF Typed, UdsTypes, Requests, TesterPresent, Request
<1>b. \A i \in 1 .. Len(unread) : unread[i].idx \in Nat /\ unread[i].idx <= filed
  <2>1. \A i \in 1 .. Len(unread) : unread[i] \in Entry
        BY <1>a
  <2>. QED  BY <2>1 DEF Typed, Indexed, Entry
<1>1. ASSUME NEW s \in Services, NEW named \in BOOLEAN, Call(s, named) PROVE Typed'
      BY <1>1, CallTyped
<1>2. CASE Timeout
      BY <1>2, EndTyped DEF Timeout
<1>3. CASE Poll
  <2>1. st # "idle" /\ ((\E how, message : End(how, message)) \/ \E count : Skip(count))
        BY <1>3 DEF Poll
  <2>. QED  BY <2>1, EndTyped, SkipTyped
<1>4. CASE FrameArrives
      BY <1>4, ArrivesTyped
<1>5. ASSUME UNCHANGED <<st, unread, call, ended>>, filed' = filed,
             clean' \in BOOLEAN, wire' \in Seq(Requests), requests' \in Seq(Requests),
             sending' \in Seq(Frame)
      PROVE  Typed'
  <2>1. UdsTypes' /\ Numbered'
        BY <1>5 DEF Typed, UdsTypes, Numbered
  <2>2. \A i \in 1 .. Len(unread) : unread[i].idx <= filed'
        BY <1>5, <1>a, <1>b
  <2>. QED  BY <1>5, <2>1, <2>2 DEF Typed, Indexed
<1>6. CASE SendRequest /\ st # "idle"
  <2>1. Head(wire) \in Requests /\ Tail(wire) \in Seq(Requests)
        BY <1>6, <1>a DEF SendRequest
  <2>2. /\ UNCHANGED <<unread, call, ended, clean, sending>> /\ filed' = filed + 1
        /\ wire' = Tail(wire) /\ requests' = Append(requests, Head(wire))
        /\ st' \in {st, "waiting"}
        BY <1>6 DEF SendRequest, Receive
  <2>3. UdsTypes' /\ Numbered'
        BY <1>6, <1>a, <2>1, <2>2 DEF Typed, UdsTypes, Numbered
  <2>4. \A i \in 1 .. Len(unread) : unread[i].idx <= filed'
        BY <1>a, <1>b, <2>2
  <2>5. st' # "idle"
        BY <1>6, <2>2
  <2>. QED  BY <2>2, <2>3, <2>4, <2>5 DEF Typed, Indexed
<1>7. CASE SendRequest /\ st = "idle"
  <2>1. Head(wire) \in Requests /\ Tail(wire) \in Seq(Requests)
        BY <1>7, <1>a DEF SendRequest
  <2>2. /\ UNCHANGED <<unread, call, ended, clean, sending>> /\ filed' = 0 /\ st' = st
        /\ wire' = Tail(wire) /\ requests' = Append(requests, Head(wire))
        BY <1>7 DEF SendRequest, Receive
  <2>3. filed = 0
        BY <1>7 DEF Typed, Indexed
  <2>. QED  BY <1>5, <1>a, <2>1, <2>2, <2>3 DEF Typed, UdsTypes
<1>8. CASE Replies
  <2>1. PICK kind \in Kinds(Head(requests)), parts \in 1 .. MaxParts :
          sending' = Frames(Answer(Head(requests), kind, parts))
        BY <1>8 DEF Replies
  <2>2. Head(requests) \in Requests /\ Tail(requests) \in Seq(Requests)
        BY <1>8, <1>a DEF Replies
  <2>3. kind \in Kind /\ parts \in Nat
        BY <2>1, UdsAssumption DEF Kinds, Kind
  <2>4. sending' \in Seq(Frame)
        BY <2>1, <2>2, <2>3, FramesTyped
  <2>5. UNCHANGED <<st, filed, unread, call, ended, clean, wire>> /\ requests' = Tail(requests)
        BY <1>8 DEF Replies, mailbox
  <2>. QED  BY <1>5, <1>a, <2>2, <2>4, <2>5 DEF Typed, UdsTypes
<1>9. CASE RepliesPending
  <2>1. /\ sending' = Frames(Answer(Head(requests), "pending", 1))
        /\ Head(requests) \in Requests
        BY <1>9, <1>a DEF RepliesPending
  <2>2. sending' \in Seq(Frame)
        BY <2>1, FramesTyped DEF Kind
  <2>3. UNCHANGED <<st, filed, unread, call, ended, clean, wire, requests>>
        BY <1>9 DEF RepliesPending, mailbox
  <2>. QED  BY <1>5, <1>a, <2>2, <2>3 DEF Typed, UdsTypes
<1>10. CASE FrameLost
  <2>1. sending' \in Seq(Frame)
        BY <1>10, <1>a DEF FrameLost
  <2>2. UNCHANGED <<st, filed, unread, call, ended, wire, requests>> /\ clean' = FALSE
        BY <1>10 DEF FrameLost, mailbox
  <2>. QED  BY <1>5, <1>a, <2>1, <2>2
<1>11. CASE SendTesterPresent
  <2>1. wire' \in Seq(Requests)
        BY <1>11, <1>a DEF SendTesterPresent
  <2>2. UNCHANGED <<st, filed, unread, call, ended, clean, requests, sending>>
        BY <1>11 DEF SendTesterPresent, mailbox, ecuVars
  <2>. QED  BY <1>5, <1>a, <2>1, <2>2 DEF Typed, UdsTypes
<1>12. CASE UNCHANGED udsVars
  <2>1. UNCHANGED <<st, filed, unread, call, ended, clean, wire, requests, sending>>
        BY <1>12 DEF udsVars, mailbox, ecuVars
  <2>. QED  BY <1>5, <1>a, <2>1 DEF Typed, UdsTypes
<1>. QED
     BY <1>1, <1>2, <1>3, <1>4, <1>6, <1>7, <1>8, <1>9, <1>10, <1>11, <1>12
        DEF UdsNext, Client, Ecu

-----------------------------------------------------------------------------
(***************************************************************************)
(* What the client does with the first message.                            *)
(***************************************************************************)
LEMMA FinalAnswers ==
  ASSUME UdsTypes, NEW a \in Final
  PROVE  /\ a.to = call.request /\ a.kind \in {"positive", "negative"}
         /\ a.parts \in 1 .. MaxParts /\ a.parts \in Nat /\ a.parts >= 1
         /\ Frames(a) \in Seq(Frame) /\ Len(Frames(a)) = a.parts
         /\ \A i \in 1 .. a.parts : Frames(a)[i] = [answer |-> a, k |-> i]
<1>1. PICK kind \in {"positive", "negative"}, parts \in 1 .. MaxParts :
        a = Answer(call.request, kind, parts)
      BY DEF Final
<1>2. call.request \in Requests /\ kind \in Kind /\ parts \in Nat /\ parts >= 1
      BY UdsAssumption DEF UdsTypes, Kind
<1>. QED  BY <1>1, <1>2, FramesTyped

LEMMA Mailed ==
  ASSUME UdsTypes
  PROVE  /\ FromEcu \in Seq(Frame) /\ Len(FromEcu) = Len(unread) /\ Len(unread) \in Nat
         /\ Len(sending) \in Nat
         /\ \A i \in 1 .. Len(unread) : FromEcu[i] = unread[i].frame
<1>1. unread \in Seq(Entry) /\ sending \in Seq(Frame)
      BY DEF UdsTypes
<1>2. Len(unread) \in Nat /\ Len(sending) \in Nat /\ \A i \in 1 .. Len(unread) : unread[i] \in Entry
      BY <1>1
<1>3. \A i \in 1 .. Len(unread) : unread[i].frame \in Frame
      BY <1>2 DEF Entry
<1>. QED  BY <1>2, <1>3 DEF FromEcu

\* A frame to skip is read as a message of one frame that the call does not take.
LEMMA OutcomeSkipped ==
  ASSUME UdsTypes, call.request.call # 0, NEW frames, frames # <<>>, Skipped(frames[1])
  PROVE  ~Stray(frames) /\ msg_decode(frames) = 1 /\ Outcome(frames) = "skip"
<1>1. IsSingle(frames[1]) /\ frames[1].k = 1
      BY DEF Skipped, IsSingle
<1>2. ~Stray(frames) /\ msg_decode(frames) = 1
      BY <1>1, DecodeSingle DEF Stray
<1>3. CASE frames[1].answer.to = TesterPresent /\ frames[1].answer.kind = "positive"
      BY <1>2, <1>3 DEF Outcome, ToTester
<1>4. CASE frames[1].answer.kind = "pending"
      BY <1>2, <1>4 DEF Outcome, ToTester, Matches, IsPending
<1>. QED  BY <1>3, <1>4 DEF Skipped

\* The final answer is taken when all of it is there, and as it is.
LEMMA OutcomeFinal ==
  ASSUME UdsTypes, call.request.call # 0, NEW a \in Final, NEW frames \in Seq(Frame),
         frames # <<>>,
         \A i \in 1 .. Len(frames) : i <= a.parts => frames[i] = [answer |-> a, k |-> i],
         msg_decode(frames) > 0
  PROVE  /\ Outcome(frames) = IF a.kind = "positive" THEN "returned" ELSE "refused"
         /\ SubSeq(frames, 1, msg_decode(frames)) = Frames(a)
<1>a. /\ a.to = call.request /\ a.kind \in {"positive", "negative"}
      /\ a.parts \in Nat /\ a.parts >= 1
      /\ Frames(a) \in Seq(Frame) /\ Len(Frames(a)) = a.parts
      /\ \A i \in 1 .. a.parts : Frames(a)[i] = [answer |-> a, k |-> i]
      BY FinalAnswers
<1>b. Len(frames) \in Nat /\ 1 \in 1 .. Len(frames)
      BY NonEmpty
<1>c. frames[1] = [answer |-> a, k |-> 1]
      BY <1>a, <1>b
<1>1. frames[1].answer = a /\ frames[1].k = 1
      BY <1>c
<1>2. a.to # TesterPresent
      BY <1>a DEF TesterPresent, Request
<1>3. Outcome(frames) = IF a.kind = "positive" THEN "returned" ELSE "refused"
      BY <1>1, <1>2, <1>a DEF Outcome, ToTester, Matches, IsPending
<1>4. msg_decode(frames) = a.parts /\ a.parts <= Len(frames)
  <2>1. CASE a.parts = 1
    <3>1. IsSingle(frames[1])
          BY <1>1, <2>1 DEF IsSingle
    <3>. QED  BY <1>b, <2>1, <3>1, DecodeSingle
  <2>2. CASE a.parts > 1
    <3>1. msg_decode(frames) = IF a.parts <= Len(frames) THEN a.parts ELSE 0
          BY <1>a, <2>2, DecodeAnswer
    <3>. QED  BY <3>1
  <2>. QED  BY <1>a, <2>1, <2>2
<1>5. SubSeq(frames, 1, a.parts) = Frames(a)
  <2>1. SubSeq(frames, 1, a.parts) = [i \in 1 .. a.parts |-> frames[i]]
        BY <1>a, <1>b, <1>4
  <2>2. \A i \in 1 .. a.parts : frames[i] = [answer |-> a, k |-> i]
        BY <1>a, <1>b, <1>4
  <2>. QED  BY <2>1, <2>2 DEF Frames
<1>. QED  BY <1>3, <1>4, <1>5

\* A clean call skips a message that is not its own, or ends with its whole answer.
LEMMA CleanPoll ==
  ASSUME Typed, Course, clean, Poll
  PROVE  /\ unread # <<>>
         /\ \/ Skipped(unread[1].frame) /\ Skip(1)
            \/ \E a \in Final :
                 End(IF a.kind = "positive" THEN "returned" ELSE "refused", Frames(a))
<1>a. st # "idle" /\ UdsTypes /\ call.request.call # 0
  <2>1. call.request.call \in Nat /\ ended.call \in Nat /\ st = "waiting"
        BY DEF Typed, UdsTypes, Requests, Poll
  <2>. QED  BY <2>1 DEF Typed, Numbered
<1> DEFINE frames == FromEcu
<1>b. /\ frames \in Seq(Frame) /\ Len(frames) = Len(unread) /\ Len(unread) \in Nat
      /\ \A i \in 1 .. Len(unread) : frames[i] = unread[i].frame
      BY <1>a, Mailed
<1>c. IF Stray(frames) THEN End("raised", <<>>)
      ELSE /\ msg_decode(frames) > 0
           /\ \/ /\ Outcome(frames) # "skip"
                 /\ End(Outcome(frames), SubSeq(frames, 1, msg_decode(frames)))
              \/ Outcome(frames) \in {"skip", "misread"} /\ Skip(msg_decode(frames))
      BY DEF Poll
<1> HIDE DEF frames
<1>1. frames # <<>>
      BY <1>c DEF Stray, msg_decode
<1>2. unread # <<>> /\ 1 \in 1 .. Len(unread) /\ frames[1] = unread[1].frame
  <2>1. 1 \in 1 .. Len(frames)
        BY <1>1, <1>b, NonEmpty
  <2>. QED  BY <1>b, <2>1
<1>3. CASE Skipped(unread[1].frame)
  <2>1. ~Stray(frames) /\ msg_decode(frames) = 1 /\ Outcome(frames) = "skip"
        BY <1>1, <1>2, <1>3, <1>a, OutcomeSkipped
  <2>. QED  BY <1>2, <1>3, <1>c, <2>1
<1>4. CASE ~Skipped(unread[1].frame)
  <2>1. Answered
        BY <1>2, <1>4, <1>a DEF Course, AllSkipped
  <2>2. PICK before \in Nat, a \in Final : AnswerAfter(before, a)
        BY <2>1 DEF Answered
  <2>a. a.parts \in Nat /\ a.parts >= 1 /\ a.kind \in {"positive", "negative"}
        BY <1>a, FinalAnswers
  <2>3. before = 0
    <3>1. Amidst(unread[1].frame, 1, before, a)
          BY <1>2, <2>2 DEF AnswerAfter
    <3>2. 1 \in before + 1 .. before + a.parts
          BY <1>4, <3>1 DEF Amidst
    <3>. QED  BY <2>2, <2>a, <3>2
  <2>4. \A i \in 1 .. Len(frames) : i <= a.parts => frames[i] = [answer |-> a, k |-> i]
    <3> SUFFICES ASSUME NEW i \in 1 .. Len(frames), i <= a.parts
                 PROVE  frames[i] = [answer |-> a, k |-> i]
        OBVIOUS
    <3>1. Amidst(frames[i], i, 0, a)
          BY <1>b, <2>2, <2>3 DEF AnswerAfter
    <3>2. i \in 0 + 1 .. 0 + a.parts /\ i - 0 = i
          BY <1>b, <2>a
    <3>. QED  BY <3>1, <3>2 DEF Amidst
  <2>5. ~Stray(frames)
    <3>1. frames[1] = [answer |-> a, k |-> 1]
          BY <1>2, <1>b, <2>4, <2>a
    <3>2. frames[1].k = 1
          BY <3>1
    <3>. QED  BY <3>2 DEF Stray
  <2>6. /\ Outcome(frames) = IF a.kind = "positive" THEN "returned" ELSE "refused"
        /\ SubSeq(frames, 1, msg_decode(frames)) = Frames(a)
        BY <1>1, <1>a, <1>b, <1>c, <2>2, <2>4, <2>5, OutcomeFinal
  <2>. QED  BY <1>2, <1>c, <2>2, <2>5, <2>6
<1>. QED  BY <1>3, <1>4

-----------------------------------------------------------------------------
(***************************************************************************)
(* The course of a call.                                                   *)
(***************************************************************************)

\* What is skipped, and what the answer is, change with the call only.
LEMMA NextSkipped ==
  ASSUME call' = call, \A i \in 1 .. Len(unread') : Skipped(unread'[i].frame),
         \A i \in 1 .. Len(sending') : Skipped(sending'[i])
  PROVE  AllSkipped'
BY DEF AllSkipped, Skipped, IsSingle, TesterPresent, Request

LEMMA NextAnswered ==
  ASSUME call' = call, NEW before \in Nat, NEW a \in Final,
         \A i \in 1 .. Len(unread') : Amidst(unread'[i].frame, i, before, a),
         \A i \in 1 .. Len(sending') : Amidst(sending'[i], Len(unread') + i, before, a),
         before + a.parts <= Len(unread') + Len(sending')
  PROVE  Answered'
<1>1. a \in Final'
      BY DEF Final
<1>2. (\A i \in 1 .. Len(unread) : Amidst(unread[i].frame, i, before, a))'
      BY DEF Amidst, Skipped
<1>3. (\A i \in 1 .. Len(sending) : Amidst(sending[i], Len(unread) + i, before, a))'
      BY DEF Amidst, Skipped
<1>4. AnswerAfter(before, a)'
      BY <1>2, <1>3 DEF AnswerAfter
<1>. QED  BY <1>1, <1>4 DEF Answered

\* The ECU or the link: the frames underway, with those filed.
LEMMA FilesOne ==
  ASSUME UdsTypes, st # "idle", FrameArrives
  PROVE  /\ Len(unread') = Len(unread) + 1 /\ Len(sending') = Len(sending) - 1
         /\ Len(unread) \in Nat /\ Len(sending) \in Nat
         /\ \A i \in 1 .. Len(unread) : unread'[i].frame = unread[i].frame
         /\ unread'[Len(unread) + 1].frame = sending[1] /\ 1 \in 1 .. Len(sending)
         /\ \A i \in 1 .. Len(sending') :
              sending'[i] = sending[i + 1] /\ i + 1 \in 1 .. Len(sending)
<1> DEFINE new == [frame |-> Head(sending), idx |-> filed + 1]
<1>1. /\ unread \in Seq(Entry) /\ sending \in Seq(Frame) /\ sending # <<>> /\ filed \in Nat
      BY DEF UdsTypes, FrameArrives
<1>2. unread' = Append(unread, new) /\ sending' = Tail(sending)
      BY DEF FrameArrives
<1>3. Head(sending) = sending[1] /\ Head(sending) \in Frame
      BY <1>1
<1>4. new \in Entry /\ new.frame = sending[1]
      BY <1>1, <1>3 DEF Entry
<1> HIDE DEF new
<1>5. /\ Len(unread) \in Nat /\ Len(unread') = Len(unread) + 1
      /\ \A i \in 1 .. Len(unread) : unread'[i] = unread[i]
      /\ unread'[Len(unread) + 1] = new
      BY <1>1, <1>2, <1>4
<1>6. /\ Len(sending) \in Nat /\ 1 \in 1 .. Len(sending)
      /\ Len(sending') = Len(sending) - 1
      /\ \A i \in 1 .. Len(sending') :
           sending'[i] = sending[i + 1] /\ i + 1 \in 1 .. Len(sending)
      BY <1>1, <1>2
<1>. QED  BY <1>4, <1>5, <1>6

LEMMA ArrivesCourse ==
  ASSUME UdsTypes, Course, FrameArrives
  PROVE  Course'
<1>1. UNCHANGED <<st, call, clean, wire, requests>>
      BY DEF FrameArrives
<1> SUFFICES ASSUME clean, st # "idle"
             PROVE  (AllSkipped => AllSkipped') /\ (Answered => Answered')
    BY <1>1 DEF Course, AskedIn, Once, OnlyTesters
<1>2. /\ Len(unread') = Len(unread) + 1 /\ Len(sending') = Len(sending) - 1
      /\ Len(unread) \in Nat /\ Len(sending) \in Nat
      /\ \A i \in 1 .. Len(unread) : unread'[i].frame = unread[i].frame
      /\ unread'[Len(unread) + 1].frame = sending[1] /\ 1 \in 1 .. Len(sending)
      /\ \A i \in 1 .. Len(sending') :
           sending'[i] = sending[i + 1] /\ i + 1 \in 1 .. Len(sending)
      BY FilesOne
<1>3. \A i \in 1 .. Len(unread') : i \in 1 .. Len(unread) \/ i = Len(unread) + 1
      BY <1>2
<1>5. ASSUME AllSkipped PROVE AllSkipped'
  <2>1. Skipped(sending[1])
        BY <1>2, <1>5 DEF AllSkipped
  <2>2. /\ \A i \in 1 .. Len(unread') : Skipped(unread'[i].frame)
        /\ \A i \in 1 .. Len(sending') : Skipped(sending'[i])
        BY <1>2, <1>3, <1>5, <2>1 DEF AllSkipped
  <2>. QED  BY <1>1, <2>2, NextSkipped
<1>6. ASSUME NEW before \in Nat, NEW a \in Final, AnswerAfter(before, a) PROVE Answered'
  <2>2. \A i \in 1 .. Len(unread') : Amidst(unread'[i].frame, i, before, a)
    <3>1. Amidst(sending[1], Len(unread) + 1, before, a)
          BY <1>2, <1>6 DEF AnswerAfter
    <3>. QED  BY <1>2, <1>3, <1>6, <3>1 DEF AnswerAfter
  <2>3. \A i \in 1 .. Len(sending') : Amidst(sending'[i], Len(unread') + i, before, a)
    <3> SUFFICES ASSUME NEW i \in 1 .. Len(sending')
                 PROVE  Amidst(sending'[i], Len(unread') + i, before, a)
        OBVIOUS
    <3>1. Amidst(sending[i + 1], Len(unread) + (i + 1), before, a)
          BY <1>2, <1>6 DEF AnswerAfter
    <3>2. Len(unread') + i = Len(unread) + (i + 1)
          BY <1>2
    <3>. QED  BY <1>2, <3>1, <3>2
  <2>4. before + a.parts <= Len(unread') + Len(sending')
    <3>1. Len(unread') + Len(sending') = Len(unread) + Len(sending)
          BY <1>2
    <3>. QED  BY <1>6, <3>1 DEF AnswerAfter
  <2>. QED  BY <1>1, <2>2, <2>3, <2>4, NextAnswered
<1>. QED  BY <1>5, <1>6 DEF Answered

\* The ECU begins with one more frame that is skipped.
LEMMA SendsSkipped ==
  ASSUME UdsTypes, UNCHANGED <<unread, call>>, sending = <<>>, Len(sending') = 1,
         Skipped(sending'[1])
  PROVE  (AllSkipped => AllSkipped') /\ (Answered => Answered')
<1>1. Len(unread) \in Nat /\ Len(sending) = 0
      BY Mailed
<1>2. \A i \in 1 .. Len(sending') : i = 1
      OBVIOUS
<1>3. ASSUME AllSkipped PROVE AllSkipped'
  <2>1. /\ \A i \in 1 .. Len(unread') : Skipped(unread'[i].frame)
        /\ \A i \in 1 .. Len(sending') : Skipped(sending'[i])
        BY <1>2, <1>3 DEF AllSkipped
  <2>. QED  BY <2>1, NextSkipped
<1>4. ASSUME NEW before \in Nat, NEW a \in Final, AnswerAfter(before, a) PROVE Answered'
  <2>a. a.parts \in Nat
        BY FinalAnswers
  <2>1. before + a.parts <= Len(unread)
        BY <1>1, <1>4, <2>a DEF AnswerAfter
  <2>2. Amidst(sending'[1], Len(unread) + 1, before, a)
    <3>1. Len(unread) + 1 \notin before + 1 .. before + a.parts
          BY <1>1, <2>1, <2>a
    <3>. QED  BY <3>1 DEF Amidst
  <2>3. before + a.parts <= Len(unread') + Len(sending')
        BY <1>1, <2>1, <2>a
  <2>4. /\ \A i \in 1 .. Len(unread') : Amidst(unread'[i].frame, i, before, a)
        /\ \A i \in 1 .. Len(sending') : Amidst(sending'[i], Len(unread') + i, before, a)
        BY <1>2, <1>4, <2>2 DEF AnswerAfter
  <2>. QED  BY <2>3, <2>4, NextAnswered
<1>. QED  BY <1>3, <1>4 DEF Answered

\* The ECU begins with the final answer.
LEMMA SendsFinal ==
  ASSUME UdsTypes, UNCHANGED <<unread, call>>, AllSkipped, sending = <<>>,
         NEW a \in Final, sending' = Frames(a)
  PROVE  Answered'
<1>1. Len(unread) \in Nat
      BY Mailed
<1>2. /\ a.parts \in Nat /\ Len(sending') = a.parts
      /\ \A i \in 1 .. a.parts : sending'[i] = [answer |-> a, k |-> i]
      BY FinalAnswers
<1>3. \A i \in 1 .. Len(unread) : Amidst(unread[i].frame, i, Len(unread), a)
  <2> SUFFICES ASSUME NEW i \in 1 .. Len(unread)
               PROVE  Amidst(unread[i].frame, i, Len(unread), a)
      OBVIOUS
  <2>1. i \notin Len(unread) + 1 .. Len(unread) + a.parts
        BY <1>1, <1>2
  <2>. QED  BY <2>1 DEF Amidst, AllSkipped
<1>4. \A i \in 1 .. a.parts : Amidst(sending'[i], Len(unread) + i, Len(unread), a)
  <2> SUFFICES ASSUME NEW i \in 1 .. a.parts
               PROVE  Amidst(sending'[i], Len(unread) + i, Len(unread), a)
      OBVIOUS
  <2>1. Len(unread) + i \in Len(unread) + 1 .. Len(unread) + a.parts
        BY <1>1, <1>2
  <2>2. (Len(unread) + i) - Len(unread) = i
        BY <1>1, <1>2
  <2>. QED  BY <1>2, <2>1, <2>2 DEF Amidst
<1>. QED  BY <1>1, <1>2, <1>3, <1>4, NextAnswered

\* The client skips the first frame; the answer is still behind it.
LEMMA SkipCourse ==
  ASSUME Typed, Course, clean, st # "idle", unread # <<>>, Skipped(unread[1].frame), Skip(1)
  PROVE  Course'
<1>a. UdsTypes /\ call.request.call # 0 /\ unread \in Seq(Entry) /\ Len(sending) \in Nat
  <2>1. call.request.call \in Nat /\ ended.call \in Nat /\ UdsTypes
        BY DEF Typed, UdsTypes, Requests
  <2>. QED  BY <2>1, Mailed DEF Typed, Numbered, UdsTypes
<1>b. UNCHANGED <<st, call, clean, wire, requests, sending>>
      BY DEF Skip, ecuVars
<1>c. Len(unread) \in Nat /\ Len(unread) >= 1 /\ 1 \in 1 .. Len(unread)
      BY <1>a, NonEmpty
<1>1. unread' = SubSeq(unread, 1 + 1, Len(unread))
  <2>1. PICK n \in 0 .. Len(unread) :
          /\ \A i \in 1 .. Len(unread) : i > n <=> unread[i].idx > unread[1].idx
          /\ unread' = SubSeq(unread, n + 1, Len(unread))
        BY DEF Skip, LastOf
  <2>2. \A i \in 1 .. Len(unread) : unread[i].idx \in Nat
    <3>1. \A i \in 1 .. Len(unread) : unread[i] \in Entry
          BY <1>a
    <3>. QED  BY <3>1 DEF Entry
  <2>3. n >= 1
        BY <1>c, <2>1, <2>2
  <2>4. Len(unread) >= 2 => unread[2].idx > unread[1].idx
        BY <1>c, <2>2 DEF Typed, Indexed
  <2>5. Len(unread) >= 2 => ~(n >= 2)
        BY <1>c, <2>1, <2>4
  <2>6. n = 1
        BY <1>c, <2>1, <2>3, <2>5
  <2>. QED  BY <2>1, <2>6
<1>2. /\ Len(unread') = Len(unread) - 1
      /\ \A i \in 1 .. Len(unread') : i + 1 \in 1 .. Len(unread) /\ unread'[i] = unread[i + 1]
  <2>1. 1 \in 0 .. Len(unread)
        BY <1>c
  <2>. QED  BY <1>1, <1>a, <2>1, SubSeqRest
<1>3. ASSUME AllSkipped PROVE AllSkipped'
  <2>1. /\ \A i \in 1 .. Len(unread') : Skipped(unread'[i].frame)
        /\ \A i \in 1 .. Len(sending') : Skipped(sending'[i])
        BY <1>2, <1>3, <1>b DEF AllSkipped
  <2>. QED  BY <1>b, <2>1, NextSkipped
<1>4. ASSUME NEW before \in Nat, NEW a \in Final, AnswerAfter(before, a) PROVE Answered'
  <2>a. /\ a.to = call.request /\ a.kind \in {"positive", "negative"}
        /\ a.parts \in Nat /\ a.parts >= 1
        BY <1>a, FinalAnswers
  <2>1. before # 0
    <3> SUFFICES ASSUME before = 0 PROVE FALSE
        OBVIOUS
    <3>1. Amidst(unread[1].frame, 1, 0, a) /\ 1 \in 0 + 1 .. 0 + a.parts
          BY <1>4, <1>c, <2>a DEF AnswerAfter
    <3>2. unread[1].frame = [answer |-> a, k |-> 1 - 0]
          BY <3>1 DEF Amidst
    <3>3. unread[1].frame.answer = a
          BY <3>2
    <3>4. a.to = TesterPresent
          BY <2>a, <3>3 DEF Skipped
    <3>. QED  BY <1>a, <2>a, <3>4 DEF TesterPresent, Request
  <2> DEFINE less == before - 1
  <2>2. less \in Nat /\ less + 1 = before
        BY <2>1
  <2>3. \A f : \A n \in Nat : Amidst(f, n + 1, before, a) => Amidst(f, n, less, a)
    <3> SUFFICES ASSUME NEW f, NEW n \in Nat, Amidst(f, n + 1, before, a)
                 PROVE  Amidst(f, n, less, a)
        OBVIOUS
    <3>1. /\ n + 1 \in before + 1 .. before + a.parts <=> n \in less + 1 .. less + a.parts
          /\ (n + 1) - before = n - less
          BY <2>2, <2>a
    <3>. QED  BY <3>1 DEF Amidst
  <2> HIDE DEF less
  <2>4. \A i \in 1 .. Len(unread') : Amidst(unread'[i].frame, i, less, a)
    <3> SUFFICES ASSUME NEW i \in 1 .. Len(unread') PROVE Amidst(unread'[i].frame, i, less, a)
        OBVIOUS
    <3>1. Amidst(unread[i + 1].frame, i + 1, before, a) /\ i \in Nat
          BY <1>2, <1>4 DEF AnswerAfter
    <3>. QED  BY <1>2, <2>3, <3>1
  <2>5. \A i \in 1 .. Len(sending) : Amidst(sending[i], Len(unread') + i, less, a)
    <3> SUFFICES ASSUME NEW i \in 1 .. Len(sending)
                 PROVE  Amidst(sending[i], Len(unread') + i, less, a)
        OBVIOUS
    <3>1. Amidst(sending[i], Len(unread) + i, before, a)
          BY <1>4 DEF AnswerAfter
    <3>2. Len(unread') + i \in Nat /\ (Len(unread') + i) + 1 = Len(unread) + i
          BY <1>2, <1>c
    <3>. QED  BY <2>3, <3>1, <3>2
  <2>6. less + a.parts <= Len(unread') + Len(sending)
    <3>1. before + a.parts <= Len(unread) + Len(sending)
          BY <1>4 DEF AnswerAfter
    <3>. QED  BY <1>2, <1>a, <1>c, <2>2, <2>a, <3>1
  <2>. QED  BY <1>b, <2>2, <2>4, <2>5, <2>6, NextAnswered
<1>5. Answered => Answered'
      BY <1>4 DEF Answered
<1>. QED  BY <1>3, <1>5, <1>b DEF Course, AskedIn, Once, OnlyTesters

\* The ECU takes a request of another time, or that of the call, and answers it.
LEMMA RepliesCourse ==
  ASSUME NeverRefused, UdsTypes, Course, call.request.call # 0, Replies
  PROVE  Course'
<1>1. /\ UNCHANGED <<st, unread, call, clean, wire>>
      /\ requests # <<>> /\ sending = <<>> /\ requests' = Tail(requests)
      BY DEF Replies, mailbox
<1>2. requests \in Seq(Requests) /\ Head(requests) \in Requests
  <2>1. requests \in Seq(Requests)
        BY DEF UdsTypes
  <2>. QED  BY <1>1, <2>1
<1> SUFFICES ASSUME clean, st # "idle" PROVE Course'
    BY <1>1 DEF Course
<1> DEFINE r == call.request
<1>3. r # TesterPresent /\ call'.request = r
      BY <1>1 DEF TesterPresent, Request
<1>4. PICK kind \in Kinds(Head(requests)), parts \in 1 .. MaxParts :
        /\ parts > 1 => kind = "positive" /\ Head(requests) # TesterPresent
        /\ sending' = Frames(Answer(Head(requests), kind, parts))
      BY DEF Replies
<1>5. kind \in Kind /\ kind \in {"positive", "negative"} /\ parts \in Nat /\ parts >= 1
  <2>1. kind \in {"positive", "negative"}
        BY <1>4, UdsAssumption DEF Kinds
  <2>. QED  BY <1>4, <2>1, UdsAssumption DEF Kind
<1>6. CASE Head(requests) = TesterPresent
  <2>1. kind = "positive" /\ parts = 1
        BY <1>4, <1>5, <1>6, UdsAssumption DEF NeverRefused, Kinds
  <2> DEFINE a == Answer(TesterPresent, "positive", 1)
  <2>2. /\ a.to = TesterPresent /\ a.kind = "positive" /\ a.parts = 1
        /\ Len(sending') = 1 /\ sending'[1] = [answer |-> a, k |-> 1]
    <3>1. sending' = Frames(a) /\ TesterPresent \in Requests /\ "positive" \in Kind
          BY <1>2, <1>4, <1>6, <2>1 DEF Kind
    <3>2. /\ a.to = TesterPresent /\ a.kind = "positive" /\ a.parts = 1
          /\ Len(Frames(a)) = 1 /\ Frames(a)[1] = [answer |-> a, k |-> 1]
          BY <3>1, OneFrame
    <3> HIDE DEF a
    <3>. QED  BY <3>1, <3>2
  <2> HIDE DEF a
  <2>3. sending'[1].answer = a /\ sending'[1].k = 1
        BY <2>2
  <2>4. Skipped(sending'[1])
        BY <2>2, <2>3 DEF Skipped, IsSingle
  <2>5. (AllSkipped => AllSkipped') /\ (Answered => Answered')
        BY <1>1, <2>2, <2>4, SendsSkipped
  <2>6. /\ OnlyTesters(requests) => OnlyTesters(requests')
        /\ Once(requests, r) => Once(requests', r)
        BY <1>1, <1>2, <1>3, <1>6, QueueTail
  <2>7. /\ OnlyTesters(wire)' <=> OnlyTesters(wire)
        /\ AskedIn(wire)' <=> AskedIn(wire)
        BY <1>1 DEF OnlyTesters, AskedIn, Once, TesterPresent, Request
  <2>. QED  BY <1>1, <1>3, <2>5, <2>6, <2>7 DEF Course, AskedIn
<1>7. CASE Head(requests) # TesterPresent
  <2>1. ~OnlyTesters(requests)
        BY <1>1, <1>2, <1>7, QueueTail
  <2>2. OnlyTesters(wire) /\ AskedIn(requests) /\ AllSkipped
        BY <2>1 DEF Course
  <2>3. Head(requests) = r /\ OnlyTesters(requests')
        BY <1>1, <1>2, <1>7, <2>2, QueueTail DEF AskedIn
  <2>4. Answer(r, kind, parts) \in Final
        BY <1>4, <1>5 DEF Final
  <2>5. Answered'
        BY <1>1, <1>4, <2>2, <2>3, <2>4, SendsFinal
  <2>6. OnlyTesters(wire)'
        BY <1>1, <2>2
  <2>. QED  BY <2>3, <2>5, <2>6 DEF Course
<1>. QED  BY <1>6, <1>7

\* A "response pending" leaves the request where it is.
LEMMA PendingCourse ==
  ASSUME UdsTypes, Course, call.request.call # 0, RepliesPending
  PROVE  Course'
<1>1. /\ UNCHANGED <<st, unread, call, clean, wire, requests>>
      /\ requests # <<>> /\ sending = <<>> /\ Head(requests) # TesterPresent
      /\ sending' = Frames(Answer(Head(requests), "pending", 1))
      BY DEF RepliesPending, mailbox
<1>2. requests \in Seq(Requests) /\ Head(requests) \in Requests
  <2>1. requests \in Seq(Requests)
        BY DEF UdsTypes
  <2>. QED  BY <1>1, <2>1
<1> SUFFICES ASSUME clean, st # "idle" PROVE Course'
    BY <1>1 DEF Course
<1>3. ~OnlyTesters(requests)
      BY <1>1, <1>2, QueueTail
<1>4. OnlyTesters(wire) /\ AskedIn(requests) /\ AllSkipped
      BY <1>3 DEF Course
<1>5. Head(requests) = call.request
      BY <1>1, <1>2, <1>4, QueueTail DEF AskedIn
<1> DEFINE a == Answer(call.request, "pending", 1)
<1>6. /\ a.to = call.request /\ a.kind = "pending" /\ a.parts = 1
      /\ Len(sending') = 1 /\ sending'[1] = [answer |-> a, k |-> 1]
  <2>1. sending' = Frames(a) /\ call.request \in Requests /\ "pending" \in Kind
        BY <1>1, <1>2, <1>5 DEF Kind
  <2>2. /\ a.to = call.request /\ a.kind = "pending" /\ a.parts = 1
        /\ Len(Frames(a)) = 1 /\ Frames(a)[1] = [answer |-> a, k |-> 1]
        BY <2>1, OneFrame
  <2> HIDE DEF a
  <2>. QED  BY <2>1, <2>2
<1> HIDE DEF a
<1>7. sending'[1].answer = a /\ sending'[1].k = 1
      BY <1>6
<1>8. Skipped(sending'[1])
      BY <1>6, <1>7 DEF Skipped, IsSingle
<1>9. AllSkipped'
      BY <1>1, <1>4, <1>6, <1>8, SendsSkipped
<1>10. OnlyTesters(wire)' /\ AskedIn(requests)'
       BY <1>1, <1>4 DEF OnlyTesters, AskedIn, Once, TesterPresent, Request
<1>. QED  BY <1>9, <1>10 DEF Course

\* The transceiver hands the ECU the next request.
LEMMA SendCourse ==
  ASSUME UdsTypes, Course, SendRequest
  PROVE  Course'
<1>1. /\ UNCHANGED <<unread, call, clean, sending>> /\ wire # <<>>
      /\ wire' = Tail(wire) /\ requests' = Append(requests, Head(wire))
      /\ st' \in {st, "waiting"} /\ (st = "idle" => st' = "idle")
      BY DEF SendRequest
<1>2. wire \in Seq(Requests) /\ requests \in Seq(Requests) /\ Head(wire) \in Requests
  <2>1. wire \in Seq(Requests) /\ requests \in Seq(Requests)
        BY DEF UdsTypes
  <2>. QED  BY <1>1, <2>1
<1> SUFFICES ASSUME clean, st # "idle" PROVE Course'
    BY <1>1 DEF Course
<1> DEFINE r == call.request
<1>3. call'.request = r
      BY <1>1
<1>4. AllSkipped => AllSkipped'
      BY <1>1 DEF AllSkipped, Skipped, IsSingle, TesterPresent, Request
<1>5. Answered => Answered'
  <2> SUFFICES ASSUME NEW before \in Nat, NEW a \in Final, AnswerAfter(before, a) PROVE Answered'
      BY DEF Answered
  <2>. QED  BY <1>1, NextAnswered DEF AnswerAfter
<1>6. ASSUME AskedIn(wire), OnlyTesters(requests)
      PROVE  \/ AskedIn(wire)' /\ OnlyTesters(requests)'
             \/ OnlyTesters(wire)' /\ AskedIn(requests)'
  <2>1. \/ Head(wire) = TesterPresent /\ Once(wire', r)
        \/ Head(wire) = r /\ OnlyTesters(wire')
        BY <1>1, <1>2, <1>6, QueueTail DEF AskedIn
  <2>2. /\ Head(wire) = TesterPresent => OnlyTesters(requests')
        /\ Head(wire) = r => Once(requests', r)
        BY <1>1, <1>2, <1>6, QueueAppend
  <2>. QED  BY <1>3, <2>1, <2>2 DEF AskedIn
<1>7. ASSUME OnlyTesters(wire)
      PROVE  /\ OnlyTesters(wire)'
             /\ OnlyTesters(requests) => OnlyTesters(requests)'
             /\ AskedIn(requests) => AskedIn(requests)'
  <2>1. Head(wire) = TesterPresent /\ OnlyTesters(wire')
        BY <1>1, <1>2, <1>7, QueueTail
  <2>2. /\ OnlyTesters(requests) => OnlyTesters(requests')
        /\ Once(requests, r) => Once(requests', r)
        BY <1>1, <1>2, <2>1, QueueAppend
  <2>. QED  BY <1>3, <2>1, <2>2 DEF AskedIn
<1>. QED  BY <1>4, <1>5, <1>6, <1>7 DEF Course

\* The thread puts a TesterPresent behind what waits.
LEMMA TesterCourse ==
  ASSUME UdsTypes, Course, SendTesterPresent
  PROVE  Course'
<1>1. /\ UNCHANGED <<st, unread, call, clean, requests, sending>>
      /\ wire' = Append(wire, TesterPresent)
      BY DEF SendTesterPresent, mailbox, ecuVars
<1>2. wire \in Seq(Requests) /\ TesterPresent \in Requests
      BY DEF UdsTypes, Requests, TesterPresent, Request
<1>3. /\ OnlyTesters(wire) => OnlyTesters(wire')
      /\ Once(wire, call.request) => Once(wire', call.request)
      BY <1>1, <1>2, QueueAppend
<1>4. AllSkipped => AllSkipped'
      BY <1>1 DEF AllSkipped, Skipped, IsSingle, TesterPresent, Request
<1>5. Answered => Answered'
  <2> SUFFICES ASSUME NEW before \in Nat, NEW a \in Final, AnswerAfter(before, a) PROVE Answered'
      BY DEF Answered
  <2>. QED  BY <1>1, NextAnswered DEF AnswerAfter
<1>6. /\ OnlyTesters(requests) => OnlyTesters(requests)'
      /\ AskedIn(requests) => AskedIn(requests)'
      BY <1>1 DEF OnlyTesters, AskedIn, Once, TesterPresent, Request
<1>. QED  BY <1>1, <1>3, <1>4, <1>5, <1>6 DEF Course, AskedIn

\* A call is clean if nothing but TesterPresent requests is under way.
LEMMA CallCourse ==
  ASSUME UdsTypes, NEW s \in Services, NEW named \in BOOLEAN, Call(s, named),
         call'.request \in Requests
  PROVE  Course'
<1>1. /\ unread' = <<>> /\ wire' = Append(wire, call'.request)
      /\ UNCHANGED <<requests, sending>>
      /\ clean' => sending = <<>> /\ OnlyTesters(wire) /\ OnlyTesters(requests)
      BY DEF Call, OnlyTesters, ecuVars
<1> SUFFICES ASSUME clean' PROVE AskedIn(wire)' /\ OnlyTesters(requests)' /\ AllSkipped'
    BY DEF Course
<1>2. wire \in Seq(Requests)
      BY DEF UdsTypes
<1>3. Once(wire', call'.request)
      BY <1>1, <1>2, QueueAppend
<1>4. OnlyTesters(requests)'
      BY <1>1 DEF OnlyTesters, TesterPresent, Request
<1>5. AllSkipped'
      BY <1>1 DEF AllSkipped
<1>. QED  BY <1>3, <1>4, <1>5 DEF AskedIn

LEMMA StepCourse ==
  ASSUME NeverRefused, Typed, Course, [UdsNext]_udsVars
  PROVE  Course'
<1>a. UdsTypes /\ (st # "idle" => call.request.call # 0)
  <2>1. call.request.call \in Nat /\ ended.call \in Nat /\ UdsTypes
        BY DEF Typed, UdsTypes, Requests
  <2>. QED  BY <2>1 DEF Typed, Numbered
<1>1. ASSUME NEW s \in Services, NEW named \in BOOLEAN, Call(s, named) PROVE Course'
  <2>1. call'.request \in Requests
        BY <1>1, CallTyped DEF Typed, UdsTypes
  <2>. QED  BY <1>1, <1>a, <2>1, CallCourse
<1>2. CASE Timeout
      BY <1>2 DEF Timeout, End, Course
<1>3. CASE Poll
  <2>1. CASE clean
    <3>1. \/ unread # <<>> /\ Skipped(unread[1].frame) /\ Skip(1)
          \/ \E how, message : End(how, message)
          BY <1>3, <2>1, CleanPoll
    <3>2. st # "idle"
          BY <1>3 DEF Poll
    <3>. QED  BY <2>1, <3>1, <3>2, SkipCourse DEF End, Course
  <2>2. CASE ~clean
    <3>1. clean' = clean
          BY <1>3 DEF Poll, End, Skip
    <3>. QED  BY <2>2, <3>1 DEF Course
  <2>. QED  BY <2>1, <2>2
<1>4. CASE FrameArrives
      BY <1>4, <1>a, ArrivesCourse
<1>5. CASE SendRequest
      BY <1>5, <1>a, SendCourse
<1>6. CASE Replies /\ st # "idle"
      BY <1>6, <1>a, RepliesCourse
<1>7. CASE RepliesPending /\ st # "idle"
      BY <1>7, <1>a, PendingCourse
<1>8. CASE (Replies \/ RepliesPending) /\ st = "idle"
      BY <1>8 DEF Replies, RepliesPending, Course
<1>9. CASE FrameLost
      BY <1>9 DEF FrameLost, Course
<1>10. CASE SendTesterPresent
       BY <1>10, <1>a, TesterCourse
<1>11. CASE UNCHANGED udsVars
  <2>1. UNCHANGED <<st, unread, call, clean, wire, requests, sending>>
        BY <1>11 DEF udsVars, mailbox, ecuVars
  <2>2. Answered => Answered'
    <3> SUFFICES ASSUME NEW before \in Nat, NEW a \in Final, AnswerAfter(before, a)
                 PROVE  Answered'
        BY DEF Answered
    <3>. QED  BY <2>1, NextAnswered DEF AnswerAfter
  <2>3. AllSkipped => AllSkipped'
        BY <2>1, NextSkipped DEF AllSkipped
  <2>. QED  BY <2>1, <2>2, <2>3 DEF Course, AskedIn, Once, OnlyTesters
<1>. QED
     BY <1>1, <1>2, <1>3, <1>4, <1>5, <1>6, <1>7, <1>8, <1>9, <1>10, <1>11
        DEF UdsNext, Client, Ecu

-----------------------------------------------------------------------------
(***************************************************************************)
(* The theorems.                                                           *)
(***************************************************************************)
\* How a call ends is decided by the step that ends it; a call that has ended stays so,
\* and is forgotten when the next one begins.
LEMMA StepEnded ==
  ASSUME UdsInv, [UdsNext]_udsVars
  PROVE  OwnWholeAnswer' /\ NoStrayMessage'
<1>a. Typed /\ Course /\ OwnWholeAnswer /\ NoStrayMessage /\ UdsTypes
      BY DEF UdsInv, Typed
<1>1. ASSUME UNCHANGED <<ended, call>>, clean' => clean
      PROVE  OwnWholeAnswer' /\ NoStrayMessage'
      BY <1>1, <1>a DEF OwnWholeAnswer, NoStrayMessage
<1>2. ASSUME NEW s \in Services, NEW named \in BOOLEAN, Call(s, named)
      PROVE  OwnWholeAnswer' /\ NoStrayMessage'
  <2>1. ended'.call < call'.request.call /\ ended'.call \in Nat /\ call'.request.call \in Nat
        BY <1>2, <1>a, CallTyped DEF Typed, UdsTypes, Requests
  <2>. QED  BY <2>1 DEF OwnWholeAnswer, NoStrayMessage
<1>3. CASE Timeout
  <2>1. ended'.how = "timeout"
        BY <1>3 DEF Timeout, End
  <2>. QED  BY <2>1 DEF OwnWholeAnswer, NoStrayMessage
<1>4. CASE Poll
  <2>1. CASE ~clean
    <3>1. ~clean'
          BY <1>4, <2>1 DEF Poll, End, Skip
    <3>. QED  BY <3>1 DEF OwnWholeAnswer, NoStrayMessage
  <2>2. CASE clean /\ Skip(1)
        BY <1>1, <2>2 DEF Skip
  <2>3. ASSUME clean, NEW a \in Final,
               End(IF a.kind = "positive" THEN "returned" ELSE "refused", Frames(a))
        PROVE  OwnWholeAnswer' /\ NoStrayMessage'
    <3>1. PICK kind \in {"positive", "negative"}, parts \in 1 .. MaxParts :
            a = Answer(call.request, kind, parts)
          BY DEF Final
    <3>2. a.kind = kind
          BY <3>1 DEF Answer
    <3>3. /\ ended'.how = IF kind = "positive" THEN "returned" ELSE "refused"
          /\ ended'.message = Frames(Answer(call'.request, kind, parts))
          BY <2>3, <3>1, <3>2 DEF End
    <3>. QED  BY <3>1, <3>3 DEF OwnWholeAnswer, NoStrayMessage
  <2>. QED  BY <1>4, <1>a, <2>1, <2>2, <2>3, CleanPoll
<1>5. CASE Ecu \/ SendRequest \/ SendTesterPresent \/ UNCHANGED udsVars
  <2>1. UNCHANGED <<ended, call>> /\ (clean' => clean)
        BY <1>5 DEF Ecu, Replies, RepliesPending, FrameArrives, FrameLost, SendRequest,
                    SendTesterPresent, udsVars
  <2>. QED  BY <1>1, <2>1
<1>. QED  BY <1>2, <1>3, <1>4, <1>5 DEF UdsNext, Client

LEMMA InitUds == UdsInit => UdsInv
<1> SUFFICES ASSUME UdsInit PROVE UdsInv
    OBVIOUS
<1>1. Typed
      BY InitTyped
<1>2. Course /\ OwnWholeAnswer /\ NoStrayMessage
      BY DEF UdsInit, Course, OwnWholeAnswer, NoStrayMessage
<1>. QED  BY <1>1, <1>2 DEF UdsInv

LEMMA UdsInvariant ==
  ASSUME NeverRefused
  PROVE  UdsSpec => []UdsInv
<1>1. UdsInit => UdsInv
      BY InitUds
<1>2. UdsInv /\ [UdsNext]_udsVars => UdsInv'
  <2> SUFFICES ASSUME UdsInv, [UdsNext]_udsVars PROVE UdsInv'
      OBVIOUS
  <2>1. Typed'
        BY StepTyped DEF UdsInv
  <2>2. Course'
        BY StepCourse DEF UdsInv
  <2>3. OwnWholeAnswer' /\ NoStrayMessage'
        BY StepEnded
  <2>. QED  BY <2>1, <2>2, <2>3 DEF UdsInv
<1>. QED  BY <1>1, <1>2, PTL DEF UdsSpec

\* Whatever is skipped, left behind or sent in between, a call that begins when the ECU
\* is done with the earlier ones and loses no frame returns or reports the whole of the
\* final answer to its own request, unless it times out (ISOTPxmit_recv, xmit_recv).
THEOREM OwnAnswerOrTimeout ==
  ASSUME NeverRefused
  PROVE  UdsSpec => []OwnWholeAnswer
<1>1. UdsInv => OwnWholeAnswer
      BY DEF UdsInv
<1>. QED  BY <1>1, UdsInvariant, PTL

\* Such a call never meets a frame that msg_decode cannot read, nor takes an answer that
\* is not a refusal for one (_isotp_get_msg, xmit_recv).
THEOREM NothingStray ==
  ASSUME NeverRefused
  PROVE  UdsSpec => []NoStrayMessage
<1>1. UdsInv => NoStrayMessage
      BY DEF UdsInv
<1>. QED  BY <1>1, UdsInvariant, PTL

=============================================================================
