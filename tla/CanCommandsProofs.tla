--------------------------- MODULE CanCommandsProofs ---------------------------
(***************************************************************************)
(* Theorems about CanCommands, for any number of callers, of commands and  *)
(* of failed attempts to start the bus.                                    *)
(*                                                                         *)
(* What is underway for a kind of command is counted: in the serial link,  *)
(* in the transceiver, on the way back and in the mailbox.  For a caller   *)
(* who is alone with that kind, what is underway are the last so many of   *)
(* the commands sent, in order: so the count says how late an answer is.   *)
(***************************************************************************)
EXTENDS CanCommands, FiniteSetTheorems, FunctionTheorems, TLAPS

-----------------------------------------------------------------------------
(***************************************************************************)
(* The parts of the invariant.                                             *)
(***************************************************************************)

Asked == [cmd : Kinds, num : Nat]

\* The types that CommandsTypeOK leaves open, and how many turns are left.
Turn(c) ==
  /\ cpc[c] # "idle" => sends[c][kind[c]] + left[c] <= MaxSends[c][kind[c]]
  /\ cpc[c] = "send" => left[c] > 0
  /\ cpc[c] = "recv" => sends[c][kind[c]] > 0

Turns ==
  /\ sends \in [Callers -> [Kinds -> Nat]]
  /\ log \in [Callers -> Seq(Asked \X Answer)]
  /\ \A c \in Callers : Turn(c)

\* Every mailbox holds answers of its kind.
Sorted == \A k \in Kinds : \A i \in 1 .. Len(boxes[k]) : boxes[k][i].cmd = k

TypesInv == CommandsTypeOK /\ Turns /\ Sorted

\* The numbers of the packets or answers of one kind.
Nums(k, q) == {q[i].num : i \in {j \in 1 .. Len(q) : q[j].cmd = k}}

Rising(k, q) ==
  \A i, j \in 1 .. Len(q) : i < j /\ q[i].cmd = k /\ q[j].cmd = k => q[i].num < q[j].num

Below(A, B) == \A a \in A, b \in B : a < b

\* What is underway is underway in the order in which it was sent.
InOrder(k) ==
  /\ Rising(k, boxes[k]) /\ Rising(k, wire) /\ Rising(k, dev) /\ Rising(k, serial)
  /\ Below(Nums(k, boxes[k]), Nums(k, wire))
  /\ Below(Nums(k, boxes[k]), Nums(k, dev))
  /\ Below(Nums(k, boxes[k]), Nums(k, serial))
  /\ Below(Nums(k, wire), Nums(k, dev))
  /\ Below(Nums(k, wire), Nums(k, serial))
  /\ Below(Nums(k, dev), Nums(k, serial))

Pending(k) == Nums(k, boxes[k]) \cup Nums(k, wire) \cup Nums(k, dev) \cup Nums(k, serial)

\* For a lone caller, what is underway are the last commands sent.
LastOnes ==
  \A c \in Callers, k \in Timed : Alone(c, k) =>
    /\ InOrder(k)
    /\ Pending(k) = sends[c][k] - Underway(k) + 1 .. sends[c][k]

\* A transceiver whose bus does not run answers no command but CMD_CAN_BAUD.
SilentBefore ==
  devBaud = NoBaud =>
    \A k \in Timed : Nums(k, boxes[k]) = {} /\ Nums(k, wire) = {} /\ Nums(k, dev) = {}

LagInv == TypesInv /\ AnswersConserved /\ LastOnes /\ SilentBefore /\ LagBounded
-----------------------------------------------------------------------------
(***************************************************************************)
(* What an append and the removal of a head do to the packets of one kind. *)
(***************************************************************************)

\* The indices that Count counts.
Places(k, q) == {i \in 1 .. Len(q) : q[i].cmd = k}

Same(k, q, p) ==
  /\ Nums(k, p) = Nums(k, q)
  /\ Count(k, p) = Count(k, q)
  /\ Rising(k, q) => Rising(k, p)

Grown(k, q, p, n) ==
  /\ Nums(k, p) = Nums(k, q) \cup {n}
  /\ Count(k, p) = Count(k, q) + 1
  /\ Rising(k, q) /\ Below(Nums(k, q), {n}) => Rising(k, p)

Shrunk(k, q, p, n) ==
  /\ Nums(k, q) = Nums(k, p) \cup {n}
  /\ Count(k, p) = Count(k, q) - 1
  /\ Rising(k, q) => Rising(k, p) /\ Below({n}, Nums(k, p))

LEMMA CountIsNat ==
  ASSUME NEW S, NEW q \in Seq(S), NEW k
  PROVE  IsFiniteSet(Places(k, q)) /\ Count(k, q) \in Nat /\ Count(k, q) = Cardinality(Places(k, q))
<1>1. Places(k, q) \in SUBSET (1 .. Len(q)) /\ Len(q) \in Nat
      BY DEF Places
<1>2. IsFiniteSet(1 .. Len(q))
      BY <1>1, FS_Interval
<1>3. IsFiniteSet(Places(k, q))
      BY <1>1, <1>2, FS_Subset
<1>. QED  BY <1>3, FS_CardinalityType DEF Count, Places

LEMMA EmptyHasNone == \A k : Count(k, <<>>) = 0 /\ Nums(k, <<>>) = {} /\ Rising(k, <<>>)
<1>1. \A k : Places(k, <<>>) = {}
      BY DEF Places
<1>2. \A k : Count(k, <<>>) = 0
      BY <1>1, FS_EmptySet DEF Count, Places
<1>. QED  BY <1>2 DEF Nums, Rising

LEMMA AppendPlaces ==
  ASSUME NEW S, NEW q \in Seq(S), NEW e \in S
  PROVE  /\ Len(q) \in Nat /\ Len(Append(q, e)) = Len(q) + 1
         /\ \A i \in 1 .. Len(q) : Append(q, e)[i] = q[i]
         /\ Append(q, e)[Len(q) + 1] = e
         /\ 1 .. Len(q) + 1 = (1 .. Len(q)) \cup {Len(q) + 1}
         /\ Len(q) + 1 \notin 1 .. Len(q)
  OBVIOUS

LEMMA AppendGrows ==
  ASSUME NEW S, NEW q \in Seq(S), NEW e \in S, NEW k, e.cmd = k
  PROVE  Grown(k, q, Append(q, e), e.num)
<1> DEFINE p == Append(q, e)
           l == Len(q)
<1>1. /\ l \in Nat /\ Len(p) = l + 1 /\ p[l + 1] = e
      /\ \A i \in 1 .. l : p[i] = q[i]
      /\ 1 .. l + 1 = (1 .. l) \cup {l + 1} /\ l + 1 \notin 1 .. l
      BY AppendPlaces
<1> HIDE DEF p, l
<1>2. Places(k, p) = Places(k, q) \cup {l + 1} /\ l + 1 \notin Places(k, q)
      BY <1>1 DEF Places, l
<1>3. Count(k, p) = Count(k, q) + 1
  <2>1. /\ IsFiniteSet(Places(k, q)) /\ Count(k, q) = Cardinality(Places(k, q))
        /\ Count(k, p) = Cardinality(Places(k, p))
        BY CountIsNat DEF Count, Places
  <2>2. Cardinality(Places(k, q) \cup {l + 1})
          = IF l + 1 \in Places(k, q) THEN Cardinality(Places(k, q))
            ELSE Cardinality(Places(k, q)) + 1
        BY <2>1, FS_AddElement
  <2>. QED  BY <1>2, <2>1, <2>2
<1>4. Nums(k, p) = Nums(k, q) \cup {e.num}
  <2>1. Nums(k, p) = {p[i].num : i \in Places(k, p)} /\ Nums(k, q) = {q[i].num : i \in Places(k, q)}
        BY DEF Nums, Places
  <2>2. \A i \in Places(k, q) : p[i].num = q[i].num
        BY <1>1 DEF Places, l
  <2>. QED  BY <1>1, <1>2, <2>1, <2>2
<1>5. ASSUME Rising(k, q), Below(Nums(k, q), {e.num})
      PROVE  Rising(k, p)
  <2> SUFFICES ASSUME NEW i \in 1 .. l + 1, NEW j \in 1 .. l + 1, i < j,
                      p[i].cmd = k, p[j].cmd = k
               PROVE  p[i].num < p[j].num
      BY <1>1 DEF Rising
  <2>1. i \in 1 .. l /\ p[i] = q[i]
        BY <1>1
  <2>2. q[i].num \in Nums(k, q)
        BY <2>1 DEF Nums, l
  <2>3. CASE j = l + 1
        BY <1>1, <1>5, <2>1, <2>2, <2>3 DEF Below
  <2>4. CASE j \in 1 .. l
        BY <1>1, <1>5, <2>1, <2>4 DEF Rising, l
  <2>. QED  BY <1>1, <2>3, <2>4
<1>. QED  BY <1>3, <1>4, <1>5 DEF Grown, p

LEMMA AppendOther ==
  ASSUME NEW S, NEW q \in Seq(S), NEW e \in S, NEW k, e.cmd # k
  PROVE  Same(k, q, Append(q, e))
<1> DEFINE p == Append(q, e)
           l == Len(q)
<1>1. /\ l \in Nat /\ Len(p) = l + 1 /\ p[l + 1] = e
      /\ \A i \in 1 .. l : p[i] = q[i]
      /\ 1 .. l + 1 = (1 .. l) \cup {l + 1} /\ l + 1 \notin 1 .. l
      BY AppendPlaces
<1> HIDE DEF p, l
<1>2. Places(k, p) = Places(k, q)
      BY <1>1 DEF Places, l
<1>3. Count(k, p) = Count(k, q)
      BY <1>2 DEF Count, Places
<1>4. Nums(k, p) = Nums(k, q)
  <2>1. Nums(k, p) = {p[i].num : i \in Places(k, p)} /\ Nums(k, q) = {q[i].num : i \in Places(k, q)}
        BY DEF Nums, Places
  <2>2. \A i \in Places(k, q) : p[i].num = q[i].num
        BY <1>1 DEF Places, l
  <2>. QED  BY <1>2, <2>1, <2>2
<1>5. Rising(k, q) => Rising(k, p)
      BY <1>1 DEF Rising, l
<1>. QED  BY <1>3, <1>4, <1>5 DEF Same, p

LEMMA TailPlaces ==
  ASSUME NEW S, NEW q \in Seq(S), q # <<>>
  PROVE  /\ Len(q) \in Nat \ {0} /\ Len(Tail(q)) = Len(q) - 1 /\ Head(q) = q[1]
         /\ \A i \in 1 .. Len(q) - 1 : Tail(q)[i] = q[i + 1]
         /\ Tail(q) \in Seq(S) /\ Head(q) \in S
  OBVIOUS

\* The places in a tail are the places in the sequence, but for the first, each one less.
LEMMA TailCounts ==
  ASSUME NEW S, NEW q \in Seq(S), q # <<>>, NEW k
  PROVE  Count(k, Tail(q)) = Cardinality(Places(k, q) \ {1})
<1> DEFINE P == Places(k, Tail(q))
           Q == Places(k, q) \ {1}
           f == [i \in P |-> i + 1]
<1>1. /\ Len(q) \in Nat \ {0} /\ Len(Tail(q)) = Len(q) - 1 /\ Tail(q) \in Seq(S)
      /\ \A i \in 1 .. Len(q) - 1 : Tail(q)[i] = q[i + 1]
      BY TailPlaces
<1>2. P \subseteq Nat /\ Q \subseteq Nat
      BY DEF Places
<1>3. \A i \in P : i + 1 \in Q
      BY <1>1 DEF Places
<1>4. \A j \in Q : j - 1 \in P /\ (j - 1) + 1 = j
      BY <1>1 DEF Places
<1>5. f \in [P -> Q]
      BY <1>3
<1>6. \A i, j \in P : f[i] = f[j] => i = j
      BY <1>2
<1>7. \A j \in Q : \E i \in P : f[i] = j
      BY <1>4
<1>8. f \in Bijection(P, Q)
      BY <1>5, <1>6, <1>7, Fun_IsBij
<1>9. IsFiniteSet(P)
      BY <1>1, CountIsNat
<1>10. Cardinality(P) = Cardinality(Q)
      BY <1>8, <1>9, FS_Bijection DEF ExistsBijection
<1>. QED  BY <1>1, <1>10, CountIsNat

LEMMA TailShrinks ==
  ASSUME NEW S, NEW q \in Seq(S), q # <<>>, NEW k, Head(q).cmd = k
  PROVE  Shrunk(k, q, Tail(q), Head(q).num)
<1> DEFINE p == Tail(q)
<1>1. /\ Len(q) \in Nat \ {0} /\ Len(p) = Len(q) - 1 /\ Head(q) = q[1]
      /\ \A i \in 1 .. Len(q) - 1 : p[i] = q[i + 1]
      BY TailPlaces
<1>2. Count(k, p) = Count(k, q) - 1
  <2>1. 1 \in Places(k, q)
        BY <1>1 DEF Places
  <2>2. IsFiniteSet(Places(k, q)) /\ Count(k, q) = Cardinality(Places(k, q))
        BY CountIsNat
  <2>3. Cardinality(Places(k, q) \ {1})
          = IF 1 \in Places(k, q) THEN Cardinality(Places(k, q)) - 1
            ELSE Cardinality(Places(k, q))
        BY <2>2, FS_RemoveElement
  <2>. QED  BY <2>1, <2>2, <2>3, TailCounts
<1> HIDE DEF p
<1>3. Nums(k, q) = Nums(k, p) \cup {Head(q).num}
  <2>1. ASSUME NEW n \in Nums(k, q) PROVE n \in Nums(k, p) \cup {Head(q).num}
    <3>1. PICK i \in 1 .. Len(q) : q[i].cmd = k /\ n = q[i].num
          BY DEF Nums
    <3>2. CASE i > 1
      <4>1. i - 1 \in 1 .. Len(p) /\ p[i - 1] = q[i]
            BY <1>1, <3>2
      <4>. QED  BY <3>1, <4>1 DEF Nums
    <3>. QED  BY <1>1, <3>1, <3>2
  <2>2. ASSUME NEW n \in Nums(k, p) PROVE n \in Nums(k, q)
    <3>1. PICK i \in 1 .. Len(p) : p[i].cmd = k /\ n = p[i].num
          BY DEF Nums
    <3>2. i + 1 \in 1 .. Len(q) /\ p[i] = q[i + 1]
          BY <1>1
    <3>. QED  BY <3>1, <3>2 DEF Nums
  <2>3. Head(q).num \in Nums(k, q)
        BY <1>1 DEF Nums
  <2>. QED  BY <2>1, <2>2, <2>3
<1>4. ASSUME Rising(k, q) PROVE Rising(k, p) /\ Below({Head(q).num}, Nums(k, p))
  <2>1. Rising(k, p)
        BY <1>1, <1>4 DEF Rising
  <2>2. ASSUME NEW n \in Nums(k, p) PROVE Head(q).num < n
    <3>1. PICK i \in 1 .. Len(p) : p[i].cmd = k /\ n = p[i].num
          BY DEF Nums
    <3>2. i + 1 \in 1 .. Len(q) /\ 1 \in 1 .. Len(q) /\ 1 < i + 1 /\ p[i] = q[i + 1]
          BY <1>1
    <3>. QED  BY <1>1, <1>4, <3>1, <3>2 DEF Rising
  <2>. QED  BY <2>1, <2>2 DEF Below
<1>. QED  BY <1>2, <1>3, <1>4 DEF Shrunk, p

LEMMA TailOther ==
  ASSUME NEW S, NEW q \in Seq(S), q # <<>>, NEW k, Head(q).cmd # k
  PROVE  Same(k, q, Tail(q))
<1> DEFINE p == Tail(q)
<1>1. /\ Len(q) \in Nat \ {0} /\ Len(p) = Len(q) - 1 /\ Head(q) = q[1]
      /\ \A i \in 1 .. Len(q) - 1 : p[i] = q[i + 1]
      BY TailPlaces
<1>2. Count(k, p) = Count(k, q)
  <2>1. 1 \notin Places(k, q)
        BY <1>1 DEF Places
  <2>2. Places(k, q) \ {1} = Places(k, q)
        BY <2>1
  <2>. QED  BY <2>2, TailCounts, CountIsNat
<1> HIDE DEF p
<1>3. Nums(k, q) = Nums(k, p)
  <2>1. ASSUME NEW n \in Nums(k, q) PROVE n \in Nums(k, p)
    <3>1. PICK i \in 1 .. Len(q) : q[i].cmd = k /\ n = q[i].num
          BY DEF Nums
    <3>2. i # 1
          BY <1>1, <3>1
    <3>3. i - 1 \in 1 .. Len(p) /\ p[i - 1] = q[i]
          BY <1>1, <3>2
    <3>. QED  BY <3>1, <3>3 DEF Nums
  <2>2. ASSUME NEW n \in Nums(k, p) PROVE n \in Nums(k, q)
    <3>1. PICK i \in 1 .. Len(p) : p[i].cmd = k /\ n = p[i].num
          BY DEF Nums
    <3>2. i + 1 \in 1 .. Len(q) /\ p[i] = q[i + 1]
          BY <1>1
    <3>. QED  BY <3>1, <3>2 DEF Nums
  <2>. QED  BY <2>1, <2>2
<1>4. Rising(k, q) => Rising(k, p)
      BY <1>1 DEF Rising
<1>. QED  BY <1>2, <1>3, <1>4 DEF Same, p
-----------------------------------------------------------------------------
(***************************************************************************)
(* Types, turns and mailboxes.                                             *)
(***************************************************************************)

CallersOK ==
  /\ cpc \in [Callers -> {"idle", "send", "recv"}]
  /\ kind \in [Callers -> Kinds]
  /\ left \in [Callers -> 0 .. MaxCount]
  /\ baud \in [Callers -> Bauds]
  /\ \A c \in Callers : \A k \in Kinds : sends[c][k] \in 0 .. MaxSends[c][k]
  /\ hostBaud \in Bauds \cup {NoBaud} /\ timeouts \in [Kinds -> Nat]

DeviceOK ==
  /\ dev \in {<<>>} \cup {<<p>> : p \in Packet}
  /\ devBaud \in Bauds \cup {NoBaud}
  /\ fails \in 0 .. MaxFails /\ refused \in [Kinds -> Nat]

QueuesOK ==
  /\ serial \in Seq(Packet) /\ wire \in Seq(Answer)
  /\ boxes \in [Kinds -> Seq(Answer)] /\ taken \in [Callers -> Seq(Answer)]

LEMMA TypesAre ==
  /\ CommandsTypeOK <=> CallersOK /\ DeviceOK /\ QueuesOK
  /\ CommandsTypeOK' <=> CallersOK' /\ DeviceOK' /\ QueuesOK'
  BY DEF CommandsTypeOK, CallersOK, DeviceOK, QueuesOK

\* What a caller's step keeps, whatever it asks: it is not what the device keeps.
LEMMA CallTypes ==
  ASSUME TypesInv, NEW c \in Callers, NEW k \in Kinds, NEW n \in 1 .. MaxCount,
         NEW b \in Bauds, Call(c, k, n, b)
  PROVE  TypesInv'
<1>1. CallersOK'
      BY TypesAre DEF TypesInv, Call, CallersOK
<1>2. DeviceOK' /\ QueuesOK' /\ Sorted'
      BY TypesAre DEF TypesInv, Call, DeviceOK, QueuesOK, Sorted, deviceVars
<1>3. Turns'
  <2>1. sends' = sends /\ log' = log
        BY DEF Call
  <2>2. \A d \in Callers : d # c => kind'[d] = kind[d] /\ left'[d] = left[d] /\ cpc'[d] = cpc[d]
        BY TypesAre DEF TypesInv, CallersOK, Call
  <2>3. kind'[c] = k /\ left'[c] = n /\ cpc'[c] = "send" /\ sends[c][k] + n <= MaxSends[c][k]
        BY TypesAre DEF TypesInv, CallersOK, Call
  <2>4. \A d \in Callers : d # c => Turn(d)'
        BY <2>1, <2>2 DEF TypesInv, Turns, Turn
  <2>5. Turn(c)'
        BY <2>1, <2>3 DEF Turn
  <2>. QED  BY <2>1, <2>4, <2>5 DEF TypesInv, Turns
<1>. QED  BY <1>1, <1>2, <1>3, TypesAre DEF TypesInv

LEMMA SendTypes ==
  ASSUME TypesInv, NEW c \in Callers, Send(c)
  PROVE  TypesInv'
<1>a. CallersOK /\ DeviceOK /\ QueuesOK /\ Turns /\ Sorted
      BY TypesAre DEF TypesInv
<1>b. /\ kind[c] \in Kinds /\ sends[c][kind[c]] \in Nat /\ left[c] \in 0 .. MaxCount /\ left[c] > 0
      /\ MaxSends[c][kind[c]] \in Nat /\ MaxCount \in Nat /\ baud[c] \in Bauds
      /\ sends[c][kind[c]] + left[c] <= MaxSends[c][kind[c]]
      BY <1>a, CommandBounds DEF CallersOK, Turns, Turn, Send
<1>1. /\ cpc' = [cpc EXCEPT ![c] = "recv"] /\ left' = [left EXCEPT ![c] = left[c] - 1]
      /\ sends' = [sends EXCEPT ![c] = [sends[c] EXCEPT ![kind[c]] = sends[c][kind[c]] + 1]]
      /\ UNCHANGED <<kind, baud, hostBaud, timeouts, log>>
      BY DEF Send
<1>2. sends' \in [Callers -> [Kinds -> Nat]]
      BY <1>a, <1>b, <1>1 DEF Turns
<1>3. \A d \in Callers, j \in Kinds :
         sends'[d][j] = IF d = c /\ j = kind[c] THEN sends[d][j] + 1 ELSE sends[d][j]
      BY <1>a, <1>1 DEF Turns
<1>4. CallersOK'
  <2>1. \A d \in Callers : \A j \in Kinds : sends'[d][j] \in 0 .. MaxSends[d][j]
        BY <1>a, <1>b, <1>3, CommandBounds DEF CallersOK
  <2>2. left' \in [Callers -> 0 .. MaxCount]
        BY <1>a, <1>b, <1>1 DEF CallersOK
  <2>. QED  BY <1>a, <1>1, <2>1, <2>2 DEF CallersOK
<1>5. DeviceOK' /\ Sorted'
      BY <1>a DEF Send, DeviceOK, Sorted, deviceVars
<1>6. QueuesOK'
  <2> DEFINE p == [cmd |-> kind[c], from |-> c, num |-> sends[c][kind[c]] + 1, baud |-> baud[c]]
  <2>1. sends[c][kind[c]] + 1 \in 1 .. MaxSends[c][kind[c]]
        BY <1>b
  <2>2. sends[c][kind[c]] + 1 \in Numbers
    <3> DEFINE F == {1 .. MaxSends[d][k] : d \in Callers, k \in Kinds}
    <3>1. 1 .. MaxSends[c][kind[c]] \in F
          BY <1>b
    <3>2. Numbers = (UNION F)
          BY DEF Numbers
    <3>. HIDE DEF F
    <3>. QED  BY <2>1, <3>1, <3>2
  <2>3. p \in Packet
        BY <1>b, <2>2 DEF Packet
  <2>4. serial' = Append(serial, p) /\ wire' = wire /\ boxes' = boxes /\ taken' = taken
        BY DEF Send
  <2>. HIDE DEF p
  <2>. QED  BY <1>a, <2>3, <2>4 DEF QueuesOK
<1>7. Turns'
  <2>1. \A d \in Callers : d # c => left'[d] = left[d] /\ cpc'[d] = cpc[d]
        BY <1>a, <1>1 DEF CallersOK
  <2>2. /\ cpc'[c] = "recv" /\ left'[c] = left[c] - 1 /\ kind' = kind /\ log' = log
        BY <1>a, <1>1 DEF CallersOK
  <2>3. sends'[c][kind[c]] = sends[c][kind[c]] + 1
        BY <1>b, <1>3
  <2>4. \A d \in Callers : d # c => sends'[d] = sends[d]
        BY <1>a, <1>1 DEF Turns
  <2>5. \A d \in Callers : d # c => Turn(d)'
        BY <1>a, <2>1, <2>2, <2>4 DEF Turns, Turn
  <2>6. Turn(c)'
    <3>1. \A m, n, x \in Nat : m + n <= x => (m + 1) + (n - 1) <= x /\ m + 1 > 0
          OBVIOUS
    <3>. QED  BY <1>b, <2>2, <2>3, <3>1 DEF Turn
  <2>. QED  BY <1>a, <1>2, <2>2, <2>5, <2>6 DEF Turns
<1>. QED  BY <1>4, <1>5, <1>6, <1>7, TypesAre DEF TypesInv

\* A recv that gets an answer: the oldest one of its kind.
LEMMA GotTypes ==
  ASSUME TypesInv, NEW c \in Callers, cpc[c] = "recv", Got(c)
  PROVE  /\ kind[c] \in Kinds /\ boxes[kind[c]] # <<>> /\ boxes[kind[c]] \in Seq(Answer)
         /\ boxes' = [boxes EXCEPT ![kind[c]] = Tail(boxes[kind[c]])]
         /\ boxes' \in [Kinds -> Seq(Answer)] /\ taken' \in [Callers -> Seq(Answer)]
         /\ Sorted'
         /\ sends[c][kind[c]] \in Nat
         /\ log' = [log EXCEPT ![c] = Append(log[c], <<[cmd |-> kind[c], num |-> sends[c][kind[c]]],
                                                       Head(boxes[kind[c]])>>)]
         /\ <<[cmd |-> kind[c], num |-> sends[c][kind[c]]], Head(boxes[kind[c]])>> \in Asked \X Answer
         /\ log' \in [Callers -> Seq(Asked \X Answer)]
<1>a. CallersOK /\ QueuesOK /\ Turns /\ Sorted
      BY TypesAre DEF TypesInv
<1>1. kind[c] \in Kinds /\ boxes[kind[c]] \in Seq(Answer) /\ sends[c][kind[c]] \in Nat
      BY <1>a DEF CallersOK, QueuesOK, Turns
<1>2. /\ boxes[kind[c]] # <<>>
      /\ boxes' = [boxes EXCEPT ![kind[c]] = Tail(boxes[kind[c]])]
      /\ taken' = [taken EXCEPT ![c] = Append(taken[c], Head(boxes[kind[c]]))]
      /\ log' = [log EXCEPT ![c] = Append(log[c], <<[cmd |-> kind[c], num |-> sends[c][kind[c]]],
                                                     Head(boxes[kind[c]])>>)]
      BY DEF Got, Mailboxes!Take
<1>3. /\ Head(boxes[kind[c]]) \in Answer /\ Tail(boxes[kind[c]]) \in Seq(Answer)
      BY <1>1, <1>2, TailPlaces
<1>4. boxes' \in [Kinds -> Seq(Answer)] /\ taken' \in [Callers -> Seq(Answer)]
      BY <1>a, <1>1, <1>2, <1>3 DEF QueuesOK
<1>5. Sorted'
  <2> SUFFICES ASSUME NEW k \in Kinds, NEW i \in 1 .. Len(boxes'[k])
               PROVE  boxes'[k][i].cmd = k
      BY DEF Sorted
  <2>1. CASE k = kind[c]
    <3>1. boxes'[k] = Tail(boxes[k])
          BY <1>a, <1>1, <1>2, <2>1 DEF QueuesOK
    <3>2. /\ Len(boxes[k]) \in Nat \ {0} /\ Len(Tail(boxes[k])) = Len(boxes[k]) - 1
          /\ \A j \in 1 .. Len(boxes[k]) - 1 : Tail(boxes[k])[j] = boxes[k][j + 1]
          BY <1>1, <1>2, <2>1, TailPlaces
    <3>3. i \in 1 .. Len(boxes[k]) - 1 /\ i + 1 \in 1 .. Len(boxes[k])
          BY <3>1, <3>2
    <3>4. boxes'[k][i] = boxes[k][i + 1]
          BY <3>1, <3>2, <3>3
    <3>. QED  BY <1>a, <3>3, <3>4 DEF Sorted
  <2>2. CASE k # kind[c]
        BY <1>a, <1>2, <2>2 DEF QueuesOK, Sorted
  <2>. QED  BY <2>1, <2>2
<1>6. <<[cmd |-> kind[c], num |-> sends[c][kind[c]]], Head(boxes[kind[c]])>> \in Asked \X Answer
      BY <1>1, <1>3 DEF Asked
<1>7. log' \in [Callers -> Seq(Asked \X Answer)]
      BY <1>a, <1>2, <1>6 DEF Turns
<1>. QED  BY <1>1, <1>2, <1>4, <1>5, <1>6, <1>7

\* A recv, with or without an answer.
LEMMA RecvTypes ==
  ASSUME TypesInv, NEW c \in Callers,
         TimedGot(c) \/ BaudGot(c) \/ TimedTimeout(c) \/ BaudTimeout(c)
  PROVE  TypesInv'
<1>a. CallersOK /\ DeviceOK /\ QueuesOK /\ Turns /\ Sorted
      BY TypesAre DEF TypesInv
<1>b. cpc[c] = "recv" /\ kind[c] \in Kinds /\ baud[c] \in Bauds /\ left[c] \in 0 .. MaxCount
      BY <1>a DEF TimedGot, BaudGot, TimedTimeout, BaudTimeout, CallersOK
<1>1. /\ UNCHANGED <<kind, left, baud, sends, deviceVars, serial, wire>>
      /\ hostBaud' = hostBaud \/ hostBaud' = baud[c]
      /\ timeouts' = timeouts \/ timeouts' = [timeouts EXCEPT ![kind[c]] = @ + 1]
      BY DEF TimedGot, BaudGot, TimedTimeout, BaudTimeout
<1>2. \E x \in {"idle", "send", "recv"} :
         cpc' = [cpc EXCEPT ![c] = x] /\ (x = "send" => left[c] > 0)
  <2>1. CASE TimedGot(c) \/ TimedTimeout(c)
        BY <2>1 DEF TimedGot, TimedTimeout, NextTurn
  <2>2. CASE BaudGot(c)
        BY <2>2 DEF BaudGot
  <2>3. CASE BaudTimeout(c)
    <3>1. cpc' = [cpc EXCEPT ![c] = "recv"]
          BY <1>a, <1>b, <2>3 DEF BaudTimeout, CallersOK
    <3>. QED  BY <3>1
  <2>. QED  BY <2>1, <2>2, <2>3
<1>3. /\ boxes' \in [Kinds -> Seq(Answer)] /\ taken' \in [Callers -> Seq(Answer)]
      /\ Sorted' /\ log' \in [Callers -> Seq(Asked \X Answer)]
  <2>1. CASE Got(c)
        BY <1>b, <2>1, GotTypes
  <2>2. CASE boxes' = boxes /\ taken' = taken /\ log' = log
        BY <1>a, <2>2 DEF QueuesOK, Turns, Sorted
  <2>. QED  BY <2>1, <2>2 DEF TimedGot, BaudGot, TimedTimeout, BaudTimeout
<1>4. CallersOK'
      BY <1>a, <1>b, <1>1, <1>2 DEF CallersOK
<1>5. DeviceOK' /\ QueuesOK'
      BY <1>a, <1>1, <1>3 DEF DeviceOK, QueuesOK, deviceVars
<1>6. Turns'
  <2>1. \A d \in Callers : d # c => cpc'[d] = cpc[d]
        BY <1>a, <1>2 DEF CallersOK
  <2>2. cpc'[c] = "send" => left[c] > 0
        BY <1>a, <1>2 DEF CallersOK
  <2>3. \A d \in Callers : Turn(d)'
        BY <1>a, <1>b, <1>1, <2>1, <2>2 DEF Turns, Turn
  <2>. QED  BY <1>a, <1>1, <1>3, <2>3 DEF Turns
<1>. QED  BY <1>3, <1>4, <1>5, <1>6, TypesAre DEF TypesInv
LEMMA FileTypes ==
  ASSUME TypesInv, File
  PROVE  TypesInv'
<1>a. CallersOK /\ DeviceOK /\ QueuesOK /\ Turns /\ Sorted
      BY TypesAre DEF TypesInv
<1> DEFINE a == Head(wire)
<1>1. /\ a \in Answer /\ a.cmd \in Kinds /\ wire \in Seq(Answer) /\ Tail(wire) \in Seq(Answer)
  <2>1. wire # <<>> /\ wire \in Seq(Answer)
        BY <1>a DEF File, QueuesOK
  <2>2. a \in Answer /\ Tail(wire) \in Seq(Answer)
        BY <2>1, TailPlaces
  <2>. QED  BY <2>1, <2>2 DEF Answer
<1>2. boxes' = [boxes EXCEPT ![a.cmd] = Append(boxes[a.cmd], a)] /\ taken' = taken
      BY DEF File, Mailboxes!Put
<1> HIDE DEF a
<1>3. UNCHANGED <<callerVars, deviceVars, serial>> /\ wire' = Tail(wire)
      BY DEF File
<1>4. CallersOK' /\ DeviceOK' /\ Turns'
  <2>1. CallersOK' /\ DeviceOK'
        BY <1>a, <1>3 DEF CallersOK, DeviceOK, callerVars, deviceVars
  <2>2. \A c \in Callers : Turn(c)'
        BY <1>a, <1>3 DEF Turns, Turn, callerVars
  <2>. QED  BY <1>a, <1>3, <2>1, <2>2 DEF Turns, callerVars
<1>5. QueuesOK'
      BY <1>a, <1>1, <1>2, <1>3 DEF QueuesOK
<1>6. Sorted'
  <2> SUFFICES ASSUME NEW k \in Kinds, NEW i \in 1 .. Len(boxes'[k])
               PROVE  boxes'[k][i].cmd = k
      BY DEF Sorted
  <2>1. CASE k = a.cmd
    <3>1. boxes'[k] = Append(boxes[k], a) /\ boxes[k] \in Seq(Answer)
          BY <1>a, <1>2, <2>1 DEF QueuesOK
    <3>2. /\ Len(boxes'[k]) = Len(boxes[k]) + 1 /\ boxes'[k][Len(boxes[k]) + 1] = a
          /\ 1 .. Len(boxes[k]) + 1 = (1 .. Len(boxes[k])) \cup {Len(boxes[k]) + 1}
          /\ \A j \in 1 .. Len(boxes[k]) : boxes'[k][j] = boxes[k][j]
          BY <1>1, <3>1, AppendPlaces
    <3>3. CASE i = Len(boxes[k]) + 1
          BY <2>1, <3>2, <3>3
    <3>4. ASSUME i \in 1 .. Len(boxes[k]) PROVE boxes'[k][i].cmd = k
      <4>1. boxes[k][i].cmd = k
            BY <1>a, <3>4 DEF Sorted
      <4>2. boxes'[k][i] = boxes[k][i]
            BY <3>2, <3>4
      <4>. QED  BY <4>1, <4>2
    <3>5. i \in (1 .. Len(boxes[k])) \cup {Len(boxes[k]) + 1}
      <4>1. i \in 1 .. Len(boxes[k]) + 1
            BY <3>2
      <4>. QED  BY <3>2, <4>1
    <3>. QED  BY <3>3, <3>4, <3>5
  <2>2. CASE k # a.cmd
    <3>1. boxes'[k] = boxes[k]
          BY <1>a, <1>2, <2>2 DEF QueuesOK
    <3>. QED  BY <1>a, <3>1 DEF Sorted
  <2>. QED  BY <2>1, <2>2
<1>. QED  BY <1>4, <1>5, <1>6, TypesAre DEF TypesInv

\* What the transceiver reports is an answer to the packet it works on.
LEMMA ReplyIs ==
  ASSUME TypesInv, dev # <<>>, NEW success \in BOOLEAN, DevReply(success)
  PROVE  \E a \in Answer : /\ wire' = Append(wire, a) /\ a.cmd = dev[1].cmd
                           /\ a.num = dev[1].num /\ a.ok = success
                           /\ dev \in Seq(Packet) /\ dev[1] \in Packet /\ Tail(dev) = <<>>
                           /\ Head(dev) = dev[1]
<1>1. \E p \in Packet : dev = <<p>>
      BY TypesAre DEF TypesInv, DeviceOK
<1>2. dev \in Seq(Packet) /\ dev[1] \in Packet /\ Tail(dev) = <<>> /\ Head(dev) = dev[1]
      BY <1>1
<1> DEFINE t == IF dev[1].cmd = "baud" THEN fails ELSE 0
           a == [cmd |-> dev[1].cmd, from |-> dev[1].from, num |-> dev[1].num,
                 try |-> t, ok |-> success]
<1>3. t \in 0 .. MaxFails
      BY TypesAre, CommandBounds DEF TypesInv, DeviceOK
<1>4. wire' = Append(wire, a)
      BY DEF DevReply
<1> HIDE DEF t
<1>5. a \in Answer
      BY <1>2, <1>3 DEF Answer, Packet
<1>. QED  BY <1>2, <1>4, <1>5

LEMMA DevTypes ==
  ASSUME TypesInv, Device
  PROVE  TypesInv'
<1>a. CallersOK /\ DeviceOK /\ QueuesOK /\ Turns /\ Sorted
      BY TypesAre DEF TypesInv
<1>1. UNCHANGED <<callerVars, boxes, taken>>
      BY DEF Device, DevTake, DevTransmit, DevBaudOk, DevBaudFail
<1>2. CallersOK' /\ Turns' /\ Sorted'
  <2>1. CallersOK' /\ Sorted'
        BY <1>a, <1>1 DEF CallersOK, Sorted, callerVars
  <2>2. \A c \in Callers : Turn(c)'
        BY <1>a, <1>1 DEF Turns, Turn, callerVars
  <2>. QED  BY <1>a, <1>1, <2>1, <2>2 DEF Turns, callerVars
<1>3. CASE DevTake
  <2>1. serial # <<>> /\ serial \in Seq(Packet)
        BY <1>3, <1>a DEF DevTake, QueuesOK
  <2>2. Head(serial) \in Packet /\ Tail(serial) \in Seq(Packet) /\ Head(serial).cmd \in Kinds
    <3>1. Head(serial) \in Packet /\ Tail(serial) \in Seq(Packet)
          BY <2>1, TailPlaces
    <3>. QED  BY <3>1 DEF Packet
  <2>3. /\ serial' = Tail(serial) /\ UNCHANGED <<devBaud, fails, wire>>
        /\ \/ dev' = <<Head(serial)>> /\ refused' = refused
           \/ dev' = dev /\ refused' = [refused EXCEPT ![Head(serial).cmd] = @ + 1]
        BY <1>3 DEF DevTake
  <2>4. DeviceOK'
    <3>1. dev' \in {<<>>} \cup {<<p>> : p \in Packet}
          BY <1>a, <2>2, <2>3 DEF DeviceOK
    <3>2. refused' \in [Kinds -> Nat]
          BY <1>a, <2>2, <2>3 DEF DeviceOK
    <3>. QED  BY <1>a, <2>3, <3>1, <3>2 DEF DeviceOK
  <2>5. QueuesOK'
        BY <1>a, <1>1, <2>2, <2>3 DEF QueuesOK
  <2>. QED  BY <1>2, <2>4, <2>5, TypesAre DEF TypesInv
<1>4. CASE DevTransmit \/ DevBaudOk \/ DevBaudFail
  <2>1. dev # <<>> /\ \E success \in BOOLEAN : DevReply(success)
        BY <1>4 DEF DevTransmit, DevBaudOk, DevBaudFail
  <2>2. PICK a \in Answer : wire' = Append(wire, a) /\ dev[1] \in Packet
        BY <2>1, ReplyIs
  <2>a. /\ serial' = serial /\ refused' = refused
        /\ dev' = dev \/ dev' = <<>>
        /\ devBaud' = devBaud \/ devBaud' = dev[1].baud
        /\ fails' = fails \/ (fails < MaxFails /\ fails' = fails + 1)
        BY <1>4 DEF DevTransmit, DevBaudOk, DevBaudFail
  <2>b. dev[1].baud \in Bauds
        BY <2>2 DEF Packet
  <2>3. QueuesOK'
    <3>1. Append(wire, a) \in Seq(Answer)
          BY <1>a DEF QueuesOK
    <3>. QED  BY <1>a, <1>1, <2>2, <2>a, <3>1 DEF QueuesOK
  <2>4. DeviceOK'
    <3>1. dev' \in {<<>>} \cup {<<p>> : p \in Packet}
          BY <1>a, <2>a DEF DeviceOK
    <3>2. devBaud' \in Bauds \cup {NoBaud}
          BY <1>a, <2>a, <2>b DEF DeviceOK
    <3>3. fails' \in 0 .. MaxFails /\ refused' \in [Kinds -> Nat]
          BY <1>a, <2>a, CommandBounds DEF DeviceOK
    <3>. QED  BY <3>1, <3>2, <3>3 DEF DeviceOK
  <2>. QED  BY <1>2, <2>3, <2>4, TypesAre DEF TypesInv
<1>. QED  BY <1>3, <1>4 DEF Device

LEMMA InitTypes == CommandsInit => TypesInv
<1> SUFFICES ASSUME CommandsInit PROVE TypesInv
    OBVIOUS
<1>1. boxes = [k \in Kinds |-> <<>>] /\ taken = [c \in Callers |-> <<>>]
      BY DEF CommandsInit, Mailboxes!BoxInit
<1>2. CallersOK
      BY BaudsAssumption, CommandBounds DEF CommandsInit, CallersOK, Kinds
<1>3. DeviceOK /\ QueuesOK
      BY <1>1, CommandBounds DEF CommandsInit, DeviceOK, QueuesOK, Kinds
<1>4. Turns /\ Sorted
      BY <1>1 DEF CommandsInit, Turns, Turn, Sorted
<1>. QED  BY <1>2, <1>3, <1>4, TypesAre DEF TypesInv

LEMMA StepTypes == TypesInv /\ [CommandsNext]_cmdVars => TypesInv'
<1> SUFFICES ASSUME TypesInv, [CommandsNext]_cmdVars PROVE TypesInv'
    OBVIOUS
<1>1. CASE CommandsNext
      BY <1>1, CallTypes, SendTypes, RecvTypes, FileTypes, DevTypes DEF CommandsNext, Progress
<1>2. CASE UNCHANGED cmdVars
      BY <1>2 DEF cmdVars, callerVars, deviceVars, TypesInv, CommandsTypeOK, Turns, Turn, Sorted
<1>. QED  BY <1>1, <1>2

LEMMA TypesInvariant == CommandsSpec => []TypesInv
  BY InitTypes, StepTypes, PTL DEF CommandsSpec

\* The variables of the callers, of the transceiver and of the queues between them
\* keep their types; no caller sends more than it was asked to.
THEOREM CommandsTypeCorrect == CommandsSpec => []CommandsTypeOK
  BY TypesInvariant, PTL DEF TypesInv

-----------------------------------------------------------------------------
(***************************************************************************)
(* What a step does to one kind of command that waits for 3 seconds.       *)
(***************************************************************************)

Waiters(k) == {c \in Callers : cpc[c] = "recv" /\ kind[c] = k}

SameCallers(k) ==
  /\ Waiters(k)' = Waiters(k)
  /\ \A d \in Callers : sends'[d][k] = sends[d][k]
  /\ timeouts'[k] = timeouts[k]

SameQueues(k) ==
  /\ Same(k, serial, serial') /\ Same(k, dev, dev')
  /\ Same(k, wire, wire') /\ Same(k, boxes[k], boxes'[k])
  /\ refused'[k] = refused[k]

Asks(k, c) ==
  /\ c \notin Waiters(k) /\ Waiters(k)' = Waiters(k) \cup {c}
  /\ sends'[c][k] = sends[c][k] + 1
  /\ \A d \in Callers \ {c} : sends'[d][k] = sends[d][k]
  /\ timeouts'[k] = timeouts[k] /\ refused'[k] = refused[k]
  /\ Grown(k, serial, serial', sends[c][k] + 1)
  /\ Same(k, dev, dev') /\ Same(k, wire, wire') /\ Same(k, boxes[k], boxes'[k])

Leaves(k, c) ==
  /\ c \in Waiters(k) /\ Waiters(k)' = Waiters(k) \ {c}
  /\ \A d \in Callers : sends'[d][k] = sends[d][k]

Gets(k, c) ==
  /\ Leaves(k, c)
  /\ timeouts'[k] = timeouts[k] /\ refused'[k] = refused[k]
  /\ Shrunk(k, boxes[k], boxes'[k], Head(boxes[k]).num)
  /\ Same(k, serial, serial') /\ Same(k, dev, dev') /\ Same(k, wire, wire')

GivesUp(k, c) ==
  /\ Leaves(k, c)
  /\ timeouts'[k] = timeouts[k] + 1
  /\ SameQueues(k)

Refuses(k, n) ==
  /\ SameCallers(k)
  /\ devBaud = NoBaud /\ refused'[k] = refused[k] + 1
  /\ Shrunk(k, serial, serial', n)
  /\ Same(k, dev, dev') /\ Same(k, wire, wire') /\ Same(k, boxes[k], boxes'[k])

Accepts(k, n) ==
  /\ SameCallers(k)
  /\ devBaud # NoBaud /\ refused'[k] = refused[k]
  /\ Shrunk(k, serial, serial', n) /\ Grown(k, dev, dev', n)
  /\ Same(k, wire, wire') /\ Same(k, boxes[k], boxes'[k])

Answers(k, n) ==
  /\ SameCallers(k)
  /\ refused'[k] = refused[k]
  /\ Shrunk(k, dev, dev', n) /\ Grown(k, wire, wire', n)
  /\ Same(k, serial, serial') /\ Same(k, boxes[k], boxes'[k])

Files(k, n) ==
  /\ SameCallers(k)
  /\ refused'[k] = refused[k]
  /\ Shrunk(k, wire, wire', n) /\ Grown(k, boxes[k], boxes'[k], n)
  /\ Same(k, serial, serial') /\ Same(k, dev, dev')

Moves(k) ==
  \/ SameCallers(k) /\ SameQueues(k)
  \/ \E c \in Callers : Asks(k, c) \/ Gets(k, c) \/ GivesUp(k, c)
  \/ \E n \in Nat : Refuses(k, n) \/ Accepts(k, n) \/ Answers(k, n) \/ Files(k, n)

LEMMA Unmoved == \A k, q : Same(k, q, q)
  BY DEF Same

\* Only the caller that makes a step begins or ends to wait.
LEMMA WaitersMove ==
  ASSUME CallersOK, NEW c \in Callers, NEW x \in {"idle", "send", "recv"}, NEW j \in Kinds,
         cpc' = [cpc EXCEPT ![c] = x], kind' = [kind EXCEPT ![c] = j], NEW k
  PROVE  /\ x = "recv" /\ j = k => Waiters(k)' = Waiters(k) \cup {c}
         /\ ~(x = "recv" /\ j = k) => Waiters(k)' = Waiters(k) \ {c}
<1>1. cpc'[c] = x /\ kind'[c] = j
      BY DEF CallersOK
<1>2. \A d \in Callers : d # c => cpc'[d] = cpc[d] /\ kind'[d] = kind[d]
      BY DEF CallersOK
<1>. QED  BY <1>1, <1>2 DEF Waiters

LEMMA CallMoves ==
  ASSUME TypesInv, NEW k \in Timed, NEW c \in Callers, NEW j \in Kinds,
         NEW n \in 1 .. MaxCount, NEW b \in Bauds, Call(c, j, n, b)
  PROVE  Moves(k)
<1>1. CallersOK
      BY TypesAre DEF TypesInv
<1>2. Waiters(k)' = Waiters(k) \ {c}
      BY <1>1, WaitersMove DEF Call
<1>3. c \notin Waiters(k)
      BY DEF Call, Waiters
<1>4. SameCallers(k)
      BY <1>2, <1>3 DEF Call, SameCallers
<1>5. SameQueues(k)
      BY Unmoved DEF Call, SameQueues, deviceVars
<1>. QED  BY <1>4, <1>5 DEF Moves

LEMMA SendMoves ==
  ASSUME TypesInv, NEW k \in Timed, NEW c \in Callers, Send(c)
  PROVE  Moves(k)
<1>1. CallersOK /\ QueuesOK /\ Turns
      BY TypesAre DEF TypesInv
<1>2. kind[c] \in Kinds /\ kind' = [kind EXCEPT ![c] = kind[c]]
      BY <1>1 DEF CallersOK, Send
<1> DEFINE p == [cmd |-> kind[c], from |-> c, num |-> sends[c][kind[c]] + 1, baud |-> baud[c]]
<1>3. /\ serial' = Append(serial, p) /\ p.cmd = kind[c] /\ p.num = sends[c][kind[c]] + 1
      /\ UNCHANGED <<timeouts, refused, dev, wire, boxes>>
      /\ sends' = [sends EXCEPT ![c] = [sends[c] EXCEPT ![kind[c]] = sends[c][kind[c]] + 1]]
      BY DEF Send, deviceVars
<1>4. cpc' = [cpc EXCEPT ![c] = "recv"] /\ \A j : c \notin Waiters(j)
      BY DEF Send, Waiters
<1> DEFINE S == {p} \cup Packet
<1>5. serial \in Seq(S) /\ p \in S
      BY <1>1 DEF QueuesOK
<1>6. \A d \in Callers, j \in Kinds :
         sends'[d][j] = IF d = c /\ j = kind[c] THEN sends[d][j] + 1 ELSE sends[d][j]
      BY <1>1, <1>2, <1>3 DEF Turns
<1>7. k \in Kinds
      BY DEF Timed, Kinds
<1>. HIDE DEF p, S
<1>8. CASE k = kind[c]
  <2>1. Grown(k, serial, serial', sends[c][k] + 1)
    <3>1. Grown(k, serial, Append(serial, p), p.num)
          BY <1>3, <1>5, <1>8, AppendGrows
    <3>. QED  BY <1>3, <1>8, <3>1
  <2>2. Waiters(k)' = Waiters(k) \cup {c}
        BY <1>1, <1>2, <1>4, <1>8, WaitersMove
  <2>3. Asks(k, c)
        BY <1>3, <1>4, <1>6, <1>7, <1>8, <2>1, <2>2, Unmoved DEF Asks
  <2>. QED  BY <2>3 DEF Moves
<1>9. CASE k # kind[c]
  <2>1. Same(k, serial, serial')
        BY <1>3, <1>5, <1>9, AppendOther
  <2>2. Waiters(k)' = Waiters(k) \ {c}
        BY <1>1, <1>2, <1>4, <1>9, WaitersMove
  <2>3. SameCallers(k) /\ SameQueues(k)
        BY <1>3, <1>4, <1>6, <1>7, <1>9, <2>1, <2>2, Unmoved DEF SameCallers, SameQueues
  <2>. QED  BY <2>3 DEF Moves
<1>. QED  BY <1>8, <1>9

LEMMA TimedMoves ==
  ASSUME TypesInv, NEW k \in Timed, NEW c \in Callers, TimedGot(c) \/ TimedTimeout(c)
  PROVE  Moves(k)
<1>1. CallersOK /\ QueuesOK /\ Turns
      BY TypesAre DEF TypesInv
<1>2. /\ kind[c] \in Kinds /\ kind[c] \in Timed /\ kind' = [kind EXCEPT ![c] = kind[c]]
      /\ cpc[c] = "recv"
      BY <1>1 DEF CallersOK, TimedGot, TimedTimeout
<1>3. UNCHANGED <<sends, refused, dev, wire, serial>>
      BY DEF TimedGot, TimedTimeout, deviceVars
<1>4. \E x \in {"idle", "send"} : cpc' = [cpc EXCEPT ![c] = x]
      BY DEF TimedGot, TimedTimeout, NextTurn
<1>5. \A j : Waiters(j)' = Waiters(j) \ {c}
      BY <1>1, <1>2, <1>4, WaitersMove
<1>6. \A j : (c \in Waiters(j)) <=> j = kind[c]
      BY <1>2 DEF Waiters
<1>7. k \in Kinds
      BY DEF Timed, Kinds
<1>8. CASE TimedGot(c) /\ k = kind[c]
  <2>1. Got(c) /\ timeouts' = timeouts
        BY <1>8 DEF TimedGot
  <2>2. /\ boxes[k] # <<>> /\ boxes[k] \in Seq(Answer)
        /\ boxes' = [boxes EXCEPT ![k] = Tail(boxes[k])]
        BY <1>2, <1>8, <2>1, GotTypes
  <2>3. boxes'[k] = Tail(boxes[k])
        BY <1>1, <1>7, <2>2 DEF QueuesOK
  <2>4. Head(boxes[k]).cmd = k
        BY <1>7, <2>2, TailPlaces DEF TypesInv, Sorted
  <2>5. Shrunk(k, boxes[k], boxes'[k], Head(boxes[k]).num)
        BY <2>2, <2>3, <2>4, TailShrinks
  <2>6. Gets(k, c)
        BY <1>3, <1>5, <1>6, <1>8, <2>1, <2>5, Unmoved DEF Gets, Leaves
  <2>. QED  BY <2>6 DEF Moves
<1>9. CASE TimedTimeout(c) /\ k = kind[c]
  <2>1. boxes' = boxes /\ timeouts'[k] = timeouts[k] + 1
        BY <1>1, <1>7, <1>9 DEF TimedTimeout, CallersOK
  <2>2. GivesUp(k, c)
        BY <1>3, <1>5, <1>6, <1>9, <2>1, Unmoved DEF GivesUp, Leaves, SameQueues
  <2>. QED  BY <2>2 DEF Moves
<1>10. CASE k # kind[c]
  <2>1. boxes'[k] = boxes[k] /\ timeouts'[k] = timeouts[k]
    <3>1. CASE TimedGot(c)
          BY <1>1, <1>2, <1>7, <1>10, <3>1, GotTypes DEF TimedGot, QueuesOK
    <3>2. CASE TimedTimeout(c)
          BY <1>1, <1>7, <1>10, <3>2 DEF TimedTimeout, CallersOK
    <3>. QED  BY <3>1, <3>2
  <2>2. SameCallers(k) /\ SameQueues(k)
        BY <1>3, <1>5, <1>6, <1>10, <2>1, Unmoved DEF SameCallers, SameQueues
  <2>. QED  BY <2>2 DEF Moves
<1>. QED  BY <1>8, <1>9, <1>10

LEMMA BaudMoves ==
  ASSUME TypesInv, NEW k \in Timed, NEW c \in Callers, BaudGot(c) \/ BaudTimeout(c)
  PROVE  Moves(k)
<1>1. CallersOK /\ QueuesOK
      BY TypesAre DEF TypesInv
<1>2. /\ cpc[c] = "recv" /\ kind[c] = "baud" /\ kind' = kind
      /\ UNCHANGED <<sends, timeouts, refused, dev, wire, serial>>
      BY DEF BaudGot, BaudTimeout, deviceVars
<1>3. k \in Kinds /\ k # "baud"
      BY DEF Timed, Kinds
<1>4. \A d \in Callers \ {c} : cpc'[d] = cpc[d]
      BY <1>1 DEF BaudGot, BaudTimeout, CallersOK
<1>5. Waiters(k)' = Waiters(k)
      BY <1>2, <1>3, <1>4 DEF Waiters
<1>6. boxes'[k] = boxes[k]
  <2>1. CASE BaudGot(c)
        BY <1>1, <1>2, <1>3, <2>1, GotTypes DEF BaudGot, QueuesOK
  <2>2. CASE BaudTimeout(c)
        BY <2>2 DEF BaudTimeout
  <2>. QED  BY <2>1, <2>2
<1>. QED  BY <1>2, <1>5, <1>6, Unmoved DEF Moves, SameCallers, SameQueues

LEMMA FileMoves ==
  ASSUME TypesInv, NEW k \in Timed, File
  PROVE  Moves(k)
<1>1. QueuesOK
      BY TypesAre DEF TypesInv
<1>2. wire # <<>> /\ wire \in Seq(Answer)
      BY <1>1 DEF File, QueuesOK
<1> DEFINE a == Head(wire)
<1>3. a \in Answer /\ a.cmd \in Kinds /\ a.num \in Nat
  <2>1. a \in Answer
        BY <1>2, TailPlaces
  <2>2. Numbers \subseteq Nat
        BY CommandBounds DEF Numbers
  <2>. QED  BY <2>1, <2>2 DEF Answer
<1>4. /\ boxes' = [boxes EXCEPT ![a.cmd] = Append(boxes[a.cmd], a)] /\ wire' = Tail(wire)
      /\ UNCHANGED <<cpc, kind, sends, timeouts, refused, dev, serial>>
      BY DEF File, Mailboxes!Put, callerVars, deviceVars
<1>5. SameCallers(k)
      BY <1>4 DEF SameCallers, Waiters
<1>6. k \in Kinds /\ boxes[k] \in Seq(Answer)
      BY <1>1 DEF QueuesOK, Timed, Kinds
<1>. HIDE DEF a
<1>7. CASE a.cmd = k
  <2>1. boxes'[k] = Append(boxes[k], a)
        BY <1>1, <1>4, <1>6, <1>7 DEF QueuesOK
  <2>2. Grown(k, boxes[k], boxes'[k], a.num)
        BY <1>3, <1>6, <1>7, <2>1, AppendGrows
  <2>3. Shrunk(k, wire, wire', a.num)
        BY <1>2, <1>4, <1>7, TailShrinks DEF a
  <2>4. Files(k, a.num)
        BY <1>4, <1>5, <2>2, <2>3, Unmoved DEF Files
  <2>. QED  BY <1>3, <2>4 DEF Moves
<1>8. CASE a.cmd # k
  <2>1. boxes'[k] = boxes[k]
        BY <1>1, <1>3, <1>4, <1>6, <1>8 DEF QueuesOK
  <2>2. Same(k, wire, wire')
        BY <1>2, <1>4, <1>8, TailOther DEF a
  <2>3. SameQueues(k)
        BY <1>4, <2>1, <2>2, Unmoved DEF SameQueues
  <2>. QED  BY <1>5, <2>3 DEF Moves
<1>. QED  BY <1>7, <1>8

LEMMA DevTakeMoves ==
  ASSUME TypesInv, NEW k \in Timed, DevTake
  PROVE  Moves(k)
<1>1. QueuesOK /\ DeviceOK
      BY TypesAre DEF TypesInv
<1>2. serial # <<>> /\ serial \in Seq(Packet) /\ dev = <<>> /\ serial' = Tail(serial)
      BY <1>1 DEF DevTake, QueuesOK
<1> DEFINE p == Head(serial)
<1>3. p \in Packet /\ p.cmd \in Kinds /\ p.num \in Nat
  <2>1. p \in Packet
        BY <1>2, TailPlaces
  <2>2. Numbers \subseteq Nat
        BY CommandBounds DEF Numbers
  <2>. QED  BY <2>1, <2>2 DEF Packet
<1>4. UNCHANGED <<cpc, kind, sends, timeouts, wire, boxes>>
      BY DEF DevTake, callerVars
<1>5. SameCallers(k)
      BY <1>4 DEF SameCallers, Waiters
<1>6. \/ /\ devBaud = NoBaud /\ p.cmd # "baud"
         /\ refused' = [refused EXCEPT ![p.cmd] = refused[p.cmd] + 1] /\ dev' = dev
      \/ ~(devBaud = NoBaud /\ p.cmd # "baud") /\ dev' = <<p>> /\ refused' = refused
      BY DEF DevTake
<1>7. k \in Kinds /\ k # "baud"
      BY DEF Timed, Kinds
<1>8. p.cmd = k => Shrunk(k, serial, serial', p.num)
      BY <1>2, TailShrinks
<1>9. p.cmd # k => Same(k, serial, serial')
      BY <1>2, TailOther
<1>. HIDE DEF p
<1>10. CASE devBaud = NoBaud /\ p.cmd # "baud"
  <2>1. /\ p.cmd = k => refused'[k] = refused[k] + 1
        /\ p.cmd # k => refused'[k] = refused[k]
        /\ dev' = dev
        BY <1>1, <1>3, <1>6, <1>7, <1>10 DEF DeviceOK
  <2>2. p.cmd = k => Refuses(k, p.num)
        BY <1>4, <1>5, <1>8, <1>10, <2>1, Unmoved DEF Refuses
  <2>3. p.cmd # k => SameQueues(k)
        BY <1>4, <1>9, <2>1, Unmoved DEF SameQueues
  <2>. QED  BY <1>3, <1>5, <2>2, <2>3 DEF Moves
<1>11. CASE ~(devBaud = NoBaud /\ p.cmd # "baud")
  <2>1. dev' = <<p>> /\ refused' = refused /\ Append(<<>>, p) = <<p>> /\ <<>> \in Seq(Packet)
        BY <1>6, <1>11
  <2>2. p.cmd = k => Grown(k, dev, dev', p.num)
    <3>1. p.cmd = k => Grown(k, <<>>, Append(<<>>, p), p.num)
          BY <1>3, <2>1, AppendGrows
    <3>. QED  BY <1>2, <2>1, <3>1
  <2>3. p.cmd # k => Same(k, dev, dev')
    <3>1. p.cmd # k => Same(k, <<>>, Append(<<>>, p))
          BY <1>3, <2>1, AppendOther
    <3>. QED  BY <1>2, <2>1, <3>1
  <2>4. p.cmd = k => Accepts(k, p.num)
        BY <1>4, <1>5, <1>7, <1>8, <1>11, <2>1, <2>2, Unmoved DEF Accepts
  <2>5. p.cmd # k => SameQueues(k)
        BY <1>4, <1>9, <2>1, <2>3, Unmoved DEF SameQueues
  <2>. QED  BY <1>3, <1>5, <2>4, <2>5 DEF Moves
<1>. QED  BY <1>10, <1>11

LEMMA DevReplyMoves ==
  ASSUME TypesInv, NEW k \in Timed, DevTransmit \/ DevBaudOk \/ DevBaudFail
  PROVE  Moves(k)
<1>1. QueuesOK
      BY TypesAre DEF TypesInv
<1>2. dev # <<>> /\ \E success \in BOOLEAN : DevReply(success)
      BY DEF DevTransmit, DevBaudOk, DevBaudFail
<1>3. PICK a \in Answer : /\ wire' = Append(wire, a) /\ a.cmd = dev[1].cmd /\ a.num = dev[1].num
                          /\ dev \in Seq(Packet) /\ dev[1] \in Packet /\ Tail(dev) = <<>>
                          /\ Head(dev) = dev[1]
      BY <1>2, ReplyIs
<1>4. wire \in Seq(Answer) /\ k # "baud" /\ dev[1].num \in Nat
  <2>1. Numbers \subseteq Nat
        BY CommandBounds DEF Numbers
  <2>. QED  BY <1>1, <1>3, <2>1 DEF QueuesOK, Timed, Packet
<1>5. UNCHANGED <<cpc, kind, sends, timeouts, refused, serial, boxes>>
      BY DEF DevTransmit, DevBaudOk, DevBaudFail, callerVars
<1>6. SameCallers(k)
      BY <1>5 DEF SameCallers, Waiters
<1>7. /\ dev[1].cmd = k => dev' = <<>>
      /\ dev' = dev \/ dev' = <<>>
      BY <1>4 DEF DevTransmit, DevBaudOk, DevBaudFail
<1>8. CASE dev[1].cmd = k
  <2>1. Shrunk(k, dev, dev', dev[1].num)
    <3>1. Shrunk(k, dev, Tail(dev), Head(dev).num)
          BY <1>2, <1>3, <1>8, TailShrinks
    <3>. QED  BY <1>3, <1>7, <1>8, <3>1
  <2>2. Grown(k, wire, wire', dev[1].num)
    <3>1. Grown(k, wire, Append(wire, a), a.num)
          BY <1>3, <1>4, <1>8, AppendGrows
    <3>. QED  BY <1>3, <3>1
  <2>3. Answers(k, dev[1].num)
        BY <1>5, <1>6, <2>1, <2>2, Unmoved DEF Answers
  <2>. QED  BY <1>4, <2>3 DEF Moves
<1>9. CASE dev[1].cmd # k
  <2>1. Same(k, dev, dev')
    <3>1. Same(k, dev, Tail(dev))
          BY <1>2, <1>3, <1>9, TailOther
    <3>. QED  BY <1>3, <1>7, <3>1, Unmoved
  <2>2. Same(k, wire, wire')
    <3>1. Same(k, wire, Append(wire, a))
          BY <1>3, <1>4, <1>9, AppendOther
    <3>. QED  BY <1>3, <3>1
  <2>3. SameQueues(k)
        BY <1>5, <2>1, <2>2, Unmoved DEF SameQueues
  <2>. QED  BY <1>6, <2>3 DEF Moves
<1>. QED  BY <1>8, <1>9

LEMMA StepMoves ==
  ASSUME TypesInv, NEW k \in Timed, [CommandsNext]_cmdVars
  PROVE  Moves(k)
<1>1. CASE CommandsNext
      BY <1>1, CallMoves, SendMoves, TimedMoves, BaudMoves, FileMoves, DevTakeMoves, DevReplyMoves
      DEF CommandsNext, Progress, Device
<1>2. CASE UNCHANGED cmdVars
      BY <1>2, Unmoved
      DEF cmdVars, callerVars, deviceVars, Moves, SameCallers, SameQueues, Waiters
<1>. QED  BY <1>1, <1>2
-----------------------------------------------------------------------------
(***************************************************************************)
(* No answer is made up and none vanishes.                                 *)
(***************************************************************************)

\* In a mailbox in which all is of one kind, the length is the count.
LEMMA AllCount ==
  ASSUME NEW k, NEW S, NEW q \in Seq(S), \A i \in 1 .. Len(q) : q[i].cmd = k
  PROVE  Len(q) = Count(k, q)
<1>1. Len(q) \in Nat /\ Places(k, q) = 1 .. Len(q)
      BY DEF Places
<1>2. Cardinality(1 .. Len(q)) = IF 1 > Len(q) THEN 0 ELSE Len(q) - 1 + 1
      BY <1>1, FS_Interval
<1>. QED  BY <1>1, <1>2, CountIsNat

UnderwaySum(k) == Count(k, serial) + Count(k, dev) + Count(k, wire) + Count(k, boxes[k])

\* The counts are numbers, and Waiting counts the waiters.
CountsOK(k) ==
  /\ Count(k, serial) \in Nat /\ Count(k, dev) \in Nat
  /\ Count(k, wire) \in Nat /\ Count(k, boxes[k]) \in Nat
  /\ Underway(k) = UnderwaySum(k) /\ Underway(k) \in Nat
  /\ timeouts[k] \in Nat /\ refused[k] \in Nat
  /\ IsFiniteSet(Waiters(k)) /\ Waiting(k) = Cardinality(Waiters(k)) /\ Waiting(k) \in Nat

AllCountsOK == \A k \in Kinds : CountsOK(k)

LEMMA CountsAre == TypesInv => AllCountsOK
<1> SUFFICES ASSUME TypesInv, NEW k \in Kinds PROVE CountsOK(k)
    BY DEF AllCountsOK
<1>1. CallersOK /\ DeviceOK /\ QueuesOK /\ Sorted
      BY TypesAre DEF TypesInv
<1>2. /\ serial \in Seq(Packet) /\ wire \in Seq(Answer) /\ boxes[k] \in Seq(Answer)
      /\ dev \in Seq(Packet)
  <2>1. dev = <<>> \/ \E p \in Packet : dev = <<p>>
        BY <1>1 DEF DeviceOK
  <2>2. dev \in Seq(Packet)
    <3>1. CASE dev = <<>>
          BY <3>1
    <3>2. CASE \E p \in Packet : dev = <<p>>
          BY <3>2
    <3>. QED  BY <2>1, <3>1, <3>2
  <2>. QED  BY <1>1, <2>2 DEF QueuesOK
<1>3. /\ Count(k, serial) \in Nat /\ Count(k, dev) \in Nat
      /\ Count(k, wire) \in Nat /\ Count(k, boxes[k]) \in Nat
      BY <1>2, CountIsNat
<1>4. Len(boxes[k]) = Count(k, boxes[k])
      BY <1>1, <1>2, AllCount DEF Sorted
<1>5. Waiters(k) \subseteq Callers /\ Waiting(k) = Cardinality(Waiters(k))
      BY DEF Waiters, Waiting
<1>6. IsFiniteSet(Waiters(k)) /\ Waiting(k) \in Nat
      BY <1>5, CallersAssumption, FS_Subset, FS_CardinalityType
<1>7. timeouts[k] \in Nat /\ refused[k] \in Nat
      BY <1>1 DEF CallersOK, DeviceOK
<1>8. Underway(k) = UnderwaySum(k) /\ Underway(k) \in Nat
      BY <1>3, <1>4 DEF Underway, UnderwaySum
<1>. QED  BY <1>3, <1>5, <1>6, <1>7, <1>8 DEF CountsOK

\* The same in the next state.
LEMMA CountsWillBe == TypesInv' => AllCountsOK'
  BY CountsAre, PTL

\* How many are underway, and how many wait, after a step.
LEMMA MovesCount ==
  ASSUME NEW k \in Timed, CountsOK(k), CountsOK(k)', Moves(k)
  PROVE  (Underway(k) + refused[k]) - (Waiting(k) + timeouts[k])
           = (Underway(k)' + refused'[k]) - (Waiting(k)' + timeouts'[k])
<1>1. CASE SameCallers(k) /\ SameQueues(k)
      BY <1>1 DEF CountsOK, UnderwaySum, SameCallers, SameQueues, Same
<1>2. CASE \E c \in Callers : Asks(k, c) \/ Gets(k, c) \/ GivesUp(k, c)
  <2>1. PICK c \in Callers : Asks(k, c) \/ Gets(k, c) \/ GivesUp(k, c)
        BY <1>2
  <2>2. CASE Asks(k, c)
    <3>1. Cardinality(Waiters(k) \cup {c})
            = IF c \in Waiters(k) THEN Cardinality(Waiters(k)) ELSE Cardinality(Waiters(k)) + 1
          BY FS_AddElement DEF CountsOK
    <3>2. Waiting(k)' = Waiting(k) + 1
          BY <2>2, <3>1 DEF Asks, CountsOK
    <3>. QED  BY <2>2, <3>2 DEF Asks, CountsOK, UnderwaySum, Same, Grown
  <2>3. CASE Gets(k, c) \/ GivesUp(k, c)
    <3>1. Cardinality(Waiters(k) \ {c})
            = IF c \in Waiters(k) THEN Cardinality(Waiters(k)) - 1 ELSE Cardinality(Waiters(k))
          BY FS_RemoveElement DEF CountsOK
    <3>2. Waiting(k)' = Waiting(k) - 1
          BY <2>3, <3>1 DEF Gets, GivesUp, Leaves, CountsOK
    <3>3. CASE Gets(k, c)
          BY <3>2, <3>3 DEF Gets, CountsOK, UnderwaySum, Same, Shrunk
    <3>4. CASE GivesUp(k, c)
          BY <3>2, <3>4 DEF GivesUp, CountsOK, UnderwaySum, SameQueues, Same
    <3>. QED  BY <2>3, <3>3, <3>4
  <2>. QED  BY <2>1, <2>2, <2>3
<1>3. CASE \E n \in Nat : Refuses(k, n) \/ Accepts(k, n) \/ Answers(k, n) \/ Files(k, n)
  <2>1. PICK n \in Nat : Refuses(k, n) \/ Accepts(k, n) \/ Answers(k, n) \/ Files(k, n)
        BY <1>3
  <2>2. SameCallers(k)
        BY <2>1 DEF Refuses, Accepts, Answers, Files
  <2>3. CASE Refuses(k, n)
        BY <2>2, <2>3 DEF SameCallers, Refuses, CountsOK, UnderwaySum, Same, Shrunk
  <2>4. CASE Accepts(k, n)
        BY <2>2, <2>4 DEF SameCallers, Accepts, CountsOK, UnderwaySum, Same, Shrunk, Grown
  <2>5. CASE Answers(k, n)
        BY <2>2, <2>5 DEF SameCallers, Answers, CountsOK, UnderwaySum, Same, Shrunk, Grown
  <2>6. CASE Files(k, n)
        BY <2>2, <2>6 DEF SameCallers, Files, CountsOK, UnderwaySum, Same, Shrunk, Grown
  <2>. QED  BY <2>1, <2>3, <2>4, <2>5, <2>6
<1>. QED  BY <1>1, <1>2, <1>3 DEF Moves

LEMMA InitConserved == CommandsInit => AnswersConserved
<1> SUFFICES ASSUME CommandsInit, NEW k \in Timed
             PROVE  Underway(k) + refused[k] = Waiting(k) + timeouts[k]
    BY DEF AnswersConserved
<1>1. k \in Kinds
      BY DEF Timed, Kinds
<1>2. serial = <<>> /\ dev = <<>> /\ wire = <<>> /\ boxes[k] = <<>> /\ timeouts[k] = 0 /\ refused[k] = 0
      BY <1>1 DEF CommandsInit, Mailboxes!BoxInit
<1>3. {c \in Callers : cpc[c] = "recv" /\ kind[c] = k} = {}
      BY DEF CommandsInit
<1>4. Waiting(k) = 0
      BY <1>3, FS_EmptySet DEF Waiting
<1>. QED  BY <1>2, <1>4, EmptyHasNone DEF Underway

LEMMA StepConserved ==
  ASSUME TypesInv, AnswersConserved, [CommandsNext]_cmdVars
  PROVE  AnswersConserved'
<1> SUFFICES ASSUME NEW k \in Timed
             PROVE  Underway(k)' + refused'[k] = Waiting(k)' + timeouts'[k]
    BY DEF AnswersConserved
<1>1. k \in Kinds
      BY DEF Timed, Kinds
<1>2. CountsOK(k) /\ CountsOK(k)'
      BY <1>1, StepTypes, CountsAre, CountsWillBe DEF AllCountsOK
<1>3. Underway(k) + refused[k] = Waiting(k) + timeouts[k]
      BY DEF AnswersConserved
<1>. QED  BY <1>2, <1>3, StepMoves, MovesCount DEF CountsOK

\* Every command that somebody waits for, or has given up, is underway or was refused,
\* and nothing else is.
THEOREM NoAnswerVanishes == CommandsSpec => []AnswersConserved
<1>1. TypesInv /\ AnswersConserved /\ [CommandsNext]_cmdVars => AnswersConserved'
      BY StepConserved
<1>. QED  BY <1>1, InitConserved, TypesInvariant, PTL DEF CommandsSpec

-----------------------------------------------------------------------------
(***************************************************************************)
(* Of a lone caller, the last commands are underway, in order.             *)
(***************************************************************************)

LEMMA MovesOrder ==
  ASSUME NEW k, InOrder(k)
  PROVE  /\ SameQueues(k) => InOrder(k)' /\ Pending(k)' = Pending(k)
         /\ \A c \in Callers :
              /\ Gets(k, c) =>
                   /\ InOrder(k)'
                   /\ Pending(k) = Pending(k)' \cup {Head(boxes[k]).num}
                   /\ Below({Head(boxes[k]).num}, Pending(k)')
              /\ Asks(k, c) /\ Below(Pending(k), {sends[c][k] + 1}) =>
                   /\ InOrder(k)'
                   /\ Pending(k)' = Pending(k) \cup {sends[c][k] + 1}
         /\ \A n \in Nat :
              /\ Accepts(k, n) \/ Answers(k, n) \/ Files(k, n) =>
                   InOrder(k)' /\ Pending(k)' = Pending(k)
              /\ /\ Refuses(k, n)
                 /\ Nums(k, boxes[k]) = {} /\ Nums(k, wire) = {} /\ Nums(k, dev) = {}
                 => /\ InOrder(k)'
                    /\ Pending(k) = Pending(k)' \cup {n}
                    /\ Below({n}, Pending(k)')
<1>1. ASSUME SameQueues(k) PROVE InOrder(k)' /\ Pending(k)' = Pending(k)
      BY <1>1 DEF SameQueues, Same, InOrder, Pending
<1>2. ASSUME NEW c \in Callers, Gets(k, c)
      PROVE  /\ InOrder(k)'
             /\ Pending(k) = Pending(k)' \cup {Head(boxes[k]).num}
             /\ Below({Head(boxes[k]).num}, Pending(k)')
  <2> DEFINE h == Head(boxes[k]).num
  <2>1. /\ Nums(k, boxes[k]) = Nums(k, boxes'[k]) \cup {h}
        /\ Rising(k, boxes'[k]) /\ Below({h}, Nums(k, boxes'[k]))
        BY <1>2 DEF Gets, Shrunk, InOrder
  <2>2. /\ Nums(k, serial') = Nums(k, serial) /\ Nums(k, dev') = Nums(k, dev)
        /\ Nums(k, wire') = Nums(k, wire)
        /\ Rising(k, serial') /\ Rising(k, dev') /\ Rising(k, wire')
        BY <1>2 DEF Gets, Same, InOrder
  <2>. HIDE DEF h
  <2>3. InOrder(k)'
        BY <2>1, <2>2 DEF InOrder, Below
  <2>4. Pending(k) = Pending(k)' \cup {h}
        BY <2>1, <2>2 DEF Pending
  <2>5. Below({h}, Pending(k)')
        BY <2>1, <2>2 DEF Pending, InOrder, Below
  <2>. QED  BY <2>3, <2>4, <2>5 DEF h
<1>3. ASSUME NEW c \in Callers, Asks(k, c), Below(Pending(k), {sends[c][k] + 1})
      PROVE  InOrder(k)' /\ Pending(k)' = Pending(k) \cup {sends[c][k] + 1}
  <2> DEFINE n == sends[c][k] + 1
  <2>1. /\ Nums(k, serial') = Nums(k, serial) \cup {n}
        /\ Nums(k, dev') = Nums(k, dev) /\ Nums(k, wire') = Nums(k, wire)
        /\ Nums(k, boxes'[k]) = Nums(k, boxes[k])
        /\ Rising(k, boxes'[k]) /\ Rising(k, dev') /\ Rising(k, wire')
        BY <1>3 DEF Asks, Grown, Same, InOrder
  <2>2. \A a \in Pending(k) : a < n
        BY <1>3 DEF Below
  <2>3. Below(Nums(k, serial), {n}) /\ Rising(k, serial')
        BY <1>3, <2>2 DEF Asks, Grown, InOrder, Pending, Below
  <2>. HIDE DEF n
  <2>4. InOrder(k)'
        BY <2>1, <2>2, <2>3 DEF InOrder, Below, Pending
  <2>. QED  BY <2>1, <2>4 DEF Pending, n
<1>4. ASSUME NEW n \in Nat, Accepts(k, n)
      PROVE  InOrder(k)' /\ Pending(k)' = Pending(k)
  <2>1. /\ Nums(k, serial) = Nums(k, serial') \cup {n} /\ Nums(k, dev') = Nums(k, dev) \cup {n}
        /\ Nums(k, wire') = Nums(k, wire) /\ Nums(k, boxes'[k]) = Nums(k, boxes[k])
        /\ Below({n}, Nums(k, serial')) /\ Rising(k, serial')
        /\ Rising(k, boxes'[k]) /\ Rising(k, wire')
        BY <1>4 DEF Accepts, Grown, Shrunk, Same, InOrder
  <2>2. Below(Nums(k, dev), {n})
        BY <2>1 DEF InOrder, Below
  <2>3. Rising(k, dev')
        BY <1>4, <2>2 DEF Accepts, Grown, InOrder
  <2>4. InOrder(k)'
        BY <2>1, <2>3 DEF InOrder, Below
  <2>. QED  BY <2>1, <2>4 DEF Pending
<1>5. ASSUME NEW n \in Nat, Answers(k, n)
      PROVE  InOrder(k)' /\ Pending(k)' = Pending(k)
  <2>1. /\ Nums(k, dev) = Nums(k, dev') \cup {n} /\ Nums(k, wire') = Nums(k, wire) \cup {n}
        /\ Nums(k, serial') = Nums(k, serial) /\ Nums(k, boxes'[k]) = Nums(k, boxes[k])
        /\ Below({n}, Nums(k, dev')) /\ Rising(k, dev')
        /\ Rising(k, boxes'[k]) /\ Rising(k, serial')
        BY <1>5 DEF Answers, Grown, Shrunk, Same, InOrder
  <2>2. Below(Nums(k, wire), {n})
        BY <2>1 DEF InOrder, Below
  <2>3. Rising(k, wire')
        BY <1>5, <2>2 DEF Answers, Grown, InOrder
  <2>4. InOrder(k)'
        BY <2>1, <2>3 DEF InOrder, Below
  <2>. QED  BY <2>1, <2>4 DEF Pending
<1>6. ASSUME NEW n \in Nat, Files(k, n)
      PROVE  InOrder(k)' /\ Pending(k)' = Pending(k)
  <2>1. /\ Nums(k, wire) = Nums(k, wire') \cup {n}
        /\ Nums(k, boxes'[k]) = Nums(k, boxes[k]) \cup {n}
        /\ Nums(k, serial') = Nums(k, serial) /\ Nums(k, dev') = Nums(k, dev)
        /\ Below({n}, Nums(k, wire')) /\ Rising(k, wire')
        /\ Rising(k, dev') /\ Rising(k, serial')
        BY <1>6 DEF Files, Grown, Shrunk, Same, InOrder
  <2>2. Below(Nums(k, boxes[k]), {n})
        BY <2>1 DEF InOrder, Below
  <2>3. Rising(k, boxes'[k])
        BY <1>6, <2>2 DEF Files, Grown, InOrder
  <2>4. InOrder(k)'
        BY <2>1, <2>3 DEF InOrder, Below
  <2>. QED  BY <2>1, <2>4 DEF Pending
<1>7. ASSUME NEW n \in Nat, Refuses(k, n),
             Nums(k, boxes[k]) = {}, Nums(k, wire) = {}, Nums(k, dev) = {}
      PROVE  /\ InOrder(k)'
             /\ Pending(k) = Pending(k)' \cup {n}
             /\ Below({n}, Pending(k)')
  <2>1. /\ Nums(k, serial) = Nums(k, serial') \cup {n}
        /\ Nums(k, dev') = {} /\ Nums(k, wire') = {} /\ Nums(k, boxes'[k]) = {}
        /\ Below({n}, Nums(k, serial')) /\ Rising(k, serial')
        /\ Rising(k, boxes'[k]) /\ Rising(k, wire') /\ Rising(k, dev')
        BY <1>7 DEF Refuses, Shrunk, Same, InOrder
  <2>2. InOrder(k)'
        BY <2>1 DEF InOrder, Below
  <2>. QED  BY <1>7, <2>1, <2>2 DEF Pending
<1>. QED  BY <1>1, <1>2, <1>3, <1>4, <1>5, <1>6, <1>7

LEMMA LeastOfInterval ==
  ASSUME NEW a \in Int, NEW b \in Int, NEW A, NEW h, a .. b = A \cup {h}, Below({h}, A)
  PROVE  h = a /\ h <= b /\ A = a + 1 .. b
<1>1. h \in a .. b /\ \A x \in A : x \in a .. b /\ h < x
      BY DEF Below
<1>2. a \in A \cup {h}
      BY <1>1
<1>3. h = a
      BY <1>1, <1>2
<1>4. \A x \in a + 1 .. b : x \in A
      BY <1>3
<1>5. \A x \in A : x \in a + 1 .. b
      BY <1>1, <1>3
<1>6. A = a + 1 .. b
      BY <1>4, <1>5, Zenon
<1>7. h <= b
      BY <1>1
<1>. QED  BY <1>3, <1>6, <1>7

LEMMA StepSilent ==
  ASSUME TypesInv, SilentBefore, [CommandsNext]_cmdVars
  PROVE  SilentBefore'
<1> SUFFICES ASSUME devBaud' = NoBaud, NEW k \in Timed
             PROVE  (Nums(k, boxes[k]) = {} /\ Nums(k, wire) = {} /\ Nums(k, dev) = {})'
    BY DEF SilentBefore
<1>1. devBaud = NoBaud
  <2>1. CASE DevBaudOk
    <3>1. \E p \in Packet : dev = <<p>>
          BY <2>1, TypesAre DEF TypesInv, DeviceOK, DevBaudOk
    <3>2. dev[1].baud \in Bauds
          BY <3>1 DEF Packet
    <3>. QED  BY <2>1, <3>2, BaudsAssumption DEF DevBaudOk
  <2>2. CASE UNCHANGED devBaud
        BY <2>2
  <2>. QED
       BY <2>1, <2>2
       DEF CommandsNext, Call, Progress, Send, TimedGot, BaudGot, TimedTimeout, BaudTimeout,
           File, Device, DevTake, DevTransmit, DevBaudFail, cmdVars, deviceVars
<1>2. Nums(k, boxes[k]) = {} /\ Nums(k, wire) = {} /\ Nums(k, dev) = {}
      BY <1>1 DEF SilentBefore
<1>3. Moves(k)
      BY StepMoves
<1>. QED
     BY <1>1, <1>2, <1>3
     DEF Moves, SameQueues, Asks, Gets, GivesUp, Refuses, Accepts, Answers, Files,
         Same, Shrunk, Grown

LEMMA StaysAlone ==
  ASSUME TypesInv, NEW k \in Timed, Moves(k), NEW c \in Callers, Alone(c, k)'
  PROVE  Alone(c, k) /\ \A d \in Callers : Asks(k, d) => d = c
<1>1. \A d \in Callers : sends[d][k] \in Nat
      BY DEF TypesInv, Turns, Timed, Kinds
<1>2. ASSUME NEW d \in Callers, Asks(k, d) PROVE d = c
      BY <1>1, <1>2 DEF Asks, Alone
<1>3. \A d \in Callers \ {c} : sends'[d][k] = sends[d][k]
      BY <1>2
      DEF Moves, SameCallers, Asks, Gets, GivesUp, Leaves, Refuses, Accepts, Answers, Files
<1>. QED  BY <1>2, <1>3 DEF Alone

LEMMA StepLast ==
  ASSUME TypesInv, LastOnes, SilentBefore, [CommandsNext]_cmdVars
  PROVE  LastOnes'
<1> SUFFICES ASSUME NEW c \in Callers, NEW k \in Timed, Alone(c, k)'
             PROVE  /\ InOrder(k)'
                    /\ Pending(k)' = sends'[c][k] - Underway(k)' + 1 .. sends'[c][k]
    BY DEF LastOnes
<1>1. k \in Kinds
      BY DEF Timed, Kinds
<1>2. Moves(k)
      BY StepMoves
<1>3. Alone(c, k) /\ \A d \in Callers : Asks(k, d) => d = c
      BY <1>2, StaysAlone
<1> DEFINE s == sends[c][k]
           u == Underway(k)
<1>4. InOrder(k) /\ Pending(k) = s - u + 1 .. s
      BY <1>3 DEF LastOnes
<1>5. CountsOK(k) /\ CountsOK(k)' /\ s \in Nat /\ u \in Nat
  <2>1. CountsOK(k) /\ CountsOK(k)'
        BY <1>1, StepTypes, CountsAre, CountsWillBe DEF AllCountsOK
  <2>. QED  BY <1>1, <2>1 DEF TypesInv, Turns, CountsOK
<1>6. CASE SameCallers(k) /\ SameQueues(k)
  <2>1. InOrder(k)' /\ Pending(k)' = Pending(k)
        BY <1>4, <1>6, MovesOrder
  <2>2. Underway(k)' = u /\ sends'[c][k] = s
        BY <1>5, <1>6 DEF SameCallers, SameQueues, Same, CountsOK, UnderwaySum
  <2>. QED  BY <1>4, <2>1, <2>2
<1>7. ASSUME NEW d \in Callers, Asks(k, d)
      PROVE  /\ InOrder(k)'
             /\ Pending(k)' = sends'[c][k] - Underway(k)' + 1 .. sends'[c][k]
  <2>1. d = c
        BY <1>3, <1>7
  <2>2. Underway(k)' = u + 1 /\ sends'[c][k] = s + 1
        BY <1>5, <1>7, <2>1 DEF Asks, Grown, Same, CountsOK, UnderwaySum
  <2>3. Below(Pending(k), {s + 1})
        BY <1>4, <1>5 DEF Below
  <2>4. InOrder(k)' /\ Pending(k)' = Pending(k) \cup {s + 1}
        BY <1>4, <1>7, <2>1, <2>3, MovesOrder
  <2>. HIDE DEF s, u
  <2>5. (s - u + 1 .. s) \cup {s + 1} = (s + 1) - (u + 1) + 1 .. s + 1
        BY <1>5
  <2>. QED  BY <1>4, <2>2, <2>4, <2>5
<1>8. ASSUME NEW d \in Callers, GivesUp(k, d)
      PROVE  /\ InOrder(k)'
             /\ Pending(k)' = sends'[c][k] - Underway(k)' + 1 .. sends'[c][k]
  <2>1. InOrder(k)' /\ Pending(k)' = Pending(k)
        BY <1>4, <1>8, MovesOrder DEF GivesUp
  <2>2. Underway(k)' = u /\ sends'[c][k] = s
        BY <1>5, <1>8 DEF GivesUp, Leaves, SameQueues, Same, CountsOK, UnderwaySum
  <2>. QED  BY <1>4, <2>1, <2>2
<1>9. ASSUME NEW h, Pending(k) = Pending(k)' \cup {h}, Below({h}, Pending(k)'),
             Underway(k)' = u - 1, sends'[c][k] = s
      PROVE  Pending(k)' = sends'[c][k] - Underway(k)' + 1 .. sends'[c][k]
  <2> DEFINE A == Pending(k)'
             a == s - u + 1
  <2>. HIDE DEF s, u
  <2>1. a \in Int /\ s \in Int /\ a + 1 = s - (u - 1) + 1
        BY <1>5
  <2>2. a .. s = A \cup {h} /\ Below({h}, A)
        BY <1>4, <1>9
  <2>. HIDE DEF A, a
  <2>3. A = a + 1 .. s
        BY <2>1, <2>2, LeastOfInterval
  <2>. QED  BY <1>9, <2>1, <2>3 DEF A
<1>10. ASSUME NEW d \in Callers, Gets(k, d)
       PROVE  /\ InOrder(k)'
              /\ Pending(k)' = sends'[c][k] - Underway(k)' + 1 .. sends'[c][k]
  <2>1. /\ InOrder(k)'
        /\ Pending(k) = Pending(k)' \cup {Head(boxes[k]).num}
        /\ Below({Head(boxes[k]).num}, Pending(k)')
        BY <1>4, <1>10, MovesOrder
  <2>2. Underway(k)' = u - 1 /\ sends'[c][k] = s
        BY <1>5, <1>10 DEF Gets, Leaves, Same, Shrunk, CountsOK, UnderwaySum
  <2>. QED  BY <1>9, <2>1, <2>2
<1>11. ASSUME NEW n \in Nat, Refuses(k, n)
       PROVE  /\ InOrder(k)'
              /\ Pending(k)' = sends'[c][k] - Underway(k)' + 1 .. sends'[c][k]
  <2>1. Nums(k, boxes[k]) = {} /\ Nums(k, wire) = {} /\ Nums(k, dev) = {}
        BY <1>11 DEF Refuses, SilentBefore
  <2>2. InOrder(k)' /\ Pending(k) = Pending(k)' \cup {n} /\ Below({n}, Pending(k)')
        BY <1>4, <1>11, <2>1, MovesOrder
  <2>3. Underway(k)' = u - 1 /\ sends'[c][k] = s
        BY <1>5, <1>11 DEF Refuses, SameCallers, Same, Shrunk, CountsOK, UnderwaySum
  <2>. QED  BY <1>9, <2>2, <2>3
<1>12. ASSUME NEW n \in Nat, Accepts(k, n) \/ Answers(k, n) \/ Files(k, n)
       PROVE  /\ InOrder(k)'
              /\ Pending(k)' = sends'[c][k] - Underway(k)' + 1 .. sends'[c][k]
  <2>1. InOrder(k)' /\ Pending(k)' = Pending(k)
        BY <1>4, <1>12, MovesOrder
  <2>2. sends'[c][k] = s
        BY <1>12 DEF Accepts, Answers, Files, SameCallers
  <2>3. Underway(k)' = u
    <3>1. CASE Accepts(k, n)
          BY <1>5, <3>1 DEF Accepts, Same, Shrunk, Grown, CountsOK, UnderwaySum
    <3>2. CASE Answers(k, n)
          BY <1>5, <3>2 DEF Answers, Same, Shrunk, Grown, CountsOK, UnderwaySum
    <3>3. CASE Files(k, n)
          BY <1>5, <3>3 DEF Files, Same, Shrunk, Grown, CountsOK, UnderwaySum
    <3>. QED  BY <1>12, <3>1, <3>2, <3>3
  <2>. QED  BY <1>4, <2>1, <2>2, <2>3
<1>. HIDE DEF s, u
<1>. QED  BY <1>2, <1>6, <1>7, <1>8, <1>10, <1>11, <1>12 DEF Moves

LEMMA InitLast == CommandsInit => LastOnes /\ SilentBefore /\ LagBounded
<1> SUFFICES ASSUME CommandsInit PROVE LastOnes /\ SilentBefore /\ LagBounded
    OBVIOUS
<1>1. \A k \in Kinds : serial = <<>> /\ dev = <<>> /\ wire = <<>> /\ boxes[k] = <<>>
      BY DEF CommandsInit, Mailboxes!BoxInit
<1>2. Timed \subseteq Kinds
      BY DEF Timed, Kinds
<1>3. SilentBefore
      BY <1>1, <1>2, EmptyHasNone DEF SilentBefore
<1>4. LagBounded
      BY DEF CommandsInit, LagBounded
<1>5. ASSUME NEW c \in Callers, NEW k \in Timed
      PROVE  InOrder(k) /\ Pending(k) = sends[c][k] - Underway(k) + 1 .. sends[c][k]
  <2>1. InOrder(k) /\ Pending(k) = {}
        BY <1>1, <1>2, EmptyHasNone DEF InOrder, Pending, Below
  <2>2. sends[c][k] = 0 /\ Underway(k) = 0
        BY <1>1, <1>2, EmptyHasNone DEF CommandsInit, Underway
  <2>. QED  BY <2>1, <2>2
<1>. QED  BY <1>3, <1>4, <1>5 DEF LastOnes

-----------------------------------------------------------------------------
(***************************************************************************)
(* How late an answer can be.                                              *)
(***************************************************************************)

\* The oldest answer is the oldest of the last commands; there are as many of these as
\* the lone caller, who waits for one, has given up, less those that were refused.
LEMMA OldestAnswer ==
  ASSUME TypesInv, AnswersConserved, LastOnes, NEW c \in Callers, NEW k \in Timed,
         Alone(c, k), cpc[c] = "recv", kind[c] = k, boxes[k] # <<>>
  PROVE  /\ Head(boxes[k]) \in Answer /\ Head(boxes[k]).num \in Nat /\ sends[c][k] \in Nat
         /\ Head(boxes[k]).num \in sends[c][k] - timeouts[k] .. sends[c][k]
<1> DEFINE q == boxes[k]
           h == Head(q).num
           s == sends[c][k]
           u == Underway(k)
           A == Nums(k, Tail(q)) \cup Nums(k, wire) \cup Nums(k, dev) \cup Nums(k, serial)
           a == s - u + 1
<1>1. k \in Kinds
      BY DEF Timed, Kinds
<1>2. q \in Seq(Answer)
      BY <1>1, TypesAre DEF TypesInv, QueuesOK
<1>3. Head(q) \in Answer /\ Head(q).cmd = k /\ h \in Nat
  <2>1. Head(q) \in Answer
        BY <1>2, TailPlaces
  <2>2. Head(q).cmd = k
        BY <1>1, <1>2, TailPlaces DEF TypesInv, Sorted
  <2>3. Numbers \subseteq Nat
        BY CommandBounds DEF Numbers
  <2>. QED  BY <2>1, <2>2, <2>3 DEF Answer
<1>4. Shrunk(k, q, Tail(q), h)
      BY <1>2, <1>3, TailShrinks
<1>5. InOrder(k) /\ Pending(k) = a .. s
      BY DEF LastOnes
<1>6. CountsOK(k) /\ s \in Nat /\ u \in Nat
  <2>1. CountsOK(k)
        BY <1>1, CountsAre DEF AllCountsOK
  <2>. QED  BY <1>1, <2>1 DEF TypesInv, Turns, CountsOK
<1>7. a .. s = A \cup {h} /\ Below({h}, A)
  <2>1. Nums(k, q) = Nums(k, Tail(q)) \cup {h} /\ Below({h}, Nums(k, Tail(q)))
        BY <1>4, <1>5 DEF Shrunk, InOrder
  <2>2. Pending(k) = A \cup {h}
        BY <2>1 DEF Pending
  <2>3. h \in Nums(k, q)
        BY <2>1
  <2>4. \A x \in A : h < x
        BY <1>5, <2>1, <2>3 DEF InOrder, Below
  <2>. QED  BY <1>5, <2>2, <2>4 DEF Below
<1>8. Waiting(k) = 1
  <2>1. Waiters(k) = {c}
    <3>1. ASSUME NEW d \in Callers \ {c} PROVE d \notin Waiters(k)
          BY DEF Waiters, TypesInv, Turns, Turn, Alone
    <3>2. c \in Waiters(k) /\ Waiters(k) \subseteq Callers
          BY DEF Waiters
    <3>. QED  BY <3>1, <3>2
  <2>2. Cardinality({c}) = 1
        BY FS_Singleton
  <2>. QED  BY <1>6, <2>1, <2>2 DEF CountsOK
<1>9. u + refused[k] = 1 + timeouts[k] /\ refused[k] \in Nat /\ timeouts[k] \in Nat
      BY <1>6, <1>8 DEF AnswersConserved, CountsOK
<1>10. s \in Nat /\ u \in Nat /\ a = s - u + 1 /\ a \in Int
      BY <1>6
<1>. HIDE DEF A, h, s, u, q, a
<1>11. h = a /\ h <= s
  <2>1. a \in Int /\ s \in Int
        BY <1>10
  <2>. QED  BY <1>7, <2>1, LeastOfInterval
<1>12. h \in s - timeouts[k] .. s
      BY <1>3, <1>9, <1>10, <1>11
<1>. QED  BY <1>3, <1>10, <1>12 DEF h, s, q

LEMMA TimeoutsGrow ==
  ASSUME TypesInv, NEW k \in Timed, Moves(k)
  PROVE  timeouts[k] \in Nat /\ timeouts'[k] \in Nat /\ timeouts[k] <= timeouts'[k]
<1>1. timeouts[k] \in Nat
      BY TypesAre DEF TypesInv, CallersOK, Timed, Kinds
<1>. QED
     BY <1>1
     DEF Moves, SameCallers, Asks, Gets, GivesUp, Refuses, Accepts, Answers, Files

\* A recv adds one entry to one log.
LEMMA LogMoves ==
  ASSUME TypesInv, [CommandsNext]_cmdVars, NEW c \in Callers
  PROVE  \/ log'[c] = log[c]
         \/ /\ cpc[c] = "recv" /\ Got(c)
            /\ kind[c] \in Timed => timeouts' = timeouts /\ sends' = sends
<1>1. CASE \E d \in Callers : TimedGot(d) \/ BaudGot(d)
  <2>1. PICK d \in Callers : TimedGot(d) \/ BaudGot(d)
        BY <1>1
  <2>2. Got(d) /\ cpc[d] = "recv" /\ timeouts' = timeouts /\ sends' = sends
        BY <2>1 DEF TimedGot, BaudGot
  <2>3. \E e : log' = [log EXCEPT ![d] = e]
        BY <2>2 DEF Got
  <2>4. d # c => log'[c] = log[c]
        BY <2>3 DEF TypesInv, Turns
  <2>. QED  BY <2>2, <2>4
<1>2. CASE UNCHANGED log
      BY <1>2
<1>. QED
     BY <1>1, <1>2
     DEF CommandsNext, Call, Progress, Send, TimedTimeout, BaudTimeout, File, Device,
         DevTake, DevTransmit, DevBaudOk, DevBaudFail, cmdVars, callerVars

\* The entries of c's log that answer a command of kind k.
LagFor(c, k) ==
  \A i \in 1 .. Len(log[c]) :
    log[c][i][1].cmd = k =>
      log[c][i][2].num \in log[c][i][1].num - timeouts[k] .. log[c][i][1].num

LEMMA LagIs ==
  /\ LagBounded <=> \A c \in Callers, k \in Timed : Alone(c, k) => LagFor(c, k)
  /\ LagBounded' <=> \A c \in Callers, k \in Timed : Alone(c, k)' => LagFor(c, k)'
  BY DEF LagBounded, LagFor

LEMMA StepLag ==
  ASSUME LagInv, [CommandsNext]_cmdVars
  PROVE  LagBounded'
<1> USE DEF LagInv
<1> SUFFICES ASSUME NEW c \in Callers, NEW k \in Timed, Alone(c, k)',
                    NEW i \in 1 .. Len(log'[c]), log'[c][i][1].cmd = k
             PROVE  log'[c][i][2].num \in log'[c][i][1].num - timeouts'[k] .. log'[c][i][1].num
    BY LagIs DEF LagFor
<1>1. Moves(k)
      BY StepMoves
<1>2. Alone(c, k)
      BY <1>1, StaysAlone
<1>3. timeouts[k] \in Nat /\ timeouts'[k] \in Nat /\ timeouts[k] <= timeouts'[k]
      BY <1>1, TimeoutsGrow
<1>4. log[c] \in Seq(Asked \X Answer)
      BY DEF TypesInv, Turns
<1>5. CASE i \in 1 .. Len(log[c]) /\ log'[c][i] = log[c][i]
  <2>1. log[c][i] \in Asked \X Answer
        BY <1>4, <1>5
  <2>2. log[c][i][1].num \in Nat
        BY <2>1 DEF Asked
  <2>3. log[c][i][2].num \in log[c][i][1].num - timeouts[k] .. log[c][i][1].num
        BY <1>2, <1>5, LagIs DEF LagFor
  <2>4. \A x : x \in log[c][i][1].num - timeouts[k] .. log[c][i][1].num
                 => x \in log[c][i][1].num - timeouts'[k] .. log[c][i][1].num
        BY <1>3, <2>2
  <2>5. log[c][i][2].num \in log[c][i][1].num - timeouts'[k] .. log[c][i][1].num
        BY <2>3, <2>4
  <2>. QED  BY <1>5, <2>5
<1>6. CASE ~(i \in 1 .. Len(log[c]) /\ log'[c][i] = log[c][i])
  <2>1. log'[c] # log[c]
        BY <1>6
  <2>2. /\ cpc[c] = "recv" /\ Got(c)
        /\ kind[c] \in Timed => timeouts' = timeouts /\ sends' = sends
        BY <2>1, LogMoves
  <2> DEFINE j == kind[c]
             e == <<[cmd |-> j, num |-> sends[c][j]], Head(boxes[j])>>
  <2>3. log' = [log EXCEPT ![c] = Append(log[c], e)] /\ e \in Asked \X Answer /\ boxes[j] # <<>>
        BY <2>2, GotTypes
  <2>4. e[1].cmd = j /\ e[1].num = sends[c][j] /\ e[2] = Head(boxes[j])
        OBVIOUS
  <2>. HIDE DEF e
  <2>5. log'[c] = Append(log[c], e)
        BY <2>3 DEF TypesInv, Turns
  <2>6. log'[c][i] = e
        BY <1>4, <1>6, <2>3, <2>5, AppendPlaces
  <2>7. k = j
        BY <2>4, <2>6
  <2>8. timeouts' = timeouts /\ j \in Timed
        BY <2>2, <2>7
  <2>9. Head(boxes[k]).num \in sends[c][k] - timeouts[k] .. sends[c][k]
        BY <1>2, <2>2, <2>3, <2>7, <2>8, OldestAnswer
  <2>. HIDE DEF j
  <2>. QED  BY <2>4, <2>6, <2>7, <2>8, <2>9
<1>. QED  BY <1>5, <1>6

\* A lone caller's answers are late by no more commands than have timed out.
THEOREM LateByTimeouts == CommandsSpec => []LagBounded
<1>1. CommandsInit => LagInv
      BY InitTypes, InitConserved, InitLast DEF LagInv
<1>2. LagInv /\ [CommandsNext]_cmdVars => LagInv'
      BY StepTypes, StepConserved, StepLast, StepSilent, StepLag DEF LagInv
<1>3. LagInv => LagBounded
      BY DEF LagInv
<1>. QED  BY <1>1, <1>2, <1>3, PTL DEF CommandsSpec

-----------------------------------------------------------------------------
(***************************************************************************)
(* setCanBaud of a lone caller: its packet, then some failures, and last   *)
(* of all the answer that the bus runs.                                    *)
(***************************************************************************)

Free(q) == \A i \in 1 .. Len(q) : q[i].cmd # "baud"

One(q, b) ==
  \E i \in 1 .. Len(q) :
    /\ q[i].cmd = "baud" /\ q[i].baud = b
    /\ \A j \in 1 .. Len(q) : q[j].cmd = "baud" => j = i

Failing(q) == \A i \in 1 .. Len(q) : q[i].cmd = "baud" => ~q[i].ok

EndsOk(q) ==
  \E i \in 1 .. Len(q) :
    /\ q[i].cmd = "baud" /\ q[i].ok
    /\ \A j \in 1 .. Len(q) : q[j].cmd = "baud" => j = i \/ (j < i /\ ~q[j].ok)

Busy(c) == cpc[c] = "recv" /\ kind[c] = "baud"

Calm == Free(serial) /\ Free(dev) /\ Free(wire) /\ Free(boxes["baud"])

\* The packet has not been executed.
Asking(b) ==
  /\ \/ One(serial, b) /\ Free(dev)
     \/ Free(serial) /\ One(dev, b)
  /\ Failing(wire) /\ Failing(boxes["baud"])

\* It has been, and the answer that says so is underway.
Settled(b) ==
  /\ Free(serial) /\ Free(dev)
  /\ \/ EndsOk(wire) /\ Failing(boxes["baud"])
     \/ Free(wire) /\ EndsOk(boxes["baud"])
  /\ devBaud = b

BaudState(c) ==
  /\ Busy(c) => Asking(baud[c]) \/ Settled(baud[c])
  /\ ~Busy(c) => Calm /\ hostBaud = devBaud

LoneBaud == \A c \in Callers : Alone(c, "baud") => BaudState(c)

\* A step that leaves the baud commands in a queue as they are.
Kept(q, p) ==
  /\ Free(q) => Free(p)
  /\ Failing(q) => Failing(p)
  /\ EndsOk(q) => EndsOk(p)
  /\ \A b : One(q, b) => One(p, b)

LEMMA BaudAppend ==
  ASSUME NEW S, NEW q \in Seq(S), NEW e \in S
  PROVE  /\ e.cmd # "baud" => Kept(q, Append(q, e))
         /\ e.cmd = "baud" =>
              /\ Free(q) => One(Append(q, e), e.baud)
              /\ Failing(q) /\ ~e.ok => Failing(Append(q, e))
              /\ Failing(q) /\ e.ok => EndsOk(Append(q, e))
<1> DEFINE p == Append(q, e)
           l == Len(q)
<1>1. /\ l \in Nat /\ Len(p) = l + 1 /\ p[l + 1] = e
      /\ \A i \in 1 .. l : p[i] = q[i]
      /\ 1 .. l + 1 = (1 .. l) \cup {l + 1} /\ l + 1 \notin 1 .. l
      BY AppendPlaces
<1> HIDE DEF p
<1>2. l + 1 \in 1 .. Len(p) /\ \A i \in 1 .. Len(p) : i \in 1 .. l \/ i = l + 1
      BY <1>1
<1>. HIDE DEF l
<1>3. ASSUME e.cmd # "baud" PROVE Kept(q, p)
  <2>1. Free(q) => Free(p)
        BY <1>1, <1>2, <1>3 DEF Free, l
  <2>2. Failing(q) => Failing(p)
        BY <1>1, <1>2, <1>3 DEF Failing, l
  <2>3. ASSUME EndsOk(q) PROVE EndsOk(p)
    <3>1. PICK i \in 1 .. l :
            /\ q[i].cmd = "baud" /\ q[i].ok
            /\ \A j \in 1 .. l : q[j].cmd = "baud" => j = i \/ (j < i /\ ~q[j].ok)
          BY <2>3 DEF EndsOk, l
    <3>2. i \in 1 .. Len(p) /\ p[i].cmd = "baud" /\ p[i].ok
          BY <1>1, <3>1
    <3>3. \A j \in 1 .. Len(p) : p[j].cmd = "baud" => j = i \/ (j < i /\ ~p[j].ok)
          BY <1>1, <1>2, <1>3, <3>1
    <3>. QED  BY <3>2, <3>3 DEF EndsOk
  <2>4. ASSUME NEW b, One(q, b) PROVE One(p, b)
    <3>1. PICK i \in 1 .. l :
            /\ q[i].cmd = "baud" /\ q[i].baud = b
            /\ \A j \in 1 .. l : q[j].cmd = "baud" => j = i
          BY <2>4 DEF One, l
    <3>2. i \in 1 .. Len(p) /\ p[i].cmd = "baud" /\ p[i].baud = b
          BY <1>1, <3>1
    <3>3. \A j \in 1 .. Len(p) : p[j].cmd = "baud" => j = i
          BY <1>1, <1>2, <1>3, <3>1
    <3>. QED  BY <3>2, <3>3 DEF One
  <2>. QED  BY <2>1, <2>2, <2>3, <2>4 DEF Kept
<1>4. ASSUME e.cmd = "baud"
      PROVE  /\ Free(q) => One(p, e.baud)
             /\ Failing(q) /\ ~e.ok => Failing(p)
             /\ Failing(q) /\ e.ok => EndsOk(p)
  <2>1. ASSUME Free(q) PROVE One(p, e.baud)
    <3>1. \A j \in 1 .. Len(p) : p[j].cmd = "baud" => j = l + 1
          BY <1>1, <1>2, <2>1 DEF Free, l
    <3>. QED  BY <1>1, <1>2, <1>4, <3>1 DEF One
  <2>2. Failing(q) /\ ~e.ok => Failing(p)
        BY <1>1, <1>2 DEF Failing, l
  <2>3. ASSUME Failing(q), e.ok PROVE EndsOk(p)
    <3>1. \A j \in 1 .. l : j < l + 1
          BY <1>1
    <3>2. \A j \in 1 .. Len(p) : p[j].cmd = "baud" => j = l + 1 \/ (j < l + 1 /\ ~p[j].ok)
          BY <1>1, <1>2, <2>3, <3>1 DEF Failing, l
    <3>. QED  BY <1>1, <1>2, <1>4, <2>3, <3>2 DEF EndsOk
  <2>. QED  BY <2>1, <2>2, <2>3
<1>. QED  BY <1>3, <1>4 DEF p

LEMMA BaudTail ==
  ASSUME NEW S, NEW q \in Seq(S), q # <<>>
  PROVE  /\ Free(q) => Free(Tail(q)) /\ Head(q).cmd # "baud"
         /\ Failing(q) => Failing(Tail(q)) /\ (Head(q).cmd = "baud" => ~Head(q).ok)
         /\ Head(q).cmd # "baud" => Kept(q, Tail(q))
         /\ Head(q).cmd = "baud" =>
              /\ \A b : One(q, b) => Free(Tail(q)) /\ Head(q).baud = b
              /\ EndsOk(q) /\ Head(q).ok => Free(Tail(q))
              /\ EndsOk(q) /\ ~Head(q).ok => EndsOk(Tail(q))
<1> DEFINE p == Tail(q)
           h == Head(q)
           l == Len(q)
<1>1. /\ l \in Nat \ {0} /\ Len(p) = l - 1 /\ h = q[1]
      /\ \A i \in 1 .. l - 1 : p[i] = q[i + 1]
      BY TailPlaces
<1> HIDE DEF p, h
<1>2. 1 \in 1 .. l /\ \A i \in 1 .. Len(p) : i + 1 \in 1 .. l /\ i + 1 # 1 /\ p[i] = q[i + 1]
      BY <1>1
<1>3. \A i \in 1 .. l : i # 1 => i - 1 \in 1 .. Len(p) /\ p[i - 1] = q[i]
      BY <1>1
<1>. HIDE DEF l
<1>4. Free(q) => Free(p) /\ h.cmd # "baud"
      BY <1>1, <1>2 DEF Free, l
<1>5. Failing(q) => Failing(p) /\ (h.cmd = "baud" => ~h.ok)
      BY <1>1, <1>2 DEF Failing, l
<1>6. ASSUME EndsOk(q) PROVE IF h.cmd = "baud" /\ h.ok THEN Free(p) ELSE EndsOk(p)
  <2>1. PICK i \in 1 .. l :
          /\ q[i].cmd = "baud" /\ q[i].ok
          /\ \A j \in 1 .. l : q[j].cmd = "baud" => j = i \/ (j < i /\ ~q[j].ok)
        BY <1>6 DEF EndsOk, l
  <2>2. CASE i = 1
    <3>1. h.cmd = "baud" /\ h.ok
          BY <1>1, <2>1, <2>2
    <3>2. \A j \in 1 .. l : q[j].cmd = "baud" => j = 1
          BY <2>1, <2>2
    <3>3. Free(p)
          BY <1>2, <3>2 DEF Free
    <3>. QED  BY <3>1, <3>3
  <2>3. CASE i # 1
    <3>1. ~(h.cmd = "baud" /\ h.ok)
          BY <1>1, <1>2, <2>1, <2>3
    <3>2. i - 1 \in 1 .. Len(p) /\ p[i - 1] = q[i]
          BY <1>3, <2>3
    <3>3. \A j \in 1 .. Len(p) : p[j].cmd = "baud" => j = i - 1 \/ (j < i - 1 /\ ~p[j].ok)
          BY <1>2, <2>1
    <3>4. EndsOk(p)
          BY <2>1, <3>2, <3>3 DEF EndsOk
    <3>. QED  BY <3>1, <3>4
  <2>. QED  BY <2>2, <2>3
<1>7. ASSUME NEW b, One(q, b)
      PROVE  IF h.cmd = "baud" THEN Free(p) /\ h.baud = b ELSE One(p, b)
  <2>1. PICK i \in 1 .. l :
          /\ q[i].cmd = "baud" /\ q[i].baud = b
          /\ \A j \in 1 .. l : q[j].cmd = "baud" => j = i
        BY <1>7 DEF One, l
  <2>2. CASE i = 1
    <3>1. h.cmd = "baud" /\ h.baud = b
          BY <1>1, <2>1, <2>2
    <3>2. Free(p)
          BY <1>2, <2>1, <2>2 DEF Free
    <3>. QED  BY <3>1, <3>2
  <2>3. CASE i # 1
    <3>1. h.cmd # "baud"
          BY <1>1, <1>2, <2>1, <2>3
    <3>2. i - 1 \in 1 .. Len(p) /\ p[i - 1] = q[i]
          BY <1>3, <2>3
    <3>3. \A j \in 1 .. Len(p) : p[j].cmd = "baud" => j = i - 1
          BY <1>2, <2>1
    <3>4. One(p, b)
          BY <2>1, <3>2, <3>3 DEF One
    <3>. QED  BY <3>1, <3>4
  <2>. QED  BY <2>2, <2>3
<1>. QED  BY <1>4, <1>5, <1>6, <1>7 DEF Kept, p, h

LEMMA NothingInEmpty == Free(<<>>)
  BY DEF Free

LEMMA FreeIsFailing == \A q : Free(q) => Failing(q)
  BY DEF Free, Failing

KeptQueues ==
  Kept(serial, serial') /\ Kept(dev, dev') /\ Kept(wire, wire') /\ Kept(boxes["baud"], boxes'["baud"])

LEMMA KeptSelf == \A q : Kept(q, q)
  BY DEF Kept

LEMMA KeptState ==
  ASSUME NEW c \in Callers, BaudState(c), KeptQueues,
         Busy(c)' <=> Busy(c), Busy(c) => baud'[c] = baud[c],
         devBaud' = devBaud, hostBaud' = hostBaud \/ Busy(c)
  PROVE  BaudState(c)'
<1>1. Calm => Calm'
      BY DEF Calm, KeptQueues, Kept
<1>2. \A b : Asking(b) => Asking(b)'
      BY DEF Asking, KeptQueues, Kept
<1>3. \A b : Settled(b) => Settled(b)'
      BY DEF Settled, KeptQueues, Kept
<1>. QED  BY <1>1, <1>2, <1>3 DEF BaudState

\* Who is alone with setCanBaud is the only one that waits in it.
LEMMA OnlyOneBusy ==
  ASSUME TypesInv, NEW c \in Callers, Alone(c, "baud"), NEW d \in Callers, Busy(d)
  PROVE  d = c
  BY DEF TypesInv, Turns, Turn, Alone, Busy, Kinds

LEMMA CallBaud ==
  ASSUME TypesInv, NEW c \in Callers, BaudState(c), NEW d \in Callers, NEW k \in Kinds,
         NEW n \in 1 .. MaxCount, NEW b \in Bauds, Call(d, k, n, b)
  PROVE  BaudState(c)'
<1>1. CallersOK
      BY TypesAre DEF TypesInv
<1>2. UNCHANGED <<serial, dev, wire, boxes, devBaud, hostBaud>>
      BY DEF Call, deviceVars
<1>3. (Busy(c)' <=> Busy(c)) /\ (Busy(c) => baud'[c] = baud[c])
      BY <1>1 DEF Call, CallersOK, Busy
<1>. QED  BY <1>2, <1>3, KeptSelf, KeptState DEF KeptQueues

LEMMA SendBaud ==
  ASSUME TypesInv, NEW c \in Callers, BaudState(c), Alone(c, "baud")', NEW d \in Callers, Send(d)
  PROVE  BaudState(c)'
<1>1. CallersOK /\ QueuesOK /\ Turns
      BY TypesAre DEF TypesInv
<1> DEFINE p == [cmd |-> kind[d], from |-> d, num |-> sends[d][kind[d]] + 1, baud |-> baud[d]]
           S == {p} \cup Packet
<1>2. /\ serial' = Append(serial, p) /\ p.cmd = kind[d] /\ p.baud = baud[d]
      /\ UNCHANGED <<dev, wire, boxes, devBaud, hostBaud, kind, baud>>
      /\ cpc[d] = "send" /\ cpc' = [cpc EXCEPT ![d] = "recv"]
      /\ sends' = [sends EXCEPT ![d] = [sends[d] EXCEPT ![kind[d]] = sends[d][kind[d]] + 1]]
      BY DEF Send, deviceVars
<1>3. serial \in Seq(S) /\ p \in S
      BY <1>1 DEF QueuesOK
<1>. HIDE DEF p, S
<1>4. CASE kind[d] # "baud"
  <2>1. Kept(serial, serial')
    <3>1. Kept(serial, Append(serial, p))
          BY <1>2, <1>3, <1>4, BaudAppend
    <3>. QED  BY <1>2, <3>1
  <2>2. (Busy(c)' <=> Busy(c)) /\ baud'[c] = baud[c]
        BY <1>1, <1>2, <1>4 DEF CallersOK, Busy
  <2>. QED  BY <1>2, <2>1, <2>2, KeptSelf, KeptState DEF KeptQueues
<1>5. CASE kind[d] = "baud"
  <2>1. sends'[d]["baud"] = sends[d]["baud"] + 1 /\ sends[d]["baud"] \in Nat
        BY <1>1, <1>2, <1>5 DEF Turns, Kinds
  <2>2. d = c
        BY <2>1 DEF Alone
  <2>3. ~Busy(c) /\ Busy(c)' /\ baud' = baud
        BY <1>1, <1>2, <1>5, <2>2 DEF Busy, CallersOK
  <2>4. Calm
        BY <2>3 DEF BaudState
  <2>5. One(serial', baud[c])
    <3>1. Free(serial) => One(Append(serial, p), p.baud)
          BY <1>2, <1>3, <1>5, BaudAppend
    <3>. QED  BY <1>2, <2>2, <2>4, <3>1 DEF Calm
  <2>6. Asking(baud[c])'
        BY <1>2, <2>3, <2>4, <2>5, FreeIsFailing DEF Calm, Asking
  <2>. QED  BY <2>3, <2>6 DEF BaudState
<1>. QED  BY <1>4, <1>5

LEMMA TimedBaud ==
  ASSUME TypesInv, NEW c \in Callers, BaudState(c), NEW d \in Callers,
         TimedGot(d) \/ TimedTimeout(d)
  PROVE  BaudState(c)'
<1>1. CallersOK /\ QueuesOK
      BY TypesAre DEF TypesInv
<1>2. /\ UNCHANGED <<serial, dev, wire, devBaud, hostBaud, kind, baud>>
      /\ kind[d] # "baud" /\ \E x : cpc' = [cpc EXCEPT ![d] = x]
      BY DEF TimedGot, TimedTimeout, NextTurn, deviceVars, Timed
<1>3. (Busy(c)' <=> Busy(c)) /\ baud'[c] = baud[c]
      BY <1>1, <1>2 DEF CallersOK, Busy
<1>4. boxes'["baud"] = boxes["baud"]
  <2>1. CASE TimedGot(d)
    <3>1. boxes' = [boxes EXCEPT ![kind[d]] = Tail(boxes[kind[d]])]
          BY <2>1, GotTypes DEF TimedGot
    <3>. QED  BY <1>1, <1>2, <3>1 DEF QueuesOK, Kinds
  <2>2. CASE TimedTimeout(d)
        BY <2>2 DEF TimedTimeout
  <2>. QED  BY <2>1, <2>2
<1>. QED  BY <1>2, <1>3, <1>4, KeptSelf, KeptState DEF KeptQueues

LEMMA BaudTimeoutBaud ==
  ASSUME TypesInv, NEW c \in Callers, BaudState(c), Alone(c, "baud"), NEW d \in Callers,
         BaudTimeout(d)
  PROVE  BaudState(c)'
<1>1. d = c /\ Busy(c)
      BY OnlyOneBusy DEF Busy, BaudTimeout
<1>2. UNCHANGED <<serial, dev, wire, boxes, devBaud, cpc, kind, baud>>
      BY DEF BaudTimeout, deviceVars
<1>3. Busy(c)' <=> Busy(c)
      BY <1>2 DEF Busy
<1>. QED  BY <1>1, <1>2, <1>3, KeptSelf, KeptState DEF KeptQueues

LEMMA BaudGotBaud ==
  ASSUME TypesInv, NEW c \in Callers, BaudState(c), Alone(c, "baud"), NEW d \in Callers,
         BaudGot(d)
  PROVE  BaudState(c)'
<1>1. d = c /\ Busy(c)
      BY OnlyOneBusy DEF Busy, BaudGot
<1>2. CallersOK /\ QueuesOK
      BY TypesAre DEF TypesInv
<1> DEFINE q == boxes["baud"]
<1>3. /\ UNCHANGED <<serial, dev, wire, devBaud, kind, baud>> /\ hostBaud' = baud[c]
      /\ cpc' = [cpc EXCEPT ![c] = IF Head(q).ok THEN "idle" ELSE "recv"]
      /\ Got(c) /\ kind[c] = "baud" /\ cpc[c] = "recv"
      BY <1>1 DEF BaudGot, deviceVars
<1>4. q # <<>> /\ q \in Seq(Answer) /\ boxes'["baud"] = Tail(q)
  <2>1. boxes[kind[c]] # <<>> /\ boxes' = [boxes EXCEPT ![kind[c]] = Tail(boxes[kind[c]])]
        BY <1>3, GotTypes
  <2>. QED  BY <1>2, <1>3, <2>1 DEF QueuesOK, Kinds
<1>5. Head(q).cmd = "baud" /\ Head(q).ok \in BOOLEAN
  <2>1. Head(q) \in Answer /\ Head(q) = q[1] /\ 1 \in 1 .. Len(q)
        BY <1>4, TailPlaces
  <2>. QED  BY <2>1 DEF TypesInv, Sorted, Answer, Kinds
<1>6. /\ Failing(q) => Failing(Tail(q)) /\ ~Head(q).ok
      /\ EndsOk(q) /\ Head(q).ok => Free(Tail(q))
      /\ EndsOk(q) /\ ~Head(q).ok => EndsOk(Tail(q))
      BY <1>4, <1>5, BaudTail
<1>7. Asking(baud[c]) \/ Settled(baud[c])
      BY <1>1 DEF BaudState
<1>8. CASE Head(q).ok
  <2>1. ~Failing(q)
        BY <1>6, <1>8
  <2>2. Settled(baud[c]) /\ Free(wire) /\ EndsOk(q)
        BY <1>7, <2>1 DEF Asking, Settled
  <2>3. Calm' /\ devBaud' = baud[c]
        BY <1>3, <1>4, <1>6, <1>8, <2>2 DEF Settled, Calm
  <2>4. ~Busy(c)'
        BY <1>2, <1>3, <1>8 DEF Busy, CallersOK
  <2>. QED  BY <1>3, <2>3, <2>4 DEF BaudState
<1>9. CASE ~Head(q).ok
  <2>1. Busy(c)' /\ baud'[c] = baud[c]
        BY <1>2, <1>3, <1>9 DEF Busy, CallersOK
  <2>2. Asking(baud[c]) => Asking(baud[c])'
        BY <1>3, <1>4, <1>6, <1>9 DEF Asking
  <2>3. Settled(baud[c]) => Settled(baud[c])'
        BY <1>3, <1>4, <1>6, <1>9 DEF Settled
  <2>. QED  BY <1>7, <2>1, <2>2, <2>3 DEF BaudState
<1>. QED  BY <1>5, <1>8, <1>9

LEMMA FileBaud ==
  ASSUME TypesInv, NEW c \in Callers, BaudState(c), File
  PROVE  BaudState(c)'
<1>1. QueuesOK
      BY TypesAre DEF TypesInv
<1>2. wire # <<>> /\ wire \in Seq(Answer)
      BY <1>1 DEF File, QueuesOK
<1> DEFINE a == Head(wire)
           q == boxes["baud"]
<1>3. a \in Answer /\ a.cmd \in Kinds /\ a.ok \in BOOLEAN
  <2>1. a \in Answer
        BY <1>2, TailPlaces
  <2>. QED  BY <2>1 DEF Answer
<1>4. /\ boxes' = [boxes EXCEPT ![a.cmd] = Append(boxes[a.cmd], a)] /\ wire' = Tail(wire)
      /\ UNCHANGED <<cpc, kind, baud, dev, serial, devBaud, hostBaud>>
      BY DEF File, Mailboxes!Put, callerVars, deviceVars
<1>5. (Busy(c)' <=> Busy(c)) /\ baud'[c] = baud[c]
      BY <1>4 DEF Busy
<1>6. q \in Seq(Answer)
      BY <1>1 DEF QueuesOK, Kinds
<1>7. CASE a.cmd # "baud"
  <2>1. boxes'["baud"] = q
        BY <1>1, <1>3, <1>4, <1>7 DEF QueuesOK, Kinds
  <2>2. Kept(wire, wire')
        BY <1>2, <1>4, <1>7, BaudTail
  <2>. QED  BY <1>4, <1>5, <2>1, <2>2, KeptSelf, KeptState DEF KeptQueues
<1>8. CASE a.cmd = "baud"
  <2>1. boxes'["baud"] = Append(q, a)
        BY <1>1, <1>3, <1>4, <1>8 DEF QueuesOK
  <2>2. /\ ~Free(wire) /\ Failing(wire) => Failing(wire') /\ ~a.ok
        /\ EndsOk(wire) /\ a.ok => Free(wire')
        /\ EndsOk(wire) /\ ~a.ok => EndsOk(wire')
        BY <1>2, <1>4, <1>8, BaudTail
  <2>3. /\ Failing(q) /\ ~a.ok => Failing(Append(q, a))
        /\ Failing(q) /\ a.ok => EndsOk(Append(q, a))
        BY <1>3, <1>6, <1>8, BaudAppend
  <2>4. Busy(c) /\ (Asking(baud[c]) \/ Settled(baud[c]))
    <3>1. ~Calm
          BY <1>2, <1>8, BaudTail DEF Calm
    <3>. QED  BY <3>1 DEF BaudState
  <2>. HIDE DEF a, q
  <2>5. ASSUME Asking(baud[c]) PROVE Asking(baud[c])'
    <3>1. Failing(wire) /\ Failing(q)
          BY <2>5 DEF Asking, q
    <3>2. Failing(wire') /\ ~a.ok
          BY <1>2, <1>4, <3>1, <1>8, BaudTail DEF a
    <3>3. Failing(boxes'["baud"])
          BY <2>1, <2>3, <3>1, <3>2
    <3>. QED  BY <1>4, <1>5, <2>5, <3>2, <3>3 DEF Asking
  <2>6. ASSUME Settled(baud[c]) PROVE Settled(baud[c])'
    <3>1. Free(serial) /\ Free(dev) /\ devBaud = baud[c] /\ EndsOk(wire) /\ Failing(q)
      <4>1. ~Free(wire)
            BY <1>2, <1>8, BaudTail DEF a
      <4>. QED  BY <2>6, <4>1 DEF Settled, q
    <3>2. CASE a.ok
      <4>1. Free(wire') /\ EndsOk(boxes'["baud"])
            BY <2>1, <2>2, <2>3, <3>1, <3>2
      <4>. QED  BY <1>4, <1>5, <3>1, <4>1 DEF Settled
    <3>3. CASE ~a.ok
      <4>1. EndsOk(wire') /\ Failing(boxes'["baud"])
            BY <2>1, <2>2, <2>3, <3>1, <3>3
      <4>. QED  BY <1>4, <1>5, <3>1, <4>1 DEF Settled
    <3>. QED  BY <3>2, <3>3
  <2>. QED  BY <1>5, <2>4, <2>5, <2>6 DEF BaudState
<1>. QED  BY <1>7, <1>8

LEMMA DevTakeBaud ==
  ASSUME TypesInv, NEW c \in Callers, BaudState(c), DevTake
  PROVE  BaudState(c)'
<1>1. QueuesOK
      BY TypesAre DEF TypesInv
<1>2. serial # <<>> /\ serial \in Seq(Packet) /\ dev = <<>> /\ serial' = Tail(serial)
      BY <1>1 DEF DevTake, QueuesOK
<1> DEFINE p == Head(serial)
<1>3. p \in Packet
      BY <1>2, TailPlaces
<1>4. /\ UNCHANGED <<cpc, kind, baud, wire, boxes, devBaud, hostBaud>>
      /\ dev' = dev \/ dev' = <<p>>
      /\ p.cmd = "baud" => dev' = <<p>>
      BY DEF DevTake, callerVars
<1>5. (Busy(c)' <=> Busy(c)) /\ baud'[c] = baud[c]
      BY <1>4 DEF Busy
<1>6. <<>> \in Seq(Packet) /\ Append(<<>>, p) = <<p>>
      OBVIOUS
<1>7. CASE p.cmd # "baud"
  <2>1. Kept(serial, serial')
        BY <1>2, <1>7, BaudTail
  <2>2. Kept(dev, dev')
    <3>1. Kept(<<>>, Append(<<>>, p))
          BY <1>3, <1>6, <1>7, BaudAppend
    <3>. QED  BY <1>2, <1>4, <1>6, <3>1, KeptSelf
  <2>. QED  BY <1>4, <1>5, <2>1, <2>2, KeptSelf, KeptState DEF KeptQueues
<1>8. CASE p.cmd = "baud"
  <2>1. ~Free(serial) /\ \A b : One(serial, b) => Free(serial') /\ p.baud = b
        BY <1>2, <1>8, BaudTail
  <2>2. One(dev', p.baud)
    <3>1. One(Append(<<>>, p), p.baud)
          BY <1>3, <1>6, <1>8, NothingInEmpty, BaudAppend
    <3>. QED  BY <1>4, <1>6, <1>8, <3>1
  <2>. HIDE DEF p
  <2>3. Busy(c) /\ Asking(baud[c]) /\ One(serial, baud[c])
        BY <2>1 DEF BaudState, Calm, Settled, Asking
  <2>4. Asking(baud[c])'
        BY <1>4, <2>1, <2>2, <2>3 DEF Asking
  <2>. QED  BY <1>5, <2>3, <2>4 DEF BaudState
<1>. QED  BY <1>7, <1>8

LEMMA DevReplyBaud ==
  ASSUME TypesInv, NEW c \in Callers, BaudState(c), DevTransmit \/ DevBaudOk \/ DevBaudFail
  PROVE  BaudState(c)'
<1>1. QueuesOK
      BY TypesAre DEF TypesInv
<1>2. wire \in Seq(Answer) /\ dev # <<>>
      BY <1>1 DEF QueuesOK, DevTransmit, DevBaudOk, DevBaudFail
<1>3. /\ UNCHANGED <<cpc, kind, baud, serial, boxes, hostBaud>>
      /\ dev[1].cmd # "baud" => dev' = <<>> /\ devBaud' = devBaud
      BY DEF DevTransmit, DevBaudOk, DevBaudFail, callerVars
<1>4. (Busy(c)' <=> Busy(c)) /\ baud'[c] = baud[c]
      BY <1>3 DEF Busy
<1>5. PICK success \in BOOLEAN :
        /\ DevReply(success)
        /\ dev[1].cmd = "baud" /\ success => dev' = <<>> /\ devBaud' = dev[1].baud
        /\ dev[1].cmd = "baud" /\ ~success => dev' = dev /\ devBaud' = devBaud
      BY DEF DevTransmit, DevBaudOk, DevBaudFail, Timed
<1>6. PICK a \in Answer : /\ wire' = Append(wire, a) /\ a.cmd = dev[1].cmd /\ a.ok = success
                          /\ dev \in Seq(Packet) /\ Tail(dev) = <<>> /\ Head(dev) = dev[1]
      BY <1>2, <1>5, ReplyIs
<1>7. CASE dev[1].cmd # "baud"
  <2>1. Kept(wire, wire')
    <3>1. Kept(wire, Append(wire, a))
          BY <1>2, <1>6, <1>7, BaudAppend
    <3>. QED  BY <1>6, <3>1
  <2>2. Kept(dev, dev')
    <3>1. Kept(dev, Tail(dev))
          BY <1>2, <1>6, <1>7, BaudTail
    <3>. QED  BY <1>3, <1>6, <1>7, <3>1
  <2>. QED  BY <1>3, <1>4, <1>7, <2>1, <2>2, KeptSelf, KeptState DEF KeptQueues
<1>8. CASE dev[1].cmd = "baud"
  <2>1. ~Free(dev) /\ \A b : One(dev, b) => Free(Tail(dev)) /\ dev[1].baud = b
        BY <1>2, <1>6, <1>8, BaudTail
  <2>2. Busy(c) /\ Asking(baud[c]) /\ Free(serial) /\ One(dev, baud[c])
        BY <2>1 DEF BaudState, Calm, Settled, Asking
  <2>3. /\ ~success => Failing(wire')
        /\ success => EndsOk(wire')
    <3>1. Failing(wire)
          BY <2>2 DEF Asking
    <3>2. /\ ~a.ok => Failing(Append(wire, a))
          /\ a.ok => EndsOk(Append(wire, a))
          BY <1>2, <1>6, <1>8, <3>1, BaudAppend
    <3>. QED  BY <1>6, <3>2
  <2>4. CASE success
    <3>1. Free(dev') /\ devBaud' = baud[c]
          BY <1>5, <1>8, <2>1, <2>2, <2>4, NothingInEmpty
    <3>2. Settled(baud[c])'
          BY <1>3, <2>2, <2>3, <2>4, <3>1 DEF Settled, Asking
    <3>. QED  BY <1>4, <2>2, <3>2 DEF BaudState
  <2>5. CASE ~success
    <3>1. Asking(baud[c])'
          BY <1>3, <1>5, <1>8, <2>2, <2>3, <2>5 DEF Asking
    <3>. QED  BY <1>4, <2>2, <3>1 DEF BaudState
  <2>. QED  BY <2>4, <2>5
<1>. QED  BY <1>7, <1>8

LEMMA BaudAloneBefore ==
  ASSUME TypesInv, [CommandsNext]_cmdVars, NEW c \in Callers, Alone(c, "baud")'
  PROVE  Alone(c, "baud")
<1>1. \A d \in Callers : sends[d]["baud"] \in Nat
      BY DEF TypesInv, Turns, Kinds
<1>2. \A d \in Callers : sends'[d]["baud"] \in {sends[d]["baud"], sends[d]["baud"] + 1}
  <2>1. CASE \E d \in Callers : Send(d)
    <3>1. PICK d \in Callers : Send(d)
          BY <2>1
    <3>2. sends' = [sends EXCEPT ![d] = [sends[d] EXCEPT ![kind[d]] = sends[d][kind[d]] + 1]]
          BY <3>1 DEF Send
    <3>. QED  BY <3>2 DEF TypesInv, Turns, Kinds
  <2>2. CASE UNCHANGED sends
        BY <2>2
  <2>. QED
       BY <2>1, <2>2
       DEF CommandsNext, Call, Progress, TimedGot, BaudGot, TimedTimeout, BaudTimeout, File,
           Device, DevTake, DevTransmit, DevBaudOk, DevBaudFail, cmdVars, callerVars
<1>. QED  BY <1>1, <1>2 DEF Alone

LEMMA InitBaud == CommandsInit => LoneBaud
<1> SUFFICES ASSUME CommandsInit, NEW c \in Callers PROVE BaudState(c)
    BY DEF LoneBaud
<1>1. serial = <<>> /\ dev = <<>> /\ wire = <<>> /\ boxes["baud"] = <<>> /\ hostBaud = devBaud
      BY DEF CommandsInit, Mailboxes!BoxInit, Kinds
<1>2. ~Busy(c)
      BY DEF CommandsInit, Busy
<1>. QED  BY <1>1, <1>2, NothingInEmpty DEF BaudState, Calm

LEMMA StepBaud ==
  ASSUME TypesInv, LoneBaud, [CommandsNext]_cmdVars
  PROVE  LoneBaud'
<1> SUFFICES ASSUME NEW c \in Callers, Alone(c, "baud")' PROVE BaudState(c)'
    BY DEF LoneBaud
<1>1. Alone(c, "baud")
      BY BaudAloneBefore
<1>2. BaudState(c)
      BY <1>1 DEF LoneBaud
<1>3. CASE CommandsNext
      BY <1>1, <1>2, <1>3, CallBaud, SendBaud, TimedBaud, BaudTimeoutBaud, BaudGotBaud, FileBaud,
         DevTakeBaud, DevReplyBaud
      DEF CommandsNext, Progress, Device
<1>4. CASE UNCHANGED cmdVars
  <2>1. UNCHANGED <<serial, dev, wire, boxes, devBaud, hostBaud, cpc, kind, baud>>
        BY <1>4 DEF cmdVars, callerVars, deviceVars
  <2>. QED  BY <1>2, <2>1, KeptSelf, KeptState DEF KeptQueues, Busy
<1>. QED  BY <1>3, <1>4

\* Once a lone caller is through with setCanBaud, the bus runs at the rate the host records.
THEOREM RatesAgree == CommandsSpec => []BaudAgrees
<1>1. TypesInv /\ LoneBaud /\ [CommandsNext]_cmdVars => LoneBaud'
      BY StepBaud
<1>2. LoneBaud => BaudAgrees
      BY DEF LoneBaud, BaudState, Busy, BaudAgrees
<1>. QED  BY <1>1, <1>2, InitBaud, TypesInvariant, PTL DEF CommandsSpec

=============================================================================
