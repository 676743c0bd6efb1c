--------------------------- MODULE CanMailboxProofs ---------------------------
(***************************************************************************)
(* Theorems about CanMailbox, for any number of submitters, of mailboxes   *)
(* and of messages: types, references and the lock; that one reader meets  *)
(* no empty list; that it is returned the messages of each submitter in    *)
(* order and none of them twice; that the mailboxes implement MessageBox;  *)
(* and what is lost.  The last part is about CanTail, a generator next to  *)
(* these threads.                                                          *)
(*                                                                         *)
(* Lists come and go as mailboxes, and threads go on using lists that are  *)
(* mailboxes no more.  What saves the order is that a mailbox is always    *)
(* the newest of its lists and that each thread moves on to newer lists.   *)
(***************************************************************************)
EXTENDS CanTail, FiniteSetTheorems, TLAPS

\* The threads that hold a reference to a list, which is not None.
Holding(t) ==
  \/ pc[t] \in {"event", "lock", "append", "pop", "copy", "replace"}
  \/ pc[t] = "check" /\ mbox[t] # None

HandlesOK == \A t \in Threads : Holding(t) => mbox[t] # None

\* The inductive invariant: types, references and the lock.
LockInv == TypeOK /\ HandlesOK /\ LockExclusive

-----------------------------------------------------------------------------
(***************************************************************************)
(* Types, references and the lock.                                         *)
(***************************************************************************)

LEMMA AppendProperties ==
  ASSUME NEW S, NEW q \in Seq(S), NEW e \in S
  PROVE  /\ Append(q, e) \in Seq(S)
         /\ Append(q, e) # <<>>
         /\ Len(Append(q, e)) = Len(q) + 1
         /\ \A i \in 1 .. Len(q) : Append(q, e)[i] = q[i]
         /\ Append(q, e)[Len(q) + 1] = e
  OBVIOUS

LEMMA UpdateSeq ==
  ASSUME NEW S, NEW q \in Seq(S), NEW i \in 1 .. Len(q), NEW e \in S
  PROVE  /\ [q EXCEPT ![i] = e] \in Seq(S)
         /\ Len([q EXCEPT ![i] = e]) = Len(q)
         /\ [q EXCEPT ![i] = e][i] = e
         /\ \A j \in 1 .. Len(q) : j # i => [q EXCEPT ![i] = e][j] = q[j]
  OBVIOUS

LEMMA InitLock == Init => LockInv
  BY CmdsAssumption, ThreadsAssumption
  DEF Init, LockInv, TypeOK, HandlesOK, LockExclusive, Threads, SubmitPc, ReadPc,
      Holding, None, Free

LEMMA StepLock == LockInv /\ [Next]_vars => LockInv'
<1> SUFFICES ASSUME LockInv, [Next]_vars PROVE LockInv'
    OBVIOUS
<1> USE ThreadsAssumption DEF LockInv, TypeOK, HandlesOK, LockExclusive,
        Threads, SubmitPc, ReadPc, Holding, Goto, None
<1>1. ASSUME NEW s \in Submitters, NEW c \in Cmds, SubmitLookup(s, c) PROVE LockInv'
     <2>1. pc[s] = "idle" /\ messages[c] \in 0 .. Len(lists) /\ sent[s] + 1 \in Nat
           BY <1>1 DEF SubmitLookup
     <2>2. TypeOK'
           BY <1>1, <2>1 DEF SubmitLookup
     <2>3. HandlesOK' /\ LockExclusive'
           BY <1>1, <2>1 DEF SubmitLookup
     <2>. QED  BY <2>2, <2>3
<1>2. ASSUME NEW s \in Submitters, SubmitCreate(s) PROVE LockInv'
     <2>1. lists' \in Seq(Seq(Message)) /\ Len(lists') = Len(lists) + 1
           BY <1>2 DEF SubmitCreate
     <2>2. TypeOK'
           BY <1>2, <2>1 DEF SubmitCreate
     <2>3. HandlesOK'
           BY <1>2 DEF SubmitCreate
     <2>4. LockExclusive'
           BY <1>2 DEF SubmitCreate
     <2>. QED  BY <2>2, <2>3, <2>4
<1>3. ASSUME NEW s \in Submitters, SubmitMakeEvent(s) PROVE LockInv'
     BY <1>3 DEF SubmitMakeEvent
<1>4. ASSUME NEW s \in Submitters, SubmitAcquire(s) PROVE LockInv'
     BY <1>4 DEF SubmitAcquire, Acquire
<1>5. ASSUME NEW s \in Submitters, SubmitAppend(s) PROVE LockInv'
     <2>1. /\ mbox[s] \in 1 .. Len(lists)
           /\ lists[mbox[s]] \in Seq(Message)
           /\ [cmd |-> cmd[s], src |-> s, seq |-> sent[s]] \in Message
           BY <1>5 DEF SubmitAppend, Message
     <2>2. lists' \in Seq(Seq(Message)) /\ Len(lists') = Len(lists)
           BY <1>5, <2>1 DEF SubmitAppend
     <2>3. TypeOK'
           BY <1>5, <2>2 DEF SubmitAppend
     <2>4. HandlesOK' /\ LockExclusive'
           BY <1>5, <2>1 DEF SubmitAppend
     <2>. QED  BY <2>3, <2>4
<1>6. ASSUME NEW s \in Submitters, SubmitNotify(s) PROVE LockInv'
     BY <1>6 DEF SubmitNotify, Release
<1>7. ASSUME NEW r \in Readers, NEW c \in Cmds, RecvLookup(r, c) PROVE LockInv'
     <2>1. messages[c] \in 0 .. Len(lists) /\ pc[r] \in {"idle", "recv"}
           BY <1>7 DEF RecvLookup
     <2>2. TypeOK'
           BY <1>7, <2>1 DEF RecvLookup
     <2>3. HandlesOK' /\ LockExclusive'
           BY <1>7, <2>1 DEF RecvLookup
     <2>. QED  BY <2>2, <2>3
<1>8. ASSUME NEW r \in Readers, RecvCheck(r) PROVE LockInv'
     BY <1>8 DEF RecvCheck
<1>9. ASSUME NEW r \in Readers, RecvTimeout(r) PROVE LockInv'
     BY <1>9 DEF RecvTimeout
<1>10. ASSUME NEW r \in Readers, RecvPop(r) PROVE LockInv'
     <2>1. mbox[r] \in 1 .. Len(lists) /\ lists[mbox[r]] \in Seq(Message)
           BY <1>10 DEF RecvPop
     <2>2. CASE lists[mbox[r]] = <<>>
           BY <1>10, <2>1, <2>2 DEF RecvPop
     <2>3. CASE lists[mbox[r]] # <<>>
       <3>1. /\ lists' = [lists EXCEPT ![mbox[r]] = Tail(lists[mbox[r]])]
             /\ got' = [got EXCEPT ![r] = Append(@, Head(lists[mbox[r]]))]
             BY <1>10, <2>3 DEF RecvPop
       <3>2. lists \in Seq(Seq(Message)) /\ got \in [Readers -> Seq(Message)]
             OBVIOUS
       <3>. HIDE DEF Holding, LockExclusive, HandlesOK, TypeOK, LockInv
       <3>3. /\ Head(lists[mbox[r]]) \in Message
             /\ Tail(lists[mbox[r]]) \in Seq(Message)
             BY <2>1, <2>3
       <3>4. lists' \in Seq(Seq(Message)) /\ Len(lists') = Len(lists)
             BY <2>1, <3>1, <3>2, <3>3, UpdateSeq
       <3>5. got' \in [Readers -> Seq(Message)]
             BY <3>1, <3>2, <3>3
       <3>. USE DEF Holding, LockExclusive, HandlesOK, TypeOK, LockInv
       <3>6. TypeOK'
             BY <1>10, <2>3, <3>4, <3>5 DEF RecvPop
       <3>7. HandlesOK' /\ LockExclusive'
             BY <1>10 DEF RecvPop
       <3>. QED  BY <3>6, <3>7
     <2>. QED  BY <2>2, <2>3
<1>11. ASSUME NEW r \in Readers, NEW c \in Cmds, RecvallLookup(r, c) PROVE LockInv'
     <2>1. messages[c] \in 1 .. Len(lists) /\ pc[r] = "idle"
           BY <1>11 DEF RecvallLookup
     <2>2. TypeOK'
       <3>1. /\ pc' = [pc EXCEPT ![r] = "copy"] /\ cmd' = [cmd EXCEPT ![r] = c]
             /\ mbox' = [mbox EXCEPT ![r] = messages[c]]
             /\ UNCHANGED <<lists, messages, events, queuelock, copied, sent, got,
                            recvalls, raised>>
             BY <1>11 DEF RecvallLookup
       <3>. QED  BY <2>1, <3>1, SMTT(30)
     <2>3. HandlesOK' /\ LockExclusive'
           BY <1>11, <2>1 DEF RecvallLookup
     <2>. QED  BY <2>2, <2>3
<1>12. ASSUME NEW r \in Readers, RecvallCopy(r) PROVE LockInv'
     BY <1>12 DEF RecvallCopy, Acquire
<1>13. ASSUME NEW r \in Readers, RecvallReplace(r) PROVE LockInv'
     BY <1>13 DEF RecvallReplace, Release
<1>14. CASE UNCHANGED vars
     BY <1>14 DEF vars
<1>. QED
     BY <1>1, <1>2, <1>3, <1>4, <1>5, <1>6, <1>7, <1>8, <1>9, <1>10, <1>11, <1>12, <1>13, <1>14 DEF Next, Submit, Read

LEMMA LockInvariant == Spec => []LockInv
  BY InitLock, StepLock, PTL DEF Spec

\* The variables of the mailboxes keep their types; a reference that is used as a
\* list is one.
THEOREM TypeCorrect == Spec => []TypeOK
  BY LockInvariant, PTL DEF LockInv

\* Only the thread that has _queuelock is in the locked part of a call: appends of
\* _submitMessage and the copy and replacement of recvall exclude each other.
THEOREM LockIsExclusive == Spec => []LockExclusive
  BY LockInvariant, PTL DEF LockInv

-----------------------------------------------------------------------------
(***************************************************************************)
(* Messages are returned in order and once.                                *)
(***************************************************************************)
OneReader == \A q, r \in Readers : q = r



\* Every list is used for one mailbox only.
Owned(owner) ==
  /\ \A c \in Cmds : messages[c] # None => owner[messages[c]] = c
  /\ \A t \in Threads : Holding(t) => owner[mbox[t]] = cmd[t]
  /\ \A l \in 1 .. Len(lists) : \A m \in Elements(lists[l]) : m.cmd = owner[l]

ListsOwned == \E owner \in [1 .. Len(lists) -> Cmds] : Owned(owner)

\* The mailbox is the newest of its lists.
Newest ==
  /\ \A l \in 1 .. Len(lists) : \A m \in Elements(lists[l]) : l <= messages[m.cmd]
  /\ \A t \in Threads : Holding(t) => mbox[t] <= messages[cmd[t]]

\* A message about to be appended is newer than all others of its submitter.
Filing(s) == pc[s] \in {"create", "event", "lock", "append"}

Older(m) ==
  /\ m.seq <= sent[m.src]
  /\ Filing(m.src) /\ cmd[m.src] = m.cmd => m.seq < sent[m.src]

ListsOrdered ==
  /\ \A l \in 1 .. Len(lists) :
       /\ Ordered(lists[l])
       /\ \A m \in Elements(lists[l]) : Older(m)
  /\ \A k, l \in 1 .. Len(lists) : k < l =>
       \A m \in Elements(lists[k]), n \in Elements(lists[l]) : Before(m, n)

\* A submitter appends to no list older than those it has appended to.
AppendsToNewest ==
  \A s \in Submitters : pc[s] \in {"event", "lock", "append"} =>
    \A l \in 1 .. Len(lists) : \A m \in Elements(lists[l]) :
      m.src = s /\ m.cmd = cmd[s] => l <= mbox[s]

\* The oldest list that a reader can still take messages for c from.
Oldest(r, c) == IF cmd[r] = c /\ pc[r] \in {"check", "pop", "copy", "replace"}
                      /\ mbox[r] # None
                  THEN mbox[r] ELSE messages[c]

\* What a reader has comes before all that it can still get.
GotFirst ==
  \A r \in Readers :
    /\ Ordered(got[r])
    /\ \A m \in Elements(got[r]) : Older(m)
    /\ \A m \in Elements(got[r]) : \A l \in 1 .. Len(lists) :
         l >= Oldest(r, m.cmd) =>
           \A n \in Elements(lists[l]) : Before(m, n)

\* What recvall has copied is still the list when it replaces it.
CopyIsList == \A r \in Readers : pc[r] = "replace" => copied[r] = lists[mbox[r]]

OrderInv ==
  /\ LockInv /\ ListsOwned /\ Newest /\ ListsOrdered /\ AppendsToNewest
  /\ GotFirst /\ CopyIsList

-----------------------------------------------------------------------------
(***************************************************************************)
(* Sequences, their elements and their order.                              *)
(***************************************************************************)

LEMMA ElementsEmpty == Elements(<<>>) = {}
  BY DEF Elements

LEMMA ElementsAppend ==
  ASSUME NEW S, NEW q \in Seq(S), NEW e \in S
  PROVE  Elements(Append(q, e)) = Elements(q) \cup {e}
<1>1. /\ Len(Append(q, e)) = Len(q) + 1
      /\ \A i \in 1 .. Len(q) : Append(q, e)[i] = q[i]
      /\ Append(q, e)[Len(q) + 1] = e
      BY AppendProperties
<1>2. 1 .. Len(q) + 1 = (1 .. Len(q)) \cup {Len(q) + 1}
      OBVIOUS
<1>. QED  BY <1>1, <1>2 DEF Elements

LEMMA ElementsTail ==
  ASSUME NEW S, NEW q \in Seq(S), q # <<>>
  PROVE  Head(q) \in Elements(q) /\ Elements(Tail(q)) \subseteq Elements(q)
<1>1. /\ Len(q) \in Nat \ {0} /\ Head(q) = q[1]
      /\ Len(Tail(q)) = Len(q) - 1
      /\ \A i \in 1 .. Len(q) - 1 : Tail(q)[i] = q[i + 1] /\ i + 1 \in 1 .. Len(q)
      OBVIOUS
<1>. QED  BY <1>1 DEF Elements

LEMMA ElementsConcat ==
  ASSUME NEW S, NEW p \in Seq(S), NEW q \in Seq(S)
  PROVE  Elements(p \o q) \subseteq Elements(p) \cup Elements(q)
<1> SUFFICES ASSUME NEW i \in 1 .. Len(p \o q)
             PROVE  (p \o q)[i] \in Elements(p) \cup Elements(q)
    BY DEF Elements
<1>1. CASE i <= Len(p)
      BY <1>1 DEF Elements
<1>2. CASE i > Len(p)
      BY <1>2 DEF Elements
<1>. QED  BY <1>1, <1>2

LEMMA OrderedEmpty == Ordered(<<>>)
  BY DEF Ordered

LEMMA OrderedAppend ==
  ASSUME NEW S, NEW q \in Seq(S), NEW e \in S,
         Ordered(q), \A m \in Elements(q) : Before(m, e)
  PROVE  Ordered(Append(q, e))
<1>1. /\ Len(Append(q, e)) = Len(q) + 1
      /\ \A i \in 1 .. Len(q) : Append(q, e)[i] = q[i]
      /\ Append(q, e)[Len(q) + 1] = e
      BY AppendProperties
<1> SUFFICES ASSUME NEW i \in 1 .. Len(q) + 1, NEW j \in 1 .. Len(q) + 1, i < j
             PROVE  Before(Append(q, e)[i], Append(q, e)[j])
    BY <1>1 DEF Ordered
<1>2. i \in 1 .. Len(q)
      OBVIOUS
<1>3. CASE j \in 1 .. Len(q)
      BY <1>1, <1>2, <1>3 DEF Ordered
<1>4. CASE j = Len(q) + 1
      BY <1>1, <1>2, <1>4 DEF Elements
<1>. QED  BY <1>3, <1>4

LEMMA OrderedTail ==
  ASSUME NEW S, NEW q \in Seq(S), q # <<>>, Ordered(q)
  PROVE  /\ Ordered(Tail(q))
         /\ \A m \in Elements(Tail(q)) : Before(Head(q), m)
<1>1. /\ Len(q) \in Nat \ {0} /\ Head(q) = q[1]
      /\ Len(Tail(q)) = Len(q) - 1
      /\ \A i \in 1 .. Len(q) - 1 : Tail(q)[i] = q[i + 1] /\ i + 1 \in 1 .. Len(q)
      OBVIOUS
<1>2. Ordered(Tail(q))
      BY <1>1 DEF Ordered
<1>3. \A m \in Elements(Tail(q)) : Before(Head(q), m)
      BY <1>1 DEF Ordered, Elements
<1>. QED  BY <1>2, <1>3

LEMMA OrderedConcat ==
  ASSUME NEW S, NEW p \in Seq(S), NEW q \in Seq(S), Ordered(p), Ordered(q),
         \A m \in Elements(p), n \in Elements(q) : Before(m, n)
  PROVE  Ordered(p \o q)
<1>1. /\ Len(p \o q) = Len(p) + Len(q)
      /\ Len(p) \in Nat /\ Len(q) \in Nat
      /\ \A i \in 1 .. Len(p) : (p \o q)[i] = p[i]
      /\ \A i \in Len(p) + 1 .. Len(p) + Len(q) : (p \o q)[i] = q[i - Len(p)]
      OBVIOUS
<1> SUFFICES ASSUME NEW i \in 1 .. Len(p) + Len(q), NEW j \in 1 .. Len(p) + Len(q),
                    i < j
             PROVE  Before((p \o q)[i], (p \o q)[j])
    BY <1>1 DEF Ordered
<1>2. CASE j <= Len(p)
      BY <1>1, <1>2 DEF Ordered
<1>3. CASE i <= Len(p) /\ j > Len(p)
      BY <1>1, <1>3 DEF Elements
<1>4. CASE i > Len(p)
      BY <1>1, <1>4 DEF Ordered
<1>. QED  BY <1>1, <1>2, <1>3, <1>4

-----------------------------------------------------------------------------
(***************************************************************************)
(* What a step does to references, mailboxes and numbers.                  *)
(***************************************************************************)

\* Types that nearly every step needs, before it and after it.
LEMMA LensAreNat ==
  ASSUME LockInv, LockInv'
  PROVE  Len(lists) \in Nat /\ Len(lists') \in Nat
<1>1. lists \in Seq(Seq(Message))
      BY DEF LockInv, TypeOK
<1>2. lists' \in Seq(Seq(Message))
      BY DEF LockInv, TypeOK
<1>. QED  BY <1>1, <1>2

LEMMA ReferencesAreLists ==
  ASSUME LockInv, LockInv'
  PROVE  /\ messages \in [Cmds -> 0 .. Len(lists)] /\ messages' \in [Cmds -> 0 .. Len(lists')]
         /\ mbox \in [Threads -> 0 .. Len(lists)] /\ mbox' \in [Threads -> 0 .. Len(lists')]
         /\ cmd \in [Threads -> Cmds] /\ cmd' \in [Threads -> Cmds]
<1>1. /\ messages \in [Cmds -> 0 .. Len(lists)] /\ mbox \in [Threads -> 0 .. Len(lists)]
      /\ cmd \in [Threads -> Cmds]
      BY DEF LockInv, TypeOK
<1>2. /\ messages' \in [Cmds -> 0 .. Len(lists')] /\ mbox' \in [Threads -> 0 .. Len(lists')]
      /\ cmd' \in [Threads -> Cmds]
      BY DEF LockInv, TypeOK
<1>. QED  BY <1>1, <1>2

LEMMA Handles ==
  ASSUME LockInv
  PROVE  /\ Len(lists) \in Nat
         /\ \A t \in Threads : Holding(t) =>
              mbox[t] \in 1 .. Len(lists) /\ lists[mbox[t]] \in Seq(Message)
<1>1. Len(lists) \in Nat
      BY DEF LockInv, TypeOK
<1>2. \A t \in Threads : mbox[t] \in 0 .. Len(lists)
      BY DEF LockInv, TypeOK
<1>3. \A t \in Threads : Holding(t) => mbox[t] # 0
      BY DEF LockInv, HandlesOK, None
<1>4. lists \in Seq(Seq(Message))
      BY DEF LockInv, TypeOK
<1>. QED  BY <1>1, <1>2, <1>3, <1>4

\* A mailbox is only ever replaced by a newer list.
LEMMA MailboxesMove ==
  ASSUME LockInv, [Next]_vars
  PROVE  \A d \in Cmds : messages[d] <= messages'[d]
<1> DEFINE G == \A d \in Cmds : messages[d] <= messages'[d]
<1>a. /\ messages \in [Cmds -> 0 .. Len(lists)] /\ Len(lists) \in Nat
      /\ cmd \in [Threads -> Cmds]
      BY DEF LockInv, TypeOK
<1> SUFFICES G  OBVIOUS
<1>b. messages' = messages => G
      BY <1>a
<1>c. (\E d \in Cmds : messages' = [messages EXCEPT ![d] = Len(lists) + 1]) => G
      BY <1>a
<1> HIDE DEF G
<1>1. ASSUME NEW s \in Submitters, NEW c \in Cmds, SubmitLookup(s, c) PROVE G
     BY <1>1, <1>b DEF SubmitLookup
<1>2. ASSUME NEW s \in Submitters, SubmitCreate(s) PROVE G
     BY <1>2, <1>a, <1>c DEF SubmitCreate, Threads
<1>3. ASSUME NEW s \in Submitters, SubmitMakeEvent(s) PROVE G
     BY <1>3, <1>b DEF SubmitMakeEvent
<1>4. ASSUME NEW s \in Submitters, SubmitAcquire(s) PROVE G
     BY <1>4, <1>b DEF SubmitAcquire
<1>5. ASSUME NEW s \in Submitters, SubmitAppend(s) PROVE G
     BY <1>5, <1>b DEF SubmitAppend
<1>6. ASSUME NEW s \in Submitters, SubmitNotify(s) PROVE G
     BY <1>6, <1>b DEF SubmitNotify
<1>7. ASSUME NEW r \in Readers, NEW c \in Cmds, RecvLookup(r, c) PROVE G
     BY <1>7, <1>b DEF RecvLookup
<1>8. ASSUME NEW r \in Readers, RecvCheck(r) PROVE G
     BY <1>8, <1>b DEF RecvCheck
<1>9. ASSUME NEW r \in Readers, RecvTimeout(r) PROVE G
     BY <1>9, <1>b DEF RecvTimeout
<1>10. ASSUME NEW r \in Readers, RecvPop(r) PROVE G
     BY <1>10, <1>b DEF RecvPop
<1>11. ASSUME NEW r \in Readers, NEW c \in Cmds, RecvallLookup(r, c) PROVE G
     BY <1>11, <1>b DEF RecvallLookup
<1>12. ASSUME NEW r \in Readers, RecvallCopy(r) PROVE G
     BY <1>12, <1>b DEF RecvallCopy
<1>13. ASSUME NEW r \in Readers, RecvallReplace(r) PROVE G
     BY <1>13, <1>a, <1>c DEF RecvallReplace, Threads
<1>14. CASE UNCHANGED vars
     BY <1>14, <1>b DEF vars
<1>. QED
     BY <1>1, <1>2, <1>3, <1>4, <1>5, <1>6, <1>7, <1>8, <1>9, <1>10, <1>11,
        <1>12, <1>13, <1>14
        DEF Next, Submit, Read

\* A thread keeps its reference or takes the list that is the mailbox now.
LEMMA HandlesMove ==
  ASSUME LockInv, [Next]_vars, NEW t \in Threads, Holding(t)'
  PROVE  \/ Holding(t) /\ mbox'[t] = mbox[t] /\ cmd'[t] = cmd[t]
         \/ mbox'[t] = messages'[cmd'[t]]
<1> DEFINE G == \/ Holding(t) /\ mbox'[t] = mbox[t] /\ cmd'[t] = cmd[t]
                \/ mbox'[t] = messages'[cmd'[t]]
<1>a. /\ messages \in [Cmds -> 0 .. Len(lists)] /\ cmd \in [Threads -> Cmds]
      /\ mbox \in [Threads -> 0 .. Len(lists)] /\ Len(lists) \in Nat
      /\ pc \in [Threads -> SubmitPc \cup ReadPc]
      BY DEF LockInv, TypeOK
<1> USE <1>a DEF Holding, Goto, Threads
<1>1. ASSUME NEW s \in Submitters, NEW c \in Cmds, SubmitLookup(s, c) PROVE G
     BY <1>1 DEF SubmitLookup
<1>2. ASSUME NEW s \in Submitters, SubmitCreate(s) PROVE G
     BY <1>2 DEF SubmitCreate
<1>3. ASSUME NEW s \in Submitters, SubmitMakeEvent(s) PROVE G
     BY <1>3 DEF SubmitMakeEvent
<1>4. ASSUME NEW s \in Submitters, SubmitAcquire(s) PROVE G
     BY <1>4 DEF SubmitAcquire
<1>5. ASSUME NEW s \in Submitters, SubmitAppend(s) PROVE G
     BY <1>5 DEF SubmitAppend
<1>6. ASSUME NEW s \in Submitters, SubmitNotify(s) PROVE G
     BY <1>6 DEF SubmitNotify
<1>7. ASSUME NEW r \in Readers, NEW c \in Cmds, RecvLookup(r, c) PROVE G
     BY <1>7 DEF RecvLookup
<1>8. ASSUME NEW r \in Readers, RecvCheck(r) PROVE G
     BY <1>8 DEF RecvCheck
<1>9. ASSUME NEW r \in Readers, RecvTimeout(r) PROVE G
     BY <1>9 DEF RecvTimeout
<1>10. ASSUME NEW r \in Readers, RecvPop(r) PROVE G
     BY <1>10 DEF RecvPop
<1>11. ASSUME NEW r \in Readers, NEW c \in Cmds, RecvallLookup(r, c) PROVE G
     BY <1>11 DEF RecvallLookup
<1>12. ASSUME NEW r \in Readers, RecvallCopy(r) PROVE G
     BY <1>12 DEF RecvallCopy
<1>13. ASSUME NEW r \in Readers, RecvallReplace(r) PROVE G
     BY <1>13 DEF RecvallReplace
<1>14. CASE UNCHANGED vars
     BY <1>14 DEF vars
<1>. QED
     BY <1>1, <1>2, <1>3, <1>4, <1>5, <1>6, <1>7, <1>8, <1>9, <1>10, <1>11,
        <1>12, <1>13, <1>14
        DEF Next, Submit, Read

\* A message that is older than what its submitter files next remains so.
LEMMA OlderMoves ==
  ASSUME LockInv, [Next]_vars, NEW m \in Message, Older(m)
  PROVE  Older(m)'
<1> DEFINE G == Older(m)'
<1>a. /\ sent \in [Submitters -> Nat] /\ cmd \in [Threads -> Cmds]
      /\ pc \in [Threads -> SubmitPc \cup ReadPc]
      /\ m.src \in Submitters /\ m.seq \in Nat /\ m.cmd \in Cmds
      BY DEF LockInv, TypeOK, Message
<1> USE <1>a, ThreadsAssumption DEF Older, Filing, Goto, Threads
<1>1. ASSUME NEW s \in Submitters, NEW c \in Cmds, SubmitLookup(s, c) PROVE G
     BY <1>1 DEF SubmitLookup
<1>2. ASSUME NEW s \in Submitters, SubmitCreate(s) PROVE G
     BY <1>2 DEF SubmitCreate
<1>3. ASSUME NEW s \in Submitters, SubmitMakeEvent(s) PROVE G
     BY <1>3 DEF SubmitMakeEvent
<1>4. ASSUME NEW s \in Submitters, SubmitAcquire(s) PROVE G
     BY <1>4 DEF SubmitAcquire
<1>5. ASSUME NEW s \in Submitters, SubmitAppend(s) PROVE G
     BY <1>5 DEF SubmitAppend
<1>6. ASSUME NEW s \in Submitters, SubmitNotify(s) PROVE G
     BY <1>6 DEF SubmitNotify
<1>7. ASSUME NEW r \in Readers, NEW c \in Cmds, RecvLookup(r, c) PROVE G
     BY <1>7 DEF RecvLookup
<1>8. ASSUME NEW r \in Readers, RecvCheck(r) PROVE G
     BY <1>8 DEF RecvCheck
<1>9. ASSUME NEW r \in Readers, RecvTimeout(r) PROVE G
     BY <1>9 DEF RecvTimeout
<1>10. ASSUME NEW r \in Readers, RecvPop(r) PROVE G
     BY <1>10 DEF RecvPop
<1>11. ASSUME NEW r \in Readers, NEW c \in Cmds, RecvallLookup(r, c) PROVE G
     BY <1>11 DEF RecvallLookup
<1>12. ASSUME NEW r \in Readers, RecvallCopy(r) PROVE G
     BY <1>12 DEF RecvallCopy
<1>13. ASSUME NEW r \in Readers, RecvallReplace(r) PROVE G
     BY <1>13 DEF RecvallReplace
<1>14. CASE UNCHANGED vars
     BY <1>14 DEF vars
<1>. QED
     BY <1>1, <1>2, <1>3, <1>4, <1>5, <1>6, <1>7, <1>8, <1>9, <1>10, <1>11,
        <1>12, <1>13, <1>14
        DEF Next, Submit, Read


\* What can happen to the lists.
LEMMA ListsMove ==
  ASSUME LockInv, [Next]_vars
  PROVE  \/ lists' = lists /\ messages' = messages
         \/ \E d \in Cmds : /\ lists' = Append(lists, <<>>)
                            /\ messages' = [messages EXCEPT ![d] = Len(lists) + 1]
         \/ \E s \in Submitters : SubmitAppend(s)
         \/ \E r \in Readers : RecvPop(r) /\ lists[mbox[r]] # <<>>
<1> DEFINE G == \/ lists' = lists /\ messages' = messages
                \/ \E d \in Cmds :
                     /\ lists' = Append(lists, <<>>)
                     /\ messages' = [messages EXCEPT ![d] = Len(lists) + 1]
                \/ \E s \in Submitters : SubmitAppend(s)
                \/ \E r \in Readers : RecvPop(r) /\ lists[mbox[r]] # <<>>
<1>a. cmd \in [Threads -> Cmds]
      BY DEF LockInv, TypeOK
<1>1. ASSUME NEW s \in Submitters, NEW c \in Cmds, SubmitLookup(s, c) PROVE G
     BY <1>1 DEF SubmitLookup
<1>2. ASSUME NEW s \in Submitters, SubmitCreate(s) PROVE G
     BY <1>2, <1>a DEF SubmitCreate, Threads
<1>3. ASSUME NEW s \in Submitters, SubmitMakeEvent(s) PROVE G
     BY <1>3 DEF SubmitMakeEvent
<1>4. ASSUME NEW s \in Submitters, SubmitAcquire(s) PROVE G
     BY <1>4 DEF SubmitAcquire
<1>5. ASSUME NEW s \in Submitters, SubmitAppend(s) PROVE G
     BY <1>5
<1>6. ASSUME NEW s \in Submitters, SubmitNotify(s) PROVE G
     BY <1>6 DEF SubmitNotify
<1>7. ASSUME NEW r \in Readers, NEW c \in Cmds, RecvLookup(r, c) PROVE G
     BY <1>7 DEF RecvLookup
<1>8. ASSUME NEW r \in Readers, RecvCheck(r) PROVE G
     BY <1>8 DEF RecvCheck
<1>9. ASSUME NEW r \in Readers, RecvTimeout(r) PROVE G
     BY <1>9 DEF RecvTimeout
<1>10. ASSUME NEW r \in Readers, RecvPop(r) PROVE G
     BY <1>10 DEF RecvPop
<1>11. ASSUME NEW r \in Readers, NEW c \in Cmds, RecvallLookup(r, c) PROVE G
     BY <1>11 DEF RecvallLookup
<1>12. ASSUME NEW r \in Readers, RecvallCopy(r) PROVE G
     BY <1>12 DEF RecvallCopy
<1>13. ASSUME NEW r \in Readers, RecvallReplace(r) PROVE G
     BY <1>13, <1>a DEF RecvallReplace, Threads
<1>14. CASE UNCHANGED vars
     BY <1>14 DEF vars
<1>. QED
     BY <1>1, <1>2, <1>3, <1>4, <1>5, <1>6, <1>7, <1>8, <1>9, <1>10, <1>11,
        <1>12, <1>13, <1>14
        DEF Next, Submit, Read

\* A step other than an append brings no message into a list.
NothingNew ==
  \A l \in 1 .. Len(lists') :
    /\ Ordered(lists'[l])
    /\ \A m \in Elements(lists'[l]) : l \in 1 .. Len(lists) /\ m \in Elements(lists[l])

LEMMA OthersAddNothing ==
  ASSUME LockInv, ListsOrdered, [Next]_vars, \A s \in Submitters : ~SubmitAppend(s)
  PROVE  NothingNew
<1>1. lists \in Seq(Seq(Message)) /\ Len(lists) \in Nat
      BY DEF LockInv, TypeOK
<1>2. \A l \in 1 .. Len(lists) : Ordered(lists[l])
      BY DEF ListsOrdered
<1>3. CASE lists' = lists
      BY <1>2, <1>3 DEF NothingNew
<1>4. CASE lists' = Append(lists, <<>>)
  <2>1. /\ Len(lists') = Len(lists) + 1
        /\ \A l \in 1 .. Len(lists) : lists'[l] = lists[l]
        /\ lists'[Len(lists) + 1] = <<>>
        BY <1>1, <1>4
  <2> SUFFICES ASSUME NEW l \in 1 .. Len(lists')
               PROVE  /\ Ordered(lists'[l])
                      /\ \A m \in Elements(lists'[l]) :
                           l \in 1 .. Len(lists) /\ m \in Elements(lists[l])
      BY DEF NothingNew
  <2>2. CASE l \in 1 .. Len(lists)
        BY <2>1, <2>2, <1>2
  <2>3. CASE l = Len(lists) + 1
        BY <2>1, <2>3, OrderedEmpty, ElementsEmpty
  <2>. QED  BY <1>1, <2>1, <2>2, <2>3
<1>5. ASSUME NEW r \in Readers, RecvPop(r), lists[mbox[r]] # <<>>
      PROVE  NothingNew
  <2>1. mbox[r] \in 1 .. Len(lists) /\ lists[mbox[r]] \in Seq(Message)
        BY <1>5, Handles DEF RecvPop, Goto, Holding, Threads
  <2>2. lists' = [lists EXCEPT ![mbox[r]] = Tail(lists[mbox[r]])]
        BY <1>5 DEF RecvPop
  <2>3. /\ Len(lists') = Len(lists)
        /\ lists'[mbox[r]] = Tail(lists[mbox[r]])
        /\ \A l \in 1 .. Len(lists) : l # mbox[r] => lists'[l] = lists[l]
        BY <1>1, <2>1, <2>2
  <2>4. /\ Ordered(Tail(lists[mbox[r]]))
        /\ Elements(Tail(lists[mbox[r]])) \subseteq Elements(lists[mbox[r]])
        BY <1>2, <1>5, <2>1, OrderedTail, ElementsTail
  <2>. QED  BY <1>2, <2>3, <2>4 DEF NothingNew
<1>. QED  BY <1>3, <1>4, <1>5, ListsMove

\* An append brings one message into one list.
LEMMA AppendAddsOne ==
  ASSUME LockInv, NEW s \in Submitters, SubmitAppend(s)
  PROVE  LET n == [cmd |-> cmd[s], src |-> s, seq |-> sent[s]] IN
         /\ n \in Message
         /\ pc[s] = "append" /\ Holding(s)
         /\ mbox[s] \in 1 .. Len(lists) /\ Len(lists') = Len(lists)
         /\ lists'[mbox[s]] = Append(lists[mbox[s]], n)
         /\ Elements(lists'[mbox[s]]) = Elements(lists[mbox[s]]) \cup {n}
         /\ \A l \in 1 .. Len(lists) : l # mbox[s] => lists'[l] = lists[l]
<1> DEFINE n == [cmd |-> cmd[s], src |-> s, seq |-> sent[s]]
<1>1. lists \in Seq(Seq(Message)) /\ n \in Message
      BY DEF LockInv, TypeOK, Message, Threads
<1>2. pc[s] = "append" /\ Holding(s)
      BY DEF SubmitAppend, Goto, Holding
<1>3. mbox[s] \in 1 .. Len(lists) /\ lists[mbox[s]] \in Seq(Message)
      BY <1>2, Handles DEF Threads
<1>4. lists' = [lists EXCEPT ![mbox[s]] = Append(lists[mbox[s]], n)]
      BY DEF SubmitAppend
<1> HIDE DEF n
<1>5. Append(lists[mbox[s]], n) \in Seq(Message)
      BY <1>1, <1>3
<1>6. /\ Len(lists') = Len(lists)
      /\ lists'[mbox[s]] = Append(lists[mbox[s]], n)
      /\ \A l \in 1 .. Len(lists) : l # mbox[s] => lists'[l] = lists[l]
      BY <1>1, <1>3, <1>4, <1>5, UpdateSeq
<1>7. Elements(lists'[mbox[s]]) = Elements(lists[mbox[s]]) \cup {n}
      BY <1>1, <1>3, <1>6, ElementsAppend
<1>. QED  BY <1>1, <1>2, <1>3, <1>6, <1>7 DEF n

-----------------------------------------------------------------------------
(***************************************************************************)
(* The parts of the invariant.                                             *)
(***************************************************************************)

LEMMA ListsHoldMessages ==
  ASSUME LockInv, NEW l \in 1 .. Len(lists), NEW m \in Elements(lists[l])
  PROVE  /\ m \in Message
         /\ m.cmd \in Cmds /\ m.src \in Submitters /\ m.seq \in Nat
<1>1. lists[l] \in Seq(Message)
      BY DEF LockInv, TypeOK
<1>2. m \in Message
      BY <1>1 DEF Elements
<1>. QED  BY <1>2 DEF Message

LEMMA StepNewest ==
  ASSUME LockInv, LockInv', Newest, ListsOrdered, [Next]_vars
  PROVE  Newest'
<1>a. /\ messages \in [Cmds -> Nat] /\ messages' \in [Cmds -> Nat]
      /\ mbox \in [Threads -> Nat] /\ cmd \in [Threads -> Cmds]
      /\ cmd' \in [Threads -> Cmds] /\ Len(lists') \in Nat
      BY LensAreNat, ReferencesAreLists
<1>1. ASSUME NEW t \in Threads, Holding(t)'
      PROVE  mbox'[t] <= messages'[cmd'[t]]
  <2>1. CASE Holding(t) /\ mbox'[t] = mbox[t] /\ cmd'[t] = cmd[t]
    <3>1. mbox[t] <= messages[cmd[t]] /\ messages[cmd[t]] <= messages'[cmd[t]]
          BY <1>a, <2>1, MailboxesMove DEF Newest
    <3>2. \A a, b, c \in Nat : a <= b /\ b <= c => a <= c
          OBVIOUS
    <3>. QED  BY <1>a, <2>1, <3>1, <3>2
  <2>2. CASE mbox'[t] = messages'[cmd'[t]]
    <3>1. messages'[cmd'[t]] \in Nat
          BY <1>a
    <3>. QED  BY <2>2, <3>1
  <2>. QED  BY <1>1, <2>1, <2>2, HandlesMove
<1>2. ASSUME \A s \in Submitters : ~SubmitAppend(s),
             NEW l \in 1 .. Len(lists'), NEW m \in Elements(lists'[l])
      PROVE  l <= messages'[m.cmd]
  <2>1. l \in 1 .. Len(lists) /\ m \in Elements(lists[l])
        BY <1>2, OthersAddNothing DEF NothingNew
  <2>2. m.cmd \in Cmds
        BY <2>1, ListsHoldMessages
  <2>3. l <= messages[m.cmd] /\ messages[m.cmd] <= messages'[m.cmd]
        BY <2>1, <2>2, MailboxesMove DEF Newest
  <2>. QED  BY <1>a, <2>2, <2>3
<1>3. ASSUME NEW s \in Submitters, SubmitAppend(s),
             NEW l \in 1 .. Len(lists'), NEW m \in Elements(lists'[l])
      PROVE  l <= messages'[m.cmd]
  <2> DEFINE n == [cmd |-> cmd[s], src |-> s, seq |-> sent[s]]
  <2>1. /\ Holding(s) /\ Len(lists') = Len(lists)
        /\ Elements(lists'[mbox[s]]) = Elements(lists[mbox[s]]) \cup {n}
        /\ \A k \in 1 .. Len(lists) : k # mbox[s] => lists'[k] = lists[k]
        BY <1>3, AppendAddsOne
  <2>2. messages' = messages
        BY <1>3 DEF SubmitAppend
  <2>3. CASE m \in Elements(lists[l])
        BY <2>1, <2>2, <2>3 DEF Newest
  <2>4. CASE l = mbox[s] /\ m = n
        BY <2>1, <2>2, <2>4 DEF Newest, Threads
  <2>. QED  BY <2>1, <2>3, <2>4
<1>. QED  BY <1>1, <1>2, <1>3 DEF Newest

LEMMA StepListsOrdered ==
  ASSUME LockInv, Newest, ListsOrdered, AppendsToNewest, [Next]_vars
  PROVE  ListsOrdered'
<1>1. CASE \A s \in Submitters : ~SubmitAppend(s)
  <2>1. ASSUME NEW l \in 1 .. Len(lists')
        PROVE  Ordered(lists'[l]) /\ \A m \in Elements(lists'[l]) : Older(m)'
        BY <1>1, OthersAddNothing, ListsHoldMessages, OlderMoves
        DEF NothingNew, ListsOrdered
  <2>2. ASSUME NEW k \in 1 .. Len(lists'), NEW l \in 1 .. Len(lists'), k < l,
               NEW m \in Elements(lists'[k]), NEW n \in Elements(lists'[l])
        PROVE  Before(m, n)
        BY <1>1, <2>2, OthersAddNothing DEF NothingNew, ListsOrdered
  <2>. QED  BY <2>1, <2>2 DEF ListsOrdered
<1>2. ASSUME NEW s \in Submitters, SubmitAppend(s)
      PROVE  ListsOrdered'
  <2> PICK n \in Message : n = [cmd |-> cmd[s], src |-> s, seq |-> sent[s]]
      BY <1>2, AppendAddsOne
  <2> PICK k \in Nat : k = mbox[s]
      BY DEF LockInv, TypeOK, Threads
  <2>1. /\ n \in Message /\ pc[s] = "append"
        /\ k \in 1 .. Len(lists) /\ Len(lists') = Len(lists)
        /\ lists'[k] = Append(lists[k], n)
        /\ Elements(lists'[k]) = Elements(lists[k]) \cup {n}
        /\ \A l \in 1 .. Len(lists) : l # k => lists'[l] = lists[l]
        BY <1>2, AppendAddsOne
  <2>2. n.cmd = cmd[s] /\ n.src = s /\ n.seq = sent[s] /\ sent[s] \in Nat
        BY <1>2 DEF LockInv, TypeOK
  <2>3. \A l \in 1 .. Len(lists) : \A m \in Elements(lists[l]) : Before(m, n)
    <3> SUFFICES ASSUME NEW l \in 1 .. Len(lists), NEW m \in Elements(lists[l]),
                        m.cmd = n.cmd, m.src = n.src
                 PROVE  m.seq < n.seq
        BY DEF Before
    <3>. QED  BY <2>1, <2>2 DEF ListsOrdered, Older, Filing
  <2>4. \A l \in 1 .. Len(lists) : l > k =>
          \A m \in Elements(lists[l]) : Before(n, m)
    <3> SUFFICES ASSUME NEW l \in 1 .. Len(lists), l > k,
                        NEW m \in Elements(lists[l]), m.cmd = n.cmd, m.src = n.src
                 PROVE  FALSE
        BY DEF Before
    <3>1. l <= mbox[s]
          BY <2>1, <2>2 DEF AppendsToNewest
    <3>. QED  BY <2>1, <3>1
  <2>5. Ordered(lists'[k])
    <3>1. lists[k] \in Seq(Message) /\ Ordered(lists[k])
          BY <2>1 DEF LockInv, TypeOK, ListsOrdered
    <3>. QED  BY <2>1, <2>3, <3>1, OrderedAppend
  <2>6. Older(n)'
    <3>1. pc \in [Threads -> SubmitPc \cup ReadPc]
          BY DEF LockInv, TypeOK
    <3>2. pc'[s] = "notify" /\ sent' = sent
          BY <1>2, <3>1 DEF SubmitAppend, Goto, Threads
    <3>. QED  BY <2>2, <3>2 DEF Older, Filing
  <2>7. \A l \in 1 .. Len(lists') :
          Ordered(lists'[l]) /\ \A m \in Elements(lists'[l]) : Older(m)'
    <3>1. ASSUME NEW l \in 1 .. Len(lists), NEW m \in Elements(lists[l])
          PROVE  Older(m)'
          BY ListsHoldMessages, OlderMoves DEF ListsOrdered
    <3>2. ASSUME NEW l \in 1 .. Len(lists), l # k
          PROVE  Ordered(lists'[l]) /\ \A m \in Elements(lists'[l]) : Older(m)'
          BY <2>1, <3>1, <3>2 DEF ListsOrdered
    <3>3. \A m \in Elements(lists'[k]) : Older(m)'
          BY <2>1, <2>6, <3>1
    <3>. QED  BY <2>1, <2>5, <3>2, <3>3
  <2>8. ASSUME NEW i \in 1 .. Len(lists'), NEW j \in 1 .. Len(lists'), i < j,
               NEW m \in Elements(lists'[i]), NEW o \in Elements(lists'[j])
        PROVE  Before(m, o)
    <3>1. CASE m \in Elements(lists[i]) /\ o \in Elements(lists[j])
          BY <2>1, <2>8, <3>1 DEF ListsOrdered
    <3>2. CASE o = n /\ m \in Elements(lists[i])
          BY <2>1, <2>3, <3>2
    <3>3. CASE m = n /\ i = k /\ j # k
          BY <2>1, <2>4, <2>8, <3>3
    <3>4. /\ m \in Elements(lists[i]) \/ (m = n /\ i = k)
          /\ o \in Elements(lists[j]) \/ (o = n /\ j = k)
          BY <2>1
    <3>5. ~(i = k /\ j = k)
          BY <2>8
    <3>6. CASE m = n /\ i = k
      <4>1. j # k
            BY <3>5, <3>6
      <4>. QED  BY <3>3, <3>6, <4>1
    <3>. QED  BY <3>1, <3>2, <3>4, <3>6
  <2>. QED  BY <2>7, <2>8 DEF ListsOrdered
<1>. QED  BY <1>1, <1>2

LEMMA StepAppendsToNewest ==
  ASSUME LockInv, Newest, Newest', ListsOrdered, AppendsToNewest, [Next]_vars
  PROVE  AppendsToNewest'
<1> SUFFICES ASSUME NEW s \in Submitters, pc'[s] \in {"event", "lock", "append"},
                    NEW l \in 1 .. Len(lists'), NEW m \in Elements(lists'[l]),
                    m.src = s, m.cmd = cmd'[s]
             PROVE  l <= mbox'[s]
    BY DEF AppendsToNewest
<1>1. Holding(s)' /\ s \in Threads
      BY DEF Holding, Threads
<1>2. CASE mbox'[s] = messages'[cmd'[s]]
      BY <1>2 DEF Newest
<1>3. CASE Holding(s) /\ mbox'[s] = mbox[s] /\ cmd'[s] = cmd[s]
  <2>1. ~SubmitAppend(s)
        BY DEF SubmitAppend, Goto, LockInv, TypeOK, Threads
  <2>2. l \in 1 .. Len(lists) /\ m \in Elements(lists[l])
    <3>1. CASE \A q \in Submitters : ~SubmitAppend(q)
          BY <3>1, OthersAddNothing DEF NothingNew
    <3>2. ASSUME NEW q \in Submitters, SubmitAppend(q)
          PROVE  l \in 1 .. Len(lists) /\ m \in Elements(lists[l])
      <4> DEFINE n == [cmd |-> cmd[q], src |-> q, seq |-> sent[q]]
      <4>1. /\ Len(lists') = Len(lists)
            /\ Elements(lists'[mbox[q]]) = Elements(lists[mbox[q]]) \cup {n}
            /\ \A k \in 1 .. Len(lists) : k # mbox[q] => lists'[k] = lists[k]
            BY <3>2, AppendAddsOne
      <4>2. m # n
            BY <2>1, <3>2
      <4>. QED  BY <4>1, <4>2
    <3>. QED  BY <3>1, <3>2
  <2>3. pc[s] \in {"event", "lock", "append"}
        BY <1>3 DEF Holding, LockInv, TypeOK, SubmitPc
  <2>. QED  BY <1>3, <2>2, <2>3 DEF AppendsToNewest
<1>. QED  BY <1>1, <1>2, <1>3, HandlesMove

LEMMA StepListsOwned ==
  ASSUME LockInv, LockInv', ListsOrdered, ListsOwned, [Next]_vars
  PROVE  ListsOwned'
<1>1. PICK owner \in [1 .. Len(lists) -> Cmds] : Owned(owner)
      BY DEF ListsOwned
<1>2. PICK d \in Cmds :
        \A c \in Cmds : \/ messages'[c] = messages[c]
                        \/ c = d /\ messages'[c] = Len(lists) + 1
  <2>1. messages \in [Cmds -> 0 .. Len(lists)]
        BY DEF LockInv, TypeOK
  <2>2. CASE messages' = messages
        BY <2>2, CmdsAssumption
  <2>3. ASSUME NEW d \in Cmds, messages' = [messages EXCEPT ![d] = Len(lists) + 1]
        PROVE  \A c \in Cmds : \/ messages'[c] = messages[c]
                               \/ c = d /\ messages'[c] = Len(lists) + 1
        BY <2>1, <2>3
  <2>4. CASE \E s \in Submitters : SubmitAppend(s)
        BY <2>2, <2>4 DEF SubmitAppend
  <2>5. CASE \E r \in Readers : RecvPop(r)
        BY <2>2, <2>5 DEF RecvPop
  <2>. QED  BY <2>2, <2>3, <2>4, <2>5, ListsMove
<1>a. /\ Len(lists) \in Nat /\ Len(lists') \in Nat
      /\ messages \in [Cmds -> 0 .. Len(lists)]
      /\ messages' \in [Cmds -> 0 .. Len(lists')]
      /\ cmd' \in [Threads -> Cmds] /\ cmd \in [Threads -> Cmds]
      BY LensAreNat, ReferencesAreLists
<1> DEFINE owns == [l \in 1 .. Len(lists') |-> IF l <= Len(lists) THEN owner[l] ELSE d]
<1>3. owns \in [1 .. Len(lists') -> Cmds]
      BY <1>1, <1>a
<1> PICK next \in [1 .. Len(lists') -> Cmds] : next = owns
    BY <1>3
<1>4. /\ \A l \in 1 .. Len(lists') : l \in 1 .. Len(lists) => next[l] = owner[l]
      /\ \A l \in 1 .. Len(lists') : l = Len(lists) + 1 => next[l] = d
      BY <1>a
<1> HIDE DEF owns
<1>5. \A c \in Cmds : messages'[c] # None => next[messages'[c]] = c
  <2> SUFFICES ASSUME NEW c \in Cmds, messages'[c] # None
               PROVE  next[messages'[c]] = c
      OBVIOUS
  <2>1. messages'[c] \in 1 .. Len(lists')
        BY <1>a DEF None
  <2>2. CASE messages'[c] = messages[c]
    <3>1. messages[c] \in 1 .. Len(lists) /\ owner[messages[c]] = c
          BY <1>1, <1>a, <2>1, <2>2 DEF Owned
    <3>. QED  BY <1>4, <2>1, <2>2, <3>1
  <2>3. CASE c = d /\ messages'[c] = Len(lists) + 1
        BY <1>4, <2>1, <2>3
  <2>. QED  BY <1>2, <2>2, <2>3
<1>6. \A t \in Threads : Holding(t)' => next[mbox'[t]] = cmd'[t]
  <2> SUFFICES ASSUME NEW t \in Threads, Holding(t)'
               PROVE  next[mbox'[t]] = cmd'[t]
      OBVIOUS
  <2>1. mbox'[t] \in 1 .. Len(lists')
        BY DEF LockInv, TypeOK, HandlesOK, None
  <2>2. CASE Holding(t) /\ mbox'[t] = mbox[t] /\ cmd'[t] = cmd[t]
    <3>1. mbox[t] \in 1 .. Len(lists) /\ owner[mbox[t]] = cmd[t]
          BY <1>1, <2>2, Handles DEF Owned
    <3>. QED  BY <1>4, <2>1, <2>2, <3>1
  <2>3. CASE mbox'[t] = messages'[cmd'[t]]
    <3>1. mbox'[t] # None
          BY <2>1 DEF None
    <3>. QED  BY <1>5, <1>a, <2>3, <3>1
  <2>. QED  BY <2>2, <2>3, HandlesMove
<1>7. \A l \in 1 .. Len(lists') : \A m \in Elements(lists'[l]) : m.cmd = next[l]
  <2> SUFFICES ASSUME NEW l \in 1 .. Len(lists'), NEW m \in Elements(lists'[l])
               PROVE  m.cmd = next[l]
      OBVIOUS
  <2>1. CASE \A s \in Submitters : ~SubmitAppend(s)
    <3>1. l \in 1 .. Len(lists) /\ m \in Elements(lists[l])
          BY <2>1, OthersAddNothing DEF NothingNew
    <3>. QED  BY <1>1, <1>4, <3>1 DEF Owned
  <2>2. ASSUME NEW s \in Submitters, SubmitAppend(s)
        PROVE  m.cmd = next[l]
    <3> DEFINE n == [cmd |-> cmd[s], src |-> s, seq |-> sent[s]]
    <3>1. /\ Holding(s) /\ Len(lists') = Len(lists)
          /\ Elements(lists'[mbox[s]]) = Elements(lists[mbox[s]]) \cup {n}
          /\ \A k \in 1 .. Len(lists) : k # mbox[s] => lists'[k] = lists[k]
          BY <2>2, AppendAddsOne
    <3>2. next[l] = owner[l]
          BY <1>4, <3>1
    <3>3. CASE m \in Elements(lists[l])
          BY <1>1, <3>1, <3>2, <3>3 DEF Owned
    <3>4. CASE l = mbox[s] /\ m = n
          BY <1>1, <3>1, <3>2, <3>4 DEF Owned, Threads
    <3>. QED  BY <3>1, <3>3, <3>4
  <2>. QED  BY <2>1, <2>2
<1>. QED  BY <1>5, <1>6, <1>7 DEF ListsOwned, Owned

\* Nobody else changes the list that recvall has copied under the lock.
LEMMA StepCopyIsList ==
  ASSUME OneReader, LockInv, CopyIsList, [Next]_vars
  PROVE  CopyIsList'
<1> SUFFICES ASSUME NEW q \in Readers, pc'[q] = "replace"
             PROVE  copied'[q] = lists'[mbox'[q]]
    BY DEF CopyIsList
<1> DEFINE Same == copied'[q] = lists'[mbox'[q]]
<1>a. /\ pc \in [Threads -> SubmitPc \cup ReadPc] /\ q \in Threads
      /\ mbox \in [Threads -> 0 .. Len(lists)] /\ copied \in [Readers -> Seq(Message)]
      /\ lists \in Seq(Seq(Message)) /\ Len(lists) \in Nat
      BY DEF LockInv, TypeOK, Threads
<1>b. \A r \in Readers : r = q
      BY DEF OneReader
<1>c. pc[q] = "replace" => copied[q] = lists[mbox[q]] /\ queuelock = q
      BY <1>a DEF CopyIsList, LockInv, LockExclusive
<1>d. pc[q] = "replace" => mbox[q] \in 1 .. Len(lists)
      BY <1>a, Handles DEF Holding
<1>e. \A s \in Submitters : s # q /\ s \in Threads
      BY ThreadsAssumption DEF Threads
<1>f. copied' = copied /\ mbox'[q] = mbox[q] /\ lists' = lists /\ pc[q] = "replace" => Same
      BY <1>c
<1> HIDE DEF Same
<1>1. ASSUME NEW s \in Submitters, NEW c \in Cmds, SubmitLookup(s, c) PROVE Same
     BY <1>1, <1>a, <1>e, <1>f DEF SubmitLookup, Goto
<1>2. ASSUME NEW s \in Submitters, SubmitCreate(s) PROVE Same
  <2>1. pc[q] = "replace" /\ mbox'[q] = mbox[q] /\ copied' = copied
        BY <1>2, <1>a, <1>e DEF SubmitCreate, Goto
  <2>2. lists'[mbox[q]] = lists[mbox[q]]
        BY <1>2, <1>a, <1>d, <2>1 DEF SubmitCreate
  <2>. QED  BY <1>c, <2>1, <2>2 DEF Same
<1>3. ASSUME NEW s \in Submitters, SubmitMakeEvent(s) PROVE Same
     BY <1>3, <1>a, <1>e, <1>f DEF SubmitMakeEvent, Goto
<1>4. ASSUME NEW s \in Submitters, SubmitAcquire(s) PROVE Same
     BY <1>4, <1>a, <1>e, <1>f DEF SubmitAcquire, Goto
<1>5. ASSUME NEW s \in Submitters, SubmitAppend(s) PROVE Same
  <2>1. pc[q] = "replace" /\ pc[s] = "append"
        BY <1>5, <1>a, <1>e DEF SubmitAppend, Goto
  <2>. QED  BY <1>c, <1>e, <2>1 DEF LockInv, LockExclusive
<1>6. ASSUME NEW s \in Submitters, SubmitNotify(s) PROVE Same
     BY <1>6, <1>a, <1>e, <1>f DEF SubmitNotify, Goto
<1>7. ASSUME NEW r \in Readers, NEW c \in Cmds, RecvLookup(r, c) PROVE Same
     BY <1>7, <1>a, <1>b DEF RecvLookup, Goto
<1>8. ASSUME NEW r \in Readers, RecvCheck(r) PROVE Same
     BY <1>8, <1>a, <1>b DEF RecvCheck, Goto
<1>9. ASSUME NEW r \in Readers, RecvTimeout(r) PROVE Same
     BY <1>9, <1>a, <1>b DEF RecvTimeout, Goto
<1>10. ASSUME NEW r \in Readers, RecvPop(r) PROVE Same
     BY <1>10, <1>a, <1>b DEF RecvPop, Goto
<1>11. ASSUME NEW r \in Readers, NEW c \in Cmds, RecvallLookup(r, c) PROVE Same
     BY <1>11, <1>a, <1>b DEF RecvallLookup, Goto
<1>12. ASSUME NEW r \in Readers, RecvallCopy(r) PROVE Same
     BY <1>12, <1>a, <1>b DEF RecvallCopy, Same
<1>13. ASSUME NEW r \in Readers, RecvallReplace(r) PROVE Same
     BY <1>13, <1>a, <1>b DEF RecvallReplace, Goto
<1>14. CASE UNCHANGED vars
  <2>1. copied' = copied /\ mbox' = mbox /\ lists' = lists /\ pc' = pc
        BY <1>14 DEF vars
  <2>. QED  BY <1>f, <2>1 DEF Same
<1>. QED
     BY <1>1, <1>2, <1>3, <1>4, <1>5, <1>6, <1>7, <1>8, <1>9, <1>10, <1>11,
        <1>12, <1>13, <1>14
        DEF Next, Submit, Read, Same

\* What a reader can still take messages from only becomes newer.
LEMMA OldestMoves ==
  ASSUME LockInv, LockInv', Newest, [Next]_vars, NEW r \in Readers, NEW c \in Cmds
  PROVE  /\ Oldest(r, c) \in Nat /\ Oldest(r, c)' \in Nat
         /\ Oldest(r, c) <= Oldest(r, c)'
<1>a. /\ messages \in [Cmds -> Nat] /\ messages' \in [Cmds -> Nat]
      /\ mbox \in [Threads -> Nat] /\ mbox' \in [Threads -> Nat]
      /\ r \in Threads /\ pc[r] \in ReadPc /\ pc'[r] \in ReadPc
  <2>1. pc[r] \in ReadPc /\ pc'[r] \in ReadPc
        BY DEF LockInv, TypeOK
  <2>. QED  BY <2>1, LensAreNat, ReferencesAreLists DEF Threads
<1>b. messages[c] <= messages'[c]
      BY MailboxesMove
<1>c. Oldest(r, c) <= messages[c]
  <2>1. CASE cmd[r] = c /\ pc[r] \in {"check", "pop", "copy", "replace"} /\ mbox[r] # None
    <3>1. Holding(r)
          BY <2>1, <1>a DEF Holding, LockInv, TypeOK, LockExclusive, ReadPc
    <3>. QED  BY <1>a, <2>1, <3>1 DEF Oldest, Newest
  <2>. QED  BY <1>a, <2>1 DEF Oldest
<1>d. Oldest(r, c) \in Nat /\ Oldest(r, c)' \in Nat
      BY <1>a DEF Oldest
<1>1. CASE Oldest(r, c)' = messages'[c]
      BY <1>a, <1>b, <1>c, <1>d, <1>1
<1>2. CASE /\ cmd'[r] = c /\ pc'[r] \in {"check", "pop", "copy", "replace"}
           /\ mbox'[r] # None /\ Oldest(r, c)' = mbox'[r]
  <2>1. Holding(r)'
        BY <1>2 DEF Holding
  <2>2. CASE Holding(r) /\ mbox'[r] = mbox[r] /\ cmd'[r] = cmd[r]
    <3>1. pc[r] \in {"check", "pop", "copy", "replace"}
          BY <1>a, <2>2 DEF Holding, ReadPc
    <3>2. Oldest(r, c) = mbox[r]
          BY <1>2, <2>2, <3>1 DEF Oldest
    <3>. QED  BY <1>a, <1>2, <2>2, <3>2
  <2>3. CASE mbox'[r] = messages'[cmd'[r]]
        BY <1>a, <1>b, <1>c, <1>d, <1>2, <2>3
  <2>. QED  BY <1>a, <2>1, <2>2, <2>3, HandlesMove
<1>. QED  BY <1>d, <1>1, <1>2 DEF Oldest

\* One reader has what comes before all that it can still get.
LEMMA StepGotFirst ==
  ASSUME OneReader, LockInv, LockInv', Newest, ListsOwned, ListsOrdered, GotFirst,
         CopyIsList, [Next]_vars
  PROVE  GotFirst'
<1> SUFFICES ASSUME NEW r \in Readers
             PROVE  /\ Ordered(got'[r])
                    /\ \A m \in Elements(got'[r]) : Older(m)'
                    /\ \A m \in Elements(got'[r]) : \A l \in 1 .. Len(lists') :
                         l >= Oldest(r, m.cmd)' =>
                           \A n \in Elements(lists'[l]) : Before(m, n)
    BY DEF GotFirst
<1>a. /\ got[r] \in Seq(Message) /\ Len(lists) \in Nat /\ Len(lists') \in Nat
      /\ r \in Threads
  <2>1. got[r] \in Seq(Message) /\ r \in Threads
        BY DEF LockInv, TypeOK, Threads
  <2>. QED  BY <2>1, LensAreNat
<1>b. \A m \in Elements(got[r]) : m \in Message /\ m.cmd \in Cmds /\ m.src \in Submitters
  <2>1. \A m \in Elements(got[r]) : m \in Message
        BY <1>a DEF Elements
  <2>. QED  BY <2>1 DEF Message
<1>c. /\ Ordered(got[r])
      /\ \A m \in Elements(got[r]) : Older(m)'
      BY <1>b, OlderMoves DEF GotFirst
<1>d. ASSUME \A s \in Submitters : ~SubmitAppend(s),
             NEW m \in Elements(got[r]), NEW l \in 1 .. Len(lists'),
             l >= Oldest(r, m.cmd)', NEW n \in Elements(lists'[l])
      PROVE  Before(m, n)
  <2>1. l \in 1 .. Len(lists) /\ n \in Elements(lists[l])
        BY <1>d, OthersAddNothing DEF NothingNew
  <2>2. l >= Oldest(r, m.cmd)
        BY <1>b, <1>d, OldestMoves
  <2>. QED  BY <2>1, <2>2 DEF GotFirst
<1>e. ASSUME NEW t \in Threads, Holding(t)
      PROVE  \A m \in Elements(lists[mbox[t]]) : m.cmd = cmd[t]
  <2>1. PICK owner \in [1 .. Len(lists) -> Cmds] : Owned(owner)
        BY DEF ListsOwned
  <2>. QED  BY <1>e, <2>1, Handles DEF Owned
<1>1. CASE got'[r] = got[r] /\ \A s \in Submitters : ~SubmitAppend(s)
      BY <1>c, <1>d, <1>1
<1>2. ASSUME NEW s \in Submitters, SubmitAppend(s)
      PROVE  /\ Ordered(got'[r])
             /\ \A m \in Elements(got'[r]) : Older(m)'
             /\ \A m \in Elements(got'[r]) : \A l \in 1 .. Len(lists') :
                  l >= Oldest(r, m.cmd)' =>
                    \A n \in Elements(lists'[l]) : Before(m, n)
  <2>1. got'[r] = got[r]
        BY <1>2 DEF SubmitAppend
  <2> SUFFICES ASSUME NEW m \in Elements(got[r]), NEW l \in 1 .. Len(lists'),
                      l >= Oldest(r, m.cmd)', NEW n \in Elements(lists'[l])
               PROVE  Before(m, n)
      BY <1>c, <2>1
  <2> PICK f \in Message : f = [cmd |-> cmd[s], src |-> s, seq |-> sent[s]]
      BY <1>2, AppendAddsOne
  <2>2. /\ pc[s] = "append" /\ Len(lists') = Len(lists)
        /\ Elements(lists'[mbox[s]]) = Elements(lists[mbox[s]]) \cup {f}
        /\ \A k \in 1 .. Len(lists) : k # mbox[s] => lists'[k] = lists[k]
        BY <1>2, AppendAddsOne
  <2>3. CASE n \in Elements(lists[l])
    <3>1. l >= Oldest(r, m.cmd)
          BY <1>a, <1>b, OldestMoves
    <3>. QED  BY <2>2, <2>3, <3>1 DEF GotFirst
  <2>4. CASE n = f
    <3>1. Older(m)
          BY DEF GotFirst
    <3>2. m.src = s /\ cmd[s] = m.cmd => m.seq < sent[s]
          BY <2>2, <3>1 DEF Older, Filing
    <3>. QED  BY <2>4, <3>2 DEF Before
  <2>. QED  BY <2>2, <2>3, <2>4
<1>3. ASSUME RecvPop(r), lists[mbox[r]] # <<>>
      PROVE  /\ Ordered(got'[r])
             /\ \A m \in Elements(got'[r]) : Older(m)'
             /\ \A m \in Elements(got'[r]) : \A l \in 1 .. Len(lists') :
                  l >= Oldest(r, m.cmd)' =>
                    \A n \in Elements(lists'[l]) : Before(m, n)
  <2>0. Holding(r) /\ pc[r] = "pop"
        BY <1>3 DEF RecvPop, Goto, Holding
  <2>1. mbox[r] \in 1 .. Len(lists) /\ lists[mbox[r]] \in Seq(Message)
        BY <1>a, <2>0, Handles
  <2> PICK k \in 1 .. Len(lists) : k = mbox[r]
      BY <2>1
  <2>2. /\ got' = [got EXCEPT ![r] = Append(got[r], Head(lists[k]))]
        /\ lists' = [lists EXCEPT ![k] = Tail(lists[k])]
        BY <1>3 DEF RecvPop
  <2>3. Head(lists[k]) \in Message /\ Head(lists[k]) \in Elements(lists[k])
        BY <1>3, <2>1, ElementsTail
  <2> PICK h \in Message : h = Head(lists[k])
      BY <2>3
  <2>4. got'[r] = Append(got[r], h)
        BY <2>2 DEF LockInv, TypeOK
  <2>5. h.cmd = cmd[r]
        BY <1>a, <1>e, <2>0, <2>3
  <2>6. \A m \in Elements(got[r]) : Before(m, h)
    <3> SUFFICES ASSUME NEW m \in Elements(got[r]), m.cmd = h.cmd
                 PROVE  Before(m, h)
        BY DEF Before
    <3>1. Oldest(r, m.cmd) = k
          BY <2>0, <2>1, <2>5 DEF Oldest, None
    <3>. QED  BY <2>3, <3>1 DEF GotFirst
  <2>7. Elements(got'[r]) = Elements(got[r]) \cup {h}
        BY <1>a, <2>4, ElementsAppend
  <2>8. Ordered(got'[r])
        BY <1>a, <1>c, <2>4, <2>6, OrderedAppend
  <2>9. Older(h)'
        BY <2>3, OlderMoves DEF ListsOrdered
  <2>10. \A s \in Submitters : ~SubmitAppend(s)
        BY <1>a, <2>0, <1>3, ThreadsAssumption DEF SubmitAppend, RecvPop, Goto, LockInv, LockExclusive, Threads
  <2>11. ASSUME NEW l \in 1 .. Len(lists'), l >= Oldest(r, h.cmd)',
                NEW n \in Elements(lists'[l])
         PROVE  Before(h, n)
    <3>1. Oldest(r, h.cmd) = k
          BY <2>0, <2>1, <2>5 DEF Oldest, None
    <3>2. l >= k
      <4>1. Oldest(r, cmd[r]) = k /\ cmd[r] \in Cmds
            BY <1>a, <2>5, <3>1 DEF LockInv, TypeOK
      <4>2. Oldest(r, h.cmd)' \in Nat /\ k <= Oldest(r, h.cmd)'
            BY <2>5, <3>1, <4>1, OldestMoves
      <4>3. \A a, b, c \in Nat : a <= b /\ b <= c => a <= c
            OBVIOUS
      <4>. QED  BY <1>a, <2>11, <4>2, <4>3
    <3>3. l \in 1 .. Len(lists) /\ n \in Elements(lists[l])
          BY <2>10, OthersAddNothing DEF NothingNew
    <3>4. CASE l = k
      <4>1. lists'[k] = Tail(lists[k])
            BY <2>2 DEF LockInv, TypeOK
      <4>2. Ordered(lists[k])
            BY DEF ListsOrdered
      <4>. QED  BY <1>3, <2>1, <2>11, <3>4, <4>1, <4>2, OrderedTail
    <3>5. CASE l > k
          BY <2>3, <3>3, <3>5 DEF ListsOrdered
    <3>. QED  BY <3>2, <3>4, <3>5
  <2>. QED  BY <1>c, <1>d, <2>7, <2>8, <2>9, <2>10, <2>11
<1>4. ASSUME RecvallReplace(r)
      PROVE  /\ Ordered(got'[r])
             /\ \A m \in Elements(got'[r]) : Older(m)'
             /\ \A m \in Elements(got'[r]) : \A l \in 1 .. Len(lists') :
                  l >= Oldest(r, m.cmd)' =>
                    \A n \in Elements(lists'[l]) : Before(m, n)
  <2>0. Holding(r) /\ pc[r] = "replace"
        BY <1>4 DEF RecvallReplace, Goto, Holding
  <2>1. mbox[r] \in 1 .. Len(lists) /\ lists[mbox[r]] \in Seq(Message)
        BY <1>a, <2>0, Handles
  <2>2. got'[r] = got[r] \o lists[mbox[r]]
        BY <1>4, <2>0 DEF RecvallReplace, CopyIsList, LockInv, TypeOK
  <2>3. \A m \in Elements(lists[mbox[r]]) : m.cmd = cmd[r]
        BY <1>a, <1>e, <2>0
  <2>4. Elements(got'[r]) \subseteq Elements(got[r]) \cup Elements(lists[mbox[r]])
        BY <1>a, <2>1, <2>2, ElementsConcat
  <2>5. \A m \in Elements(got[r]), n \in Elements(lists[mbox[r]]) : Before(m, n)
    <3> SUFFICES ASSUME NEW m \in Elements(got[r]),
                        NEW n \in Elements(lists[mbox[r]]), m.cmd = n.cmd
                 PROVE  Before(m, n)
        BY DEF Before
    <3>1. Oldest(r, m.cmd) = mbox[r]
          BY <2>0, <2>1, <2>3 DEF Oldest, None
    <3>. QED  BY <2>1, <3>1 DEF GotFirst
  <2>6. Ordered(got'[r])
    <3>1. Ordered(lists[mbox[r]])
          BY <2>1 DEF ListsOrdered
    <3>. QED  BY <1>a, <1>c, <2>1, <2>2, <2>5, <3>1, OrderedConcat
  <2>7. \A m \in Elements(lists[mbox[r]]) : Older(m)'
        BY <2>1, ListsHoldMessages, OlderMoves DEF ListsOrdered
  <2>8. \A s \in Submitters : ~SubmitAppend(s)
        BY <1>a, <2>0, ThreadsAssumption DEF SubmitAppend, Goto, LockInv, LockExclusive, Threads
  <2>9. ASSUME NEW m \in Elements(lists[mbox[r]]), NEW l \in 1 .. Len(lists'),
               l >= Oldest(r, m.cmd)', NEW n \in Elements(lists'[l])
        PROVE  Before(m, n)
    <3>1. l <= Len(lists)
      <4>1. l \in 1 .. Len(lists) /\ n \in Elements(lists[l])
            BY <2>8, OthersAddNothing DEF NothingNew
      <4>. QED  BY <1>a, <4>1
    <3>2. messages'[cmd[r]] = Len(lists) + 1
          BY <1>a, <1>4 DEF RecvallReplace, LockInv, TypeOK
    <3>3. pc'[r] = "idle"
          BY <1>a, <1>4 DEF RecvallReplace, Goto, LockInv, TypeOK
    <3>4. Oldest(r, m.cmd)' = Len(lists) + 1
          BY <2>3, <3>2, <3>3 DEF Oldest
    <3>. QED  BY <1>a, <2>9, <3>1, <3>4
  <2>. QED  BY <1>c, <1>d, <2>4, <2>6, <2>7, <2>8, <2>9
<1>5. \/ got'[r] = got[r]
      \/ RecvPop(r) /\ lists[mbox[r]] # <<>>
      \/ RecvallReplace(r)
      BY DEF Next, Submit, Read, OneReader, vars, SubmitLookup, SubmitCreate,
         SubmitMakeEvent, SubmitAcquire, SubmitAppend, SubmitNotify, RecvLookup,
         RecvCheck, RecvTimeout, RecvPop, RecvallLookup, RecvallCopy
<1>. QED  BY <1>1, <1>2, <1>3, <1>4, <1>5

LEMMA StepOrder ==
  ASSUME OneReader, LockInv', OrderInv, [Next]_vars
  PROVE  OrderInv'
<1>1. Newest'
      BY StepNewest DEF OrderInv
<1>2. ListsOrdered' /\ ListsOwned'
      BY StepListsOrdered, StepListsOwned DEF OrderInv
<1>3. AppendsToNewest'
      BY <1>1, StepAppendsToNewest DEF OrderInv
<1>4. GotFirst' /\ CopyIsList'
      BY StepGotFirst, StepCopyIsList DEF OrderInv
<1>. QED  BY <1>1, <1>2, <1>3, <1>4 DEF OrderInv

LEMMA InitOrder == Init => OrderInv
<1> SUFFICES ASSUME Init PROVE OrderInv
    OBVIOUS
<1>1. LockInv
      BY InitLock
<1>2. lists = <<>> /\ 1 .. Len(lists) = {}
      BY DEF Init
<1>3. \A t \in Threads : ~Holding(t) /\ pc[t] = "idle"
      BY DEF Init, Holding
<1>4. \A r \in Readers : got[r] = <<>>
      BY DEF Init
<1>5. Newest /\ ListsOrdered
      BY <1>2, <1>3 DEF Newest, ListsOrdered
<1>6. AppendsToNewest /\ CopyIsList
      BY <1>2, <1>3 DEF AppendsToNewest, CopyIsList, Threads
<1>7. GotFirst
      BY <1>4, OrderedEmpty, ElementsEmpty DEF GotFirst
<1>8. ListsOwned
  <2>1. [l \in 1 .. Len(lists) |-> CHOOSE c \in Cmds : TRUE] \in [1 .. Len(lists) -> Cmds]
        BY CmdsAssumption
  <2>2. \A c \in Cmds : messages[c] = None
        BY DEF Init
  <2>. QED  BY <1>2, <1>3, <2>1, <2>2 DEF ListsOwned, Owned
<1>. QED  BY <1>1, <1>5, <1>6, <1>7, <1>8 DEF OrderInv

\* One reader, by whatever mix of recv and recvall, is returned the messages of
\* each submitter for a mailbox in the order in which they were filed and none of
\* them twice, for any number of submitters, mailboxes and messages.
THEOREM OneReaderInOrder == ASSUME OneReader PROVE Spec => []DeliveredInOrder
<1>1. LockInv' /\ OrderInv /\ [Next]_vars => OrderInv'
      BY OneReader, StepOrder
<1>2. OrderInv => DeliveredInOrder
      BY DEF OrderInv, GotFirst, DeliveredInOrder
<1>. QED
     BY <1>1, <1>2, InitOrder, LockInvariant, PTL DEF Spec

\* One reader is returned no message twice: neither by two calls of recv, nor by
\* a recv before a recvall that copies the same list.
THEOREM OneReaderOnce == ASSUME OneReader PROVE Spec => []DeliveredOnce
<1>1. LockInv /\ DeliveredInOrder => DeliveredOnce
  <2> SUFFICES ASSUME LockInv, DeliveredInOrder
               PROVE  DeliveredOnce
      OBVIOUS
  <2>1. ASSUME NEW r \in Readers,
               NEW i \in 1 .. Len(got[r]), NEW j \in 1 .. Len(got[r]), i < j
        PROVE  got[r][i] # got[r][j]
    <3>1. got[r] \in Seq(Message)
          BY DEF LockInv, TypeOK
    <3>2. got[r][i] \in Message /\ Before(got[r][i], got[r][j])
          BY <2>1, <3>1 DEF DeliveredInOrder, Ordered
    <3>3. got[r][i].seq \in Nat
          BY <3>2 DEF Message
    <3>. QED  BY <3>2, <3>3 DEF Before
  <2>2. ASSUME NEW r \in Readers,
               NEW i \in 1 .. Len(got[r]), NEW j \in 1 .. Len(got[r]), i # j
        PROVE  got[r][i] # got[r][j]
    <3>1. i < j \/ j < i
          BY <2>2
    <3>. QED  BY <2>1, <3>1
  <2>3. \A r, q \in Readers : r = q
        BY OneReader DEF OneReader
  <2>. QED  BY <2>2, <2>3 DEF DeliveredOnce
<1>. QED
     BY <1>1, OneReaderInOrder, LockInvariant, OneReader, PTL

-----------------------------------------------------------------------------
(***************************************************************************)
(* The mailboxes of CanInterface implement MessageBox: look-ups outside    *)
(* the lock, checks, appends, pops, copies and replacements behave as if   *)
(* each call were one step on a queue.  That holds with the one receive    *)
(* thread that the interface starts, and with one thread that reads or any *)
(* number of them that call recv alone.                                    *)
(*                                                                         *)
(* What makes it hold is that the list a reader has looked up is still the *)
(* mailbox when it uses it, and that what a submitter appends to a list    *)
(* that has been replaced was never put.  The same facts bound what is     *)
(* lost: at most one message for each recvall.                             *)
(***************************************************************************)

\* The receive thread, which the interface starts once.
OneSubmitter == \E s : Submitters = {s}

\* No reader replaces a list that another has looked up.
Unrivalled == OneReader \/ MaxRecvall = 0

-----------------------------------------------------------------------------
(***************************************************************************)
(* The parts of the invariant.                                             *)
(***************************************************************************)

\* The list a reader has looked up is the mailbox.
Current == \A r \in Readers : Holding(r) => mbox[r] = messages[cmd[r]]

\* A mailbox that is about to be made does not exist.
MakesMissing == \A s \in Submitters : pc[s] = "create" => messages[cmd[s]] = None

\* The messages of a submitter are numbered from 1 to MaxMsgs.
Numbered == \A s \in Submitters : sent[s] <= MaxMsgs /\ (Filing(s) => sent[s] >= 1)

\* What a reader has was filed before what its submitter files now.
GotOlder == \A r \in Readers : \A m \in Elements(got[r]) : Older(m)

\* Without recvall no list is copied.
NoRecvall ==
  MaxRecvall = 0 => /\ recvalls = 0
                    /\ \A r \in Readers : pc[r] \notin {"copy", "replace"}

\* The copy is returned when the list is replaced.
CopyReturned == \A r \in Readers : pc[r] # "replace" => copied[r] = <<>>

ListsInv == LockInv /\ ListsOwned /\ Newest /\ ListsOrdered /\ AppendsToNewest

BoxInv ==
  /\ ListsInv /\ GotOlder /\ Numbered /\ NoRecvall
  /\ Current /\ MakesMissing /\ CopyIsList /\ CopyReturned

\* A submitter that will append to a list which is the mailbox no more.
Stale(s) == Holding(s) /\ mbox[s] # messages[cmd[s]]

\* Each recvall loses at most one message, which may still have to be appended.
LossInv ==
  /\ IsFiniteSet(Lost)
  /\ Cardinality(Lost) + (IF \E s \in Submitters : Stale(s) THEN 1 ELSE 0) <= recvalls

\* What a reader has is in no list and with no other reader.
GotGone ==
  \A r \in Readers : \A l \in 1 .. Len(lists) : Elements(got[r]) \cap Elements(lists[l]) = {}

OnceInv == ListsInv /\ GotOlder /\ NoRecvall /\ GotGone /\ DeliveredOnce

-----------------------------------------------------------------------------
(***************************************************************************)
(* Who changes what.                                                       *)
(***************************************************************************)

\* The local state of a submitter changes in its own steps alone.
LEMMA SubmitterMoves ==
  ASSUME LockInv, [Next]_vars, NEW s \in Submitters
  PROVE  \/ Submit(s)
         \/ /\ pc'[s] = pc[s] /\ cmd'[s] = cmd[s]
            /\ mbox'[s] = mbox[s] /\ sent'[s] = sent[s]
<1> DEFINE Rests == /\ pc'[s] = pc[s] /\ cmd'[s] = cmd[s]
                    /\ mbox'[s] = mbox[s] /\ sent'[s] = sent[s]
<1>a. /\ pc \in [Threads -> SubmitPc \cup ReadPc] /\ cmd \in [Threads -> Cmds]
      /\ mbox \in [Threads -> 0 .. Len(lists)] /\ sent \in [Submitters -> Nat]
      /\ s \in Threads /\ s \notin Readers
      BY ThreadsAssumption DEF LockInv, TypeOK, Threads
<1>1. ASSUME NEW t \in Submitters, t # s, Submit(t) PROVE Rests
      BY <1>a, <1>1 DEF Submit, SubmitLookup, SubmitCreate, SubmitMakeEvent,
         SubmitAcquire, SubmitAppend, SubmitNotify, Goto
<1>2. ASSUME NEW r \in Readers, Read(r) PROVE Rests
  <2>1. r # s
        BY <1>a
  <2>. QED
        BY <1>a, <1>2, <2>1 DEF Read, RecvLookup, RecvCheck, RecvTimeout, RecvPop,
           RecvallLookup, RecvallCopy, RecvallReplace, Goto
<1>3. CASE UNCHANGED vars
      BY <1>3 DEF vars
<1>. QED  BY <1>1, <1>2, <1>3 DEF Next

\* The local state of a reader changes in its own steps alone.
LEMMA ReaderMoves ==
  ASSUME LockInv, [Next]_vars, NEW r \in Readers
  PROVE  \/ Read(r)
         \/ /\ pc'[r] = pc[r] /\ cmd'[r] = cmd[r] /\ mbox'[r] = mbox[r]
            /\ copied'[r] = copied[r] /\ got'[r] = got[r]
<1> DEFINE Rests == /\ pc'[r] = pc[r] /\ cmd'[r] = cmd[r] /\ mbox'[r] = mbox[r]
                    /\ copied'[r] = copied[r] /\ got'[r] = got[r]
<1>a. /\ pc \in [Threads -> SubmitPc \cup ReadPc] /\ cmd \in [Threads -> Cmds]
      /\ mbox \in [Threads -> 0 .. Len(lists)]
      /\ copied \in [Readers -> Seq(Message)] /\ got \in [Readers -> Seq(Message)]
      /\ r \in Threads /\ r \notin Submitters
      BY ThreadsAssumption DEF LockInv, TypeOK, Threads
<1>1. ASSUME NEW s \in Submitters, Submit(s) PROVE Rests
  <2>1. s # r
        BY <1>a
  <2>. QED
        BY <1>a, <1>1, <2>1 DEF Submit, SubmitLookup, SubmitCreate, SubmitMakeEvent,
           SubmitAcquire, SubmitAppend, SubmitNotify, Goto
<1>2. ASSUME NEW q \in Readers, q # r, Read(q) PROVE Rests
      BY <1>a, <1>2 DEF Read, RecvLookup, RecvCheck, RecvTimeout, RecvPop,
         RecvallLookup, RecvallCopy, RecvallReplace, Goto
<1>3. CASE UNCHANGED vars
      BY <1>3 DEF vars
<1>. QED  BY <1>1, <1>2, <1>3 DEF Next

\* Two steps alone change which list a mailbox is.
LEMMA MailboxesChange ==
  ASSUME [Next]_vars
  PROVE  \/ messages' = messages
         \/ \E s \in Submitters : SubmitCreate(s)
         \/ \E r \in Readers : RecvallReplace(r)
<1>1. ASSUME NEW s \in Submitters, Submit(s)
      PROVE  messages' = messages \/ SubmitCreate(s)
      BY <1>1 DEF Submit, SubmitLookup, SubmitMakeEvent, SubmitAcquire,
         SubmitAppend, SubmitNotify
<1>2. ASSUME NEW r \in Readers, Read(r)
      PROVE  messages' = messages \/ RecvallReplace(r)
      BY <1>2 DEF Read, RecvLookup, RecvCheck, RecvTimeout, RecvPop,
         RecvallLookup, RecvallCopy
<1>. QED  BY <1>1, <1>2 DEF Next, vars

\* No list is two mailboxes, and no thread uses a list for a message of another type.
LEMMA OneMailbox ==
  ASSUME LockInv, ListsOwned
  PROVE  \A t \in Threads, c \in Cmds :
           Holding(t) /\ messages[c] = mbox[t] => c = cmd[t]
<1>1. PICK owner \in [1 .. Len(lists) -> Cmds] : Owned(owner)
      BY DEF ListsOwned
<1> SUFFICES ASSUME NEW t \in Threads, NEW c \in Cmds, Holding(t), messages[c] = mbox[t]
             PROVE  c = cmd[t]
    OBVIOUS
<1>2. mbox[t] # None
      BY DEF LockInv, HandlesOK
<1>. QED  BY <1>1, <1>2 DEF Owned

-----------------------------------------------------------------------------
(***************************************************************************)
(* Every step keeps the parts of the invariant.                            *)
(***************************************************************************)

LEMMA StepLists ==
  ASSUME ListsInv, LockInv', [Next]_vars
  PROVE  ListsInv'
<1>1. Newest'
      BY StepNewest DEF ListsInv
<1>2. ListsOrdered' /\ ListsOwned'
      BY StepListsOrdered, StepListsOwned DEF ListsInv
<1>3. AppendsToNewest'
      BY <1>1, StepAppendsToNewest DEF ListsInv
<1>. QED  BY <1>1, <1>2, <1>3 DEF ListsInv

LEMMA StepNumbered ==
  ASSUME LockInv, Numbered, [Next]_vars
  PROVE  Numbered'
<1> SUFFICES ASSUME NEW s \in Submitters
             PROVE  sent'[s] <= MaxMsgs /\ (Filing(s)' => sent'[s] >= 1)
    BY DEF Numbered
<1>a. /\ sent \in [Submitters -> Nat] /\ pc \in [Threads -> SubmitPc \cup ReadPc]
      /\ s \in Threads /\ MaxMsgs \in Nat
      BY BoundsAssumption DEF LockInv, TypeOK, Threads
<1>b. sent[s] <= MaxMsgs /\ (Filing(s) => sent[s] >= 1)
      BY DEF Numbered
<1>1. ASSUME NEW c \in Cmds, SubmitLookup(s, c)
      PROVE  sent'[s] <= MaxMsgs /\ (Filing(s)' => sent'[s] >= 1)
  <2>1. sent[s] < MaxMsgs /\ sent'[s] = sent[s] + 1
        BY <1>a, <1>1 DEF SubmitLookup
  <2>. QED  BY <1>a, <2>1
<1>2. ASSUME Submit(s), \A c \in Cmds : ~SubmitLookup(s, c)
      PROVE  sent'[s] = sent[s] /\ (Filing(s)' => Filing(s))
      BY <1>a, <1>2 DEF Submit, SubmitCreate, SubmitMakeEvent, SubmitAcquire,
         SubmitAppend, SubmitNotify, Goto, Filing
<1>3. CASE pc'[s] = pc[s] /\ sent'[s] = sent[s]
      BY <1>b, <1>3 DEF Filing
<1>. QED  BY <1>b, <1>1, <1>2, <1>3, SubmitterMoves

LEMMA StepNoRecvall ==
  ASSUME LockInv, NoRecvall, [Next]_vars
  PROVE  NoRecvall'
<1> SUFFICES ASSUME MaxRecvall = 0
             PROVE  recvalls' = 0 /\ \A r \in Readers : pc'[r] \notin {"copy", "replace"}
    BY DEF NoRecvall
<1>a. /\ recvalls = 0 /\ pc \in [Threads -> SubmitPc \cup ReadPc]
      /\ \A r \in Readers : pc[r] \notin {"copy", "replace"} /\ r \in Threads
      BY DEF NoRecvall, LockInv, TypeOK, Threads
<1>1. ASSUME NEW r \in Readers, Read(r)
      PROVE  recvalls' = 0 /\ pc'[r] \notin {"copy", "replace"}
  <2>0. ~RecvallCopy(r) /\ ~RecvallReplace(r)
        BY <1>a DEF RecvallCopy, RecvallReplace, Goto
  <2>1. \A c \in Cmds : ~RecvallLookup(r, c)
        BY <1>a DEF RecvallLookup
  <2>2. \A c \in Cmds : RecvLookup(r, c) => recvalls' = 0 /\ pc'[r] \notin {"copy", "replace"}
        BY <1>a DEF RecvLookup
  <2>3. \/ RecvCheck(r) \/ RecvTimeout(r) \/ RecvPop(r)
        \/ \E c \in Cmds : RecvLookup(r, c)
        BY <1>1, <2>0, <2>1 DEF Read
  <2>4. ASSUME RecvCheck(r) \/ RecvTimeout(r) \/ RecvPop(r)
        PROVE  recvalls' = recvalls /\ pc'[r] \in {"pop", "recv", "idle"}
        BY <1>a, <2>4 DEF RecvCheck, RecvTimeout, RecvPop, Goto
  <2>. QED  BY <1>a, <2>2, <2>3, <2>4
<1>2. recvalls' = 0
  <2>1. ASSUME NEW s \in Submitters, Submit(s) PROVE recvalls' = recvalls
        BY <2>1 DEF Submit, SubmitLookup, SubmitCreate, SubmitMakeEvent,
           SubmitAcquire, SubmitAppend, SubmitNotify
  <2>. QED  BY <1>a, <1>1, <2>1 DEF Next, vars
<1>. QED  BY <1>a, <1>1, <1>2, ReaderMoves

LEMMA StepGotOlder ==
  ASSUME LockInv, ListsOrdered, GotOlder, CopyIsList, [Next]_vars
  PROVE  GotOlder'
<1> SUFFICES ASSUME NEW r \in Readers, NEW m \in Elements(got'[r])
             PROVE  Older(m)'
    BY DEF GotOlder
<1>a. /\ got \in [Readers -> Seq(Message)] /\ copied \in [Readers -> Seq(Message)]
      /\ r \in Threads
      BY DEF LockInv, TypeOK, Threads
<1>1. ASSUME m \in Elements(got[r]) PROVE Older(m)'
  <2>1. m \in Message
        BY <1>a, <1>1 DEF Elements
  <2>. QED  BY <1>1, <2>1, OlderMoves DEF GotOlder
<1>2. ASSUME NEW l \in 1 .. Len(lists), m \in Elements(lists[l]) PROVE Older(m)'
      BY <1>2, ListsHoldMessages, OlderMoves DEF ListsOrdered
<1>3. ASSUME RecvPop(r), lists[mbox[r]] # <<>> PROVE Older(m)'
  <2>1. mbox[r] \in 1 .. Len(lists) /\ lists[mbox[r]] \in Seq(Message)
        BY <1>a, <1>3, Handles DEF RecvPop, Goto, Holding
  <2>2. Head(lists[mbox[r]]) \in Message /\ Head(lists[mbox[r]]) \in Elements(lists[mbox[r]])
        BY <1>3, <2>1, ElementsTail
  <2>3. got'[r] = Append(got[r], Head(lists[mbox[r]]))
        BY <1>a, <1>3 DEF RecvPop
  <2>4. Elements(got'[r]) = Elements(got[r]) \cup {Head(lists[mbox[r]])}
        BY <1>a, <2>2, <2>3, ElementsAppend
  <2>. QED  BY <1>1, <1>2, <2>1, <2>2, <2>4
<1>4. ASSUME RecvallReplace(r) PROVE Older(m)'
  <2>1. Holding(r) /\ pc[r] = "replace"
        BY <1>4 DEF RecvallReplace, Goto, Holding
  <2>2. mbox[r] \in 1 .. Len(lists)
        BY <1>a, <2>1, Handles
  <2>3. got'[r] = got[r] \o copied[r] /\ copied[r] = lists[mbox[r]]
        BY <1>a, <1>4, <2>1 DEF RecvallReplace, CopyIsList
  <2>4. m \in Elements(got[r]) \cup Elements(copied[r])
        BY <1>a, <2>3, ElementsConcat
  <2>. QED  BY <1>1, <1>2, <2>2, <2>3, <2>4
<1>5. got'[r] = got[r] \/ (RecvPop(r) /\ lists[mbox[r]] # <<>>) \/ RecvallReplace(r)
      BY ReaderMoves DEF Read, RecvLookup, RecvCheck, RecvTimeout, RecvPop,
         RecvallLookup, RecvallCopy
<1>. QED  BY <1>1, <1>3, <1>4, <1>5

LEMMA StepCurrent ==
  ASSUME Unrivalled, LockInv, NoRecvall, Current, MakesMissing, [Next]_vars
  PROVE  Current'
<1> SUFFICES ASSUME NEW r \in Readers, Holding(r)'
             PROVE  mbox'[r] = messages'[cmd'[r]]
    BY DEF Current
<1>a. /\ messages \in [Cmds -> 0 .. Len(lists)] /\ cmd \in [Threads -> Cmds]
      /\ pc \in [Threads -> SubmitPc \cup ReadPc] /\ r \in Threads
      /\ Submitters \subseteq Threads /\ Readers \subseteq Threads
      BY DEF LockInv, TypeOK, Threads
<1>1. CASE Holding(r) /\ mbox'[r] = mbox[r] /\ cmd'[r] = cmd[r]
  <2>1. mbox[r] = messages[cmd[r]] /\ mbox[r] # None
        BY <1>a, <1>1 DEF Current, LockInv, HandlesOK
  <2>2. ASSUME NEW s \in Submitters, SubmitCreate(s)
        PROVE  messages'[cmd[r]] = messages[cmd[r]]
    <3>1. messages[cmd[s]] = None
          BY <2>2 DEF MakesMissing, SubmitCreate, Goto
    <3>2. cmd[s] # cmd[r]
          BY <2>1, <3>1
    <3>. QED  BY <1>a, <2>2, <3>2 DEF SubmitCreate
  <2>3. ASSUME NEW q \in Readers, RecvallReplace(q)
        PROVE  FALSE
    <3>1. pc[q] = "replace" /\ pc'[q] = "idle"
          BY <1>a, <2>3 DEF RecvallReplace, Goto
    <3>2. q # r
          BY <3>1 DEF Holding
    <3>. QED  BY <3>1, <3>2 DEF Unrivalled, OneReader, NoRecvall
  <2>. QED  BY <1>1, <2>1, <2>2, <2>3, MailboxesChange
<1>. QED  BY <1>a, <1>1, HandlesMove

LEMMA StepMakesMissing ==
  ASSUME OneSubmitter, LockInv, Current, MakesMissing, [Next]_vars
  PROVE  MakesMissing'
<1> SUFFICES ASSUME NEW s \in Submitters, pc'[s] = "create"
             PROVE  messages'[cmd'[s]] = None
    BY DEF MakesMissing
<1>a. /\ messages \in [Cmds -> 0 .. Len(lists)] /\ cmd \in [Threads -> Cmds]
      /\ pc \in [Threads -> SubmitPc \cup ReadPc] /\ s \in Threads
      /\ Readers \subseteq Threads
      BY DEF LockInv, TypeOK, Threads
<1>1. ASSUME NEW c \in Cmds, SubmitLookup(s, c) PROVE messages'[cmd'[s]] = None
      BY <1>a, <1>1 DEF SubmitLookup, Goto
<1>2. ASSUME Submit(s), \A c \in Cmds : ~SubmitLookup(s, c) PROVE FALSE
      BY <1>a, <1>2 DEF Submit, SubmitCreate, SubmitMakeEvent, SubmitAcquire,
         SubmitAppend, SubmitNotify, Goto
<1>3. CASE pc'[s] = pc[s] /\ cmd'[s] = cmd[s]
  <2>1. messages[cmd[s]] = None /\ pc[s] = "create"
        BY <1>3 DEF MakesMissing
  <2>2. ASSUME NEW t \in Submitters, SubmitCreate(t) PROVE FALSE
    <3>1. t = s
          BY DEF OneSubmitter
    <3>. QED  BY <1>3, <1>a, <2>2, <3>1 DEF SubmitCreate, Goto
  <2>3. ASSUME NEW r \in Readers, RecvallReplace(r)
        PROVE  messages'[cmd[s]] = messages[cmd[s]]
    <3>1. Holding(r)
          BY <2>3 DEF RecvallReplace, Goto, Holding
    <3>2. messages[cmd[r]] # None
          BY <1>a, <3>1 DEF Current, LockInv, HandlesOK
    <3>3. cmd[r] # cmd[s]
          BY <2>1, <3>2
    <3>. QED  BY <1>a, <2>3, <3>3 DEF RecvallReplace
  <2>. QED  BY <1>3, <2>1, <2>2, <2>3, MailboxesChange
<1>. QED  BY <1>1, <1>2, <1>3, SubmitterMoves

LEMMA StepCopyReturned ==
  ASSUME LockInv, CopyReturned, [Next]_vars
  PROVE  CopyReturned'
<1> SUFFICES ASSUME NEW r \in Readers, pc'[r] # "replace"
             PROVE  copied'[r] = <<>>
    BY DEF CopyReturned
<1>a. /\ copied \in [Readers -> Seq(Message)] /\ r \in Threads
      /\ pc \in [Threads -> SubmitPc \cup ReadPc]
      BY DEF LockInv, TypeOK, Threads
<1>1. CASE RecvallCopy(r)
      BY <1>a, <1>1 DEF RecvallCopy, Goto
<1>2. CASE RecvallReplace(r)
      BY <1>a, <1>2 DEF RecvallReplace
<1>3. CASE copied'[r] = copied[r] /\ pc[r] # "replace"
      BY <1>3 DEF CopyReturned
<1>4. ASSUME Read(r), ~RecvallCopy(r), ~RecvallReplace(r)
      PROVE  copied'[r] = copied[r] /\ pc[r] # "replace"
      BY <1>4 DEF Read, RecvLookup, RecvCheck, RecvTimeout, RecvPop, RecvallLookup, Goto
<1>. QED  BY <1>1, <1>2, <1>3, <1>4, ReaderMoves

LEMMA InitBox == Init => BoxInv
<1> SUFFICES ASSUME Init PROVE BoxInv
    OBVIOUS
<1>1. OrderInv
      BY InitOrder
<1>2. ListsInv /\ CopyIsList
      BY <1>1 DEF OrderInv, ListsInv
<1>3. /\ \A t \in Threads : ~Holding(t) /\ pc[t] = "idle"
      /\ \A r \in Readers : got[r] = <<>> /\ copied[r] = <<>> /\ r \in Threads
      /\ \A s \in Submitters : sent[s] = 0 /\ s \in Threads
      /\ recvalls = 0
      BY DEF Init, Holding, Threads
<1>4. GotOlder /\ CopyReturned /\ NoRecvall /\ Current /\ MakesMissing
      BY <1>3, ElementsEmpty DEF GotOlder, CopyReturned, NoRecvall, Current, MakesMissing
<1>5. Numbered
      BY <1>3, BoundsAssumption DEF Numbered, Filing
<1>. QED  BY <1>2, <1>4, <1>5 DEF BoxInv

LEMMA StepBox ==
  ASSUME OneSubmitter, Unrivalled, BoxInv, LockInv', [Next]_vars
  PROVE  BoxInv'
<1>1. ListsInv'
      BY StepLists DEF BoxInv
<1>2. GotOlder' /\ Numbered' /\ NoRecvall' /\ CopyReturned'
      BY StepGotOlder, StepNumbered, StepNoRecvall, StepCopyReturned
      DEF BoxInv, ListsInv
<1>3. Current' /\ MakesMissing'
      BY StepCurrent, StepMakesMissing DEF BoxInv, ListsInv
<1>4. CopyIsList'
  <2>1. CASE OneReader
        BY <2>1, StepCopyIsList DEF BoxInv, ListsInv
  <2>2. CASE MaxRecvall = 0
        BY <1>2, <2>2 DEF NoRecvall, CopyIsList
  <2>. QED  BY <2>1, <2>2 DEF Unrivalled
<1>. QED  BY <1>1, <1>2, <1>3, <1>4 DEF BoxInv

LEMMA BoxInvariant == ASSUME OneSubmitter, Unrivalled PROVE Spec => []BoxInv
<1>1. BoxInv /\ LockInv' /\ [Next]_vars => BoxInv'
      BY OneSubmitter, Unrivalled, StepBox
<1>. QED
     BY <1>1, InitBox, LockInvariant, PTL DEF Spec
-----------------------------------------------------------------------------
(***************************************************************************)
(* Every step is a step of MessageBox, or one that it does not see.        *)
(***************************************************************************)

\* What the refinement mapping puts into a box.
Queue(c) == IF messages[c] = None THEN <<>> ELSE lists[messages[c]]

Box == [c \in Cmds |-> Queue(c)]

Unseen == Box' = Box /\ got' = got

\* A step that only lengthens the lists is unseen: no new list is in use yet.
LEMMA NewListUnseen ==
  ASSUME LockInv, NEW d \in Cmds, Queue(d) = <<>>,
         lists' = Append(lists, <<>>),
         messages' = [messages EXCEPT ![d] = Len(lists) + 1]
  PROVE  Box' = Box
<1>1. /\ lists \in Seq(Seq(Message)) /\ Len(lists) \in Nat
      /\ messages \in [Cmds -> 0 .. Len(lists)]
      BY DEF LockInv, TypeOK
<1>2. /\ \A l \in 1 .. Len(lists) : lists'[l] = lists[l]
      /\ lists'[Len(lists) + 1] = <<>>
      BY <1>1
<1>3. ASSUME NEW c \in Cmds PROVE Queue(c)' = Queue(c)
  <2>1. CASE c = d
        BY <1>1, <1>2, <2>1 DEF Queue, None
  <2>2. CASE c # d
        BY <1>1, <1>2, <2>2 DEF Queue, None
  <2>. QED  BY <2>1, <2>2
<1>. QED  BY <1>3 DEF Box

\* A step that changes one list changes the box of that list alone.
LEMMA OneListChanges ==
  ASSUME ListsInv, NEW t \in Threads, Holding(t), NEW q,
         \A l \in 1 .. Len(lists) : l # mbox[t] => lists'[l] = lists[l],
         lists'[mbox[t]] = q, messages' = messages
  PROVE  /\ mbox[t] = messages[cmd[t]] =>
               /\ Queue(cmd[t]) = lists[mbox[t]]
               /\ Box' = [Box EXCEPT ![cmd[t]] = q]
         /\ mbox[t] # messages[cmd[t]] => Box' = Box
<1>1. /\ messages \in [Cmds -> 0 .. Len(lists)] /\ Len(lists) \in Nat
      /\ mbox[t] # None /\ cmd[t] \in Cmds
      BY DEF ListsInv, LockInv, TypeOK, HandlesOK
<1>2. ASSUME NEW c \in Cmds, messages[c] # mbox[t]
      PROVE  Queue(c)' = Queue(c)
  <2>1. CASE messages[c] = None
        BY <2>1 DEF Queue
  <2>2. CASE messages[c] # None
    <3>1. messages[c] \in 1 .. Len(lists)
          BY <1>1, <2>2 DEF None
    <3>. QED  BY <1>2, <3>1 DEF Queue
  <2>. QED  BY <2>1, <2>2
<1>3. ASSUME NEW c \in Cmds, messages[c] = mbox[t]
      PROVE  Queue(c) = lists[mbox[t]] /\ Queue(c)' = q
      BY <1>1, <1>3 DEF Queue
<1>4. ASSUME mbox[t] = messages[cmd[t]]
      PROVE  Box' = [Box EXCEPT ![cmd[t]] = q]
  <2>1. \A c \in Cmds : c # cmd[t] => messages[c] # mbox[t]
        BY OneMailbox DEF ListsInv
  <2>2. \A c \in Cmds : Queue(c)' = IF c = cmd[t] THEN q ELSE Queue(c)
        BY <1>2, <1>3, <1>4, <2>1
  <2>. QED  BY <2>2 DEF Box
<1>5. ASSUME mbox[t] # messages[cmd[t]]
      PROVE  Box' = Box
  <2>1. \A c \in Cmds : messages[c] # mbox[t]
        BY <1>5, OneMailbox DEF ListsInv
  <2>. QED  BY <1>2, <2>1 DEF Box
<1>. QED  BY <1>1, <1>3, <1>4, <1>5

\* mbox.append is Put, or the loss of a message that was never put.
LEMMA AppendPuts ==
  ASSUME BoxInv, NEW s \in Submitters, SubmitAppend(s)
  PROVE  Unseen \/ Abstract!BoxNext
<1> DEFINE n == [cmd |-> cmd[s], src |-> s, seq |-> sent[s]]
<1>a. /\ s \in Threads /\ cmd[s] \in Cmds /\ sent[s] \in Nat /\ MaxMsgs \in Nat
      BY BoundsAssumption DEF BoxInv, ListsInv, LockInv, TypeOK, Threads
<1>b. n.cmd = cmd[s] /\ n.src = s /\ n.seq = sent[s]
      OBVIOUS
<1>c. ListsInv /\ LockInv
      BY DEF BoxInv, ListsInv
<1>1. /\ n \in Message /\ pc[s] = "append" /\ Holding(s)
      /\ lists'[mbox[s]] = Append(lists[mbox[s]], n)
      /\ \A l \in 1 .. Len(lists) : l # mbox[s] => lists'[l] = lists[l]
      /\ messages' = messages /\ got' = got
      BY <1>c, AppendAddsOne DEF SubmitAppend
<1>2. n \in [cmd : Cmds, src : Submitters, seq : 1 .. MaxMsgs]
  <2>1. Filing(s) /\ sent[s] <= MaxMsgs /\ sent[s] >= 1
        BY <1>1 DEF BoxInv, Numbered, Filing
  <2>. QED  BY <1>a, <2>1
<1> HIDE DEF n
<1>3. ~Older(n)
      BY <1>1, <1>a, <1>b DEF Older, Filing
<1>4. \A k \in Readers : n \notin Elements(got[k])
      BY <1>3 DEF BoxInv, GotOlder
<1>5. \A b \in Cmds : n \notin Elements(Queue(b))
  <2> SUFFICES ASSUME NEW b \in Cmds, n \in Elements(Queue(b)) PROVE FALSE
      OBVIOUS
  <2>1. messages[b] # None
        BY ElementsEmpty DEF Queue
  <2>2. messages[b] \in 1 .. Len(lists)
        BY <1>c, <2>1 DEF LockInv, TypeOK, None
  <2>. QED  BY <1>3, <1>c, <2>1, <2>2 DEF Queue, ListsInv, ListsOrdered
<1>6. CASE mbox[s] = messages[cmd[s]]
  <2>1. Box' = [Box EXCEPT ![n.cmd] = Append(Box[n.cmd], n)]
    <3>1. /\ Queue(cmd[s]) = lists[mbox[s]]
          /\ Box' = [Box EXCEPT ![cmd[s]] = Append(lists[mbox[s]], n)]
          BY <1>a, <1>c, <1>1, <1>6, OneListChanges
    <3>2. Box[cmd[s]] = lists[mbox[s]]
          BY <1>a, <3>1 DEF Box
    <3>. QED  BY <1>b, <3>1, <3>2
  <2>2. Abstract!Put(n)
        BY <1>1, <1>4, <1>5, <2>1 DEF Abstract!Put, Abstract!Contents, Elements, Box, Queue
  <2>. QED  BY <1>2, <2>2 DEF Abstract!BoxNext, Abstract!Put
<1>7. CASE mbox[s] # messages[cmd[s]]
      BY <1>a, <1>c, <1>1, <1>7, OneListChanges DEF Unseen
<1>. QED  BY <1>6, <1>7

\* mbox.pop(0) is Take.
LEMMA PopTakes ==
  ASSUME BoxInv, NEW r \in Readers, RecvPop(r)
  PROVE  Unseen \/ Abstract!BoxNext
<1>a. r \in Threads /\ cmd[r] \in Cmds /\ Holding(r) /\ messages' = messages
      BY DEF BoxInv, ListsInv, LockInv, TypeOK, Threads, RecvPop, Goto, Holding
<1>b. ListsInv /\ LockInv /\ lists \in Seq(Seq(Message))
      BY DEF BoxInv, ListsInv, LockInv, TypeOK
<1>1. mbox[r] = messages[cmd[r]] /\ mbox[r] \in 1 .. Len(lists)
      /\ lists[mbox[r]] \in Seq(Message)
      BY <1>a, <1>b, Handles DEF BoxInv, Current
<1>2. CASE lists[mbox[r]] = <<>>
  <2>1. lists' = lists /\ got' = got
        BY <1>2 DEF RecvPop
  <2>. QED  BY <1>a, <2>1 DEF Unseen, Box, Queue
<1>3. CASE lists[mbox[r]] # <<>>
  <2>1. /\ lists' = [lists EXCEPT ![mbox[r]] = Tail(lists[mbox[r]])]
        /\ got' = [got EXCEPT ![r] = Append(@, Head(lists[mbox[r]]))]
        BY <1>3 DEF RecvPop
  <2>2. /\ lists'[mbox[r]] = Tail(lists[mbox[r]])
        /\ \A l \in 1 .. Len(lists) : l # mbox[r] => lists'[l] = lists[l]
    <3>1. Tail(lists[mbox[r]]) \in Seq(Message)
          BY <1>1, <1>3
    <3>. QED  BY <1>b, <1>1, <2>1, <3>1, UpdateSeq
  <2>3. /\ Queue(cmd[r]) = lists[mbox[r]]
        /\ Box' = [Box EXCEPT ![cmd[r]] = Tail(lists[mbox[r]])]
        BY <1>a, <1>b, <1>1, <2>2, OneListChanges
  <2>4. Box[cmd[r]] = lists[mbox[r]]
        BY <1>a, <2>3 DEF Box
  <2>5. Abstract!Take(r, cmd[r])
        BY <1>3, <2>1, <2>3, <2>4 DEF Abstract!Take, Box, Queue
  <2>. QED  BY <1>a, <2>5 DEF Abstract!BoxNext, Abstract!Take
<1>. QED  BY <1>2, <1>3

\* self._messages[cmd] = [] is TakeAll: the copy is still what the box holds.
LEMMA ReplaceTakesAll ==
  ASSUME BoxInv, NEW r \in Readers, RecvallReplace(r)
  PROVE  Abstract!BoxNext
<1>a. /\ r \in Threads /\ cmd[r] \in Cmds /\ Holding(r) /\ pc[r] = "replace"
      /\ lists \in Seq(Seq(Message)) /\ messages \in [Cmds -> 0 .. Len(lists)]
      /\ Len(lists) \in Nat
      BY DEF BoxInv, ListsInv, LockInv, TypeOK, Threads, RecvallReplace, Goto, Holding
<1>b. LockInv
      BY DEF BoxInv, ListsInv
<1>1. /\ mbox[r] = messages[cmd[r]] /\ mbox[r] \in 1 .. Len(lists)
      /\ copied[r] = lists[mbox[r]]
      BY <1>a, <1>b, Handles DEF BoxInv, Current, CopyIsList
<1>2. Queue(cmd[r]) = copied[r]
      BY <1>1 DEF Queue, None
<1>3. /\ lists' = Append(lists, <<>>)
      /\ messages' = [messages EXCEPT ![cmd[r]] = Len(lists) + 1]
      /\ got' = [got EXCEPT ![r] = @ \o copied[r]]
      BY DEF RecvallReplace
<1>4. /\ \A l \in 1 .. Len(lists) : lists'[l] = lists[l]
      /\ lists'[Len(lists) + 1] = <<>>
      BY <1>a, <1>3
<1>5. ASSUME NEW c \in Cmds
      PROVE  Queue(c)' = IF c = cmd[r] THEN <<>> ELSE Queue(c)
  <2>1. CASE c = cmd[r]
        BY <1>a, <1>3, <1>4, <2>1 DEF Queue, None
  <2>2. CASE c # cmd[r]
        BY <1>a, <1>3, <1>4, <2>2 DEF Queue, None
  <2>. QED  BY <2>1, <2>2
<1>6. Box' = [Box EXCEPT ![cmd[r]] = <<>>] /\ Box[cmd[r]] = copied[r]
      BY <1>a, <1>2, <1>5 DEF Box
<1>7. Abstract!TakeAll(r, cmd[r])
      BY <1>3, <1>6 DEF Abstract!TakeAll, Box, Queue
<1>. QED  BY <1>a, <1>7 DEF Abstract!BoxNext, Abstract!TakeAll

LEMMA StepImplements ==
  ASSUME BoxInv, [Next]_vars
  PROVE  Unseen \/ Abstract!BoxNext
<1>1. ASSUME NEW s \in Submitters, Submit(s)
      PROVE  Unseen \/ Abstract!BoxNext
  <2>1. CASE SubmitCreate(s)
    <3>1. /\ messages[cmd[s]] = None /\ cmd[s] \in Cmds /\ LockInv
          BY <2>1 DEF SubmitCreate, Goto, BoxInv, MakesMissing, ListsInv, LockInv,
             TypeOK, Threads
    <3>2. Box' = Box
          BY <2>1, <3>1, NewListUnseen DEF SubmitCreate, Queue
    <3>. QED  BY <2>1, <3>2 DEF Unseen, SubmitCreate
  <2>2. CASE SubmitAppend(s)
        BY <2>2, AppendPuts
  <2>3. ASSUME ~SubmitCreate(s), ~SubmitAppend(s)
        PROVE  lists' = lists /\ messages' = messages /\ got' = got
        BY <1>1, <2>3 DEF Submit, SubmitLookup, SubmitMakeEvent, SubmitAcquire, SubmitNotify
  <2>. QED  BY <2>1, <2>2, <2>3 DEF Unseen, Box, Queue
<1>2. ASSUME NEW r \in Readers, Read(r)
      PROVE  Unseen \/ Abstract!BoxNext
  <2>1. CASE RecvPop(r)
        BY <2>1, PopTakes
  <2>2. CASE RecvallReplace(r)
        BY <2>2, ReplaceTakesAll
  <2>3. ASSUME ~RecvPop(r), ~RecvallReplace(r)
        PROVE  lists' = lists /\ messages' = messages /\ got' = got
        BY <1>2, <2>3 DEF Read, RecvLookup, RecvCheck, RecvTimeout, RecvallLookup, RecvallCopy
  <2>. QED  BY <2>1, <2>2, <2>3 DEF Unseen, Box, Queue
<1>3. CASE UNCHANGED vars
      BY <1>3 DEF vars, Unseen, Box, Queue
<1>. QED  BY <1>1, <1>2, <1>3 DEF Next

\* With the one receive thread of the interface, and with one reader or any number
\* of readers that only call recv, the mailboxes behave as queues on which filing a
\* message, recv and recvall are one step each, for any number of mailboxes and
\* of messages.
THEOREM MailboxesAreQueues ==
  ASSUME OneSubmitter, Unrivalled
  PROVE  Spec => ImplementsMessageBox
<1>1. Init => Abstract!BoxInit
      BY DEF Init, Abstract!BoxInit
<1>2. BoxInv /\ [Next]_vars => [Abstract!BoxNext]_(Abstract!abstractVars)
      BY StepImplements DEF Unseen, Box, Queue, Abstract!abstractVars
<1>. QED
     BY <1>1, <1>2, BoxInvariant, OneSubmitter, Unrivalled, PTL
     DEF Spec, ImplementsMessageBox, Abstract!BoxSpec
-----------------------------------------------------------------------------
(***************************************************************************)
(* What is lost: only an append to a list that is the mailbox no more      *)
(* loses a message, and only recvall makes a submitter's list such a list. *)
(***************************************************************************)

Has(r, m) == m \in Elements(got[r]) \cup Elements(copied[r])

IsLost(m) ==
  /\ \E l \in 1 .. Len(lists) : m \in Elements(lists[l])
  /\ \A r \in Readers : ~Has(r, m)
  /\ \A c \in Cmds : m \notin Elements(Queue(c))

\* What is lost is in a list, but with no reader and in no mailbox.
LEMMA LostIs == \A m : (m \in Lost <=> IsLost(m)) /\ (m \in Lost' <=> IsLost(m)')
<1>1. \A m : m \in Pending <=> \E c \in Cmds : m \in Elements(Queue(c))
      BY ElementsEmpty DEF Pending, Queue
<1>2. \A m : m \in Delivered <=> \E r \in Readers : Has(r, m)
      BY DEF Delivered, Has
<1>3. \A m : m \in Pending' <=> \E c \in Cmds : m \in Elements(Queue(c)')
      BY ElementsEmpty DEF Pending, Queue
<1>4. \A m : m \in Delivered' <=> \E r \in Readers : Has(r, m)'
      BY DEF Delivered, Has
<1>5. \A m : m \in Lost <=> IsLost(m)
      BY <1>1, <1>2 DEF Lost, IsLost
<1>6. \A m : m \in Lost' <=> IsLost(m)'
      BY <1>3, <1>4 DEF Lost, IsLost
<1>. QED  BY <1>5, <1>6

LEMMA ElementsOfConcat ==
  ASSUME NEW S, NEW p \in Seq(S), NEW q \in Seq(S)
  PROVE  Elements(p) \cup Elements(q) \subseteq Elements(p \o q)
<1>1. /\ Len(p \o q) = Len(p) + Len(q)
      /\ Len(p) \in Nat /\ Len(q) \in Nat
      /\ \A i \in 1 .. Len(p) : (p \o q)[i] = p[i] /\ i \in 1 .. Len(p) + Len(q)
      /\ \A i \in 1 .. Len(q) : (p \o q)[Len(p) + i] = q[i]
                             /\ Len(p) + i \in 1 .. Len(p) + Len(q)
      OBVIOUS
<1>2. Elements(p) \subseteq Elements(p \o q)
      BY <1>1 DEF Elements
<1>3. Elements(q) \subseteq Elements(p \o q)
      BY <1>1 DEF Elements
<1>. QED  BY <1>2, <1>3

LEMMA ElementsOfTail ==
  ASSUME NEW S, NEW q \in Seq(S), q # <<>>, NEW m \in Elements(q)
  PROVE  m = Head(q) \/ m \in Elements(Tail(q))
<1>1. /\ Len(q) \in Nat \ {0} /\ Head(q) = q[1]
      /\ Len(Tail(q)) = Len(q) - 1
      /\ \A i \in 1 .. Len(q) - 1 : Tail(q)[i] = q[i + 1]
      OBVIOUS
<1>2. PICK i \in 1 .. Len(q) : m = q[i]
      BY DEF Elements
<1>3. CASE i > 1
  <2>1. i - 1 \in 1 .. Len(q) - 1 /\ (i - 1) + 1 = i
        BY <1>1, <1>3
  <2>. QED  BY <1>1, <1>2, <2>1 DEF Elements
<1>. QED  BY <1>1, <1>2, <1>3

\* No message leaves the readers.
LEMMA ReadersKeep ==
  ASSUME LockInv, CopyReturned, [Next]_vars, NEW r \in Readers, NEW m, Has(r, m)
  PROVE  Has(r, m)'
<1>a. /\ got \in [Readers -> Seq(Message)] /\ copied \in [Readers -> Seq(Message)]
      /\ r \in Threads
      BY DEF LockInv, TypeOK, Threads
<1>1. CASE got'[r] = got[r] /\ copied'[r] = copied[r]
      BY <1>1 DEF Has
<1>2. CASE RecvallCopy(r)
  <2>1. copied[r] = <<>> /\ got' = got
        BY <1>2 DEF CopyReturned, RecvallCopy, Goto
  <2>. QED  BY <2>1, ElementsEmpty DEF Has
<1>3. CASE RecvallReplace(r)
  <2>1. got'[r] = got[r] \o copied[r]
        BY <1>a, <1>3 DEF RecvallReplace
  <2>. QED  BY <1>a, <2>1, ElementsOfConcat DEF Has
<1>4. CASE RecvPop(r) /\ lists[mbox[r]] # <<>>
  <2>1. mbox[r] \in 1 .. Len(lists) /\ lists[mbox[r]] \in Seq(Message)
        BY <1>a, <1>4, Handles DEF RecvPop, Goto, Holding
  <2>2. Head(lists[mbox[r]]) \in Message
        BY <1>4, <2>1
  <2>3. got'[r] = Append(got[r], Head(lists[mbox[r]])) /\ copied' = copied
        BY <1>a, <1>4 DEF RecvPop
  <2>4. Elements(got[r]) \subseteq Elements(got'[r])
        BY <1>a, <2>2, <2>3, ElementsAppend
  <2>. QED  BY <2>3, <2>4 DEF Has
<1>5. CASE RecvPop(r) /\ lists[mbox[r]] = <<>>
      BY <1>1, <1>5 DEF RecvPop
<1>6. ASSUME Read(r), ~RecvallCopy(r), ~RecvallReplace(r), ~RecvPop(r)
      PROVE  got'[r] = got[r] /\ copied'[r] = copied[r]
      BY <1>6 DEF Read, RecvLookup, RecvCheck, RecvTimeout, RecvallLookup
<1>. QED  BY <1>1, <1>2, <1>3, <1>4, <1>5, <1>6, ReaderMoves

\* A message leaves a mailbox for a reader alone: a box keeps what is put.
LEMMA MailboxesKeep ==
  ASSUME BoxInv, [Next]_vars, NEW c \in Cmds, NEW m \in Elements(Queue(c))
  PROVE  m \in Elements(Queue(c)') \/ \E r \in Readers : m \in Elements(got'[r])
<1> DEFINE Kept == m \in Elements(Queue(c)') \/ \E r \in Readers : m \in Elements(got'[r])
<1>a. /\ \A b \in Cmds : Box[b] = Queue(b) /\ Queue(b) \in Seq(Message)
      /\ Box'[c] = Queue(c)'
      /\ got \in [Readers -> Seq(Message)]
  <2>1. /\ lists \in Seq(Seq(Message)) /\ messages \in [Cmds -> 0 .. Len(lists)]
        /\ Len(lists) \in Nat /\ got \in [Readers -> Seq(Message)]
        BY DEF BoxInv, ListsInv, LockInv, TypeOK
  <2>2. ASSUME NEW b \in Cmds PROVE Queue(b) \in Seq(Message)
        BY <2>1 DEF Queue, None
  <2>. QED  BY <2>1, <2>2 DEF Box
<1>1. CASE Unseen
  <2>1. Queue(c)' = Queue(c)
        BY <1>1, <1>a DEF Unseen
  <2>. QED  BY <2>1
<1>2. ASSUME NEW n \in [cmd : Cmds, src : Submitters, seq : 1 .. MaxMsgs],
             Abstract!Put(n)
      PROVE  Kept
  <2>1. Box' = [Box EXCEPT ![n.cmd] = Append(@, n)]
        BY <1>2 DEF Abstract!Put, Box, Queue
  <2>2. Queue(c)' = Queue(c) \/ Queue(c)' = Append(Queue(c), n)
        BY <1>a, <2>1 DEF Box
  <2>3. n \in Message
        BY BoundsAssumption DEF Message
  <2>4. CASE Queue(c)' = Queue(c)
        BY <2>4
  <2>5. CASE Queue(c)' = Append(Queue(c), n)
    <3>1. Elements(Queue(c)') = Elements(Queue(c)) \cup {n}
          BY <1>a, <2>3, <2>5, ElementsAppend
    <3>. QED  BY <3>1
  <2>. QED  BY <2>2, <2>4, <2>5
<1>3. ASSUME NEW k \in Readers, NEW b \in Cmds, Abstract!Take(k, b)
      PROVE  Kept
  <2>1. /\ Queue(b) # <<>> /\ got'[k] = Append(got[k], Head(Queue(b)))
        /\ Box' = [Box EXCEPT ![b] = Tail(@)]
        BY <1>3, <1>a DEF Abstract!Take, Box, Queue
  <2>2. CASE c # b
    <3>1. Queue(c)' = Queue(c)
          BY <1>a, <2>1, <2>2 DEF Box
    <3>. QED  BY <3>1
  <2>3. CASE c = b
    <3>1. Queue(c)' = Tail(Queue(c))
          BY <1>a, <2>1, <2>3 DEF Box
    <3>2. m = Head(Queue(c)) \/ m \in Elements(Tail(Queue(c)))
          BY <1>a, <2>1, <2>3, ElementsOfTail
    <3>3. Head(Queue(c)) \in Message
          BY <1>a, <2>1, <2>3
    <3>4. Head(Queue(c)) \in Elements(got'[k])
          BY <1>a, <2>1, <2>3, <3>3, ElementsAppend
    <3>. QED  BY <3>1, <3>2, <3>4
  <2>. QED  BY <2>2, <2>3
<1>4. ASSUME NEW k \in Readers, NEW b \in Cmds, Abstract!TakeAll(k, b)
      PROVE  Kept
  <2>1. /\ got'[k] = got[k] \o Queue(b)
        /\ Box' = [Box EXCEPT ![b] = <<>>]
        BY <1>4, <1>a DEF Abstract!TakeAll, Box, Queue
  <2>2. CASE c # b
    <3>1. Queue(c)' = Queue(c)
          BY <1>a, <2>1, <2>2 DEF Box
    <3>. QED  BY <3>1
  <2>3. CASE c = b
        BY <1>a, <2>1, <2>3, ElementsOfConcat
  <2>. QED  BY <2>2, <2>3
<1>. QED
     BY <1>1, <1>2, <1>3, <1>4, StepImplements
     DEF Abstract!BoxNext, Abstract!Put, Abstract!Take, Abstract!TakeAll

\* Only an append to a list that is no mailbox loses a message: the one appended.
LEMMA StepLost ==
  ASSUME BoxInv, [Next]_vars
  PROVE  \/ Lost' \subseteq Lost
         \/ \E s \in Submitters : \E n :
              SubmitAppend(s) /\ Stale(s) /\ Lost' \subseteq Lost \cup {n}
<1>a. LockInv /\ ListsOrdered /\ CopyReturned
      BY DEF BoxInv, ListsInv
<1>1. ASSUME NEW m, m \in Lost', NEW l \in 1 .. Len(lists), m \in Elements(lists[l])
      PROVE  m \in Lost
  <2>1. IsLost(m)'
        BY <1>1, LostIs
  <2>2. \A r \in Readers : ~Has(r, m)
        BY <1>a, <2>1, ReadersKeep DEF IsLost
  <2>3. \A c \in Cmds : m \notin Elements(Queue(c))
        BY <2>1, MailboxesKeep DEF IsLost, Has
  <2>4. IsLost(m)
        BY <1>1, <2>2, <2>3 DEF IsLost
  <2>. QED  BY <2>4, LostIs
<1>2. CASE \A s \in Submitters : ~SubmitAppend(s)
  <2>1. \A m \in Lost' : \E l \in 1 .. Len(lists') : m \in Elements(lists'[l])
        BY LostIs DEF IsLost
  <2>2. \A m \in Lost' : \E l \in 1 .. Len(lists) : m \in Elements(lists[l])
        BY <1>2, <1>a, <2>1, OthersAddNothing DEF NothingNew
  <2>. QED  BY <1>1, <2>2
<1>3. ASSUME NEW s \in Submitters, SubmitAppend(s)
      PROVE  \/ Lost' \subseteq Lost
             \/ \E n : Stale(s) /\ Lost' \subseteq Lost \cup {n}
  <2> DEFINE n == [cmd |-> cmd[s], src |-> s, seq |-> sent[s]]
  <2>1. /\ Holding(s) /\ mbox[s] \in 1 .. Len(lists) /\ Len(lists') = Len(lists)
        /\ Elements(lists'[mbox[s]]) = Elements(lists[mbox[s]]) \cup {n}
        /\ \A l \in 1 .. Len(lists) : l # mbox[s] => lists'[l] = lists[l]
        BY <1>a, <1>3, AppendAddsOne
  <2> HIDE DEF n
  <2>2. \A m \in Lost' : m = n \/ m \in Lost
    <3> SUFFICES ASSUME NEW m \in Lost', m # n PROVE m \in Lost
        OBVIOUS
    <3>1. PICK l \in 1 .. Len(lists') : m \in Elements(lists'[l])
          BY LostIs DEF IsLost
    <3>2. m \in Elements(lists[l])
          BY <2>1, <3>1
    <3>. QED  BY <1>1, <2>1, <3>2
  <2>3. ASSUME ~Stale(s) PROVE n \notin Lost'
    <3>1. mbox[s] = messages[cmd[s]] /\ cmd[s] \in Cmds /\ messages' = messages
          BY <1>a, <1>3, <2>1, <2>3 DEF Stale, LockInv, TypeOK, Threads, SubmitAppend
    <3>2. Queue(cmd[s])' = lists'[mbox[s]]
      <4>1. mbox[s] # None
            BY <2>1 DEF None
      <4>2. cmd' = cmd
            BY <1>3 DEF SubmitAppend
      <4>. QED  BY <3>1, <4>1, <4>2 DEF Queue
    <3>3. \E c \in Cmds : n \in Elements(Queue(c)')
      <4>1. cmd' = cmd
            BY <1>3 DEF SubmitAppend
      <4>. QED  BY <2>1, <3>1, <3>2, <4>1
    <3>. QED  BY <3>3, LostIs DEF IsLost
  <2>. QED  BY <2>2, <2>3
<1>. QED  BY <1>2, <1>3

\* Only recvall makes the list that a submitter uses one that is no mailbox.
LEMMA StaleMoves ==
  ASSUME OneSubmitter, LockInv, [Next]_vars, NEW s \in Submitters, Stale(s)'
  PROVE  \/ Stale(s) /\ ~SubmitAppend(s)
         \/ \E r \in Readers : RecvallReplace(r)
<1>a. /\ s \in Threads /\ pc \in [Threads -> SubmitPc \cup ReadPc]
      /\ mbox \in [Threads -> 0 .. Len(lists)] /\ cmd \in [Threads -> Cmds]
      /\ messages \in [Cmds -> 0 .. Len(lists)]
      BY DEF LockInv, TypeOK, Threads
<1>1. Holding(s) /\ mbox'[s] = mbox[s] /\ cmd'[s] = cmd[s] /\ mbox[s] # messages'[cmd[s]]
      BY <1>a, HandlesMove DEF Stale
<1>2. ~SubmitAppend(s)
  <2>1. SubmitAppend(s) => pc'[s] = "notify"
        BY <1>a DEF SubmitAppend, Goto
  <2>. QED  BY <2>1 DEF Stale, Holding
<1>3. ASSUME NEW t \in Submitters, SubmitCreate(t) PROVE FALSE
  <2>1. t = s
        BY DEF OneSubmitter
  <2>2. messages'[cmd[s]] = Len(lists) + 1 /\ mbox'[s] = Len(lists) + 1
        BY <1>a, <1>3, <2>1 DEF SubmitCreate
  <2>. QED  BY <1>1, <2>2
<1>4. CASE messages' = messages
      BY <1>1, <1>2, <1>4 DEF Stale
<1>. QED  BY <1>3, <1>4, MailboxesChange

LEMMA RecvallsCount ==
  ASSUME LockInv, [Next]_vars
  PROVE  /\ recvalls \in Nat
         /\ recvalls' = recvalls \/ \E r \in Readers : RecvallReplace(r)
         /\ \A r \in Readers : RecvallReplace(r) => recvalls' = recvalls + 1
<1>1. ASSUME NEW s \in Submitters, Submit(s) PROVE recvalls' = recvalls
      BY <1>1 DEF Submit, SubmitLookup, SubmitCreate, SubmitMakeEvent, SubmitAcquire,
         SubmitAppend, SubmitNotify
<1>2. ASSUME NEW r \in Readers, Read(r), ~RecvallReplace(r) PROVE recvalls' = recvalls
      BY <1>2 DEF Read, RecvLookup, RecvCheck, RecvTimeout, RecvPop, RecvallLookup, RecvallCopy
<1>3. \A r \in Readers : RecvallReplace(r) => recvalls' = recvalls + 1
      BY DEF RecvallReplace
<1>4. recvalls \in Nat
      BY DEF LockInv, TypeOK
<1>. QED  BY <1>1, <1>2, <1>3, <1>4 DEF Next, vars

\* The message that a submitter may still lose.
InHand == IF \E s \in Submitters : Stale(s) THEN 1 ELSE 0

LEMMA StepLoss ==
  ASSUME OneSubmitter, BoxInv, LossInv, [Next]_vars
  PROVE  LossInv'
<1>a. LockInv /\ IsFiniteSet(Lost) /\ Cardinality(Lost) \in Nat
      BY FS_CardinalityType DEF BoxInv, ListsInv, LossInv
<1>b. /\ InHand \in {0, 1} /\ InHand' \in {0, 1} /\ recvalls \in Nat
      /\ Cardinality(Lost) + InHand <= recvalls
      BY <1>a, RecvallsCount DEF InHand, LossInv
<1> SUFFICES IsFiniteSet(Lost') /\ Cardinality(Lost') + InHand' <= recvalls'
    BY DEF LossInv, InHand
<1>1. CASE Lost' \subseteq Lost
  <2>1. IsFiniteSet(Lost') /\ Cardinality(Lost') <= Cardinality(Lost) /\ Cardinality(Lost') \in Nat
        BY <1>a, <1>1, FS_Subset, FS_CardinalityType
  <2>2. CASE \E r \in Readers : RecvallReplace(r)
        BY <1>a, <1>b, <2>1, <2>2, RecvallsCount
  <2>3. CASE \A r \in Readers : ~RecvallReplace(r)
    <3>1. InHand' <= InHand
          BY <1>a, <2>3, StaleMoves DEF InHand
    <3>2. recvalls' = recvalls
          BY <1>a, <2>3, RecvallsCount
    <3>. QED  BY <1>a, <1>b, <2>1, <3>1, <3>2
  <2>. QED  BY <2>2, <2>3
<1>2. ASSUME NEW s \in Submitters, NEW n, SubmitAppend(s), Stale(s),
             Lost' \subseteq Lost \cup {n}
      PROVE  IsFiniteSet(Lost') /\ Cardinality(Lost') + InHand' <= recvalls'
  <2>1. /\ IsFiniteSet(Lost \cup {n}) /\ Cardinality(Lost \cup {n}) <= Cardinality(Lost) + 1
        /\ Cardinality(Lost \cup {n}) \in Nat
    <3>1. /\ IsFiniteSet(Lost \cup {n})
          /\ Cardinality(Lost \cup {n}) = IF n \in Lost THEN Cardinality(Lost)
                                           ELSE Cardinality(Lost) + 1
          BY <1>a, FS_AddElement
    <3>. QED  BY <1>a, <3>1
  <2>2. /\ IsFiniteSet(Lost') /\ Cardinality(Lost') <= Cardinality(Lost \cup {n})
        /\ Cardinality(Lost') \in Nat
        BY <1>2, <2>1, FS_Subset, FS_CardinalityType
  <2>3. recvalls' = recvalls /\ \A r \in Readers : ~RecvallReplace(r)
    <3>1. recvalls' = recvalls
          BY <1>2 DEF SubmitAppend
    <3>. QED  BY <1>b, <1>a, <3>1, RecvallsCount
  <2>4. InHand' = 0
    <3>1. \A t \in Submitters : t = s
          BY DEF OneSubmitter
    <3>. QED  BY <1>2, <1>a, <2>3, <3>1, StaleMoves DEF InHand
  <2>5. InHand = 1
        BY <1>2 DEF InHand
  <2>. QED  BY <1>a, <1>b, <2>1, <2>2, <2>3, <2>4, <2>5
<1>. QED  BY <1>1, <1>2, StepLost

LEMMA LossInvariant ==
  ASSUME OneSubmitter, Unrivalled
  PROVE  Spec => [](BoxInv /\ LossInv)
<1>1. Init => LossInv
  <2> SUFFICES ASSUME Init PROVE LossInv
      OBVIOUS
  <2>1. Lost = {} /\ recvalls = 0 /\ \A s \in Submitters : ~Stale(s)
        BY DEF Init, Lost, Stale, Holding, Threads
  <2>. QED  BY <2>1, FS_EmptySet DEF LossInv
<1>2. BoxInv /\ LossInv /\ [Next]_vars => LossInv'
      BY OneSubmitter, StepLoss
<1>. QED
     BY <1>1, <1>2, BoxInvariant, OneSubmitter, Unrivalled, PTL DEF Spec

\* The one receive thread of the interface loses at most one message for each
\* recvall of the one reader: the message for which it had looked up the list that
\* recvall then replaced.
THEOREM RecvallLosesAtMostOne ==
  ASSUME OneSubmitter, Unrivalled
  PROVE  Spec => []LossBounded
<1>1. BoxInv /\ LossInv => LossBounded
  <2> SUFFICES ASSUME BoxInv, LossInv PROVE LossBounded
      OBVIOUS
  <2>1. Cardinality(Submitters) = 1
        BY OneSubmitter, FS_Singleton DEF OneSubmitter
  <2>2. /\ Cardinality(Lost) \in Nat /\ recvalls \in Nat
        /\ Cardinality(Lost) <= recvalls
        BY FS_CardinalityType DEF LossInv, BoxInv, ListsInv, LockInv, TypeOK
  <2>. QED  BY <2>1, <2>2 DEF LossBounded
<1>. QED
     BY <1>1, LossInvariant, OneSubmitter, Unrivalled, PTL

\* Without recvall nothing is lost, however many threads read: every message filed
\* is in the mailbox or has been returned.
THEOREM WithoutRecvallNothingIsLost ==
  ASSUME OneSubmitter, MaxRecvall = 0
  PROVE  Spec => []NothingLost
<1>1. BoxInv /\ LossInv => NothingLost
  <2> SUFFICES ASSUME BoxInv, LossInv PROVE NothingLost
      OBVIOUS
  <2>1. recvalls = 0
        BY MaxRecvall = 0 DEF BoxInv, NoRecvall
  <2>2. Cardinality(Lost) \in Nat /\ IsFiniteSet(Lost) /\ Cardinality(Lost) <= 0
        BY <2>1, FS_CardinalityType DEF LossInv
  <2>. QED  BY <2>2, FS_EmptySet DEF NothingLost
<1>2. Unrivalled
      BY MaxRecvall = 0 DEF Unrivalled
<1>. QED
     BY <1>1, <1>2, LossInvariant, OneSubmitter, PTL
-----------------------------------------------------------------------------
(***************************************************************************)
(* Threads that only call recv share what is filed: the messages in the    *)
(* lists are all different, and the one that a pop takes is in no list     *)
(* afterwards.                                                             *)
(***************************************************************************)

LEMMA StepOnce ==
  ASSUME MaxRecvall = 0, OnceInv, LockInv', [Next]_vars
  PROVE  OnceInv'
<1>a. /\ LockInv /\ ListsInv /\ ListsOrdered /\ NoRecvall /\ GotOlder /\ CopyIsList
      /\ lists \in Seq(Seq(Message)) /\ got \in [Readers -> Seq(Message)]
      /\ sent \in [Submitters -> Nat]
      BY DEF OnceInv, ListsInv, NoRecvall, CopyIsList, LockInv, TypeOK
<1>1. ListsInv' /\ GotOlder' /\ NoRecvall'
      BY <1>a, StepLists, StepGotOlder, StepNoRecvall
<1>2. ASSUME NEW s \in Submitters, SubmitAppend(s)
      PROVE  GotGone' /\ DeliveredOnce'
  <2> DEFINE n == [cmd |-> cmd[s], src |-> s, seq |-> sent[s]]
  <2>1. /\ pc[s] = "append" /\ mbox[s] \in 1 .. Len(lists) /\ Len(lists') = Len(lists)
        /\ Elements(lists'[mbox[s]]) = Elements(lists[mbox[s]]) \cup {n}
        /\ \A l \in 1 .. Len(lists) : l # mbox[s] => lists'[l] = lists[l]
        BY <1>a, <1>2, AppendAddsOne
  <2>2. n.cmd = cmd[s] /\ n.src = s /\ n.seq = sent[s]
        OBVIOUS
  <2> HIDE DEF n
  <2>3. ~Older(n)
        BY <1>a, <2>1, <2>2 DEF Older, Filing
  <2>4. got' = got
        BY <1>2 DEF SubmitAppend
  <2>5. GotGone'
    <3> SUFFICES ASSUME NEW r \in Readers, NEW l \in 1 .. Len(lists),
                        NEW m \in Elements(got[r]), m \in Elements(lists'[l])
                 PROVE  FALSE
        BY <2>1, <2>4 DEF GotGone
    <3>1. m # n
          BY <1>a, <2>3 DEF GotOlder
    <3>2. m \in Elements(lists[l])
          BY <2>1, <3>1
    <3>. QED  BY <3>2 DEF OnceInv, GotGone
  <2>. QED  BY <2>4, <2>5 DEF OnceInv, DeliveredOnce
<1>3. ASSUME NEW r \in Readers, RecvPop(r), lists[mbox[r]] # <<>>
      PROVE  GotGone' /\ DeliveredOnce'
  <2>1. Holding(r) /\ r \in Threads
        BY <1>3 DEF RecvPop, Goto, Holding, Threads
  <2> PICK k \in 1 .. Len(lists) : k = mbox[r]
      BY <1>a, <2>1, Handles
  <2> PICK h \in Message : h = Head(lists[k])
    <3>1. lists[k] \in Seq(Message) /\ lists[k] # <<>>
          BY <1>a, <1>3
    <3>. QED  BY <3>1
  <2>2. /\ got' = [got EXCEPT ![r] = Append(got[r], h)]
        /\ lists' = [lists EXCEPT ![k] = Tail(lists[k])]
        BY <1>3 DEF RecvPop
  <2>3. /\ lists[k] \in Seq(Message) /\ lists[k] # <<>> /\ Ordered(lists[k])
        BY <1>a, <1>3 DEF ListsOrdered
  <2>4. h \in Elements(lists[k])
        BY <2>3, ElementsTail
  <2>5. /\ Len(lists') = Len(lists) /\ lists'[k] = Tail(lists[k])
        /\ \A l \in 1 .. Len(lists) : l # k => lists'[l] = lists[l]
    <3>1. Tail(lists[k]) \in Seq(Message)
          BY <2>3
    <3>. QED  BY <1>a, <2>2, <3>1, UpdateSeq
  <2>6. ASSUME NEW l \in 1 .. Len(lists) PROVE h \notin Elements(lists'[l])
    <3>0. ~Before(h, h)
          BY DEF Before, Message
    <3>1. CASE l = k
          BY <2>3, <2>5, <3>0, <3>1, OrderedTail
    <3>2. CASE l # k
      <4>1. l < k \/ k < l
            BY <3>2
      <4>. QED  BY <1>a, <2>4, <2>5, <3>0, <3>2, <4>1 DEF ListsOrdered
    <3>. QED  BY <3>1, <3>2
  <2>7. \A l \in 1 .. Len(lists) : Elements(lists'[l]) \subseteq Elements(lists[l])
    <3>1. Elements(Tail(lists[k])) \subseteq Elements(lists[k])
          BY <2>3, ElementsTail
    <3>. QED  BY <2>5, <3>1
  <2>8. /\ got'[r] = Append(got[r], h) /\ \A q \in Readers : q # r => got'[q] = got[q]
        /\ Elements(got'[r]) = Elements(got[r]) \cup {h}
    <3>1. got'[r] = Append(got[r], h) /\ got[r] \in Seq(Message)
          BY <1>a, <2>2
    <3>2. \A q \in Readers : q # r => got'[q] = got[q]
          BY <1>a, <2>2
    <3>3. Elements(Append(got[r], h)) = Elements(got[r]) \cup {h}
          BY <3>1, ElementsAppend
    <3>. QED  BY <3>1, <3>2, <3>3
  <2>9. \A q \in Readers : h \notin Elements(got[q])
        BY <2>4 DEF OnceInv, GotGone
  <2>10. GotGone'
    <3> SUFFICES ASSUME NEW q \in Readers, NEW l \in 1 .. Len(lists),
                        NEW m \in Elements(got'[q]), m \in Elements(lists'[l])
                 PROVE  FALSE
        BY <2>5 DEF GotGone
    <3>1. m # h
          BY <2>6
    <3>2. m \in Elements(got[q])
          BY <2>8, <3>1
    <3>. QED  BY <2>7, <3>2 DEF OnceInv, GotGone
  <2>11. ASSUME NEW q \in Readers, NEW i \in 1 .. Len(got'[q]), NEW j \in 1 .. Len(got'[q]),
                i # j
         PROVE  got'[q][i] # got'[q][j]
    <3>1. CASE q # r
          BY <2>8, <2>11, <3>1 DEF OnceInv, DeliveredOnce
    <3>2. CASE q = r
      <4>1. /\ Len(got'[r]) = Len(got[r]) + 1 /\ got'[r][Len(got[r]) + 1] = h
            /\ \A x \in 1 .. Len(got[r]) : got'[r][x] = got[r][x]
            /\ Len(got[r]) \in Nat
            BY <1>a, <2>8, AppendProperties
      <4>2. \A x \in 1 .. Len(got[r]) : got[r][x] # h
            BY <2>9 DEF Elements
      <4>3. \A x, y \in 1 .. Len(got[r]) : x # y => got[r][x] # got[r][y]
            BY DEF OnceInv, DeliveredOnce
      <4>4. \A x \in 1 .. Len(got'[r]) : x \in 1 .. Len(got[r]) \/ x = Len(got[r]) + 1
            BY <4>1
      <4>. QED  BY <2>11, <3>2, <4>1, <4>2, <4>3, <4>4
    <3>. QED  BY <3>1, <3>2
  <2>12. ASSUME NEW p \in Readers, NEW q \in Readers, p # q
         PROVE  Elements(got'[p]) \cap Elements(got'[q]) = {}
    <3>1. Elements(got[p]) \cap Elements(got[q]) = {}
          BY <2>12 DEF OnceInv, DeliveredOnce
    <3>2. CASE p # r /\ q # r
      <4>1. got'[p] = got[p] /\ got'[q] = got[q]
            BY <2>8, <3>2
      <4>. QED  BY <3>1, <4>1
    <3>3. CASE p = r
          BY <2>8, <2>9, <2>12, <3>1, <3>3
    <3>4. CASE q = r
          BY <2>8, <2>9, <2>12, <3>1, <3>4
    <3>. QED  BY <3>2, <3>3, <3>4
  <2>. QED  BY <2>10, <2>11, <2>12 DEF DeliveredOnce
<1>4. ASSUME \A s \in Submitters : ~SubmitAppend(s), got' = got
      PROVE  GotGone' /\ DeliveredOnce'
  <2>1. \A l \in 1 .. Len(lists') :
          \/ l \in 1 .. Len(lists) /\ Elements(lists'[l]) \subseteq Elements(lists[l])
          \/ Elements(lists'[l]) = {}
        BY <1>a, <1>4, OthersAddNothing DEF NothingNew
  <2>. QED  BY <1>4, <2>1 DEF OnceInv, GotGone, DeliveredOnce
<1>5. \/ \E s \in Submitters : SubmitAppend(s)
      \/ \E r \in Readers : RecvPop(r) /\ lists[mbox[r]] # <<>>
      \/ got' = got
  <2>1. ASSUME NEW s \in Submitters, Submit(s) PROVE got' = got
        BY <2>1 DEF Submit, SubmitLookup, SubmitCreate, SubmitMakeEvent, SubmitAcquire,
           SubmitAppend, SubmitNotify
  <2>2. ASSUME NEW r \in Readers, Read(r), ~RecvPop(r) PROVE got' = got
    <3>1. ~RecvallReplace(r)
          BY <1>a DEF NoRecvall, RecvallReplace, Goto
    <3>. QED
         BY <2>2, <3>1 DEF Read, RecvLookup, RecvCheck, RecvTimeout, RecvallLookup, RecvallCopy
  <2>3. ASSUME NEW r \in Readers, RecvPop(r), lists[mbox[r]] = <<>> PROVE got' = got
        BY <2>3 DEF RecvPop
  <2>. QED  BY <2>1, <2>2, <2>3 DEF Next, vars
<1>6. GotGone' /\ DeliveredOnce'
      BY <1>2, <1>3, <1>4, <1>5
<1>. QED  BY <1>1, <1>6 DEF OnceInv

\* Any number of threads that call recv, fed by any number of submitters, are never
\* returned a message that one of them has been returned before.
THEOREM RecvNeverReturnsTwice ==
  ASSUME MaxRecvall = 0
  PROVE  Spec => []DeliveredOnce
<1>1. Init => OnceInv
  <2> SUFFICES ASSUME Init PROVE OnceInv
      OBVIOUS
  <2>1. \A r \in Readers : got[r] = <<>>
        BY DEF Init
  <2>2. GotGone /\ DeliveredOnce
        BY <2>1, ElementsEmpty DEF GotGone, DeliveredOnce
  <2>. QED  BY <2>2, InitBox DEF BoxInv, OnceInv
<1>2. OnceInv /\ LockInv' /\ [Next]_vars => OnceInv'
      BY MaxRecvall = 0, StepOnce
<1>3. OnceInv => DeliveredOnce
      BY DEF OnceInv
<1>. QED
     BY <1>1, <1>2, <1>3, LockInvariant, PTL DEF Spec

-----------------------------------------------------------------------------
(***************************************************************************)
(* CanTail: a generator next to any number of threads that file and take   *)
(* messages.                                                               *)
(*                                                                         *)
(* The generator keeps the list it found first, and lists change at their  *)
(* ends only: submitters append newer messages, readers pop older ones.    *)
(* So what stands at its index or beyond is newer than what it has         *)
(* yielded, and if nobody pops, its index says how far it has come.        *)
(*                                                                         *)
(* The parts of the invariant.                                             *)
(***************************************************************************)

\* The index of the next message.
Place == IF gpc = "msg" THEN idx + 1 ELSE idx

\* Once in its loop the generator has a list; without one it has seen and yielded nothing.
Found ==
  /\ gpc \in {"step", "none", "wait", "clear", "grow", "msg"} => handle # None
  /\ gpc \in {"new", "count", "limit"} \/ handle = None => yielded = <<>> /\ stop = 0

\* What has been yielded is older than what is still to come.
YieldedFirst ==
  /\ \A m \in Elements(yielded) : Older(m)
  /\ handle # None =>
       \A m \in Elements(yielded), j \in 1 .. Len(lists[handle]) :
         j > Place => Before(m, lists[handle][j])

ReadInv == ListsInv /\ GenTypeOK /\ Found /\ YieldedFirst /\ YieldsInOrder

Seen == IF handle = None THEN 0 ELSE Len(lists[handle])

\* Left alone, the generator stays within its list, ...
Inside ==
  Undisturbed => /\ stop <= Seen
                 /\ gpc = "step" /\ ~tail => idx < stop

\* ... and has yielded what stands before its place.
YieldedLast ==
  Undisturbed /\ yielded # <<>> =>
    /\ Len(yielded) <= Place /\ Place <= Seen
    /\ \A i \in 1 .. Len(yielded) : yielded[i] = lists[handle][Place - Len(yielded) + i]

WalkInv == ReadInv /\ CopyReturned /\ Inside /\ YieldedLast

\* A mailbox gets its event before its first message.
EventsMade ==
  /\ \A c \in Cmds : messages[c] = None => events[c] = "missing"
  /\ \A s \in Submitters :
       /\ pc[s] = "create" => messages[cmd[s]] = None
       /\ pc[s] = "event" => events[cmd[s]] = "missing"
       /\ pc[s] \in {"lock", "append", "notify"} => events[cmd[s]] # "missing"
  /\ \A c \in Cmds : messages[c] # None /\ events[c] = "missing" =>
       /\ lists[messages[c]] = <<>>
       /\ \E s \in Submitters : pc[s] = "event" /\ cmd[s] = c

\* The generator clears an event that exists, and its list is the mailbox.
Follows ==
  /\ gpc = "clear" => events[Source] # "missing"
  /\ recvalls = 0 /\ handle # None => handle = messages[Source]

\* Whoever has filed something that the generator has not seen sets the event.
WillWake ==
  gpc \in {"none", "wait"} /\ Undisturbed =>
    \/ stop = Len(lists[handle])
    \/ events[Source] = "set"
    \/ \E s \in Submitters : pc[s] = "notify" /\ cmd[s] = Source

WakeInv ==
  /\ WalkInv /\ EventsMade /\ Follows /\ WillWake /\ FailsOnlyAtFirstMessage

-----------------------------------------------------------------------------
(***************************************************************************)
(* What the threads and the generator do to one another.                   *)
(***************************************************************************)

\* The generator changes nothing of the mailboxes but an event.
EventsOnly ==
  /\ UNCHANGED <<lists, messages, queuelock, pc, cmd, mbox, copied, sent, got,
                 recvalls, raised>>
  /\ events' \in [Cmds -> {"missing", "clear", "set"}]

LEMMA GenKeeps ==
  ASSUME LockInv, GenStep \/ GenWaitTimeout
  PROVE  EventsOnly /\ (GenClear \/ events' = events)
<1>1. events \in [Cmds -> {"missing", "clear", "set"}]
      BY DEF LockInv, TypeOK
<1>2. CASE GenClear
      BY <1>1, <1>2 DEF GenClear, EventsOnly
<1>3. CASE UNCHANGED vars
      BY <1>1, <1>3 DEF vars, EventsOnly
<1>4. GenClear \/ UNCHANGED vars
      BY DEF GenStep, GenWaitTimeout, GenOpen, GenCount, GenLimit, GenLoop, GenReturn,
         GenMessage, GenAfterMessage, GenLen, GenAfterNone, GenWake, GenGrow
<1>. QED  BY <1>2, <1>3, <1>4 DEF vars

LEMMA EventsOnlyLists ==
  ASSUME ListsInv, EventsOnly
  PROVE  ListsInv'
<1>1. LockInv'
  <2>a. TypeOK
        BY DEF ListsInv, LockInv
  <2>b. /\ lists' = lists /\ messages' = messages /\ queuelock' = queuelock
        /\ pc' = pc /\ cmd' = cmd /\ mbox' = mbox /\ copied' = copied
        /\ sent' = sent /\ got' = got /\ recvalls' = recvalls /\ raised' = raised
        /\ events' \in [Cmds -> {"missing", "clear", "set"}]
        BY DEF EventsOnly
  <2>1. TypeOK'
        BY <2>a, <2>b DEF TypeOK
  <2>2. HandlesOK' /\ LockExclusive'
        BY DEF EventsOnly, ListsInv, LockInv, HandlesOK, LockExclusive, Holding
  <2>. QED  BY <2>1, <2>2 DEF LockInv
<1>2. ListsOwned'
      BY DEF EventsOnly, ListsInv, ListsOwned, Owned, Holding, Elements
<1>3. Newest' /\ AppendsToNewest'
      BY DEF EventsOnly, ListsInv, Newest, AppendsToNewest, Holding, Elements
<1>4. ListsOrdered'
      BY DEF EventsOnly, ListsInv, ListsOrdered, Ordered, Before, Elements, Older, Filing
<1>. QED  BY <1>1, <1>2, <1>3, <1>4 DEF ListsInv

\* What a submitter appends, and to which list.
Filed(s) == [cmd |-> cmd[s], src |-> s, seq |-> sent[s]]

AppendsTo(s, l) ==
  SubmitAppend(s) /\ mbox[s] = l /\ lists'[l] = Append(lists[l], Filed(s))

PopsFrom(r, l) ==
  RecvPop(r) /\ mbox[r] = l /\ lists[l] # <<>> /\ lists'[l] = Tail(lists[l])

\* Lists change at their ends only.
LEMMA ListChange ==
  ASSUME LockInv, [Next]_vars, NEW l \in 1 .. Len(lists)
  PROVE  /\ l \in 1 .. Len(lists') /\ lists[l] \in Seq(Message)
         /\ \/ lists'[l] = lists[l]
            \/ \E s \in Submitters : AppendsTo(s, l)
            \/ \E r \in Readers : PopsFrom(r, l)
<1> DEFINE G == /\ l \in 1 .. Len(lists')
                /\ \/ lists'[l] = lists[l]
                   \/ \E s \in Submitters : AppendsTo(s, l)
                   \/ \E r \in Readers : PopsFrom(r, l)
<1>a. /\ lists \in Seq(Seq(Message)) /\ Len(lists) \in Nat
      /\ lists[l] \in Seq(Message)
      BY DEF LockInv, TypeOK
<1>1. CASE lists' = lists
      BY <1>1, <1>a
<1>2. CASE lists' = Append(lists, <<>>)
      BY <1>2, <1>a
<1>3. ASSUME NEW s \in Submitters, SubmitAppend(s) PROVE G
  <2>1. /\ Len(lists') = Len(lists)
        /\ lists'[mbox[s]] = Append(lists[mbox[s]], Filed(s))
        /\ \A k \in 1 .. Len(lists) : k # mbox[s] => lists'[k] = lists[k]
        BY <1>3, AppendAddsOne DEF Filed
  <2>. QED  BY <1>3, <2>1 DEF AppendsTo
<1>4. ASSUME NEW r \in Readers, RecvPop(r), lists[mbox[r]] # <<>> PROVE G
  <2>1. Holding(r) /\ mbox[r] \in 1 .. Len(lists) /\ lists[mbox[r]] \in Seq(Message)
        BY <1>4, Handles DEF RecvPop, Goto, Holding, Threads
  <2>2. lists' = [lists EXCEPT ![mbox[r]] = Tail(lists[mbox[r]])]
        BY <1>4 DEF RecvPop
  <2>3. Tail(lists[mbox[r]]) \in Seq(Message)
        BY <1>4, <2>1
  <2>4. /\ Len(lists') = Len(lists)
        /\ lists'[mbox[r]] = Tail(lists[mbox[r]])
        /\ \A k \in 1 .. Len(lists) : k # mbox[r] => lists'[k] = lists[k]
        BY <1>a, <2>1, <2>2, <2>3, UpdateSeq
  <2>. QED  BY <1>4, <2>4 DEF PopsFrom
<1>. QED  BY <1>a, <1>1, <1>2, <1>3, <1>4, ListsMove

LEMMA FiledIsNewer ==
  ASSUME LockInv, NEW s \in Submitters, SubmitAppend(s), NEW m \in Message, Older(m)
  PROVE  Before(m, Filed(s))
<1>1. pc[s] = "append"
      BY DEF SubmitAppend, Goto
<1>. QED  BY <1>1 DEF Filed, Before, Older, Filing

-----------------------------------------------------------------------------
(***************************************************************************)
(* Nothing is yielded out of order.                                        *)
(***************************************************************************)

LEMMA InitRead == TailInit => ReadInv
<1> SUFFICES ASSUME TailInit PROVE ReadInv
    OBVIOUS
<1>1. ListsInv
      BY InitOrder DEF TailInit, OrderInv, ListsInv
<1>2. yielded = <<>> /\ lists = <<>> /\ gpc = "new" /\ idx = 0 /\ stop = 0
      BY DEF TailInit, Init, GenInit
<1>3. GenTypeOK
      BY <1>2 DEF TailInit, GenInit, GenTypeOK, GenPc, None
<1>4. Elements(yielded) = {} /\ Ordered(yielded)
      BY <1>2, ElementsEmpty, OrderedEmpty
<1>. QED  BY <1>1, <1>2, <1>3, <1>4 DEF ReadInv, Found, YieldedFirst, YieldsInOrder

\* Whatever the threads do to the list, the generator stays behind the messages to come.
LEMMA ThreadsRead ==
  ASSUME ReadInv, LockInv', [Next]_vars, UNCHANGED genVars
  PROVE  ReadInv'
<1>a. /\ LockInv /\ ListsOrdered /\ yielded \in Seq(Message) /\ handle \in 0 .. Len(lists)
      /\ Len(lists) \in Nat /\ Len(lists') \in Nat /\ idx \in Nat
      /\ UNCHANGED <<gpc, tail, handle, idx, stop, yielded>>
      BY LensAreNat DEF ReadInv, ListsInv, GenTypeOK, genVars
<1>1. ListsInv'
      BY StepLists DEF ReadInv
<1>2. handle # None => handle \in 1 .. Len(lists) /\ handle \in 1 .. Len(lists')
      BY <1>a, ListChange DEF None
<1>3. GenTypeOK'
      BY <1>a, <1>2 DEF ReadInv, GenTypeOK, None
<1>4. Found' /\ YieldsInOrder' /\ Place' = Place
      BY <1>a DEF ReadInv, Found, YieldsInOrder, Place, Ordered, Before
<1>5. \A m \in Elements(yielded) : m \in Message /\ Older(m)
      BY <1>a DEF Elements, ReadInv, YieldedFirst
<1>6. \A m \in Elements(yielded)' : Older(m)'
  <2> SUFFICES ASSUME NEW m \in Elements(yielded) PROVE Older(m)'
      BY <1>a DEF Elements
  <2>. QED  BY <1>a, <1>5, OlderMoves
<1>7. ASSUME handle # None, NEW m \in Elements(yielded), NEW j \in 1 .. Len(lists'[handle]),
             j > Place
      PROVE  Before(m, lists'[handle][j])
  <2>1. handle \in 1 .. Len(lists) /\ lists[handle] \in Seq(Message) /\ Place \in Nat
        BY <1>2, <1>7, <1>a, ListChange DEF Place
  <2>2. \A k \in 1 .. Len(lists[handle]) : k > Place => Before(m, lists[handle][k])
        BY <1>7 DEF ReadInv, YieldedFirst
  <2>3. CASE lists'[handle] = lists[handle]
        BY <1>7, <2>2, <2>3
  <2>4. ASSUME NEW s \in Submitters, AppendsTo(s, handle)
        PROVE  Before(m, lists'[handle][j])
    <3>1. Before(m, Filed(s)) /\ lists'[handle] = Append(lists[handle], Filed(s))
          BY <1>a, <1>5, <1>7, <2>4, FiledIsNewer DEF AppendsTo
    <3>2. Filed(s) \in Message
          BY <1>a, <2>4, AppendAddsOne DEF AppendsTo, Filed
    <3>3. \/ j \in 1 .. Len(lists[handle]) /\ lists'[handle][j] = lists[handle][j]
          \/ lists'[handle][j] = Filed(s)
          BY <1>7, <2>1, <3>1, <3>2, AppendProperties
    <3>. QED  BY <1>7, <2>2, <3>1, <3>3
  <2>5. ASSUME NEW r \in Readers, PopsFrom(r, handle)
        PROVE  Before(m, lists'[handle][j])
    <3>1. /\ j + 1 \in 1 .. Len(lists[handle]) /\ j + 1 > Place
          /\ lists'[handle][j] = lists[handle][j + 1]
          BY <1>7, <2>1, <2>5 DEF PopsFrom
    <3>. QED  BY <2>2, <3>1
  <2>. QED  BY <1>a, <2>1, <2>3, <2>4, <2>5, ListChange
<1>8. YieldedFirst'
  <2>1. Elements(yielded)' = Elements(yielded)
        BY <1>a DEF Elements
  <2>. QED  BY <1>4, <1>6, <1>7, <1>a, <2>1 DEF YieldedFirst, Place
<1>. QED  BY <1>1, <1>3, <1>4, <1>8 DEF ReadInv

\* A message is yielded that is newer than all before it and older than those behind it.
LEMMA MessageRead ==
  ASSUME ReadInv, ListsInv', lists' = lists, \A m \in Message : Older(m) => Older(m)',
         GenMessage
  PROVE  ReadInv'
<1>a. /\ ListsOrdered /\ yielded \in Seq(Message) /\ handle \in 1 .. Len(lists)
      /\ lists[handle] \in Seq(Message) /\ idx \in Nat /\ stop \in Nat /\ tail \in BOOLEAN
      /\ UNCHANGED <<tail, handle, idx, stop>>
  <2>1. handle # None /\ handle \in 0 .. Len(lists) /\ lists \in Seq(Seq(Message))
        BY DEF ReadInv, Found, GenMessage, GenTypeOK, ListsInv, LockInv, TypeOK
  <2>. QED  BY <2>1 DEF ReadInv, ListsInv, GenTypeOK, GenMessage, None
<1>b. gpc = "step" /\ Place = idx
      BY DEF GenMessage, Place
<1>1. CASE yielded' = yielded /\ gpc' = "failed"
  <2>1. GenTypeOK' /\ Found' /\ YieldsInOrder' /\ Place' = Place
        BY <1>1, <1>a, <1>b DEF ReadInv, GenTypeOK, GenPc, Found, YieldsInOrder, Ordered, Before, Place
  <2>2. \A m \in Elements(yielded) : m \in Message
        BY <1>a DEF Elements
  <2>3. Elements(yielded)' = Elements(yielded)
        BY <1>1 DEF Elements
  <2>4. YieldedFirst'
        BY <1>a, <2>1, <2>2, <2>3 DEF ReadInv, YieldedFirst
  <2>. QED  BY <2>1, <2>4 DEF ReadInv
<1>2. ASSUME idx < Len(lists[handle]), gpc' = "msg",
             yielded' = Append(yielded, lists[handle][idx + 1])
      PROVE  ReadInv'
  <2> DEFINE e == lists[handle][idx + 1]
  <2>1. /\ idx + 1 \in 1 .. Len(lists[handle]) /\ e \in Message /\ e \in Elements(lists[handle])
        BY <1>2, <1>a DEF Elements
  <2>2. Older(e) /\ Ordered(lists[handle])
        BY <1>a, <2>1 DEF ListsOrdered
  <2>3. \A m \in Elements(yielded) : m \in Message /\ Older(m) /\ Before(m, e)
    <3>1. \A m \in Elements(yielded) : m \in Message
          BY <1>a DEF Elements
    <3>. QED  BY <1>a, <1>b, <2>1, <3>1 DEF ReadInv, Found, YieldedFirst, None
  <2>4. \A j \in 1 .. Len(lists[handle]) : j > idx + 1 => Before(e, lists[handle][j])
        BY <2>1, <2>2 DEF Ordered
  <2>5. yielded' \in Seq(Message) /\ yielded' = Append(yielded, e) /\ Place' = idx + 1
        BY <1>2, <1>a, <2>1 DEF Place
  <2> HIDE DEF e
  <2>6. Elements(yielded)' = Elements(yielded) \cup {e}
        BY <1>a, <2>1, <2>5, ElementsAppend DEF Elements
  <2>7. YieldsInOrder'
    <3>1. Ordered(Append(yielded, e))
          BY <1>a, <2>1, <2>3, OrderedAppend DEF ReadInv, YieldsInOrder
    <3>. QED  BY <2>5, <3>1 DEF YieldsInOrder, Ordered, Before
  <2>8. \A m \in Elements(yielded)' : Older(m)'
        BY <2>1, <2>2, <2>3, <2>6
  <2>9. \A m \in Elements(yielded)', j \in 1 .. Len(lists[handle]) :
          j > idx + 1 => Before(m, lists[handle][j])
    <3>1. \A m \in Elements(yielded), j \in 1 .. Len(lists[handle]) :
            j > idx => Before(m, lists[handle][j])
          BY <1>a, <1>b DEF ReadInv, YieldedFirst, None
    <3>. QED  BY <1>a, <2>4, <2>6, <3>1
  <2>10. YieldedFirst'
        BY <1>a, <2>5, <2>8, <2>9 DEF YieldedFirst
  <2>11. GenTypeOK' /\ Found'
        BY <1>2, <1>a, <2>5 DEF GenTypeOK, GenPc, Found, None
  <2>. QED  BY <2>7, <2>10, <2>11 DEF ReadInv
<1>. QED  BY <1>1, <1>2 DEF GenMessage

LEMMA GenReads ==
  ASSUME ReadInv, GenStep \/ GenWaitTimeout
  PROVE  ReadInv'
<1>a. LockInv /\ EventsOnly
      BY GenKeeps DEF ReadInv, ListsInv
<1>b. /\ lists' = lists /\ messages' = messages /\ ListsInv'
      BY <1>a, EventsOnlyLists DEF ReadInv, EventsOnly
<1>c. \A m \in Message : Older(m) => Older(m)'
      BY <1>a DEF EventsOnly, Older, Filing
<1>d. /\ messages[Source] \in 0 .. Len(lists) /\ Len(lists) \in Nat
      /\ \A l \in 1 .. Len(lists) : Len(lists[l]) \in Nat
      BY <1>a, SourceAssumption DEF LockInv, TypeOK
<1>e. /\ gpc \in GenPc /\ tail \in BOOLEAN /\ handle \in 0 .. Len(lists)
      /\ idx \in Nat /\ stop \in Nat /\ yielded \in Seq(Message)
      BY DEF ReadInv, GenTypeOK
<1>1. CASE GenMessage
      BY <1>1, <1>b, <1>c, MessageRead
<1> DEFINE Quiet == /\ GenTypeOK' /\ Found' /\ yielded' = yielded
                    /\ yielded = <<>> \/ (handle' = handle /\ Place' = Place)
<1>2. ASSUME Quiet PROVE ReadInv'
  <2>1. /\ YieldsInOrder' /\ Elements(yielded)' = Elements(yielded)
        /\ \A m \in Elements(yielded) : m \in Message
        BY <1>2, <1>e DEF ReadInv, YieldsInOrder, Ordered, Before, Elements
  <2>2. YieldedFirst'
    <3>1. CASE yielded = <<>>
          BY <2>1, <3>1, ElementsEmpty DEF YieldedFirst
    <3>2. CASE handle' = handle /\ Place' = Place
          BY <1>b, <1>c, <2>1, <3>2 DEF YieldedFirst, ReadInv
    <3>. QED  BY <1>2, <3>1, <3>2
  <2>. QED  BY <1>2, <1>b, <2>1, <2>2 DEF ReadInv
<1> USE <1>b, <1>d, <1>e DEF ReadInv, GenTypeOK, Found, GenPc, Place, GenGoto, None
<1>3. ASSUME GenOpen PROVE Quiet
      BY <1>3 DEF GenOpen
<1>4. ASSUME GenCount PROVE Quiet
      BY <1>4 DEF GenCount
<1>5. ASSUME GenLimit PROVE Quiet
      BY <1>5 DEF GenLimit
<1>6. ASSUME GenLoop PROVE Quiet
      BY <1>6 DEF GenLoop
<1>7. ASSUME GenReturn PROVE Quiet
      BY <1>7 DEF GenReturn
<1>8. ASSUME GenAfterMessage PROVE Quiet
      BY <1>8 DEF GenAfterMessage
<1>9. ASSUME GenLen PROVE Quiet
      BY <1>9 DEF GenLen
<1>10. ASSUME GenAfterNone \/ GenWake \/ GenWaitTimeout PROVE Quiet
      BY <1>10 DEF GenAfterNone, GenWake, GenWaitTimeout
<1>11. ASSUME GenClear \/ GenGrow PROVE Quiet
      BY <1>11 DEF GenClear, GenGrow
<1> HIDE DEF Quiet
<1>. QED  BY <1>1, <1>2, <1>3, <1>4, <1>5, <1>6, <1>7, <1>8, <1>9, <1>10, <1>11 DEF GenStep

LEMMA StepRead == ReadInv /\ [TailNext]_tailVars => ReadInv'
<1> SUFFICES ASSUME ReadInv, [TailNext]_tailVars PROVE ReadInv'
    OBVIOUS
<1>1. CASE [Next]_vars /\ UNCHANGED genVars
  <2>1. LockInv'
        BY <1>1, StepLock DEF ReadInv, ListsInv
  <2>. QED  BY <1>1, <2>1, ThreadsRead
<1>2. CASE GenStep \/ GenWaitTimeout
      BY <1>2, GenReads
<1>. QED  BY <1>1, <1>2 DEF TailNext, tailVars

LEMMA ReadInvariant == TailSpec => []ReadInv
  BY InitRead, StepRead, PTL DEF TailSpec

\* The local variables of the generator keep their types; it never refers to a list that
\* has not been made.
THEOREM TailTypeCorrect == TailSpec => []GenTypeOK
<1>1. ReadInv => GenTypeOK
      BY DEF ReadInv
<1>. QED  BY <1>1, ReadInvariant, PTL

\* Whatever any number of threads file, take and replace, the generator repeats and
\* reorders nothing, though it reads without the lock.
THEOREM NeverGoesBack == TailSpec => []YieldsInOrder
<1>1. ReadInv => YieldsInOrder
      BY DEF ReadInv
<1>. QED  BY <1>1, ReadInvariant, PTL

-----------------------------------------------------------------------------
(***************************************************************************)
(* Nothing is left out, if nobody takes messages away.                     *)
(***************************************************************************)

\* Calls of recvall are counted.
LEMMA NoRecvallYet ==
  ASSUME LockInv, [Next]_vars, recvalls' = 0
  PROVE  recvalls = 0 /\ \A r \in Readers : ~RecvallReplace(r)
<1>a. recvalls \in Nat
      BY DEF LockInv, TypeOK
<1>1. \A r \in Readers : ~RecvallReplace(r)
  <2>1. \A r \in Readers : RecvallReplace(r) => recvalls' = recvalls + 1
        BY DEF RecvallReplace
  <2>2. recvalls' = 0 /\ recvalls + 1 # 0
        BY <1>a
  <2>. QED  BY <2>1, <2>2
<1>2. \A s \in Submitters : Submit(s) => recvalls' = recvalls
      BY DEF Submit, SubmitLookup, SubmitCreate, SubmitMakeEvent, SubmitAcquire,
         SubmitAppend, SubmitNotify
<1>3. \A r \in Readers : Read(r) => recvalls' = recvalls
      BY <1>1 DEF Read, RecvLookup, RecvCheck, RecvTimeout, RecvPop, RecvallLookup,
         RecvallCopy
<1>. QED  BY <1>1, <1>2, <1>3 DEF Next, vars

\* As long as nobody has taken anything, lists only grow.
LEMMA StaysUndisturbed ==
  ASSUME LockInv, CopyReturned, [Next]_vars, Undisturbed'
  PROVE  /\ Undisturbed
         /\ \A l \in 1 .. Len(lists) :
              lists'[l] = lists[l] \/ \E s \in Submitters : AppendsTo(s, l)
<1>a. /\ recvalls \in Nat /\ recvalls' = 0
      /\ \A r \in Readers : got'[r] = <<>>
      /\ \A r \in Readers : got[r] \in Seq(Message)
      /\ got \in [Readers -> Seq(Message)]
      BY DEF LockInv, TypeOK, Undisturbed
<1>1. recvalls = 0 /\ \A r \in Readers : ~RecvallReplace(r)
      BY <1>a, NoRecvallYet
<1>3. ASSUME NEW r \in Readers, RecvPop(r) PROVE lists[mbox[r]] = <<>>
  <2>1. SUFFICES ASSUME lists[mbox[r]] # <<>> PROVE FALSE
        OBVIOUS
  <2>2. got'[r] = Append(got[r], Head(lists[mbox[r]]))
        BY <1>3, <1>a, <2>1 DEF RecvPop
  <2>3. Holding(r) /\ lists[mbox[r]] \in Seq(Message)
        BY <1>3, Handles DEF RecvPop, Goto, Holding, Threads
  <2>4. Head(lists[mbox[r]]) \in Message
        BY <2>1, <2>3
  <2>. QED  BY <1>a, <2>2, <2>4, AppendProperties
<1>4. ASSUME NEW r \in Readers PROVE got[r] = <<>> /\ copied[r] = <<>>
  <2>1. CASE got'[r] = got[r] /\ (copied'[r] = copied[r] \/ pc[r] # "replace")
        BY <1>a, <2>1 DEF CopyReturned, Undisturbed
  <2>2. CASE Read(r)
    <3>1. got' = got
          BY <1>1, <1>3, <2>2 DEF Read, RecvLookup, RecvCheck, RecvTimeout, RecvPop,
             RecvallLookup, RecvallCopy
    <3>2. copied' = copied \/ pc[r] # "replace"
          BY <1>1, <2>2 DEF Read, RecvLookup, RecvCheck, RecvTimeout, RecvPop,
             RecvallLookup, RecvallCopy, Goto
    <3>. QED  BY <2>1, <3>1, <3>2
  <2>. QED  BY <2>1, <2>2, ReaderMoves
<1>5. \A l \in 1 .. Len(lists) :
        lists'[l] = lists[l] \/ \E s \in Submitters : AppendsTo(s, l)
      BY <1>3, ListChange DEF PopsFrom
<1>. QED  BY <1>1, <1>4, <1>5 DEF Undisturbed

LEMMA ThreadsWalk ==
  ASSUME WalkInv, LockInv', [Next]_vars, UNCHANGED genVars
  PROVE  CopyReturned' /\ Inside' /\ YieldedLast'
<1>a. /\ LockInv /\ CopyReturned /\ handle \in 0 .. Len(lists) /\ Len(lists) \in Nat
      /\ idx \in Nat /\ stop \in Nat /\ yielded \in Seq(Message)
      BY LensAreNat DEF WalkInv, ReadInv, ListsInv, GenTypeOK
<1>b. UNCHANGED <<gpc, tail, handle, idx, stop, yielded>>
      BY DEF genVars
<1>1. CopyReturned'
      BY <1>a, StepCopyReturned
<1>2. ASSUME Undisturbed'
      PROVE  /\ Undisturbed /\ Seen' \in Nat /\ Seen <= Seen' /\ Seen \in Nat
             /\ \A j \in 1 .. Seen : lists'[handle][j] = lists[handle][j]
  <2>1. /\ Undisturbed
        /\ \A l \in 1 .. Len(lists) :
              lists'[l] = lists[l] \/ \E s \in Submitters : AppendsTo(s, l)
        BY <1>2, <1>a, StaysUndisturbed
  <2>2. CASE handle = None
        BY <1>b, <2>1, <2>2 DEF Seen
  <2>3. CASE handle # None
    <3>1. handle \in 1 .. Len(lists) /\ lists[handle] \in Seq(Message)
          BY <1>a, <2>3, ListChange DEF None
    <3>2. \A s \in Submitters : SubmitAppend(s) => Filed(s) \in Message
          BY <1>a, AppendAddsOne DEF Filed
    <3>3. \/ lists'[handle] = lists[handle]
          \/ \E e \in Message : lists'[handle] = Append(lists[handle], e)
          BY <2>1, <3>1, <3>2 DEF AppendsTo
    <3>4. /\ Len(lists[handle]) <= Len(lists'[handle]) /\ Len(lists'[handle]) \in Nat
          /\ \A j \in 1 .. Len(lists[handle]) : lists'[handle][j] = lists[handle][j]
          BY <3>1, <3>3
    <3>. QED  BY <1>b, <2>1, <2>3, <3>1, <3>4 DEF Seen
  <2>. QED  BY <2>2, <2>3
<1>3. Inside'
      BY <1>a, <1>b, <1>2 DEF WalkInv, Inside
<1>4. YieldedLast'
  <2> SUFFICES ASSUME Undisturbed', yielded # <<>>
               PROVE  /\ Len(yielded) <= Place /\ Place <= Seen'
                      /\ \A i \in 1 .. Len(yielded) :
                           yielded[i] = lists'[handle][Place - Len(yielded) + i]
      BY <1>b DEF YieldedLast, Place
  <2>1. /\ Len(yielded) <= Place /\ Place <= Seen /\ Place \in Nat
        /\ \A i \in 1 .. Len(yielded) : yielded[i] = lists[handle][Place - Len(yielded) + i]
        BY <1>a, <1>2 DEF WalkInv, YieldedLast, Place
  <2>2. \A i \in 1 .. Len(yielded) : Place - Len(yielded) + i \in 1 .. Seen
        BY <1>a, <1>2, <2>1
  <2>. QED  BY <1>2, <2>1, <2>2
<1>. QED  BY <1>1, <1>3, <1>4

LEMMA MessageWalks ==
  ASSUME WalkInv, EventsOnly, GenMessage
  PROVE  Inside' /\ YieldedLast'
<1>a. /\ idx \in Nat /\ stop \in Nat /\ tail \in BOOLEAN /\ yielded \in Seq(Message)
      /\ handle \in 1 .. Len(lists) /\ lists[handle] \in Seq(Message)
  <2>1. handle # None /\ handle \in 0 .. Len(lists) /\ lists \in Seq(Seq(Message))
        BY DEF WalkInv, ReadInv, Found, GenMessage, GenTypeOK, ListsInv, LockInv, TypeOK
  <2>. QED  BY <2>1 DEF WalkInv, ReadInv, GenTypeOK, None
<1>b. /\ lists' = lists /\ handle' = handle /\ stop' = stop /\ idx' = idx /\ tail' = tail
      /\ Undisturbed' = Undisturbed /\ gpc = "step" /\ gpc' \in {"msg", "failed"}
      BY DEF GenMessage, EventsOnly, Undisturbed
<1>c. Seen = Len(lists[handle]) /\ Seen' = Seen
      BY <1>a, <1>b DEF Seen, None
<1>1. Inside'
      BY <1>b, <1>c DEF Inside, WalkInv
<1>2. ASSUME yielded' = yielded, gpc' = "failed" PROVE YieldedLast'
      BY <1>2, <1>b, <1>c DEF WalkInv, YieldedLast, Place
<1>3. ASSUME idx < Len(lists[handle]), gpc' = "msg",
             yielded' = Append(yielded, lists[handle][idx + 1]), Undisturbed
      PROVE  /\ Len(yielded') <= Place' /\ Place' <= Seen'
             /\ \A i \in 1 .. Len(yielded') :
                  yielded'[i] = lists'[handle'][Place' - Len(yielded') + i]
  <2>1. lists[handle][idx + 1] \in Message
        BY <1>3, <1>a
  <2>2. /\ Len(yielded') = Len(yielded) + 1
        /\ \A i \in 1 .. Len(yielded) : yielded'[i] = yielded[i]
        /\ yielded'[Len(yielded) + 1] = lists[handle][idx + 1]
        BY <1>3, <1>a, <2>1, AppendProperties
  <2>3. Place = idx /\ Place' = idx + 1
        BY <1>3, <1>b DEF Place
  <2>4. Len(yielded) <= idx
        BY <1>3, <1>a, <2>3 DEF WalkInv, YieldedLast
  <2>5. ASSUME NEW i \in 1 .. Len(yielded)
        PROVE  yielded'[i] = lists[handle][(idx + 1) - (Len(yielded) + 1) + i]
    <3>1. yielded # <<>>
          BY <2>5
    <3>2. yielded[i] = lists[handle][idx - Len(yielded) + i]
          BY <1>3, <2>3, <3>1 DEF WalkInv, YieldedLast
    <3>3. (idx + 1) - (Len(yielded) + 1) + i = idx - Len(yielded) + i
          BY <1>a
    <3>. QED  BY <2>2, <3>2, <3>3
  <2>6. (idx + 1) - (Len(yielded) + 1) + (Len(yielded) + 1) = idx + 1
        BY <1>a
  <2>7. \A i \in 1 .. Len(yielded) + 1 : i \in 1 .. Len(yielded) \/ i = Len(yielded) + 1
        BY <1>a
  <2>. QED  BY <1>3, <1>a, <1>b, <1>c, <2>2, <2>3, <2>4, <2>5, <2>6, <2>7
<1>4. YieldedLast'
      BY <1>2, <1>3, <1>b DEF GenMessage, YieldedLast
<1>. QED  BY <1>1, <1>4

LEMMA GenWalks ==
  ASSUME WalkInv, GenStep \/ GenWaitTimeout
  PROVE  CopyReturned' /\ Inside' /\ YieldedLast'
<1>a. LockInv /\ EventsOnly
      BY GenKeeps DEF WalkInv, ReadInv, ListsInv
<1>b. /\ lists' = lists /\ messages' = messages /\ Undisturbed' = Undisturbed
      /\ CopyReturned'
      BY <1>a DEF EventsOnly, Undisturbed, CopyReturned, WalkInv
<1>d. /\ messages[Source] \in 0 .. Len(lists) /\ Len(lists) \in Nat
      /\ \A l \in 1 .. Len(lists) : Len(lists[l]) \in Nat
      BY <1>a, SourceAssumption DEF LockInv, TypeOK
<1>e. /\ tail \in BOOLEAN /\ handle \in 0 .. Len(lists)
      /\ idx \in Nat /\ stop \in Nat /\ yielded \in Seq(Message)
      BY DEF WalkInv, ReadInv, GenTypeOK
<1>1. CASE GenMessage
      BY <1>1, <1>a, <1>b, MessageWalks
<1> DEFINE Quiet == /\ Inside' /\ yielded' = yielded
                    /\ yielded = <<>> \/ (handle' = handle /\ Place' = Place)
<1>2. ASSUME Quiet PROVE Inside' /\ YieldedLast'
      BY <1>2, <1>b DEF WalkInv, YieldedLast, Seen
<1> USE <1>b, <1>d, <1>e DEF WalkInv, ReadInv, Inside, Found, Seen, Place, GenGoto, None
<1>3. ASSUME GenOpen PROVE Quiet
      BY <1>3 DEF GenOpen
<1>4. ASSUME GenCount PROVE Quiet
      BY <1>4 DEF GenCount
<1>5. ASSUME GenLimit PROVE Quiet
      BY <1>5 DEF GenLimit
<1>6. ASSUME GenLoop PROVE Quiet
      BY <1>6 DEF GenLoop
<1>7. ASSUME GenReturn PROVE Quiet
      BY <1>7 DEF GenReturn
<1>8. ASSUME GenAfterMessage PROVE Quiet
      BY <1>8 DEF GenAfterMessage
<1>9. ASSUME GenLen PROVE Quiet
      BY <1>9 DEF GenLen
<1>10. ASSUME GenAfterNone \/ GenWake \/ GenWaitTimeout PROVE Quiet
      BY <1>10 DEF GenAfterNone, GenWake, GenWaitTimeout
<1>11. ASSUME GenClear \/ GenGrow PROVE Quiet
      BY <1>11 DEF GenClear, GenGrow
<1> HIDE DEF Quiet
<1>. QED  BY <1>1, <1>2, <1>3, <1>4, <1>5, <1>6, <1>7, <1>8, <1>9, <1>10, <1>11 DEF GenStep

LEMMA InitWalk == TailInit => WalkInv
<1> SUFFICES ASSUME TailInit PROVE WalkInv
    OBVIOUS
<1>1. ReadInv
      BY InitRead
<1>. QED
     BY <1>1 DEF TailInit, Init, GenInit, WalkInv, CopyReturned, Inside, YieldedLast, Seen

LEMMA StepWalk == WalkInv /\ [TailNext]_tailVars => WalkInv'
<1> SUFFICES ASSUME WalkInv, [TailNext]_tailVars PROVE WalkInv'
    OBVIOUS
<1>1. ReadInv'
      BY StepRead DEF WalkInv
<1>2. LockInv'
      BY <1>1 DEF ReadInv, ListsInv
<1>3. CopyReturned' /\ Inside' /\ YieldedLast'
      BY <1>2, ThreadsWalk, GenWalks DEF TailNext, tailVars
<1>. QED  BY <1>1, <1>3 DEF WalkInv

LEMMA WalkInvariant == TailSpec => []WalkInv
  BY InitWalk, StepWalk, PTL DEF TailSpec

\* No message stands in two places.
LEMMA NoRepeats ==
  ASSUME ListsInv, NEW k \in 1 .. Len(lists), NEW l \in 1 .. Len(lists),
         NEW i \in 1 .. Len(lists[k]), NEW j \in 1 .. Len(lists[l]),
         lists[k][i] = lists[l][j]
  PROVE  k = l /\ i = j
<1> DEFINE m == lists[k][i]
<1>1. /\ Len(lists) \in Nat /\ Len(lists[k]) \in Nat /\ Len(lists[l]) \in Nat
      /\ m \in Elements(lists[k]) /\ m \in Elements(lists[l])
      BY DEF ListsInv, LockInv, TypeOK, Elements
<1>2. m.seq \in Nat
      BY <1>1, ListsHoldMessages DEF ListsInv
<1>3. ~Before(m, m)
      BY <1>2 DEF Before
<1>4. k = l
  <2>1. ~(k < l) /\ ~(l < k)
        BY <1>1, <1>3 DEF ListsInv, ListsOrdered
  <2>. QED  BY <1>1, <2>1
<1>5. ~(i < j) /\ ~(j < i)
      BY <1>3, <1>4 DEF ListsInv, ListsOrdered, Ordered
<1>. QED  BY <1>1, <1>4, <1>5

\* As long as nobody takes messages away, the generator yields those of its list one after
\* the other, none skipped, however many threads file more of them.
THEOREM YieldsEverything == TailSpec => []YieldsConsecutively
<1>1. WalkInv => YieldsConsecutively
  <2> SUFFICES ASSUME WalkInv, Undisturbed, NEW i \in 1 .. Len(yielded) - 1,
                      NEW l \in 1 .. Len(lists), NEW j \in 1 .. Len(lists[l]) - 1,
                      lists[l][j] = yielded[i]
               PROVE  lists[l][j + 1] = yielded[i + 1]
      BY DEF YieldsConsecutively
  <2> DEFINE k == Place - Len(yielded) + i
  <2>1. /\ yielded \in Seq(Message) /\ yielded # <<>> /\ handle \in 0 .. Len(lists)
        /\ lists \in Seq(Seq(Message)) /\ idx \in Nat
        BY DEF WalkInv, ReadInv, ListsInv, LockInv, TypeOK, GenTypeOK
  <2>2. /\ Len(yielded) <= Place /\ Place <= Seen /\ Place \in Nat
        /\ \A n \in 1 .. Len(yielded) : yielded[n] = lists[handle][Place - Len(yielded) + n]
        BY <2>1 DEF WalkInv, YieldedLast, Place
  <2>3. handle \in 1 .. Len(lists) /\ Seen = Len(lists[handle]) /\ Len(lists[handle]) \in Nat
    <3>1. Len(yielded) \in Nat \ {0}
          BY <2>1
    <3>2. Seen # 0
          BY <2>2, <3>1 DEF Seen
    <3>. QED  BY <2>1, <3>2 DEF Seen, None
  <2>4. /\ k \in 1 .. Len(lists[handle]) /\ k + 1 = Place - Len(yielded) + (i + 1)
        /\ i \in 1 .. Len(yielded) /\ i + 1 \in 1 .. Len(yielded)
    <3>1. Len(yielded) \in Nat
          BY <2>1
    <3>2. Len(yielded) <= Place /\ Place <= Len(lists[handle]) /\ Place \in Nat
          BY <2>2, <2>3
    <3>3. \A n, p, e \in Nat : \A h \in 1 .. n - 1 : n <= p /\ p <= e =>
            /\ p - n + h \in 1 .. e /\ p - n + h + 1 = p - n + (h + 1)
            /\ h \in 1 .. n /\ h + 1 \in 1 .. n
          OBVIOUS
    <3>. QED  BY <2>3, <3>1, <3>2, <3>3
  <2>5. yielded[i] = lists[handle][k] /\ yielded[i + 1] = lists[handle][k + 1]
    <3>1. /\ yielded[i] = lists[handle][k]
          /\ yielded[i + 1] = lists[handle][Place - Len(yielded) + (i + 1)]
          BY <2>2, <2>4
    <3> HIDE DEF k
    <3>. QED  BY <2>4, <3>1
  <2>6. j \in 1 .. Len(lists[l])
        BY <2>1
  <2> HIDE DEF k
  <2>7. l = handle /\ j = k
        BY <2>3, <2>4, <2>5, <2>6, NoRepeats DEF WalkInv, ReadInv
  <2>. QED  BY <2>5, <2>7
<1>. QED  BY <1>1, WalkInvariant, PTL

-----------------------------------------------------------------------------
(***************************************************************************)
(* The wake-up, with one receive thread.                                   *)
(***************************************************************************)

\* The mailbox of a list that a thread holds exists.
LEMMA HeldExists ==
  ASSUME ListsInv, NEW t \in Threads, Holding(t)
  PROVE  messages[cmd[t]] # None
<1>1. mbox[t] \in Nat /\ mbox[t] # 0
      BY DEF ListsInv, LockInv, TypeOK, HandlesOK, None
<1>2. mbox[t] <= messages[cmd[t]]
      BY DEF ListsInv, Newest
<1>. QED  BY <1>1, <1>2 DEF None

LEMMA SubmitEvents ==
  ASSUME OneSubmitter, ListsInv, EventsMade, NEW s \in Submitters, Submit(s)
  PROVE  EventsMade'
<1>a. /\ lists \in Seq(Seq(Message)) /\ Len(lists) \in Nat
      /\ messages \in [Cmds -> 0 .. Len(lists)]
      /\ events \in [Cmds -> {"missing", "clear", "set"}]
      /\ pc \in [Threads -> SubmitPc \cup ReadPc] /\ cmd \in [Threads -> Cmds]
      /\ mbox \in [Threads -> 0 .. Len(lists)]
      /\ s \in Threads /\ cmd[s] \in Cmds
      BY DEF ListsInv, LockInv, TypeOK, Threads
<1>b. \A t \in Submitters : t = s
      BY DEF OneSubmitter
<1> USE <1>a, <1>b DEF EventsMade, Goto, None
<1>1. ASSUME NEW c \in Cmds, SubmitLookup(s, c) PROVE EventsMade'
  <2>1. messages[c] # 0 => events[c] # "missing"
        BY <1>1 DEF SubmitLookup
  <2>. QED  BY <1>1, <2>1 DEF SubmitLookup
<1>2. CASE SubmitCreate(s)
  <2>1. /\ \A l \in 1 .. Len(lists) : lists'[l] = lists[l]
        /\ lists'[Len(lists) + 1] = <<>>
        BY <1>2 DEF SubmitCreate
  <2>2. pc[s] = "create" /\ messages[cmd[s]] = None /\ events[cmd[s]] = "missing"
        BY <1>2 DEF SubmitCreate
  <2>3. /\ messages' = [messages EXCEPT ![cmd[s]] = Len(lists) + 1]
        /\ pc' = [pc EXCEPT ![s] = "event"] /\ UNCHANGED <<events, cmd>>
        BY <1>2 DEF SubmitCreate
  <2>4. \A c \in Cmds : c # cmd[s] => messages[c] = 0 \/ events[c] # "missing"
        BY <2>2
  <2>. QED  BY <2>1, <2>2, <2>3, <2>4
<1>3. CASE SubmitMakeEvent(s)
  <2>1. messages[cmd[s]] # None
        BY <1>3, HeldExists DEF SubmitMakeEvent, Holding
  <2>. QED  BY <1>3, <2>1 DEF SubmitMakeEvent
<1>4. CASE SubmitAcquire(s)
      BY <1>4 DEF SubmitAcquire
<1>5. CASE SubmitAppend(s)
  <2>1. \A c \in Cmds : messages[c] = 0 \/ events[c] # "missing"
        BY <1>5 DEF SubmitAppend
  <2>. QED  BY <1>5, <2>1 DEF SubmitAppend
<1>6. CASE SubmitNotify(s)
      BY <1>6 DEF SubmitNotify
<1>. QED  BY <1>1, <1>2, <1>3, <1>4, <1>5, <1>6 DEF Submit

LEMMA ReadEvents ==
  ASSUME ListsInv, EventsMade, NEW r \in Readers, Read(r)
  PROVE  EventsMade'
<1>a. /\ lists \in Seq(Seq(Message)) /\ Len(lists) \in Nat
      /\ messages \in [Cmds -> 0 .. Len(lists)]
      /\ pc \in [Threads -> SubmitPc \cup ReadPc] /\ cmd \in [Threads -> Cmds]
      /\ mbox \in [Threads -> 0 .. Len(lists)]
      /\ r \in Threads /\ cmd[r] \in Cmds
      BY DEF ListsInv, LockInv, TypeOK, Threads
<1>b. \A s \in Submitters : s # r /\ s \in Threads
      BY ThreadsAssumption DEF Threads
<1>c. \A s \in Submitters : pc'[s] = pc[s] /\ cmd'[s] = cmd[s]
      BY <1>a, <1>b DEF Read, RecvLookup, RecvCheck, RecvTimeout, RecvPop, RecvallLookup,
         RecvallCopy, RecvallReplace, Goto
<1>d. events' = events
      BY DEF Read, RecvLookup, RecvCheck, RecvTimeout, RecvPop, RecvallLookup,
         RecvallCopy, RecvallReplace
<1>1. CASE lists' = lists /\ messages' = messages
      BY <1>1, <1>c, <1>d DEF EventsMade
<1>2. CASE RecvPop(r) /\ lists[mbox[r]] # <<>>
  <2>1. /\ messages' = messages
        /\ \A l \in 1 .. Len(lists) : l # mbox[r] => lists'[l] = lists[l]
        BY <1>2, <1>a DEF RecvPop
  <2>2. \A c \in Cmds : messages[c] # None => messages[c] \in 1 .. Len(lists)
        BY <1>a DEF None
  <2>. QED  BY <1>2, <1>c, <1>d, <2>1, <2>2 DEF EventsMade
<1>3. CASE RecvallReplace(r)
  <2>1. /\ \A l \in 1 .. Len(lists) : lists'[l] = lists[l]
        /\ lists'[Len(lists) + 1] = <<>>
        /\ messages' = [messages EXCEPT ![cmd[r]] = Len(lists) + 1]
        BY <1>3, <1>a DEF RecvallReplace
  <2>2. messages[cmd[r]] # None
    <3>1. Holding(r)
          BY <1>3 DEF RecvallReplace, Goto, Holding
    <3>2. r \in Threads
          BY <1>a
    <3>. QED  BY <3>1, <3>2, HeldExists
  <2>3. \A c \in Cmds : messages[c] # None => messages[c] \in 1 .. Len(lists)
        BY <1>a DEF None
  <2>4. ASSUME NEW c \in Cmds
        PROVE  /\ messages'[c] = None <=> messages[c] = None
               /\ messages'[c] # None /\ lists[messages[c]] = <<>>
                    => lists'[messages'[c]] = <<>>
    <3>1. CASE c = cmd[r]
      <4>1. messages'[c] = Len(lists) + 1
            BY <1>a, <2>1, <3>1
      <4>2. Len(lists) + 1 # None
            BY <1>a DEF None
      <4>. QED  BY <2>1, <2>2, <3>1, <4>1, <4>2
    <3>2. CASE c # cmd[r]
      <4>1. messages'[c] = messages[c]
            BY <1>a, <2>1, <3>2
      <4>. QED  BY <2>1, <2>3, <4>1
    <3>. QED  BY <3>1, <3>2
  <2>5. \A s \in Submitters : cmd[s] \in Cmds
        BY <1>a, <1>b
  <2>. QED  BY <1>c, <1>d, <2>4, <2>5 DEF EventsMade
<1>. QED
     BY <1>1, <1>2, <1>3 DEF Read, RecvLookup, RecvCheck, RecvTimeout, RecvPop,
        RecvallLookup, RecvallCopy

\* Events stay once they are made.
LEMMA EventsStay ==
  ASSUME LockInv, [Next]_vars, NEW c \in Cmds, events[c] # "missing"
  PROVE  events'[c] # "missing"
<1>a. events \in [Cmds -> {"missing", "clear", "set"}] /\ cmd \in [Threads -> Cmds]
      BY DEF LockInv, TypeOK
<1>1. CASE events' = events
      BY <1>1
<1>2. ASSUME NEW s \in Submitters, SubmitMakeEvent(s) \/ SubmitNotify(s)
      PROVE  events'[c] # "missing"
      BY <1>2, <1>a DEF SubmitMakeEvent, SubmitNotify
<1>3. \/ events' = events
      \/ \E s \in Submitters : SubmitMakeEvent(s) \/ SubmitNotify(s)
      BY DEF Next, Submit, Read, SubmitLookup, SubmitCreate, SubmitAcquire, SubmitAppend,
         RecvLookup, RecvCheck, RecvTimeout, RecvPop, RecvallLookup, RecvallCopy,
         RecvallReplace, vars
<1>. QED  BY <1>1, <1>2, <1>3

\* A mailbox stays what it is until recvall replaces it.
LEMMA MailboxStays ==
  ASSUME LockInv, EventsMade, [Next]_vars, recvalls' = 0, NEW c \in Cmds, messages[c] # None
  PROVE  messages'[c] = messages[c]
<1>a. messages \in [Cmds -> 0 .. Len(lists)] /\ cmd \in [Threads -> Cmds]
      BY DEF LockInv, TypeOK
<1>1. ASSUME NEW s \in Submitters, SubmitCreate(s) PROVE messages'[c] = messages[c]
  <2>1. messages[cmd[s]] = None
        BY <1>1 DEF SubmitCreate, Goto, EventsMade
  <2>. QED  BY <1>1, <1>a, <2>1 DEF SubmitCreate
<1>2. \/ messages' = messages
      \/ \E s \in Submitters : SubmitCreate(s)
      BY NoRecvallYet DEF Next, Submit, Read, SubmitLookup, SubmitMakeEvent, SubmitAcquire,
         SubmitAppend, SubmitNotify, RecvLookup, RecvCheck, RecvTimeout, RecvPop,
         RecvallLookup, RecvallCopy, vars
<1>. QED  BY <1>1, <1>2

LEMMA StepEventsMade ==
  ASSUME OneSubmitter, WalkInv, EventsMade, Follows, [TailNext]_tailVars
  PROVE  EventsMade'
<1>a. ListsInv /\ LockInv /\ events \in [Cmds -> {"missing", "clear", "set"}]
      BY DEF WalkInv, ReadInv, ListsInv, LockInv, TypeOK
<1>1. CASE [Next]_vars
  <2>1. CASE UNCHANGED vars
        BY <2>1 DEF EventsMade, vars
  <2>. QED  BY <1>1, <1>a, <2>1, OneSubmitter, SubmitEvents, ReadEvents DEF Next
<1>2. CASE GenStep \/ GenWaitTimeout
  <2>1. EventsOnly /\ (GenClear \/ events' = events)
        BY <1>2, <1>a, GenKeeps
  <2>2. \A c \in Cmds : events'[c] = "missing" <=> events[c] = "missing"
        BY <1>a, <2>1 DEF GenClear, Follows, GenGoto
  <2>3. \A s \in Submitters : cmd[s] \in Cmds
        BY <1>a DEF LockInv, TypeOK, Threads
  <2>. QED  BY <2>1, <2>2, <2>3 DEF EventsMade, EventsOnly
<1>. QED  BY <1>1, <1>2 DEF TailNext, tailVars

LEMMA StepFollows ==
  ASSUME WalkInv, EventsMade, Follows, [TailNext]_tailVars
  PROVE  Follows'
<1>a. ListsInv /\ LockInv /\ Source \in Cmds
      BY SourceAssumption DEF WalkInv, ReadInv, ListsInv
<1>1. CASE [Next]_vars /\ UNCHANGED genVars
  <2>1. gpc' = gpc /\ handle' = handle
        BY <1>1 DEF genVars
  <2>2. gpc' = "clear" => events'[Source] # "missing"
        BY <1>1, <1>a, <2>1, EventsStay DEF Follows
  <2>3. ASSUME recvalls' = 0, handle # None PROVE handle = messages'[Source]
    <3>1. recvalls = 0
          BY <1>1, <1>a, <2>3, NoRecvallYet
    <3>2. handle = messages[Source]
          BY <2>3, <3>1 DEF Follows
    <3>. QED  BY <1>1, <1>a, <2>3, <3>2, MailboxStays
  <2>. QED  BY <2>1, <2>2, <2>3 DEF Follows
<1>2. CASE GenStep \/ GenWaitTimeout
  <2>1. EventsOnly /\ (GenClear \/ events' = events)
        BY <1>2, <1>a, GenKeeps
  <2>2. messages' = messages /\ recvalls' = recvalls
        BY <2>1 DEF EventsOnly
  <2>3. gpc' = "clear" => events'[Source] # "missing"
        BY <1>2, <2>1 DEF GenStep, GenWaitTimeout, GenOpen, GenCount, GenLimit, GenLoop,
           GenReturn, GenMessage, GenAfterMessage, GenLen, GenAfterNone, GenWake, GenClear,
           GenGrow, GenGoto
  <2>4. handle' = handle \/ (handle' = messages[Source] /\ (handle = None \/ gpc = "new"))
        BY <1>2 DEF GenStep, GenWaitTimeout, GenOpen, GenCount, GenLimit, GenLoop,
           GenReturn, GenMessage, GenAfterMessage, GenLen, GenAfterNone, GenWake, GenClear,
           GenGrow, GenGoto
  <2>. QED  BY <2>2, <2>3, <2>4 DEF Follows
<1>. QED  BY <1>1, <1>2 DEF TailNext, tailVars

\* Threads do not put the generator to sleep: who appends sets the event after it.
LEMMA ThreadsWake ==
  ASSUME WalkInv, EventsMade, Follows, WillWake, [Next]_vars, UNCHANGED genVars
  PROVE  WillWake'
<1>a. /\ ListsInv /\ LockInv /\ CopyReturned /\ Source \in Cmds
      /\ handle \in 0 .. Len(lists)
      BY SourceAssumption DEF WalkInv, ReadInv, ListsInv, GenTypeOK
<1>b. UNCHANGED <<gpc, tail, handle, idx, stop, yielded>>
      BY DEF genVars
<1>c. /\ events \in [Cmds -> {"missing", "clear", "set"}] /\ cmd \in [Threads -> Cmds]
      /\ pc \in [Threads -> SubmitPc \cup ReadPc]
      BY <1>a DEF LockInv, TypeOK
<1> SUFFICES ASSUME gpc \in {"none", "wait"}, Undisturbed'
             PROVE  \/ stop = Len(lists'[handle])
                    \/ events'[Source] = "set"
                    \/ \E s \in Submitters : pc'[s] = "notify" /\ cmd'[s] = Source
    BY <1>b DEF WillWake
<1>1. /\ Undisturbed
      /\ \A l \in 1 .. Len(lists) :
           lists'[l] = lists[l] \/ \E s \in Submitters : AppendsTo(s, l)
      BY <1>a, StaysUndisturbed
<1>2. handle # None /\ handle = messages[Source] /\ handle \in 1 .. Len(lists)
      BY <1>a, <1>1 DEF WalkInv, ReadInv, Found, Follows, Undisturbed, None
<1>3. ASSUME NEW s \in Submitters, AppendsTo(s, handle)
      PROVE  pc'[s] = "notify" /\ cmd'[s] = Source
  <2>1. s \in Threads /\ Holding(s) /\ mbox[s] = handle
        BY <1>3 DEF AppendsTo, SubmitAppend, Goto, Holding, Threads
  <2>2. cmd[s] = Source
        BY <1>2, <1>a, <2>1, OneMailbox DEF ListsInv
  <2>. QED  BY <1>3, <1>c, <2>1, <2>2 DEF AppendsTo, SubmitAppend, Goto
<1>4. CASE stop = Len(lists[handle])
      BY <1>1, <1>2, <1>3, <1>4
<1>5. CASE events[Source] = "set"
  <2>1. ASSUME NEW s \in Submitters, SubmitMakeEvent(s) PROVE events'[Source] = "set"
    <3>1. events[cmd[s]] = "missing"
          BY <2>1 DEF EventsMade, SubmitMakeEvent, Goto
    <3>. QED  BY <1>5, <1>c, <2>1, <3>1 DEF SubmitMakeEvent
  <2>2. ASSUME NEW s \in Submitters, SubmitNotify(s) PROVE events'[Source] = "set"
        BY <1>5, <1>a, <1>c, <2>2 DEF SubmitNotify
  <2>3. \/ events' = events
        \/ \E s \in Submitters : SubmitMakeEvent(s) \/ SubmitNotify(s)
        BY DEF Next, Submit, Read, SubmitLookup, SubmitCreate, SubmitAcquire, SubmitAppend,
           RecvLookup, RecvCheck, RecvTimeout, RecvPop, RecvallLookup, RecvallCopy,
           RecvallReplace, vars
  <2>. QED  BY <1>5, <2>1, <2>2, <2>3
<1>6. ASSUME NEW s \in Submitters, pc[s] = "notify", cmd[s] = Source
      PROVE  \/ events'[Source] = "set"
             \/ pc'[s] = "notify" /\ cmd'[s] = Source
  <2>1. CASE pc'[s] = pc[s] /\ cmd'[s] = cmd[s]
        BY <1>6, <2>1
  <2>2. CASE Submit(s)
    <3>1. SubmitNotify(s)
          BY <1>6, <2>2 DEF Submit, SubmitLookup, SubmitCreate, SubmitMakeEvent,
             SubmitAcquire, SubmitAppend, Goto
    <3>2. events[Source] # "missing"
          BY <1>6 DEF EventsMade
    <3>. QED  BY <1>6, <1>a, <1>c, <3>1, <3>2 DEF SubmitNotify
  <2>. QED  BY <1>a, <2>1, <2>2, SubmitterMoves
<1>. QED  BY <1>1, <1>4, <1>5, <1>6 DEF WillWake

LEMMA StepWillWake ==
  ASSUME WalkInv, EventsMade, Follows, WillWake, [TailNext]_tailVars
  PROVE  WillWake'
<1>1. CASE [Next]_vars /\ UNCHANGED genVars
      BY <1>1, ThreadsWake
<1>2. CASE GenStep \/ GenWaitTimeout
  <2>1. EventsOnly /\ (GenClear \/ events' = events)
        BY <1>2, GenKeeps DEF WalkInv, ReadInv, ListsInv
  <2>2. Undisturbed' = Undisturbed /\ lists' = lists /\ pc' = pc /\ cmd' = cmd
        BY <2>1 DEF EventsOnly, Undisturbed
  <2>3. gpc' \in {"none", "wait"} =>
          /\ handle' = handle /\ stop' = stop
          /\ \/ gpc = "step" /\ stop = Len(lists[handle])
             \/ gpc = "none" /\ events' = events
        BY <1>2, <2>1 DEF GenStep, GenWaitTimeout, GenOpen, GenCount, GenLimit, GenLoop,
           GenReturn, GenMessage, GenAfterMessage, GenLen, GenAfterNone, GenWake, GenClear,
           GenGrow, GenGoto
  <2>. QED  BY <2>2, <2>3 DEF WillWake
<1>. QED  BY <1>1, <1>2 DEF TailNext, tailVars

\* A list without its event is empty, and the generator within its list cannot read past it.
LEMMA StepFails ==
  ASSUME WalkInv, EventsMade, Follows, FailsOnlyAtFirstMessage, [TailNext]_tailVars
  PROVE  FailsOnlyAtFirstMessage'
<1>a. LockInv /\ CopyReturned
      BY DEF WalkInv, ReadInv, ListsInv
<1>1. CASE [Next]_vars /\ UNCHANGED genVars
      BY <1>1, <1>a, StaysUndisturbed DEF FailsOnlyAtFirstMessage, genVars
<1>2. CASE GenStep \/ GenWaitTimeout
  <2> SUFFICES ASSUME gpc' = "failed", Undisturbed' PROVE stop' = 0 /\ yielded' = <<>>
      BY DEF FailsOnlyAtFirstMessage
  <2>a. EventsOnly
        BY <1>2, <1>a, GenKeeps
  <2>b. Undisturbed
        BY <2>a DEF EventsOnly, Undisturbed
  <2>c. gpc \in {"step", "wait"} /\ (GenMessage \/ GenWake)
        BY <1>2 DEF GenStep, GenWaitTimeout, GenOpen, GenCount, GenLimit, GenLoop,
           GenReturn, GenMessage, GenAfterMessage, GenLen, GenAfterNone, GenWake, GenClear,
           GenGrow, GenGoto
  <2>d. /\ handle # None /\ handle \in 0 .. Len(lists) /\ lists \in Seq(Seq(Message))
        /\ idx \in Nat /\ stop \in Nat /\ tail \in BOOLEAN /\ yielded \in Seq(Message)
        BY <2>c DEF WalkInv, ReadInv, Found, GenTypeOK, ListsInv, LockInv, TypeOK
  <2>e. stop <= Len(lists[handle]) /\ Seen = Len(lists[handle])
        BY <2>b, <2>d DEF WalkInv, Inside, Seen
  <2>f. Len(lists[handle]) \in Nat
        BY <2>d DEF None
  <2>1. ~GenMessage
    <3> SUFFICES ASSUME GenMessage PROVE FALSE
        OBVIOUS
    <3>1. gpc = "step" /\ ~(tail /\ idx >= stop) /\ ~(idx < Len(lists[handle]))
          BY DEF GenMessage
    <3>2. ~tail => idx < stop
          BY <2>b, <3>1 DEF WalkInv, Inside
    <3>. QED  BY <2>d, <2>e, <2>f, <3>1, <3>2
  <2>2. GenWake /\ gpc = "wait" /\ events[Source] = "missing"
        BY <2>c, <2>1 DEF GenWake, GenGoto
  <2>3. lists[handle] = <<>>
    <3>1. handle = messages[Source]
          BY <2>b, <2>d DEF Follows, Undisturbed
    <3>. QED  BY <2>2, <2>d, <3>1, SourceAssumption DEF EventsMade
  <2>4. yielded = <<>>
    <3>1. yielded # <<>> => Len(yielded) <= Place /\ Place <= Seen
          BY <2>b DEF WalkInv, YieldedLast
    <3>2. Place \in Nat /\ Len(yielded) \in Nat /\ Seen = 0
          BY <2>d, <2>e, <2>3 DEF Place
    <3>. QED  BY <2>d, <3>1, <3>2
  <2>. QED  BY <2>2, <2>3, <2>4, <2>d, <2>e DEF GenWake
<1>. QED  BY <1>1, <1>2 DEF TailNext, tailVars

LEMMA InitWake == TailInit => WakeInv
<1> SUFFICES ASSUME TailInit PROVE WakeInv
    OBVIOUS
<1>1. WalkInv
      BY InitWalk
<1>2. /\ messages = [c \in Cmds |-> None] /\ events = [c \in Cmds |-> "missing"]
      /\ \A s \in Submitters : pc[s] = "idle"
      /\ gpc = "new" /\ handle = None
      BY DEF TailInit, Init, GenInit, Threads
<1>. QED
     BY <1>1, <1>2 DEF WakeInv, EventsMade, Follows, WillWake, FailsOnlyAtFirstMessage

LEMMA WakeInvariant == ASSUME OneSubmitter PROVE TailSpec => []WakeInv
<1>1. WakeInv /\ [TailNext]_tailVars => WakeInv'
  <2> SUFFICES ASSUME WakeInv, [TailNext]_tailVars PROVE WakeInv'
      OBVIOUS
  <2>1. WalkInv'
        BY StepWalk DEF WakeInv
  <2>2. EventsMade'
        BY OneSubmitter, StepEventsMade DEF WakeInv
  <2>. QED  BY <2>1, <2>2, StepFollows, StepWillWake, StepFails DEF WakeInv
<1>. QED  BY <1>1, InitWake, PTL DEF TailSpec

\* With one receive thread the wake-up is not lost: if the generator sleeps on a clear event
\* while nobody is about to set it, it has seen everything in its list.
THEOREM WakesUp == ASSUME OneSubmitter PROVE TailSpec => []NoLostWakeup
<1>1. WakeInv => NoLostWakeup
      BY DEF WakeInv, WillWake, NoLostWakeup, Awaited
<1>. QED  BY <1>1, WakeInvariant, PTL

\* With one receive thread, and nobody taking messages away, an exception ends the generator
\* before its first message or not at all.
THEOREM FailsBeforeTheFirst == ASSUME OneSubmitter PROVE TailSpec => []FailsOnlyAtFirstMessage
<1>1. WakeInv => FailsOnlyAtFirstMessage
      BY DEF WakeInv
<1>. QED  BY <1>1, WakeInvariant, PTL

=============================================================================
