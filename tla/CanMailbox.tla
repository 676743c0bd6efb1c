----------------------------- MODULE CanMailbox -----------------------------
(***************************************************************************)
(* The mailboxes of CanInterface (cancatlib/__init__.py).                  *)
(*                                                                         *)
(* The receive thread (_rxtx) files every packet of the transceiver with   *)
(* _submitMessage; the threads of the user take messages out with recv and *)
(* recvall.  A mailbox is a Python list, reached through the dictionary    *)
(* self._messages; _queuelock protects the list but not the look-up of the *)
(* list in the dictionary, so that a thread may hold a reference to a list *)
(* that is no longer the mailbox.  The model keeps the lists as objects of *)
(* their own and every reference to them, and takes one step per access    *)
(* to shared state, as the interpreter's lock allows.                      *)
(***************************************************************************)
EXTENDS Naturals, Sequences, FiniteSets

CONSTANTS
  Submitters,   \* threads that call _submitMessage (receive threads)
  Readers,      \* threads that call recv, recvall and clearCanMsgs
  Cmds,         \* message types, one mailbox for each
  MaxMsgs,      \* bound: messages filed by each submitter
  MaxRecvall    \* bound: calls of recvall

ASSUME BoundsAssumption == MaxMsgs \in Nat /\ MaxRecvall \in Nat
ASSUME CmdsAssumption == Cmds # {}

Threads == Submitters \cup Readers

(***************************************************************************)
(* A message is named by the mailbox it is for, by its submitter and by a  *)
(* number that counts the submitter's messages.                            *)
(***************************************************************************)
Message == [cmd : Cmds, src : Submitters, seq : Nat]

None == 0                       \* no list: a missing key of self._messages
Free == "free"                  \* the state of _queuelock when nobody has it

ASSUME ThreadsAssumption == Submitters \cap Readers = {} /\ Free \notin Threads

VARIABLES
  lists,      \* the list objects, in the order of their creation
  messages,   \* self._messages: the list each mailbox is, or None
  events,     \* self._msg_events: "missing", "clear" or "set"
  queuelock,  \* the thread that has _queuelock, or Free
  pc,         \* what each thread does next
  cmd,        \* the argument cmd of the thread's call
  mbox,       \* the thread's local variable mbox
  copied,     \* recvall's local variable messages
  sent,       \* how many messages each submitter has filed
  got,        \* what each reader has been returned so far
  recvalls,   \* how many times recvall replaced a list
  raised      \* the readers whose pop found an empty list (IndexError)

vars == <<lists, messages, events, queuelock, pc, cmd, mbox, copied, sent,
          got, recvalls, raised>>

SubmitPc == {"idle", "create", "event", "lock", "append", "notify"}
ReadPc   == {"idle", "recv", "check", "pop", "copy", "replace"}

TypeOK ==
  /\ lists \in Seq(Seq(Message))
  /\ messages \in [Cmds -> 0 .. Len(lists)]
  /\ events \in [Cmds -> {"missing", "clear", "set"}]
  /\ queuelock \in Threads \cup {Free}
  /\ pc \in [Threads -> SubmitPc \cup ReadPc]
  /\ \A s \in Submitters : pc[s] \in SubmitPc
  /\ \A r \in Readers : pc[r] \in ReadPc
  /\ cmd \in [Threads -> Cmds]
  /\ mbox \in [Threads -> 0 .. Len(lists)]
  /\ copied \in [Readers -> Seq(Message)]
  /\ sent \in [Submitters -> Nat]
  /\ got \in [Readers -> Seq(Message)]
  /\ recvalls \in Nat
  /\ raised \in SUBSET Readers

\* A new interface.  One that has loaded a session file begins with mailboxes that have
\* messages and no event; that is left out.
Init ==
  /\ lists = <<>>
  /\ messages = [c \in Cmds |-> None]
  /\ events = [c \in Cmds |-> "missing"]
  /\ queuelock = Free
  /\ pc = [t \in Threads |-> "idle"]
  /\ cmd = [t \in Threads |-> CHOOSE c \in Cmds : TRUE]
  /\ mbox = [t \in Threads |-> None]
  /\ copied = [r \in Readers |-> <<>>]
  /\ sent = [s \in Submitters |-> 0]
  /\ got = [r \in Readers |-> <<>>]
  /\ recvalls = 0
  /\ raised = {}

Goto(t, from, to) ==
  /\ pc[t] = from
  /\ pc' = [pc EXCEPT ![t] = to]

Acquire(t) == queuelock = Free /\ queuelock' = t
Release(t) == queuelock = t /\ queuelock' = Free

-----------------------------------------------------------------------------
(***************************************************************************)
(* _submitMessage(cmd, tsmsg)                                              *)
(***************************************************************************)

\* Faulty variant: a new list whether or not the mailbox exists.
SubmitLookupAlwaysNew(s, c) ==
  /\ sent[s] < MaxMsgs
  /\ Goto(s, "idle", "create")
  /\ sent' = [sent EXCEPT ![s] = @ + 1]
  /\ cmd' = [cmd EXCEPT ![s] = c]
  /\ mbox' = [mbox EXCEPT ![s] = messages[c]]
  /\ UNCHANGED <<lists, messages, events, queuelock, copied, got, recvalls,
                 raised>>

\* mbox = self._messages.get(cmd), outside the lock.
SubmitLookup(s, c) ==
  /\ sent[s] < MaxMsgs
  /\ Goto(s, "idle", IF messages[c] = None THEN "create" ELSE "lock")
  /\ sent' = [sent EXCEPT ![s] = @ + 1]
  /\ cmd' = [cmd EXCEPT ![s] = c]
  /\ mbox' = [mbox EXCEPT ![s] = messages[c]]
  /\ UNCHANGED <<lists, messages, events, queuelock, copied, got, recvalls,
                 raised>>

\* Faulty variant: the mailbox is a list that was never made.
SubmitCreateNothing(s) ==
  /\ Goto(s, "create", "event")
  /\ messages' = [messages EXCEPT ![cmd[s]] = Len(lists) + 1]
  /\ mbox' = [mbox EXCEPT ![s] = Len(lists) + 1]
  /\ UNCHANGED <<lists, events, queuelock, cmd, copied, sent, got, recvalls,
                 raised>>

\* mbox = []; self._messages[cmd] = mbox: it replaces whatever is there now.
SubmitCreate(s) ==
  /\ Goto(s, "create", "event")
  /\ lists' = Append(lists, <<>>)
  /\ messages' = [messages EXCEPT ![cmd[s]] = Len(lists) + 1]
  /\ mbox' = [mbox EXCEPT ![s] = Len(lists) + 1]
  /\ UNCHANGED <<events, queuelock, cmd, copied, sent, got, recvalls, raised>>

SubmitMakeEvent(s) ==
  /\ Goto(s, "event", "lock")
  /\ events' = [events EXCEPT ![cmd[s]] = "clear"]
  /\ UNCHANGED <<lists, messages, queuelock, cmd, mbox, copied, sent, got,
                 recvalls, raised>>

SubmitAcquire(s) ==
  /\ Goto(s, "lock", "append")
  /\ Acquire(s)
  /\ UNCHANGED <<lists, messages, events, cmd, mbox, copied, sent, got,
                 recvalls, raised>>

\* mbox.append(tsmsg): to the list looked up before the lock was taken.
SubmitAppend(s) ==
  /\ Goto(s, "append", "notify")
  /\ lists' = [lists EXCEPT ![mbox[s]] =
                 Append(@, [cmd |-> cmd[s], src |-> s, seq |-> sent[s]])]
  /\ UNCHANGED <<messages, events, queuelock, cmd, mbox, copied, sent, got,
                 recvalls, raised>>

\* Faulty variant: the event is not set.
SubmitNotifyNobody(s) ==
  /\ Goto(s, "notify", "idle")
  /\ Release(s)
  /\ UNCHANGED <<lists, messages, events, cmd, mbox, copied, sent, got,
                 recvalls, raised>>

\* self._msg_events[cmd].set(), or the KeyError that is caught and logged
\* when another submitter has not created the event yet; then the release.
SubmitNotify(s) ==
  /\ Goto(s, "notify", "idle")
  /\ Release(s)
  /\ events' = IF events[cmd[s]] = "missing"
                 THEN events
                 ELSE [events EXCEPT ![cmd[s]] = "set"]
  /\ UNCHANGED <<lists, messages, cmd, mbox, copied, sent, got, recvalls,
                 raised>>

-----------------------------------------------------------------------------
(***************************************************************************)
(* recv(cmd, wait)                                                         *)
(***************************************************************************)

\* The call, or the next turn of its polling loop: mbox = self._messages.get(cmd).
RecvLookup(r, c) ==
  /\ \/ pc[r] = "idle"
     \/ pc[r] = "recv" /\ cmd[r] = c
  /\ pc' = [pc EXCEPT ![r] = "check"]
  /\ cmd' = [cmd EXCEPT ![r] = c]
  /\ mbox' = [mbox EXCEPT ![r] = messages[c]]
  /\ UNCHANGED <<lists, messages, events, queuelock, copied, sent, got,
                 recvalls, raised>>

\* mbox != None and len(mbox), still outside the lock.
RecvCheck(r) ==
  /\ Goto(r, "check", IF mbox[r] # None /\ lists[mbox[r]] # <<>>
                        THEN "pop" ELSE "recv")
  /\ UNCHANGED <<lists, messages, events, queuelock, cmd, mbox, copied, sent,
                 got, recvalls, raised>>

\* The wait is over: recv returns (None, None).
RecvTimeout(r) ==
  /\ Goto(r, "recv", "idle")
  /\ UNCHANGED <<lists, messages, events, queuelock, cmd, mbox, copied, sent,
                 got, recvalls, raised>>

\* Faulty variants: the newest message is taken; the message stays in the list.
RecvPopLast(r) ==
  /\ Goto(r, "pop", "idle")
  /\ queuelock = Free
  /\ LET q == lists[mbox[r]] IN
       IF q = <<>>
         THEN raised' = raised \cup {r} /\ UNCHANGED <<lists, got>>
         ELSE /\ got' = [got EXCEPT ![r] = Append(@, q[Len(q)])]
              /\ lists' = [lists EXCEPT ![mbox[r]] = SubSeq(q, 1, Len(q) - 1)]
              /\ UNCHANGED raised
  /\ UNCHANGED <<messages, events, queuelock, cmd, mbox, copied, sent,
                 recvalls>>

RecvPopKeeps(r) ==
  /\ Goto(r, "pop", "idle")
  /\ queuelock = Free
  /\ lists[mbox[r]] # <<>>
  /\ got' = [got EXCEPT ![r] = Append(@, Head(lists[mbox[r]]))]
  /\ UNCHANGED <<lists, messages, events, queuelock, cmd, mbox, copied, sent,
                 recvalls, raised>>

\* mbox.pop(0) with the lock held; on an empty list it raises IndexError,
\* and the lock is released all the same.
RecvPop(r) ==
  /\ Goto(r, "pop", "idle")
  /\ queuelock = Free
  /\ IF lists[mbox[r]] = <<>>
       THEN raised' = raised \cup {r} /\ UNCHANGED <<lists, got>>
       ELSE /\ got' = [got EXCEPT ![r] = Append(@, Head(lists[mbox[r]]))]
            /\ lists' = [lists EXCEPT ![mbox[r]] = Tail(@)]
            /\ UNCHANGED raised
  /\ UNCHANGED <<messages, events, queuelock, cmd, mbox, copied, sent,
                 recvalls>>

-----------------------------------------------------------------------------
(***************************************************************************)
(* recvall(cmd), which clearCanMsgs calls as well                          *)
(***************************************************************************)

RecvallLookup(r, c) ==
  /\ recvalls < MaxRecvall
  /\ messages[c] # None                  \* otherwise it returns []
  /\ Goto(r, "idle", "copy")
  /\ cmd' = [cmd EXCEPT ![r] = c]
  /\ mbox' = [mbox EXCEPT ![r] = messages[c]]
  /\ UNCHANGED <<lists, messages, events, queuelock, copied, sent, got,
                 recvalls, raised>>

\* Faulty variant: the lock is not waited for.
RecvallCopyUnlocked(r) ==
  /\ Goto(r, "copy", "replace")
  /\ queuelock' = r
  /\ copied' = [copied EXCEPT ![r] = lists[mbox[r]]]
  /\ UNCHANGED <<lists, messages, events, cmd, mbox, sent, got, recvalls,
                 raised>>

\* messages = list(mbox), under the lock.
RecvallCopy(r) ==
  /\ Goto(r, "copy", "replace")
  /\ Acquire(r)
  /\ copied' = [copied EXCEPT ![r] = lists[mbox[r]]]
  /\ UNCHANGED <<lists, messages, events, cmd, mbox, sent, got, recvalls,
                 raised>>

\* Faulty variant: the mailbox is not emptied.
RecvallReplaceNothing(r) ==
  /\ Goto(r, "replace", "idle")
  /\ Release(r)
  /\ got' = [got EXCEPT ![r] = @ \o copied[r]]
  /\ copied' = [copied EXCEPT ![r] = <<>>]
  /\ recvalls' = recvalls + 1
  /\ UNCHANGED <<lists, messages, events, cmd, mbox, sent, raised>>

\* self._messages[cmd] = [], under the lock.
RecvallReplace(r) ==
  /\ Goto(r, "replace", "idle")
  /\ Release(r)
  /\ lists' = Append(lists, <<>>)
  /\ messages' = [messages EXCEPT ![cmd[r]] = Len(lists) + 1]
  /\ got' = [got EXCEPT ![r] = @ \o copied[r]]
  /\ copied' = [copied EXCEPT ![r] = <<>>]
  /\ recvalls' = recvalls + 1
  /\ UNCHANGED <<events, cmd, mbox, sent, raised>>

-----------------------------------------------------------------------------

Submit(s) ==
  \/ \E c \in Cmds : SubmitLookup(s, c)
  \/ SubmitCreate(s)
  \/ SubmitMakeEvent(s)
  \/ SubmitAcquire(s)
  \/ SubmitAppend(s)
  \/ SubmitNotify(s)

Read(r) ==
  \/ \E c \in Cmds : RecvLookup(r, c)
  \/ RecvCheck(r)
  \/ RecvTimeout(r)
  \/ RecvPop(r)
  \/ \E c \in Cmds : RecvallLookup(r, c)
  \/ RecvallCopy(r)
  \/ RecvallReplace(r)

Next ==
  \/ \E s \in Submitters : Submit(s)
  \/ \E r \in Readers : Read(r)

Spec == Init /\ [][Next]_vars

-----------------------------------------------------------------------------
(***************************************************************************)
(* Properties.                                                             *)
(***************************************************************************)

\* The messages a sequence of messages holds.
Elements(q) == {q[i] : i \in 1 .. Len(q)}

Delivered == (UNION {Elements(got[r]) : r \in Readers})
                \cup (UNION {Elements(copied[r]) : r \in Readers})

\* What recv or recvall can still return: the lists that are mailboxes now.
Pending == UNION {Elements(lists[messages[c]]) : c \in {d \in Cmds : messages[d] # None}}

\* What was appended to a list that is no longer a mailbox.
Lost == (UNION {Elements(lists[l]) : l \in 1 .. Len(lists)}) \ (Delivered \cup Pending)

(***************************************************************************)
(* The messages of one submitter for one mailbox.                          *)
(***************************************************************************)
Before(m, n) == (m.cmd = n.cmd /\ m.src = n.src) => m.seq < n.seq

Ordered(q) == \A i, j \in 1 .. Len(q) : i < j => Before(q[i], q[j])

\* A reader is returned the messages of a submitter in the order in which they
\* were filed and none of them twice, by whatever mix of recv and recvall: what
\* every caller that waits for the next answer of the transceiver relies on.
DeliveredInOrder == \A r \in Readers : Ordered(got[r])

\* No message reaches two readers, nor one reader twice: recv and recvall both
\* "remove" what they return.
DeliveredOnce ==
  /\ \A r \in Readers : \A i, j \in 1 .. Len(got[r]) :
       i # j => got[r][i] # got[r][j]
  /\ \A r, q \in Readers : r # q => Elements(got[r]) \cap Elements(got[q]) = {}

\* A single receive thread loses at most one message for each recvall: the one
\* whose list was looked up before the call and is appended to after it.
LossBounded == Cardinality(Lost) <= recvalls * Cardinality(Submitters)

\* "*threadsafe*" (docstring of _submitMessage): a filed message stays in the
\* mailbox until it is returned to somebody.
NothingLost == Lost = {}

\* "removes a message from a mailbox and returns it" (docstring of recv): a reader that
\* has found a message in the mailbox gets one.  Two readers refute it.
NoIndexError == raised = {}

\* The lock protects appends and copies: while a thread has it, it is in the
\* locked part of its call, and no other thread is.
LockExclusive ==
  \A t \in Threads : pc[t] \in {"append", "notify", "replace"} <=> queuelock = t

-----------------------------------------------------------------------------
(***************************************************************************)
(* The mailboxes implement MessageBox: a box holds what is in the list     *)
(* that is the mailbox now.  A message that is lost was never put.         *)
(***************************************************************************)
Abstract == INSTANCE MessageBox WITH
  Boxes    <- Cmds,
  Messages <- [cmd : Cmds, src : Submitters, seq : 1 .. MaxMsgs],
  Clients  <- Readers,
  queue    <- [c \in Cmds |-> IF messages[c] = None THEN <<>>
                                ELSE lists[messages[c]]],
  returned <- got

\* With one reader, or with any number of them that only call recv, the calls
\* behave as if each were one step on a queue: no interleaving of look-ups,
\* checks, appends and pops shows.
ImplementsMessageBox == Abstract!BoxSpec

=============================================================================
