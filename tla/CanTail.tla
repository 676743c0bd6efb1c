------------------------------ MODULE CanTail ------------------------------
(***************************************************************************)
(* genCanMsgs (cancatlib/__init__.py): the generator behind CANsniff,      *)
(* filterCanMsgs and CANreplay, which walks over the mailbox of received   *)
(* CAN messages while the receive thread files more of them.  It keeps a   *)
(* reference to the list it found when it started, reads it without the    *)
(* lock, and in tail mode sleeps on the event that _submitMessage sets.    *)
(*                                                                         *)
(* One generator is run, on the mailbox Source, next to the threads of     *)
(* CanMailbox.                                                             *)
(***************************************************************************)
EXTENDS CanMailbox

CONSTANTS
  Source,     \* self._msg_source_idx
  Limited     \* whether maxsecs is given: the caller may find it over

ASSUME SourceAssumption == Source \in Cmds /\ Limited \in BOOLEAN

VARIABLES
  gpc,        \* what the generator does next
  tail,       \* its argument tail
  handle,     \* its local variable messages: a list, or None
  idx, stop,  \* its local variables of these names
  yielded     \* the messages it has yielded

genVars == <<gpc, tail, handle, idx, stop, yielded>>
tailVars == <<vars, genVars>>

\* "none" and "msg" are the two yields, "failed" an exception, "done" the end.
GenPc == {"new", "count", "limit", "loop", "step", "len", "none", "wait",
          "clear", "grow", "msg", "failed", "done"}

GenTypeOK ==
  /\ gpc \in GenPc
  /\ tail \in BOOLEAN
  /\ handle \in 0 .. Len(lists)
  /\ idx \in Nat /\ stop \in Nat
  /\ yielded \in Seq(Message)

GenInit ==
  /\ gpc = "new"
  /\ tail \in BOOLEAN
  /\ handle = None
  /\ idx = 0 /\ stop = 0
  /\ yielded = <<>>

GenGoto(from, to) == gpc = from /\ gpc' = to

\* messages = self.getCanMsgQueue(); start is 0 or None.
GenOpen ==
  /\ \E to \in {"count", "limit"} : GenGoto("new", to)
  /\ handle' = messages[Source]
  /\ UNCHANGED <<vars, tail, idx, stop, yielded>>

\* start = self.getCanMsgCount(), which looks the mailbox up again.
GenCount ==
  /\ GenGoto("count", "limit")
  /\ idx' = IF messages[Source] = None THEN 0 ELSE Len(lists[messages[Source]])
  /\ UNCHANGED <<vars, tail, handle, stop, yielded>>

\* Faulty variants: the last message is left out; one too many is counted in.
GenLimitExclusive ==
  /\ GenGoto("limit", "loop")
  /\ stop' = IF handle = None THEN 0 ELSE Len(lists[handle]) - 1
  /\ UNCHANGED <<vars, tail, handle, idx, yielded>>

GenLimitInclusive ==
  /\ GenGoto("limit", "loop")
  /\ stop' = IF handle = None THEN 0 ELSE Len(lists[handle]) + 1
  /\ UNCHANGED <<vars, tail, handle, idx, yielded>>

\* stop = 0 or len(messages).  The time stamp of the first message, from which maxsecs is
\* counted, is left out.
GenLimit ==
  /\ GenGoto("limit", "loop")
  /\ stop' = IF handle = None THEN 0 ELSE Len(lists[handle])
  /\ UNCHANGED <<vars, tail, handle, idx, yielded>>

\* while tail or idx < stop; then the look-up of a mailbox that was missing.
\* Without one, the loop spins here.
GenLoop ==
  /\ tail \/ idx < stop
  /\ handle' = IF handle = None THEN messages[Source] ELSE handle
  /\ GenGoto("loop", IF handle' = None THEN "loop" ELSE "step")
  /\ UNCHANGED <<vars, tail, idx, stop, yielded>>

\* The loop is left, or maxsecs is over.
GenReturn ==
  /\ ~(tail \/ idx < stop) \/ Limited
  /\ GenGoto("loop", "done")
  /\ UNCHANGED <<vars, tail, handle, idx, stop, yielded>>

\* ts, msg = messages[idx]; yield: an IndexError when the list has shrunk.
GenMessage ==
  /\ gpc = "step"
  /\ ~(tail /\ idx >= stop)
  /\ IF idx < Len(lists[handle])
       THEN /\ gpc' = "msg"
            /\ yielded' = Append(yielded, lists[handle][idx + 1])
       ELSE /\ gpc' = "failed"
            /\ UNCHANGED yielded
  /\ UNCHANGED <<vars, tail, handle, idx, stop>>

\* Faulty variants: the index is not moved on; it is moved on twice.
GenAfterMessageStays ==
  /\ GenGoto("msg", "loop")
  /\ UNCHANGED <<vars, tail, handle, idx, stop, yielded>>

GenAfterMessageTwice ==
  /\ GenGoto("msg", "loop")
  /\ idx' = idx + 2
  /\ UNCHANGED <<vars, tail, handle, stop, yielded>>

\* The caller asks for the next message.
GenAfterMessage ==
  /\ GenGoto("msg", "loop")
  /\ idx' = idx + 1
  /\ UNCHANGED <<vars, tail, handle, stop, yielded>>

\* stop == len(messages): nothing new, None is yielded.
GenLen ==
  /\ gpc = "step"
  /\ tail /\ idx >= stop
  /\ gpc' = IF stop = Len(lists[handle]) THEN "none" ELSE "grow"
  /\ UNCHANGED <<vars, tail, handle, idx, stop, yielded>>

GenAfterNone ==
  /\ GenGoto("none", "wait")
  /\ UNCHANGED <<vars, tail, handle, idx, stop, yielded>>

\* The event is set, or there is none yet (KeyError).
GenWake ==
  /\ events[Source] # "clear"
  /\ GenGoto("wait", IF events[Source] = "missing" THEN "failed" ELSE "clear")
  /\ UNCHANGED <<vars, tail, handle, idx, stop, yielded>>

\* wait(1) gives up after a second.
GenWaitTimeout ==
  /\ events[Source] = "clear"
  /\ GenGoto("wait", "clear")
  /\ UNCHANGED <<vars, tail, handle, idx, stop, yielded>>

GenClear ==
  /\ GenGoto("clear", "grow")
  /\ events' = [events EXCEPT ![Source] = "clear"]
  /\ UNCHANGED <<lists, messages, queuelock, pc, cmd, mbox, copied, sent, got,
                 recvalls, raised, tail, handle, idx, stop, yielded>>

\* stop = len(messages)
GenGrow ==
  /\ GenGoto("grow", "loop")
  /\ stop' = Len(lists[handle])
  /\ UNCHANGED <<vars, tail, handle, idx, yielded>>

GenStep ==
  \/ GenOpen \/ GenCount \/ GenLimit \/ GenLoop \/ GenReturn
  \/ GenMessage \/ GenAfterMessage
  \/ GenLen \/ GenAfterNone \/ GenWake \/ GenClear \/ GenGrow

TailNext ==
  \/ Next /\ UNCHANGED genVars
  \/ GenStep
  \/ GenWaitTimeout

TailInit == Init /\ GenInit

TailSpec == TailInit /\ [][TailNext]_tailVars

(***************************************************************************)
(* The interpreter runs every thread again and again, and the caller of    *)
(* the generator keeps asking.  Nothing is assumed of GenWaitTimeout.      *)
(***************************************************************************)
TailFairSpec ==
  /\ TailSpec
  /\ WF_tailVars(GenStep)
  /\ \A s \in Submitters :
       WF_tailVars((SubmitCreate(s) \/ SubmitMakeEvent(s) \/ SubmitAcquire(s)
                      \/ SubmitAppend(s) \/ SubmitNotify(s)) /\ UNCHANGED genVars)

-----------------------------------------------------------------------------

\* Nobody has taken messages out of the mailbox, or is about to.
Undisturbed ==
  /\ recvalls = 0
  /\ \A r \in Readers : got[r] = <<>> /\ copied[r] = <<>>

Awaited == /\ gpc = "wait"
           /\ events[Source] = "clear"
           /\ \A s \in Submitters :
                cmd[s] = Source => pc[s] # "notify"

\* The wake-up is not lost: a generator that sleeps on a clear event has seen
\* every message of its list whose submitter is through with the event.
NoLostWakeup == Awaited /\ Undisturbed => stop = Len(lists[handle])

\* The generator yields the messages of its mailbox one after the other, none
\* skipped and none twice, however the receive thread interferes.
YieldsConsecutively ==
  Undisturbed =>
    \A i \in 1 .. Len(yielded) - 1 :
      \A l \in 1 .. Len(lists) : \A j \in 1 .. Len(lists[l]) - 1 :
        lists[l][j] = yielded[i] => lists[l][j + 1] = yielded[i + 1]

\* Even when somebody takes messages out of the list with recv or recvall, the
\* generator never goes back: it skips, but repeats and reorders nothing.
YieldsInOrder == Ordered(yielded)

\* Left alone, only a generator that was started before the first message can
\* fail, when it finds the list without its event.
FailsOnlyAtFirstMessage ==
  gpc = "failed" /\ Undisturbed => stop = 0 /\ yielded = <<>>

\* In tail mode every message filed after the start is yielded in the end,
\* unless the generator failed, without help of the one second time-out.
EverythingYielded ==
  \A s \in Submitters : \A n \in 1 .. MaxMsgs :
    (tail /\ gpc \notin {"new", "count"} /\ pc[s] = "append" /\ cmd[s] = Source
       /\ sent[s] = n)
      ~> (\/ gpc = "failed" \/ ~Undisturbed
          \/ [cmd |-> Source, src |-> s, seq |-> n] \in Elements(yielded))

=============================================================================
