----------------------------- MODULE MessageBox -----------------------------
(***************************************************************************)
(* What the mailboxes of CanInterface promise their users: a first-in      *)
(* first-out queue for each type of message, on which putting a message,   *)
(* taking the oldest one (recv) and taking all of them (recvall) are one   *)
(* step each.  A message that has been put is new, and is returned to at   *)
(* most one reader.                                                        *)
(***************************************************************************)
EXTENDS Naturals, Sequences

CONSTANTS
  Boxes,      \* the types of message
  Messages,   \* the messages, each with the field cmd: the box it is for
  Clients     \* the threads that take messages

VARIABLES
  queue,      \* the messages that wait in each box
  returned    \* what each client has taken, oldest first

abstractVars == <<queue, returned>>

Contents(q) == {q[i] : i \in 1 .. Len(q)}

BoxInit ==
  /\ queue = [b \in Boxes |-> <<>>]
  /\ returned = [k \in Clients |-> <<>>]

Put(m) ==
  /\ \A b \in Boxes : m \notin Contents(queue[b])
  /\ \A k \in Clients : m \notin Contents(returned[k])
  /\ queue' = [queue EXCEPT ![m.cmd] = Append(@, m)]
  /\ UNCHANGED returned

Take(k, b) ==
  /\ queue[b] # <<>>
  /\ returned' = [returned EXCEPT ![k] = Append(@, Head(queue[b]))]
  /\ queue' = [queue EXCEPT ![b] = Tail(@)]

TakeAll(k, b) ==
  /\ returned' = [returned EXCEPT ![k] = @ \o queue[b]]
  /\ queue' = [queue EXCEPT ![b] = <<>>]

BoxNext ==
  \/ \E m \in Messages : Put(m)
  \/ \E k \in Clients, b \in Boxes : Take(k, b) \/ TakeAll(k, b)

BoxSpec == BoxInit /\ [][BoxNext]_abstractVars

=============================================================================
