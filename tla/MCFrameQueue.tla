---------------------------- MODULE MCFrameQueue ----------------------------
(***************************************************************************)
(* Instances of FrameQueue for TLC: the queues of the firmware.            *)
(***************************************************************************)
EXTENDS FrameQueue

QueueFor(inLoop, peeks, interrupts) ==
  [loopEnqueues |-> inLoop, usesPeek |-> peeks, burst |-> interrupts]

\* Sniffed frames for the host, frames the man in the middle passes on, and
\* frames the host sends.
Received  == QueueFor(FALSE, FALSE, 1)
Forwarded == QueueFor(FALSE, TRUE, 1)
Sent      == QueueFor(TRUE, TRUE, 0)

\* Sniffed frames while the host sends as well: SendFrame records what it sends
\* in the queue that the interrupts fill.
Echoed == QueueFor(TRUE, FALSE, 1)

AllUses == {Received, Forwarded, Sent, Echoed,
            QueueFor(FALSE, FALSE, 2), QueueFor(TRUE, TRUE, 2)}
EchoedUse == {Echoed}

=============================================================================
