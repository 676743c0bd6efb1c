---------------------------- MODULE MCCanMailbox ----------------------------
(***************************************************************************)
(* Instances of CanMailbox for TLC; the .cfg files give the constants.     *)
(***************************************************************************)
EXTENDS CanMailbox

\* Who takes messages: one reader, with recv and recvall, or rivals that only call recv.
\* What else there is, rivals and recvall, is shown by MailboxLost and told in the README.
VARIABLE rivals

MCInit == Init /\ rivals \in BOOLEAN

Takers == IF rivals THEN Readers ELSE {CHOOSE r \in Readers : TRUE}

MCNext ==
  \/ \E s \in Submitters : Submit(s) /\ UNCHANGED rivals
  \/ \E r \in Takers : Read(r) /\ (rivals => pc'[r] # "copy") /\ UNCHANGED rivals

MCSpec == MCInit /\ [][MCNext]_<<vars, rivals>>

=============================================================================
