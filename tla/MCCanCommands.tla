--------------------------- MODULE MCCanCommands ---------------------------
(***************************************************************************)
(* Instances of CanCommands for TLC.                                       *)
(***************************************************************************)
EXTENDS CanCommands

CONSTANTS main, tester

\* One thread transmits and sets the baud rate while another pings and sets it too.
Shares == [c \in Callers |->
             IF c = main THEN [send |-> 2, ping |-> 0, baud |-> 1]
                         ELSE [send |-> 0, ping |-> 1, baud |-> 1]]

=============================================================================
