---------------------------- MODULE MCSerialLink ----------------------------
(***************************************************************************)
(* Small instances of SerialLink: packets with and without an "@" (64) and *)
(* with a zero in the data, and a log message.                             *)
(***************************************************************************)
EXTENDS SerialLink

SomePackets == {<<1>>, <<2, 64>>, <<3, 64, 0, 7>>}
SomeLog == <<5, 6>>

=============================================================================
