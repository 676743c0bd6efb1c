-------------------------- MODULE MCJ1939Transport --------------------------
(***************************************************************************)
(* Instances of J1939Transport for TLC.                                    *)
(***************************************************************************)
EXTENDS J1939Transport

CONSTANTS a, me, all

\* Transfers from a station to us and to everybody, and from us to the station.
SomeFlows == {<<a, me>>, <<a, all>>, <<me, a>>}
SmallFlows == {<<a, all>>, <<me, a>>}

=============================================================================
