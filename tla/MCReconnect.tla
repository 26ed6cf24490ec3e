---------------------------- MODULE MCReconnect ----------------------------
(***************************************************************************)
(* Instances of Reconnect: one node with one handler.                      *)
(***************************************************************************)
EXTENDS Reconnect

CONSTANTS n1, h1

MCAt == [h \in Handler |-> n1]

=============================================================================
