---------------------------- MODULE MCConvUpdate ----------------------------
(***************************************************************************)
(* Instances of ConvUpdate: one handler on each of two nodes.              *)
(***************************************************************************)
EXTENDS ConvUpdate

CONSTANTS n1, n2, h1, h2

MCAt == [h \in Handler |-> IF h = h1 THEN n1 ELSE n2]

=============================================================================
