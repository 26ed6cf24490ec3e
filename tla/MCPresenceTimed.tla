--------------------------- MODULE MCPresenceTimed ---------------------------
(***************************************************************************)
(* An instance of PresenceTimed: one user who opens a session on each node *)
(* one after the other, in ticks of 10 s.                                  *)
(***************************************************************************)
EXTENDS PresenceTimed

CONSTANTS n1, n2, b1, b2

MCOwner == [c \in Client |-> CHOOSE u \in User : TRUE]
MCHome == [c \in Client |-> IF c = b2 THEN n2 ELSE n1]

=============================================================================
