----------------------------- MODULE MCPresence -----------------------------
(***************************************************************************)
(* Instances of Presence: one user opens two connections on n1 and one on  *)
(* n2, overlapping as they like.                                           *)
(***************************************************************************)
EXTENDS Presence, TLC

CONSTANTS n1, n2, u1, a1, a2, a3

MCOwner == [c \in Client |-> u1]
MCHome == [c \in Client |-> IF c = a3 THEN n2 ELSE n1]

\* a1 and a2 have the same user and node, so they may be swapped.
MCSymmetry == Permutations({a1, a2})

=============================================================================
