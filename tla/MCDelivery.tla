----------------------------- MODULE MCDelivery -----------------------------
(***************************************************************************)
(* Instances of Delivery: s writes from node n1 to r, whose sessions are   *)
(* r1 on n1 and r2 on n2.                                                  *)
(***************************************************************************)
EXTENDS Delivery

CONSTANTS n1, n2, s, r, s1, r1, r2

MCOwner == [c \in Client |-> IF c = s1 THEN s ELSE r]
MCHome == [c \in Client |-> IF c = r2 THEN n2 ELSE n1]
MCOneWay == {<<s, r>>}
MCBothWays == {<<s, r>>, <<r, s>>}

=============================================================================
