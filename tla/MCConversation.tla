---------------------------- MODULE MCConversation ----------------------------
(***************************************************************************)
(* Instances of Conversation: one session of each of the first two users.  *)
(***************************************************************************)
EXTENDS Conversation

CONSTANTS r1, r2, h1, h2, a, b

MCWho == [h \in Handler |-> IF h = h1 THEN 1 ELSE 2]

=============================================================================
