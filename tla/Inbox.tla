-------------------------------- MODULE Inbox --------------------------------
(***************************************************************************)
(* What the messaging service promises, without connections, nodes, queues *)
(* or Redis: a store of messages, for every user the messages the user's   *)
(* devices have seen, and for every user and partner the high-water mark   *)
(* conversation_members.last_read_msg_id.                                  *)
(*                                                                         *)
(* A message is seen only by its two parties and only after it is stored,  *)
(* it may be seen again, nobody else's mark moves, and a mark moves only   *)
(* upwards, to a message of that conversation that its user saw or sent.   *)
(***************************************************************************)
EXTENDS Integers, Sequences

CONSTANTS User, MaxMsgs

VARIABLES
    msgs,   \* msgs[i]: the message with id i, a record with from and to
    seen,   \* seen[u]: ids that reached a device of u
    mark    \* mark[u][v]: last_read_msg_id of u in the conversation with v

vars == <<msgs, seen, mark>>

Message == [from : User, to : User]

\* The other party of a message of user u.
Partner(u, m) == IF m.from = u THEN m.to ELSE m.from

TypeOK ==
    /\ msgs \in Seq(Message)
    /\ seen \in [User -> SUBSET (1 .. MaxMsgs)]
    /\ mark \in [User -> [User -> 0 .. MaxMsgs]]

Init ==
    /\ msgs = <<>>
    /\ seen = [u \in User |-> {}]
    /\ mark = [u \in User |-> [v \in User |-> 0]]

Store(m) ==
    /\ Len(msgs) < MaxMsgs
    /\ msgs' = Append(msgs, m)
    /\ UNCHANGED <<seen, mark>>

See(u, i) ==
    /\ u \in {msgs[i].from, msgs[i].to}
    /\ seen' = [seen EXCEPT ![u] = @ \cup {i}]
    /\ UNCHANGED <<msgs, mark>>

Mark(u, i) ==
    LET v == Partner(u, msgs[i]) IN
    /\ msgs[i].from = u \/ i \in seen[u]
    /\ mark[u][v] < i
    /\ mark' = [mark EXCEPT ![u][v] = i]
    /\ UNCHANGED <<msgs, seen>>

Next ==
    \/ \E m \in Message : Store(m)
    \/ \E u \in User, i \in 1 .. Len(msgs) : See(u, i) \/ Mark(u, i)

Spec == Init /\ [][Next]_vars

=============================================================================
