------------------------------ MODULE ConvUpdate ------------------------------
(***************************************************************************)
(* internal/mq: how a stored message becomes the last message of its       *)
(* conversation.  handleChatMsg publishes it to q.conversation.update and  *)
(* waits for the broker's confirm, retries, and in the end updates MySQL   *)
(* itself; one consumer per node updates MySQL, acknowledges, or sends the *)
(* message to the dead letter queue.                                       *)
(*                                                                         *)
(* One conversation; the connection of a node to the broker may break at   *)
(* any point, which loses what is on the wire and requeues what the node   *)
(* has not acknowledged.  How a node reconnects is what Reconnect adds.    *)
(***************************************************************************)
EXTENDS Integers, Sequences, FiniteSets

CONSTANTS
    Node,         \* server instances
    Handler,      \* ListenMsg goroutines, each handling one message at a time
    At,           \* At[h]: the node of handler h
    MaxRetries,   \* publisher.go:78, 3 in the code
    MaxMsgs,      \* bound on the messages stored
    MaxBreaks,    \* bound on how often a connection breaks
    DBMayFail,    \* whether an UPDATE may return an error
    MayNack       \* whether the broker may refuse a publish

ASSUME ConvUpdateAssumption ==
    /\ At \in [Handler -> Node]
    /\ MaxRetries \in Nat \ {0} /\ MaxMsgs \in Nat /\ MaxBreaks \in Nat
    /\ DBMayFail \in BOOLEAN /\ MayNack \in BOOLEAN

VARIABLES
    stored,     \* number of messages in the table, their ids are 1 .. stored
    pub,        \* pub[h]: where PublishWithFallback of h stands
    wire,       \* wire[n]: publishes of n the broker has not handled
    queue,      \* ids in q.conversation.update, ready for a consumer
    prefetch,   \* prefetch[n]: ids delivered to n, not yet taken
    work,       \* work[n]: the delivery the consumer of n is handling
    late,       \* late[n]: ids a consumer of n still applies after a break
    dlq,        \* ids in q.conversation.update.dlq
    link,       \* link[n]: whether n is connected to the broker
    breaks,     \* connections broken so far
    row,        \* conversations.last_msg_id, 0 for NULL
    applied,    \* history: ids that were written to the row
    failed      \* history: ids whose update returned an error, only logged

convVars == <<stored, pub, wire, queue, prefetch, work, late, dlq, link,
              breaks, row, applied, failed>>

Id == 1 .. MaxMsgs

\* waiting: to publish, or sleeping before a retry.  confirming: published,
\* with publishMu held.  acked, nacked: the confirm has arrived.  fallback:
\* about to update MySQL itself.
Pub == [step : {"idle"}]
       \cup [step : {"waiting", "confirming", "acked", "nacked", "fallback"},
             id : Id, attempt : 1 .. MaxRetries]
Quiet == [step |-> "idle"]

\* got: taken.  done: UPDATE succeeded.  refused: it did not.
Work == [step : {"idle"}] \cup [step : {"got", "done", "refused"}, id : Id]

ConvTypeOK ==
    /\ stored \in 0 .. MaxMsgs
    /\ pub \in [Handler -> Pub]
    /\ wire \in [Node -> Seq([by : Handler, id : Id, attempt : 1 .. MaxRetries])]
    /\ queue \in Seq(Id)
    /\ prefetch \in [Node -> Seq(Id)]
    /\ work \in [Node -> Work]
    /\ late \in [Node -> SUBSET Id]
    /\ dlq \subseteq Id
    /\ link \in [Node -> BOOLEAN]
    /\ breaks \in 0 .. MaxBreaks
    /\ row \in 0 .. MaxMsgs
    /\ applied \subseteq Id /\ failed \subseteq Id

ConvInit ==
    /\ stored = 0 /\ breaks = 0 /\ row = 0
    /\ pub = [h \in Handler |-> Quiet]
    /\ wire = [n \in Node |-> <<>>]
    /\ prefetch = [n \in Node |-> <<>>]
    /\ work = [n \in Node |-> Quiet]
    /\ late = [n \in Node |-> {}]
    /\ link = [n \in Node |-> TRUE]
    /\ queue = <<>>
    /\ dlq = {} /\ applied = {} /\ failed = {}

-----------------------------------------------------------------------------
(* UpdateConversation: MySQL counts changed rows, so writing what is there *)
(* already affects none, which the code reports as an error.  Slip: to     *)
(* refuse older messages than the one that is there.                       *)

UpdateOK(i) ==
    /\ row # i
    /\ row' = i /\ applied' = applied \cup {i}
UpdateErrIfNewer(i) ==
    /\ row >= i \/ DBMayFail
    /\ UNCHANGED <<row, applied>>
UpdateErr(i) ==
    /\ row = i \/ DBMayFail
    /\ UNCHANGED <<row, applied>>

-----------------------------------------------------------------------------
(* PublishWithFallback.                                                    *)

\* CreateMessage, then PublishWithFallback begins.
StoreMessage(h) ==
    /\ pub[h].step = "idle" /\ stored < MaxMsgs
    /\ stored' = stored + 1
    /\ pub' = [pub EXCEPT ![h] = [step |-> "waiting", id |-> stored + 1, attempt |-> 1]]
    /\ UNCHANGED <<wire, queue, prefetch, work, late, dlq, link, breaks, row, applied, failed>>

\* publishMu is held from the publish to the confirm.
MutexFree(n) ==
    \A h \in Handler : At[h] = n => pub[h].step \notin {"confirming", "acked", "nacked"}

\* PublishWithDeferredConfirm.
Publish(h) ==
    /\ pub[h].step = "waiting" /\ MutexFree(At[h]) /\ link[At[h]]
    /\ wire' = [wire EXCEPT ![At[h]] =
                   Append(@, [by |-> h, id |-> pub[h].id, attempt |-> pub[h].attempt])]
    /\ pub' = [pub EXCEPT ![h].step = "confirming"]
    /\ UNCHANGED <<stored, queue, prefetch, work, late, dlq, link, breaks, row, applied, failed>>

\* An attempt ends without a confirm: the channel is closed, or the five
\* seconds are over.  The broker may still get the message, or has it already.
\* Slips: one attempt too many, and to give up on the message once the last
\* attempt has failed.
NextAttemptOnceMore(p) ==
    IF p.attempt <= MaxRetries THEN [p EXCEPT !.step = "waiting", !.attempt = @ + 1]
                               ELSE [p EXCEPT !.step = "fallback"]
NextAttemptGivesUp(p) ==
    IF p.attempt < MaxRetries THEN [p EXCEPT !.step = "waiting", !.attempt = @ + 1] ELSE Quiet
NextAttempt(p) ==
    IF p.attempt < MaxRetries THEN [p EXCEPT !.step = "waiting", !.attempt = @ + 1]
                              ELSE [p EXCEPT !.step = "fallback"]
AttemptFails(h) ==
    /\ \/ pub[h].step = "waiting" /\ MutexFree(At[h]) /\ ~link[At[h]]
       \/ pub[h].step \in {"confirming", "acked", "nacked"}
    /\ pub' = [pub EXCEPT ![h] = NextAttempt(@)]
    /\ UNCHANGED <<stored, wire, queue, prefetch, work, late, dlq, link, breaks, row, applied, failed>>

\* The confirm: done, or no retry after a refusal.
Confirmed(h) ==
    /\ pub[h].step \in {"acked", "nacked"}
    /\ pub' = [pub EXCEPT ![h] = IF @.step = "acked" THEN Quiet ELSE [@ EXCEPT !.step = "fallback"]]
    /\ UNCHANGED <<stored, wire, queue, prefetch, work, late, dlq, link, breaks, row, applied, failed>>

\* The handler updates MySQL itself; an error is only logged.
Fallback(h) ==
    /\ pub[h].step = "fallback"
    /\ \/ UpdateOK(pub[h].id) /\ UNCHANGED failed
       \/ UpdateErr(pub[h].id) /\ failed' = failed \cup {pub[h].id}
    /\ pub' = [pub EXCEPT ![h] = Quiet]
    /\ UNCHANGED <<stored, wire, queue, prefetch, work, late, dlq, link, breaks>>

-----------------------------------------------------------------------------
(* The broker: a durable queue of persistent messages.                     *)

\* The confirm finds its handler only if that attempt still waits for it.
ConfirmTo(m, answer) ==
    pub' = [pub EXCEPT ![m.by] =
               IF @.step = "confirming" /\ @.id = m.id /\ @.attempt = m.attempt
               THEN [@ EXCEPT !.step = answer] ELSE @]

BrokerAccepts(n) ==
    /\ wire[n] # <<>>
    /\ queue' = Append(queue, Head(wire[n]).id)
    /\ ConfirmTo(Head(wire[n]), "acked")
    /\ wire' = [wire EXCEPT ![n] = Tail(@)]
    /\ UNCHANGED <<stored, prefetch, work, late, dlq, link, breaks, row, applied, failed>>

BrokerRefuses(n) ==
    /\ MayNack /\ wire[n] # <<>>
    /\ ConfirmTo(Head(wire[n]), "nacked")
    /\ wire' = [wire EXCEPT ![n] = Tail(@)]
    /\ UNCHANGED <<stored, queue, prefetch, work, late, dlq, link, breaks, row, applied, failed>>

\* No prefetch limit is set: the broker pushes what it has to any consumer.
BrokerPushes(n) ==
    /\ link[n] /\ queue # <<>>
    /\ prefetch' = [prefetch EXCEPT ![n] = Append(@, Head(queue))]
    /\ queue' = Tail(queue)
    /\ UNCHANGED <<stored, pub, wire, work, late, dlq, link, breaks, row, applied, failed>>

\* When a channel closes, the client library answers the confirms that are
\* still awaited on it with a refusal.
RefuseAwaited(n) ==
    pub' = [h \in Handler |-> IF At[h] = n /\ pub[h].step = "confirming"
                              THEN [pub[h] EXCEPT !.step = "nacked"] ELSE pub[h]]

\* The connection of a node breaks.  What was not acknowledged is requeued;
\* the consumer goroutine finishes the delivery it has begun all the same.
\* Slip: to consume with autoAck, so that nothing is requeued.
BreaksAutoAck(n) ==
    /\ link[n] /\ breaks < MaxBreaks
    /\ breaks' = breaks + 1
    /\ link' = [link EXCEPT ![n] = FALSE]
    /\ prefetch' = [prefetch EXCEPT ![n] = <<>>]
    /\ late' = [late EXCEPT ![n] = IF work[n].step = "got" THEN @ \cup {work[n].id} ELSE @]
    /\ work' = [work EXCEPT ![n] = Quiet]
    /\ wire' = [wire EXCEPT ![n] = <<>>] /\ RefuseAwaited(n)
    /\ UNCHANGED <<stored, queue, dlq, row, applied, failed>>
Breaks(n) ==
    /\ link[n] /\ breaks < MaxBreaks
    /\ breaks' = breaks + 1
    /\ link' = [link EXCEPT ![n] = FALSE]
    /\ queue' = (IF work[n].step = "idle" THEN <<>> ELSE <<work[n].id>>) \o prefetch[n] \o queue
    /\ prefetch' = [prefetch EXCEPT ![n] = <<>>]
    /\ late' = [late EXCEPT ![n] = IF work[n].step = "got" THEN @ \cup {work[n].id} ELSE @]
    /\ work' = [work EXCEPT ![n] = Quiet]
    /\ wire' = [wire EXCEPT ![n] = <<>>] /\ RefuseAwaited(n)
    /\ UNCHANGED <<stored, dlq, row, applied, failed>>

\* reconnectWithBackoff and rebuildAll succeed: a new publisher channel and a
\* new consumer.
Reconnects(n) ==
    /\ ~link[n]
    /\ link' = [link EXCEPT ![n] = TRUE]
    /\ UNCHANGED <<stored, pub, wire, queue, prefetch, work, late, dlq, breaks, row, applied, failed>>

-----------------------------------------------------------------------------
(* StartConversationUpdateConsumer: the loop over msgs.                    *)

Take(n) ==
    /\ work[n].step = "idle" /\ prefetch[n] # <<>>
    /\ work' = [work EXCEPT ![n] = [step |-> "got", id |-> Head(prefetch[n])]]
    /\ prefetch' = [prefetch EXCEPT ![n] = Tail(@)]
    /\ UNCHANGED <<stored, pub, wire, queue, late, dlq, link, breaks, row, applied, failed>>

Apply(n) ==
    /\ work[n].step = "got"
    /\ \/ UpdateOK(work[n].id) /\ work' = [work EXCEPT ![n].step = "done"]
       \/ UpdateErr(work[n].id) /\ work' = [work EXCEPT ![n].step = "refused"]
    /\ UNCHANGED <<stored, pub, wire, queue, prefetch, late, dlq, link, breaks, failed>>

\* Ack, or Nack without requeue, which dead-letters the message.
Settle(n) ==
    /\ work[n].step \in {"done", "refused"}
    /\ dlq' = IF work[n].step = "refused" THEN dlq \cup {work[n].id} ELSE dlq
    /\ work' = [work EXCEPT ![n] = Quiet]
    /\ UNCHANGED <<stored, pub, wire, queue, prefetch, late, link, breaks, row, applied, failed>>

\* The goroutine of a broken consumer updates MySQL; its Ack then fails.
ApplyLate(n) ==
    /\ \E i \in late[n] :
        /\ UpdateOK(i) \/ UpdateErr(i)
        /\ late' = [late EXCEPT ![n] = @ \ {i}]
    /\ UNCHANGED <<stored, pub, wire, queue, prefetch, work, dlq, link, breaks, failed>>

-----------------------------------------------------------------------------
PublisherStep(h) ==
    \/ Publish(h) \/ AttemptFails(h) \/ Confirmed(h) \/ Fallback(h)

ConsumerStep(n) == Take(n) \/ Apply(n) \/ Settle(n) \/ ApplyLate(n)

BrokerStep(n) == BrokerAccepts(n) \/ BrokerPushes(n)

ConvNext ==
    \/ \E h \in Handler : StoreMessage(h) \/ PublisherStep(h)
    \/ \E n \in Node : \/ BrokerStep(n) \/ BrokerRefuses(n) \/ ConsumerStep(n)
                       \/ Breaks(n) \/ Reconnects(n)

ConvSpec == ConvInit /\ [][ConvNext]_convVars

-----------------------------------------------------------------------------
(* What the pipeline guarantees.                                           *)

InSeq(i, q) == \E k \in 1 .. Len(q) : q[k] = i

\* Somebody still has to deal with message i.
UnderWay(i) ==
    \/ \E h \in Handler : pub[h].step \notin {"idle", "acked"} /\ pub[h].id = i
    \/ InSeq(i, queue)
    \/ \E n \in Node : InSeq(i, prefetch[n]) \/ (work[n].step # "idle" /\ work[n].id = i)

\* No stored message is forgotten: it was written to its conversation, or a
\* publisher, the queue or a consumer still has it, or it is in the dead
\* letter queue, or the fallback logged its error.  Confirms that come late
\* or never, refused publishes and broken connections lose nothing
\* (publisher.go:77-105, consumer.go:28-51).
NothingForgotten ==
    \A i \in 1 .. stored : i \in applied \cup dlq \cup failed \/ UnderWay(i)

\* As long as MySQL works, what ends in the dead letter queue or in the log as
\* a failed fallback was written to the conversation before: it is a
\* duplicate, not a loss (conversation.go:71-73, consumer.go:41-47).
RefusedWereApplied == ~DBMayFail => dlq \cup failed \subseteq applied

=============================================================================
