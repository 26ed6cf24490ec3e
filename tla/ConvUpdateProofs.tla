--------------------------- MODULE ConvUpdateProofs ---------------------------
(***************************************************************************)
(* Proofs about ConvUpdate, for any nodes, handlers, messages, retries and *)
(* breaks.                                                                 *)
(***************************************************************************)
EXTENDS ConvUpdate, SequenceTheorems, TLAPS

-----------------------------------------------------------------------------
(* Types.                                                                  *)

\* Changing only the step of a publisher keeps it a publisher.
LEMMA PubStepLemma ==
    ASSUME NEW p \in Pub, p.step # "idle",
           NEW s \in {"waiting", "confirming", "acked", "nacked", "fallback"}
    PROVE  /\ p.id \in Id /\ p.attempt \in 1 .. MaxRetries
           /\ [p EXCEPT !.step = s] \in Pub
           /\ [p EXCEPT !.step = s].id = p.id
           /\ [p EXCEPT !.step = s].step = s
  BY DEF Pub

LEMMA QuietLemma == Quiet \in Pub /\ Quiet \in Work /\ Quiet.step = "idle"
  BY DEF Quiet, Pub, Work

LEMMA WorkStepLemma ==
    ASSUME NEW w \in Work, w.step # "idle", NEW s \in {"got", "done", "refused"}
    PROVE  /\ w.id \in Id
           /\ [w EXCEPT !.step = s] \in Work
           /\ [w EXCEPT !.step = s].id = w.id
           /\ [w EXCEPT !.step = s].step = s
  BY DEF Work

\* A failed attempt leads to the next one or to the fallback, with the same
\* message.
LEMMA NextAttemptLemma ==
    ASSUME NEW p \in Pub, p.step # "idle"
    PROVE  /\ NextAttempt(p) \in Pub
           /\ NextAttempt(p).step \in {"waiting", "fallback"}
           /\ NextAttempt(p).id = p.id
<1>1. p \in [step : {"waiting", "confirming", "acked", "nacked", "fallback"},
             id : Id, attempt : 1 .. MaxRetries]
  BY DEF Pub
<1>2. CASE p.attempt < MaxRetries
  <2>1. NextAttempt(p) = [step |-> "waiting", id |-> p.id, attempt |-> p.attempt + 1]
    BY <1>1, <1>2 DEF NextAttempt
  <2>2. p.attempt + 1 \in 1 .. MaxRetries
    BY <1>1, <1>2, ConvUpdateAssumption
  <2> QED
    BY <1>1, <2>1, <2>2 DEF Pub
<1>3. CASE ~(p.attempt < MaxRetries)
  BY <1>1, <1>3 DEF Pub, NextAttempt
<1> QED
  BY <1>2, <1>3

LEMMA InitTypeLemma == ConvInit => ConvTypeOK
  BY ConvUpdateAssumption, QuietLemma DEF ConvInit, ConvTypeOK

\* What ConfirmTo and RefuseAwaited do to the publishers: nothing but a step
\* from confirming to the answer.
LEMMA AnswerLemma ==
    ASSUME ConvTypeOK, NEW answer \in {"acked", "nacked"},
           \/ \E m : ConfirmTo(m, answer)
           \/ answer = "nacked" /\ \E n \in Node : RefuseAwaited(n)
    PROVE  /\ pub' \in [Handler -> Pub]
           /\ \A h \in Handler :
                 \/ pub'[h] = pub[h]
                 \/ /\ pub[h].step = "confirming"
                    /\ pub'[h].step = answer /\ pub'[h].id = pub[h].id
<1>1. ASSUME NEW h \in Handler, pub[h].step = "confirming"
      PROVE  /\ [pub[h] EXCEPT !.step = answer] \in Pub
             /\ [pub[h] EXCEPT !.step = answer].step = answer
             /\ [pub[h] EXCEPT !.step = answer].id = pub[h].id
  <2>1. pub[h] \in Pub /\ pub[h].step # "idle"
    BY <1>1 DEF ConvTypeOK
  <2>2. answer \in {"waiting", "confirming", "acked", "nacked", "fallback"}
    OBVIOUS
  <2> QED
    BY <2>1, <2>2, PubStepLemma
<1>2. ASSUME NEW m, ConfirmTo(m, answer)
      PROVE  \A h \in Handler :
                 pub'[h] \in {pub[h]} \cup
                    (IF pub[h].step = "confirming" THEN {[pub[h] EXCEPT !.step = answer]} ELSE {})
  BY <1>2 DEF ConfirmTo, ConvTypeOK
<1>3. ASSUME NEW n \in Node, RefuseAwaited(n), answer = "nacked"
      PROVE  \A h \in Handler :
                 pub'[h] \in {pub[h]} \cup
                    (IF pub[h].step = "confirming" THEN {[pub[h] EXCEPT !.step = answer]} ELSE {})
  BY <1>3 DEF RefuseAwaited, ConvTypeOK
<1>4. pub' = [h \in Handler |-> pub'[h]]
  BY DEF ConfirmTo, RefuseAwaited, ConvTypeOK
<1>5. \A h \in Handler : pub[h] \in Pub
  BY DEF ConvTypeOK
<1>6. \A h \in Handler :
          \/ pub'[h] = pub[h]
          \/ pub[h].step = "confirming" /\ pub'[h] = [pub[h] EXCEPT !.step = answer]
  BY <1>2, <1>3
<1>7. \A h \in Handler : pub'[h] \in Pub
  BY <1>1, <1>5, <1>6
<1> QED
  BY <1>1, <1>4, <1>6, <1>7

\* An UPDATE, whether it succeeds or not, keeps the types of what it writes
\* and takes nothing from what was applied.
LEMMA UpdateLemma ==
    ASSUME ConvTypeOK, NEW i \in Id, UpdateOK(i) \/ UpdateErr(i)
    PROVE  /\ row' \in 0 .. MaxMsgs /\ applied' \subseteq Id
           /\ applied \subseteq applied'
<1>1. CASE UpdateOK(i)
  BY <1>1, ConvUpdateAssumption DEF UpdateOK, ConvTypeOK, Id
<1>2. CASE UpdateErr(i)
  <2>1. row' = row /\ applied' = applied
    BY <1>2 DEF UpdateErr
  <2> QED
    BY <2>1 DEF ConvTypeOK
<1> QED
  BY <1>1, <1>2

-----------------------------------------------------------------------------
(* The types are preserved by every step.                                  *)

LEMMA TypeStepLemma == ConvTypeOK /\ [ConvNext]_convVars => ConvTypeOK'
<1> SUFFICES ASSUME ConvTypeOK, [ConvNext]_convVars PROVE ConvTypeOK'
  OBVIOUS
<1> USE ConvUpdateAssumption
<1>1. CASE UNCHANGED convVars
  BY <1>1 DEF ConvTypeOK, convVars
<1>2. ASSUME NEW h \in Handler, StoreMessage(h) PROVE ConvTypeOK'
  <2>1. [step |-> "waiting", id |-> stored + 1, attempt |-> 1] \in Pub /\ stored + 1 \in 0 .. MaxMsgs
    BY <1>2 DEF StoreMessage, ConvTypeOK, Pub, Id
  <2> QED
    BY <1>2, <2>1 DEF StoreMessage, ConvTypeOK
<1>3. ASSUME NEW h \in Handler, PublisherStep(h) PROVE ConvTypeOK'
  <2>1. pub[h] \in Pub /\ At[h] \in Node
    BY DEF ConvTypeOK
  <2>2. CASE Publish(h)
    <3>1. [by |-> h, id |-> pub[h].id, attempt |-> pub[h].attempt]
             \in [by : Handler, id : Id, attempt : 1 .. MaxRetries]
      BY <2>1, <2>2, PubStepLemma DEF Publish
    <3>2. [pub[h] EXCEPT !.step = "confirming"] \in Pub
      BY <2>1, <2>2, PubStepLemma DEF Publish
    <3>3. wire' \in [Node -> Seq([by : Handler, id : Id, attempt : 1 .. MaxRetries])]
      BY <2>1, <2>2, <3>1, AppendProperties DEF Publish, ConvTypeOK
    <3>4. pub' \in [Handler -> Pub]
      BY <2>2, <3>2 DEF Publish, ConvTypeOK
    <3> QED
      BY <2>2, <3>3, <3>4 DEF Publish, ConvTypeOK
  <2>3. CASE AttemptFails(h)
    <3>1. NextAttempt(pub[h]) \in Pub
      BY <2>1, <2>3, NextAttemptLemma DEF AttemptFails
    <3> QED
      BY <2>3, <3>1 DEF AttemptFails, ConvTypeOK
  <2>4. CASE Confirmed(h)
    <3>1. [pub[h] EXCEPT !.step = "fallback"] \in Pub /\ Quiet \in Pub
      BY <2>1, <2>4, PubStepLemma, QuietLemma DEF Confirmed
    <3> QED
      BY <2>4, <3>1 DEF Confirmed, ConvTypeOK
  <2>5. CASE Fallback(h)
    <3>1. pub[h].id \in Id /\ Quiet \in Pub
      BY <2>1, <2>5, PubStepLemma, QuietLemma DEF Fallback
    <3>2. /\ row' \in 0 .. MaxMsgs /\ applied' \subseteq Id
          /\ failed' \subseteq Id
      BY <2>5, <3>1, UpdateLemma DEF Fallback, ConvTypeOK
    <3> QED
      BY <2>5, <3>1, <3>2 DEF Fallback, ConvTypeOK
  <2> QED
    BY <1>3, <2>2, <2>3, <2>4, <2>5 DEF PublisherStep
<1>4. ASSUME NEW n \in Node, BrokerStep(n) \/ BrokerRefuses(n) PROVE ConvTypeOK'
  <2> DEFINE Wire == [by : Handler, id : Id, attempt : 1 .. MaxRetries]
  <2>1. wire[n] \in Seq(Wire) /\ queue \in Seq(Id)
    BY DEF ConvTypeOK
  <2>2. wire[n] # <<>> => Head(wire[n]) \in Wire /\ Tail(wire[n]) \in Seq(Wire)
    BY <2>1, HeadTailProperties
  <2>3. queue # <<>> => Head(queue) \in Id /\ Tail(queue) \in Seq(Id)
    BY <2>1, HeadTailProperties
  <2>4. CASE BrokerAccepts(n)
    <3>1. pub' \in [Handler -> Pub]
      BY <2>4, AnswerLemma DEF BrokerAccepts
    <3>2. queue' \in Seq(Id)
      BY <2>1, <2>2, <2>4 DEF BrokerAccepts
    <3>3. wire' \in [Node -> Seq(Wire)]
      BY <2>2, <2>4 DEF BrokerAccepts, ConvTypeOK
    <3> QED
      BY <2>4, <3>1, <3>2, <3>3 DEF BrokerAccepts, ConvTypeOK
  <2>5. CASE BrokerRefuses(n)
    <3>1. pub' \in [Handler -> Pub]
      BY <2>5, AnswerLemma DEF BrokerRefuses
    <3>2. wire' \in [Node -> Seq(Wire)]
      BY <2>2, <2>5 DEF BrokerRefuses, ConvTypeOK
    <3> QED
      BY <2>5, <3>1, <3>2 DEF BrokerRefuses, ConvTypeOK
  <2>6. CASE BrokerPushes(n)
    <3>1. prefetch' \in [Node -> Seq(Id)]
      BY <2>3, <2>6 DEF BrokerPushes, ConvTypeOK
    <3> QED
      BY <2>3, <2>6, <3>1 DEF BrokerPushes, ConvTypeOK
  <2> QED
    BY <1>4, <2>4, <2>5, <2>6 DEF BrokerStep
<1>5. ASSUME NEW n \in Node, ConsumerStep(n) PROVE ConvTypeOK'
  <2>1. work[n] \in Work /\ prefetch[n] \in Seq(Id)
    BY DEF ConvTypeOK
  <2>2. CASE Take(n)
    <3>1. Head(prefetch[n]) \in Id /\ Tail(prefetch[n]) \in Seq(Id)
      BY <2>1, <2>2, HeadTailProperties DEF Take
    <3>2. [step |-> "got", id |-> Head(prefetch[n])] \in Work
      BY <3>1 DEF Work
    <3> QED
      BY <2>2, <3>1, <3>2 DEF Take, ConvTypeOK
  <2>3. CASE Apply(n)
    <3>1. /\ work[n].id \in Id
          /\ [work[n] EXCEPT !.step = "done"] \in Work
          /\ [work[n] EXCEPT !.step = "refused"] \in Work
      BY <2>1, <2>3, WorkStepLemma DEF Apply
    <3>2. row' \in 0 .. MaxMsgs /\ applied' \subseteq Id
      BY <2>3, <3>1, UpdateLemma DEF Apply
    <3>3. work' \in [Node -> Work]
      BY <2>3, <3>1 DEF Apply, ConvTypeOK
    <3> QED
      BY <2>3, <3>2, <3>3 DEF Apply, ConvTypeOK
  <2>4. CASE Settle(n)
    <3>1. work[n].id \in Id /\ Quiet \in Work
      BY <2>1, <2>4, WorkStepLemma, QuietLemma DEF Settle
    <3> QED
      BY <2>4, <3>1 DEF Settle, ConvTypeOK
  <2>5. CASE ApplyLate(n)
    <3>1. PICK i \in late[n] : /\ UpdateOK(i) \/ UpdateErr(i)
                              /\ late' = [late EXCEPT ![n] = @ \ {i}]
      BY <2>5 DEF ApplyLate
    <3>2. i \in Id
      BY DEF ConvTypeOK
    <3>3. row' \in 0 .. MaxMsgs /\ applied' \subseteq Id
      BY <3>1, <3>2, UpdateLemma
    <3> QED
      BY <2>5, <3>1, <3>3 DEF ApplyLate, ConvTypeOK
  <2> QED
    BY <1>5, <2>2, <2>3, <2>4, <2>5 DEF ConsumerStep
<1>6. ASSUME NEW n \in Node, Breaks(n) PROVE ConvTypeOK'
  <2>1. pub' \in [Handler -> Pub]
    BY <1>6, AnswerLemma DEF Breaks
  <2>2. work[n].step # "idle" => work[n].id \in Id
    BY WorkStepLemma DEF ConvTypeOK
  <2>3. queue' \in Seq(Id)
    BY <1>6, <2>2, ConcatProperties DEF Breaks, ConvTypeOK
  <2>4. late' \in [Node -> SUBSET Id]
    BY <1>6, <2>2 DEF Breaks, ConvTypeOK
  <2>5. work' \in [Node -> Work]
    BY <1>6, QuietLemma DEF Breaks, ConvTypeOK
  <2>6. breaks' \in 0 .. MaxBreaks /\ link' \in [Node -> BOOLEAN]
    BY <1>6 DEF Breaks, ConvTypeOK
  <2>7. prefetch' \in [Node -> Seq(Id)]
    BY <1>6 DEF Breaks, ConvTypeOK
  <2>8. wire' \in [Node -> Seq([by : Handler, id : Id, attempt : 1 .. MaxRetries])]
    BY <1>6, EmptySeq DEF Breaks, ConvTypeOK
  <2> QED
    BY <1>6, <2>1, <2>3, <2>4, <2>5, <2>6, <2>7, <2>8 DEF Breaks, ConvTypeOK
<1>7. ASSUME NEW n \in Node, Reconnects(n) PROVE ConvTypeOK'
  BY <1>7 DEF Reconnects, ConvTypeOK
<1> QED
  BY <1>1, <1>2, <1>3, <1>4, <1>5, <1>6, <1>7 DEF ConvNext

\* The state of the pipeline keeps its types: ids, attempts and steps stay in
\* range whatever retries, refusals and breaks do (publisher.go:77-106,
\* consumer.go:28-51).
THEOREM PipelineTypeCorrect == ConvSpec => []ConvTypeOK
  BY InitTypeLemma, TypeStepLemma, PTL DEF ConvSpec

-----------------------------------------------------------------------------
(* Membership in the sequences of ids.                                     *)

LEMMA InAppend ==
    ASSUME NEW q \in Seq(Id), NEW e \in Id, NEW i
    PROVE  InSeq(i, Append(q, e)) <=> InSeq(i, q) \/ i = e
<1>1. /\ Len(Append(q, e)) = Len(q) + 1 /\ Len(q) \in Nat
      /\ \A k \in 1 .. Len(q) : Append(q, e)[k] = q[k]
      /\ Append(q, e)[Len(q) + 1] = e
  BY AppendProperties, LenProperties
<1> QED
  BY <1>1 DEF InSeq

LEMMA InHeadTail ==
    ASSUME NEW q \in Seq(Id), q # <<>>, NEW i, InSeq(i, q)
    PROVE  i = Head(q) \/ InSeq(i, Tail(q))
<1>1. /\ Len(q) \in Nat \ {0} /\ Head(q) = q[1]
      /\ Len(Tail(q)) = Len(q) - 1
      /\ \A k \in 1 .. Len(Tail(q)) : Tail(q)[k] = q[k + 1]
  BY HeadTailProperties, EmptySeq
<1>2. PICK k \in 1 .. Len(q) : q[k] = i
  BY DEF InSeq
<1>3. CASE k = 1
  BY <1>1, <1>2, <1>3
<1>4. CASE k # 1
  <2>1. k - 1 \in 1 .. Len(Tail(q)) /\ Tail(q)[k - 1] = i
    BY <1>1, <1>2, <1>4
  <2> QED
    BY <2>1 DEF InSeq
<1> QED
  BY <1>3, <1>4

LEMMA InConcat ==
    ASSUME NEW s \in Seq(Id), NEW t \in Seq(Id), NEW i, InSeq(i, s) \/ InSeq(i, t)
    PROVE  InSeq(i, s \o t)
<1>1. /\ Len(s) \in Nat /\ Len(t) \in Nat
      /\ Len(s \o t) = Len(s) + Len(t)
      /\ \A k \in 1 .. Len(s) + Len(t) :
            (s \o t)[k] = IF k <= Len(s) THEN s[k] ELSE t[k - Len(s)]
  BY ConcatProperties, LenProperties
<1>2. CASE InSeq(i, s)
  BY <1>1, <1>2 DEF InSeq
<1>3. CASE InSeq(i, t)
  <2>1. PICK k \in 1 .. Len(t) : t[k] = i
    BY <1>3 DEF InSeq
  <2>2. /\ Len(s) + k \in 1 .. Len(s) + Len(t) /\ ~(Len(s) + k <= Len(s))
        /\ Len(s) + k - Len(s) = k
    BY <1>1, <2>1
  <2>3. (s \o t)[Len(s) + k] = t[k]
    BY <1>1, <2>2
  <2> QED
    BY <1>1, <2>1, <2>2, <2>3 DEF InSeq
<1> QED
  BY <1>2, <1>3

LEMMA InSingle == ASSUME NEW i PROVE InSeq(i, <<i>>)
  BY DEF InSeq

-----------------------------------------------------------------------------
(* No stored message is forgotten.                                         *)

\* NothingForgotten is not inductive alone: Settle lets go of a delivery whose
\* UPDATE succeeded, so one must know that it is among the applied ones.
DoneIsApplied == \A n \in Node : work[n].step = "done" => work[n].id \in applied

Decided(i) == i \in applied \cup dlq \cup failed

LEMMA DoneStepLemma ==
    ASSUME ConvTypeOK, DoneIsApplied, [ConvNext]_convVars PROVE DoneIsApplied'
<1>1. applied \subseteq applied'
  <2>1. \A i : UpdateOK(i) \/ UpdateErr(i) => applied \subseteq applied'
    BY DEF UpdateOK, UpdateErr
  <2> QED
    BY <2>1 DEF ConvNext, convVars, StoreMessage, PublisherStep, Publish, AttemptFails,
          Confirmed, Fallback, BrokerStep, BrokerAccepts, BrokerPushes, BrokerRefuses,
          ConsumerStep, Take, Apply, Settle, ApplyLate, Breaks, Reconnects
<1> SUFFICES ASSUME NEW n \in Node, work'[n].step = "done" PROVE work'[n].id \in applied'
  BY DEF DoneIsApplied
<1>2. CASE work'[n] = work[n]
  BY <1>1, <1>2 DEF DoneIsApplied
<1>3. CASE work'[n] # work[n]
  <2>1. work[n] \in Work /\ work \in [Node -> Work]
    BY DEF ConvTypeOK
  <2>2. \E m \in Node : Take(m) \/ Apply(m) \/ Settle(m) \/ Breaks(m)
    BY <1>3 DEF ConvNext, convVars, StoreMessage, PublisherStep, Publish, AttemptFails,
          Confirmed, Fallback, BrokerStep, BrokerAccepts, BrokerPushes, BrokerRefuses,
          ConsumerStep, ApplyLate, Reconnects
  <2>3. Take(n) \/ Apply(n) \/ Settle(n) \/ Breaks(n)
    <3>1. PICK m \in Node : Take(m) \/ Apply(m) \/ Settle(m) \/ Breaks(m)
      BY <2>2
    <3>2. m # n => work'[n] = work[n]
      BY <2>1, <3>1 DEF Take, Apply, Settle, Breaks
    <3> QED
      BY <1>3, <3>1, <3>2
  <2>4. Apply(n) /\ UpdateOK(work[n].id) /\ work' = [work EXCEPT ![n].step = "done"]
    <3>1. CASE Take(n) \/ Settle(n) \/ Breaks(n)
      <4>1. work'[n] \in {Quiet, [step |-> "got", id |-> Head(prefetch[n])]}
        BY <2>1, <3>1 DEF Take, Settle, Breaks
      <4>2. work'[n].step \in {"idle", "got"}
        BY <4>1 DEF Quiet
      <4> QED
        BY <4>2
    <3>2. CASE Apply(n)
      <4>1. work' = [work EXCEPT ![n].step = "refused"] => work'[n].step = "refused"
        BY <2>1, <3>2, WorkStepLemma DEF Apply
      <4> QED
        BY <3>2, <4>1 DEF Apply
    <3> QED
      BY <2>3, <3>1, <3>2
  <2>5. work'[n].id = work[n].id
    BY <2>1, <2>4, WorkStepLemma DEF Apply
  <2> QED
    BY <2>4, <2>5 DEF UpdateOK
<1> QED
  BY <1>2, <1>3

\* A step of a publisher passes its message on: to itself, to the broker's
\* confirm, or to the table.
LEMMA PublisherKeeps ==
    ASSUME ConvTypeOK, NEW h \in Handler, StoreMessage(h) \/ PublisherStep(h),
           NEW i \in Id, UnderWay(i)
    PROVE  Decided(i)' \/ UnderWay(i)'
<1>1. queue' = queue /\ prefetch' = prefetch /\ work' = work
  BY DEF StoreMessage, PublisherStep, Publish, AttemptFails, Confirmed, Fallback
<1>2. CASE InSeq(i, queue) \/ \E n \in Node : InSeq(i, prefetch[n]) \/ (work[n].step # "idle" /\ work[n].id = i)
  BY <1>1, <1>2 DEF UnderWay, InSeq
<1>3. ASSUME NEW g \in Handler, pub[g].step \notin {"idle", "acked"}, pub[g].id = i
      PROVE  Decided(i)' \/ UnderWay(i)'
  <2>1. pub \in [Handler -> Pub] /\ pub[g] \in Pub /\ pub[h] \in Pub
    BY DEF ConvTypeOK
  <2>2. g # h => pub'[g] = pub[g]
    BY <2>1 DEF StoreMessage, PublisherStep, Publish, AttemptFails, Confirmed, Fallback
  <2>3. CASE g # h
    BY <1>3, <2>2, <2>3 DEF UnderWay
  <2>4. CASE g = h /\ Fallback(h)
    BY <1>3, <2>4 DEF Fallback, UpdateOK, Decided
  <2>5. CASE g = h /\ ~Fallback(h)
    <3>1. pub'[h].step \notin {"idle", "acked"} /\ pub'[h].id = i
      <4>1. CASE Publish(h)
        <5>1. pub'[h] = [pub[h] EXCEPT !.step = "confirming"]
          BY <2>1, <4>1 DEF Publish
        <5> QED
          BY <1>3, <2>1, <2>5, <5>1, PubStepLemma
      <4>2. CASE AttemptFails(h)
        BY <1>3, <2>1, <2>5, <4>2, NextAttemptLemma DEF AttemptFails
      <4>3. CASE Confirmed(h)
        <5>1. pub'[h] = [pub[h] EXCEPT !.step = "fallback"]
          BY <1>3, <2>1, <2>5, <4>3 DEF Confirmed
        <5> QED
          BY <1>3, <2>1, <2>5, <5>1, PubStepLemma
      <4> QED
        BY <1>3, <2>5, <4>1, <4>2, <4>3 DEF StoreMessage, PublisherStep
    <3> QED
      BY <3>1 DEF UnderWay
  <2> QED
    BY <2>3, <2>4, <2>5
<1> QED
  BY <1>2, <1>3 DEF UnderWay

\* The broker hands a message on, and confirms what it has in the queue.
LEMMA BrokerKeeps ==
    ASSUME ConvTypeOK, NEW n \in Node, BrokerStep(n) \/ BrokerRefuses(n),
           NEW i \in Id, UnderWay(i)
    PROVE  UnderWay(i)'
<1> DEFINE Wire == [by : Handler, id : Id, attempt : 1 .. MaxRetries]
<1>1. /\ queue \in Seq(Id) /\ prefetch \in [Node -> Seq(Id)]
      /\ pub \in [Handler -> Pub] /\ wire[n] \in Seq(Wire)
  BY DEF ConvTypeOK
<1>2. CASE BrokerAccepts(n)
  <2> DEFINE m == Head(wire[n])
  <2>1. m \in Wire
    BY <1>1, <1>2, HeadTailProperties DEF BrokerAccepts
  <2>2. queue' = Append(queue, m.id) /\ prefetch' = prefetch /\ work' = work
    BY <1>2 DEF BrokerAccepts
  <2>3. InSeq(i, queue) \/ i = m.id => InSeq(i, queue')
    BY <1>1, <2>1, <2>2, InAppend
  <2>4. \A h \in Handler : pub'[h] = pub[h] \/ (pub[h].id = m.id /\ pub[h].step = "confirming")
    BY <1>1, <1>2 DEF BrokerAccepts, ConfirmTo
  <2> QED
    BY <2>2, <2>3, <2>4 DEF UnderWay
<1>3. CASE BrokerRefuses(n)
  <2>1. queue' = queue /\ prefetch' = prefetch /\ work' = work
    BY <1>3 DEF BrokerRefuses
  <2>2. \A h \in Handler :
           pub'[h] = pub[h] \/ (pub'[h].step = "nacked" /\ pub'[h].id = pub[h].id)
    BY <1>3, AnswerLemma DEF BrokerRefuses
  <2> QED
    BY <2>1, <2>2 DEF UnderWay
<1>4. CASE BrokerPushes(n)
  <2>1. /\ queue # <<>> /\ queue' = Tail(queue) /\ work' = work /\ pub' = pub
        /\ prefetch' = [prefetch EXCEPT ![n] = Append(@, Head(queue))]
    BY <1>4 DEF BrokerPushes
  <2>2. Head(queue) \in Id
    BY <1>1, <2>1, HeadTailProperties
  <2>3. InSeq(i, queue) => InSeq(i, queue') \/ InSeq(i, prefetch'[n])
    BY <1>1, <2>1, <2>2, InHeadTail, InAppend
  <2>4. \A k \in Node : InSeq(i, prefetch[k]) => InSeq(i, prefetch'[k])
    BY <1>1, <2>1, <2>2, InAppend
  <2> QED
    BY <2>1, <2>3, <2>4 DEF UnderWay
<1> QED
  BY <1>2, <1>3, <1>4 DEF BrokerStep

\* The consumer lets go of a delivery only when it is applied or dead-lettered.
LEMMA ConsumerKeeps ==
    ASSUME ConvTypeOK, DoneIsApplied, NEW n \in Node, ConsumerStep(n),
           NEW i \in Id, UnderWay(i)
    PROVE  Decided(i)' \/ UnderWay(i)'
<1>1. /\ prefetch \in [Node -> Seq(Id)] /\ work \in [Node -> Work] /\ work[n] \in Work
      /\ queue' = queue /\ pub' = pub
  BY DEF ConvTypeOK, ConsumerStep, Take, Apply, Settle, ApplyLate
<1>2. CASE Take(n)
  <2>1. /\ prefetch[n] # <<>> /\ work[n].step = "idle"
        /\ work' = [work EXCEPT ![n] = [step |-> "got", id |-> Head(prefetch[n])]]
        /\ prefetch' = [prefetch EXCEPT ![n] = Tail(@)]
    BY <1>2 DEF Take
  <2>2. InSeq(i, prefetch[n]) => InSeq(i, prefetch'[n]) \/ (work'[n].step # "idle" /\ work'[n].id = i)
    BY <1>1, <2>1, InHeadTail
  <2>3. \A k \in Node : k # n => prefetch'[k] = prefetch[k] /\ work'[k] = work[k]
    BY <1>1, <2>1
  <2> QED
    BY <1>1, <2>1, <2>2, <2>3 DEF UnderWay
<1>3. CASE Apply(n)
  <2>1. prefetch' = prefetch /\ \A k \in Node : k # n => work'[k] = work[k]
    BY <1>1, <1>3 DEF Apply
  <2>2. PICK t \in {"done", "refused"} : work' = [work EXCEPT ![n].step = t]
    BY <1>3 DEF Apply
  <2>3. work'[n] = [work[n] EXCEPT !.step = t]
    BY <1>1, <2>2
  <2>4. work'[n].step # "idle" /\ work'[n].id = work[n].id
    BY <1>1, <1>3, <2>3, WorkStepLemma DEF Apply
  <2> QED
    BY <1>1, <2>1, <2>4 DEF UnderWay
<1>4. CASE Settle(n)
  <2>1. prefetch' = prefetch /\ \A k \in Node : k # n => work'[k] = work[k]
    BY <1>1, <1>4 DEF Settle
  <2>2. work[n].id \in dlq' \cup applied'
    BY <1>4 DEF Settle, DoneIsApplied
  <2> QED
    BY <1>1, <2>1, <2>2 DEF UnderWay, Decided
<1>5. CASE ApplyLate(n)
  <2>1. prefetch' = prefetch /\ work' = work
    BY <1>5 DEF ApplyLate
  <2> QED
    BY <1>1, <2>1 DEF UnderWay
<1> QED
  BY <1>2, <1>3, <1>4, <1>5 DEF ConsumerStep

\* A broken connection requeues what its node had, and answers who waits.
LEMMA BreakKeeps ==
    ASSUME ConvTypeOK, NEW n \in Node, Breaks(n), NEW i \in Id, UnderWay(i)
    PROVE  UnderWay(i)'
<1> DEFINE held == IF work[n].step = "idle" THEN <<>> ELSE <<work[n].id>>
<1>1. /\ queue \in Seq(Id) /\ prefetch \in [Node -> Seq(Id)] /\ prefetch[n] \in Seq(Id)
      /\ work \in [Node -> Work] /\ work[n] \in Work
  BY DEF ConvTypeOK
<1>2. held \in Seq(Id) /\ (work[n].step # "idle" => InSeq(work[n].id, held))
  <2>1. CASE work[n].step = "idle"
    BY <2>1, EmptySeq
  <2>2. CASE work[n].step # "idle"
    <3>1. work[n].id \in Id
      BY <1>1, <2>2, WorkStepLemma
    <3>2. <<work[n].id>> \in Seq(Id)
      BY <3>1
    <3> QED
      BY <2>2, <3>2, InSingle
  <2> QED
    BY <2>1, <2>2
<1>3. queue' = held \o prefetch[n] \o queue
  BY DEF Breaks
<1>4. held \o prefetch[n] \in Seq(Id)
  BY <1>1, <1>2, ConcatProperties
<1>5. InSeq(i, queue) \/ InSeq(i, prefetch[n]) \/ (work[n].step # "idle" /\ work[n].id = i) => InSeq(i, queue')
  BY <1>1, <1>2, <1>3, <1>4, InConcat
<1>6. \A k \in Node : k # n => prefetch'[k] = prefetch[k] /\ work'[k] = work[k]
  BY <1>1 DEF Breaks
<1>7. \A h \in Handler :
         pub'[h] = pub[h] \/ (pub'[h].step = "nacked" /\ pub'[h].id = pub[h].id)
  BY AnswerLemma DEF Breaks
<1> QED
  BY <1>5, <1>6, <1>7 DEF UnderWay

PipelineInv == ConvTypeOK /\ DoneIsApplied /\ NothingForgotten

LEMMA ForgottenStepLemma ==
    ASSUME PipelineInv, [ConvNext]_convVars PROVE NothingForgotten'
<1>1. ConvTypeOK /\ DoneIsApplied /\ NothingForgotten /\ ConvTypeOK'
  BY TypeStepLemma DEF PipelineInv
<1>2. applied \subseteq applied' /\ dlq \subseteq dlq' /\ failed \subseteq failed'
  <2>1. \A i : UpdateOK(i) \/ UpdateErr(i) => applied \subseteq applied'
    BY DEF UpdateOK, UpdateErr
  <2> QED
    BY <2>1 DEF ConvNext, convVars, StoreMessage, PublisherStep, Publish, AttemptFails,
          Confirmed, Fallback, BrokerStep, BrokerAccepts, BrokerPushes, BrokerRefuses,
          ConsumerStep, Take, Apply, Settle, ApplyLate, Breaks, Reconnects
<1> SUFFICES ASSUME NEW i \in 1 .. stored' PROVE Decided(i)' \/ UnderWay(i)'
  BY DEF NothingForgotten, Decided
<1>3. i \in Id
  BY <1>1, ConvUpdateAssumption DEF ConvTypeOK, Id
<1>4. CASE UnderWay(i)
  <2>1. CASE UNCHANGED convVars
    BY <1>4, <2>1 DEF convVars, UnderWay, InSeq
  <2>2. CASE \E n \in Node : Reconnects(n)
    BY <1>4, <2>2 DEF Reconnects, UnderWay, InSeq
  <2> QED
    BY <1>1, <1>3, <1>4, <2>1, <2>2, PublisherKeeps, BrokerKeeps, ConsumerKeeps, BreakKeeps
    DEF ConvNext
<1>5. CASE i \in 1 .. stored /\ ~UnderWay(i)
  BY <1>1, <1>2, <1>5 DEF NothingForgotten, Decided
<1>6. CASE i \notin 1 .. stored
  <2>1. stored \in 0 .. MaxMsgs
    BY <1>1 DEF ConvTypeOK
  <2>2. PICK h \in Handler : StoreMessage(h)
    BY <1>6 DEF ConvNext, convVars, PublisherStep, Publish, AttemptFails,
          Confirmed, Fallback, BrokerStep, BrokerAccepts, BrokerPushes, BrokerRefuses,
          ConsumerStep, Take, Apply, Settle, ApplyLate, Breaks, Reconnects
  <2>3. i = stored + 1
    BY <1>6, <2>1, <2>2, ConvUpdateAssumption DEF StoreMessage
  <2>4. pub'[h] = [step |-> "waiting", id |-> stored + 1, attempt |-> 1]
    BY <1>1, <2>2 DEF StoreMessage, ConvTypeOK
  <2> QED
    BY <2>3, <2>4 DEF UnderWay
<1> QED
  BY <1>4, <1>5, <1>6

\* No stored message is lost on its way to its conversation, for any number of
\* nodes, handlers, retries and broken connections (publisher.go:77-105,
\* consumer.go:28-51).
THEOREM NoMessageForgotten == ConvSpec => []NothingForgotten
<1>1. ConvInit => PipelineInv
  BY InitTypeLemma, QuietLemma
  DEF ConvInit, PipelineInv, DoneIsApplied, NothingForgotten
<1>2. PipelineInv /\ [ConvNext]_convVars => PipelineInv'
  BY TypeStepLemma, DoneStepLemma, ForgottenStepLemma DEF PipelineInv
<1>3. PipelineInv => NothingForgotten
  BY DEF PipelineInv
<1> QED
  BY <1>1, <1>2, <1>3, PTL DEF ConvSpec

-----------------------------------------------------------------------------
(* What was refused was applied before.                                    *)

\* RefusedWereApplied is not inductive alone: with a MySQL that works an UPDATE
\* is refused only when the row holds the message already, and what the row
\* holds was applied.
RefusalInv ==
    ~DBMayFail => /\ row \in applied \cup {0}
                  /\ \A n \in Node : work[n].step = "refused" => work[n].id \in applied
                  /\ dlq \cup failed \subseteq applied

LEMMA RefusalUpdateLemma ==
    ASSUME ConvTypeOK, ~DBMayFail, row \in applied \cup {0}, NEW i \in Id
    PROVE  /\ UpdateErr(i) => i \in applied' /\ row' = row /\ applied' = applied
           /\ UpdateOK(i) => row' \in applied' /\ applied \subseteq applied'
  BY ConvUpdateAssumption DEF UpdateErr, UpdateOK, Id

LEMMA RefusalStepLemma ==
    ASSUME ConvTypeOK, RefusalInv, [ConvNext]_convVars PROVE RefusalInv'
<1> SUFFICES ASSUME ~DBMayFail
             PROVE  /\ row' \in applied' \cup {0}
                    /\ \A n \in Node : work'[n].step = "refused" => work'[n].id \in applied'
                    /\ dlq' \cup failed' \subseteq applied'
  BY DEF RefusalInv
<1>1. /\ row \in applied \cup {0} /\ dlq \cup failed \subseteq applied
      /\ \A n \in Node : work[n].step = "refused" => work[n].id \in applied
      /\ work \in [Node -> Work] /\ pub \in [Handler -> Pub]
  BY DEF RefusalInv, ConvTypeOK
<1>2. ASSUME NEW h \in Handler, Fallback(h) PROVE RefusalInv'
  <2>1. pub[h].id \in Id
    BY <1>1, <1>2, PubStepLemma DEF Fallback
  <2> QED
    BY <1>1, <1>2, <2>1, RefusalUpdateLemma DEF Fallback, RefusalInv
<1>3. ASSUME NEW n \in Node, Apply(n) PROVE RefusalInv'
  <2>1. work[n] \in Work /\ work[n].id \in Id
    BY <1>1, <1>3, WorkStepLemma DEF Apply
  <2>2. \A s \in {"done", "refused"} : work' = [work EXCEPT ![n].step = s] =>
           /\ work'[n].step = s /\ work'[n].id = work[n].id
           /\ \A m \in Node : m # n => work'[m] = work[m]
    BY <1>1, <1>3, <2>1, WorkStepLemma DEF Apply
  <2> QED
    BY <1>1, <1>3, <2>1, <2>2, RefusalUpdateLemma DEF Apply, RefusalInv
<1>4. ASSUME NEW n \in Node, ApplyLate(n) PROVE RefusalInv'
  <2>1. PICK i \in late[n] : UpdateOK(i) \/ UpdateErr(i)
    BY <1>4 DEF ApplyLate
  <2>2. i \in Id
    BY DEF ConvTypeOK
  <2> QED
    BY <1>1, <1>4, <2>1, <2>2, RefusalUpdateLemma DEF ApplyLate, RefusalInv
<1>5. ASSUME NEW n \in Node, Take(n) \/ Settle(n) \/ Breaks(n) PROVE RefusalInv'
  <2>1. row' = row /\ applied' = applied /\ failed' = failed /\ dlq' \subseteq applied
    BY <1>1, <1>5 DEF Take, Settle, Breaks
  <2>2. work'[n] \in {Quiet, [step |-> "got", id |-> Head(prefetch[n])]}
    BY <1>1, <1>5 DEF Take, Settle, Breaks
  <2>3. work'[n].step \in {"idle", "got"}
    BY <2>2 DEF Quiet
  <2>4. \A m \in Node : m # n => work'[m] = work[m]
    BY <1>1, <1>5 DEF Take, Settle, Breaks
  <2> QED
    BY <1>1, <2>1, <2>3, <2>4 DEF RefusalInv
<1>6. CASE UNCHANGED <<row, work, dlq, applied, failed>>
  BY <1>1, <1>6
<1> QED
  BY <1>2, <1>3, <1>4, <1>5, <1>6 DEF RefusalInv, ConvNext, convVars, StoreMessage, PublisherStep,
     Publish, AttemptFails, Confirmed, BrokerStep, BrokerAccepts, BrokerPushes,
     BrokerRefuses, ConsumerStep, Reconnects

\* While MySQL works, nothing in the dead letter queue and no failed fallback
\* is a message that its conversation misses (conversation.go:71-73,
\* consumer.go:41-47).
THEOREM RefusedAreDuplicates == ConvSpec => []RefusedWereApplied
<1>1. ConvInit => RefusalInv
  BY QuietLemma DEF ConvInit, RefusalInv
<1>2. ConvTypeOK /\ RefusalInv /\ [ConvNext]_convVars => RefusalInv'
  BY RefusalStepLemma
<1>3. RefusalInv => RefusedWereApplied
  BY DEF RefusalInv, RefusedWereApplied
<1> QED
  BY <1>1, <1>2, <1>3, PipelineTypeCorrect, PTL DEF ConvSpec

=============================================================================
