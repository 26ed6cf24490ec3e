--------------------------- MODULE DeliveryProofs ---------------------------
(***************************************************************************)
(* Proofs about Delivery, for any number of nodes, users, connections and  *)
(* messages, with every fault the constants allow.                         *)
(*                                                                         *)
(* The types and the promise to the users rest on one idea: a message id   *)
(* never travels without its addressee.  Wherever an id waits, in a        *)
(* handler, in a channel, in Redis or in the rows DeliverUnreadMsg has     *)
(* loaded, it is the id of a stored row, and whoever will get it from      *)
(* there is a party of that row.  Refs says so, place by place.            *)
(***************************************************************************)
EXTENDS Delivery, PresenceProofs

ChanTypes ==
    /\ rows \in Seq(Row) /\ Len(rows) <= MaxMsgs
    /\ lastRead \in [User -> [User -> 0 .. MaxMsgs]]
    /\ job \in [Client -> Job]
    /\ send \in [Client -> Seq(Id)] /\ \A c \in Client : Len(send[c]) <= Capacity
    /\ writer \subseteq Client /\ loaded \subseteq Client /\ gone \subseteq Client
    /\ unread \in [Client -> SUBSET Id]
    /\ forward \in [Node -> Seq([to : User, id : Id])]
    /\ sub \in [Node -> Handover]
    /\ received \in [Client -> SUBSET Id]
    /\ panicked \subseteq Node

\* Message i is stored and goes to u; message i is stored and u may see it.
StoredFor(i, u) == i \in 1 .. Len(rows) /\ rows[i].to = u
StoredWith(i, u) == i \in 1 .. Len(rows) /\ u \in {rows[i].from, rows[i].to}

\* A handler at work is its reader's, and delivers its user's own message.
JobRef(d) ==
    job[d] # Idle =>
        /\ phase[d] = "listening"
        /\ StoredFor(job[d].id, job[d].to) /\ rows[job[d].id].from = Owner[d]
        /\ job[d].step = "local" =>
              Owner[job[d].client] = job[d].to /\ Home[job[d].client] = Home[d]
ForwardRef(n) ==
    \A k \in 1 .. Len(forward[n]) : StoredFor(forward[n][k].id, forward[n][k].to)
SubRef(n) ==
    sub[n] # Idle => StoredFor(sub[n].id, Owner[sub[n].client]) /\ Home[sub[n].client] = n
SendRef(c) == \A k \in 1 .. Len(send[c]) : StoredFor(send[c][k], Owner[c])
SeenRef(c) == \A i \in unread[c] \cup received[c] : StoredWith(i, Owner[c])

JobRefs == \A d \in Client : JobRef(d)
ForwardRefs == \A n \in Node : ForwardRef(n)
SubRefs == \A n \in Node : SubRef(n)
SendRefs == \A c \in Client : SendRef(c)
SeenRefs == \A c \in Client : SeenRef(c)
Refs == JobRefs /\ ForwardRefs /\ SubRefs /\ SendRefs /\ SeenRefs

DInv == IInv /\ ChanTypes /\ Refs

-----------------------------------------------------------------------------
(* Lemmas about sequences and about the records that wait.                 *)

LEMMA AppendLemma ==
    ASSUME NEW S, NEW q \in Seq(S), NEW x \in S
    PROVE  /\ Append(q, x) \in Seq(S) /\ Len(Append(q, x)) = Len(q) + 1 /\ Len(q) \in Nat
           /\ \A k \in 1 .. Len(q) : Append(q, x)[k] = q[k]
           /\ Append(q, x)[Len(q) + 1] = x
  OBVIOUS

LEMMA TailLemma ==
    ASSUME NEW S, NEW q \in Seq(S), q # <<>>
    PROVE  /\ Tail(q) \in Seq(S) /\ Len(q) \in Nat \ {0} /\ Len(Tail(q)) = Len(q) - 1
           /\ \A k \in 1 .. Len(q) - 1 : Tail(q)[k] = q[k + 1]
           /\ Head(q) = q[1] /\ q[1] \in S
  OBVIOUS

\* What a handler holds at each step.
LEMMA JobLemma ==
    ASSUME NEW j \in Job, j # Idle
    PROVE  /\ j.step \in {"stored", "marked", "remote", "local", "forward"}
           /\ j.to \in User /\ j.id \in Id
           /\ j.step = "local" => j.client \in Client
           /\ j.step = "forward" => j.node \in Node
           /\ j.step \in {"stored", "marked", "remote"} =>
                j = [step |-> j.step, to |-> j.to, id |-> j.id]
  BY DEF Job, Idle

LEMMA MakeJobLemma ==
    ASSUME NEW u \in User, NEW i \in Id
    PROVE  /\ \A s \in {"stored", "marked", "remote"} :
                [step |-> s, to |-> u, id |-> i] \in Job /\ [step |-> s, to |-> u, id |-> i] # Idle
           /\ \A c \in Client : [step |-> "local", to |-> u, id |-> i, client |-> c] \in Job
           /\ \A n \in Node : [step |-> "forward", to |-> u, id |-> i, node |-> n] \in Job
           /\ Idle \in Job
<1>1. \A s \in {"stored", "marked", "remote"} :
         [step |-> s, to |-> u, id |-> i] \in [step : {"stored", "marked", "remote"}, to : User, id : Id]
  OBVIOUS
<1>2. \A s \in {"stored", "marked", "remote"} : [step |-> s, to |-> u, id |-> i] # Idle
  BY DEF Idle
<1>3. \A c \in Client : [step |-> "local", to |-> u, id |-> i, client |-> c]
                           \in [step : {"local"}, to : User, id : Id, client : Client]
  OBVIOUS
<1>4. \A n \in Node : [step |-> "forward", to |-> u, id |-> i, node |-> n]
                           \in [step : {"forward"}, to : User, id : Id, node : Node]
  OBVIOUS
<1>5. Idle \in [step : {"idle"}]
  BY DEF Idle
<1> QED BY <1>1, <1>2, <1>3, <1>4, <1>5 DEF Job

LEMMA IdleLemma == Idle \in Job
  BY DEF Job, Idle

LEMMA EmptySeqLemma == \A S : <<>> \in Seq(S) /\ Len(<<>>) = 0
  OBVIOUS

LEMMA HandoverLemma ==
    /\ \A h \in Handover : h # Idle => h.id \in Id /\ h.client \in Client
    /\ \A i \in Id, c \in Client : [step |-> "local", id |-> i, client |-> c] \in Handover
    /\ Idle \in Handover
  BY DEF Handover, Idle

-----------------------------------------------------------------------------
(* The registry under delivery.  A panic may end the process of any node,  *)
(* which Presence knows only of the nodes that may stop.                   *)

\* Where a step of delivery leaves the registry.
RegistryPart ==
    [PresenceNext]_presenceVars \/ \E n \in Node : n \in panicked' /\ Vanish(n)

LEMMA DeliverTotalPartLemma ==
    ASSUME NEW c \in Client, NEW i
    PROVE  /\ Enqueue(c, i) \/ KickFull(c) => [PresenceNext]_presenceVars
           /\ Panic(c) => RegistryPart
<1>1. Enqueue(c, i) \/ KickFull(c) => UNCHANGED presenceVars \/ SpawnKick(c)
  BY DEF Enqueue, KickFull
<1>2. Panic(c) => Home[c] \in Node /\ Home[c] \in panicked' /\ Vanish(Home[c])
  BY PresenceAssumption DEF Panic, Lost
<1> QED BY <1>1, <1>2 DEF PresenceNext, RegistryPart

LEMMA RegistryPartLemma ==
    ASSUME DInv, DeliveryNext
    PROVE  RegistryPart
<1>1. ASSUME NEW c \in Client, ClientStep(c) PROVE RegistryPart
  <2>1. CASE RegistryStep(c) \/ Listen(c) \/ Hangup(c) \/ CloseSend(c)
    BY <2>1 DEF RegistryStep, Listen, Hangup, CloseSend, SessionStep, PresenceNext, RegistryPart
  <2>2. CASE \/ LoadUnread(c) \/ PushUnread(c) \/ WriteSend(c)
             \/ MarkOwn(c) \/ FindClient(c) \/ FindNode(c) \/ Publish(c)
    <3>1. UNCHANGED presenceVars
      BY <2>2 DEF LoadUnread, PushUnread, WriteSend, MarkOwn, FindClient, FindNode, Publish
    <3> QED BY <3>1 DEF RegistryPart
  <2>3. CASE DeliverLocal(c)
    <3>1. job[c] \in Job /\ job[c] # Idle /\ job[c].step = "local"
      BY <2>3 DEF DeliverLocal, DInv, ChanTypes, Idle
    <3>2. job[c].client \in Client
      BY <3>1, JobLemma
    <3> QED BY <2>3, <3>2, DeliverTotalPartLemma DEF DeliverLocal, RegistryPart
  <2> QED BY <1>1, <2>1, <2>2, <2>3 DEF ClientStep
<1>2. ASSUME NEW c \in Client, \/ Connect(c) \/ PeerGoes(c)
                               \/ \E v \in User : Chat(c, v)
                               \/ \E i \in Id : Ack(c, i)
      PROVE  RegistryPart
  <2>1. Accept(c) \/ UNCHANGED presenceVars
    BY <1>2 DEF Connect, PeerGoes, Chat, Ack
  <2> QED BY <2>1 DEF PresenceNext, RegistryPart
<1>3. ASSUME NEW n \in Node, ReceiveForward(n) \/ DeliverForwarded(n) \/ ShutdownStep(n)
      PROVE  RegistryPart
  <2>1. CASE ReceiveForward(n)
    BY <2>1 DEF ReceiveForward, RegistryPart
  <2>2. CASE DeliverForwarded(n)
    <3>1. sub[n] \in Handover /\ sub[n] # Idle
      BY <2>2 DEF DeliverForwarded, DInv, ChanTypes
    <3>2. sub[n].client \in Client
      BY <3>1, HandoverLemma
    <3> QED BY <2>2, <3>2, DeliverTotalPartLemma DEF DeliverForwarded, RegistryPart
  <2>3. CASE ShutdownStep(n)
    <3>1. NodeStep(n)
      BY <2>3 DEF ShutdownStep, NodeStep, Exit, Crash, Lost
    <3> QED BY <3>1 DEF PresenceNext, RegistryPart
  <2> QED BY <1>3, <2>1, <2>2, <2>3
<1>4. ASSUME NEW u \in User, KeyExpires(u) PROVE RegistryPart
  BY <1>4 DEF PresenceNext, RegistryPart
<1> QED BY <1>1, <1>2, <1>3, <1>4 DEF DeliveryNext

\* So what Presence proves of every step holds here as well.
LEMMA RegistryStepLemma ==
    ASSUME DInv, [DeliveryNext]_deliveryVars
    PROVE  IInv'
<1>1. CASE DeliveryNext
  <2>1. RegistryPart
    BY <1>1, RegistryPartLemma
  <2>2. CASE [PresenceNext]_presenceVars
    BY <2>2, StepLemma DEF DInv
  <2>3. CASE \E n \in Node : n \in panicked' /\ Vanish(n)
    BY <2>3, VanishTypeLemma, VanishEntryLemma DEF DInv, IInv
  <2> QED BY <2>1, <2>2, <2>3 DEF RegistryPart
<1>2. CASE UNCHANGED deliveryVars
  <2>1. UNCHANGED presenceVars
    BY <1>2 DEF deliveryVars, presenceVars
  <2> QED BY <2>1, StepLemma DEF DInv
<1> QED BY <1>1, <1>2

-----------------------------------------------------------------------------
(* Each place keeps its references when a step leaves it alone, takes from *)
(* it, or adds to it an id that is meant for it.                           *)

\* Rows are never changed or removed.
RowsStay == \A i \in 1 .. Len(rows) : i \in 1 .. Len(rows') /\ rows'[i] = rows[i]

LEMMA RowsStayLemma ==
    ASSUME ChanTypes, rows' = rows \/ \E r \in Row : rows' = Append(rows, r)
    PROVE  RowsStay
<1>1. Len(rows) \in Nat
  BY DEF ChanTypes
<1>2. ASSUME NEW r \in Row, rows' = Append(rows, r) PROVE RowsStay
  BY <1>1, <1>2, AppendLemma DEF ChanTypes, RowsStay
<1> QED BY <1>2 DEF RowsStay

LEMMA JobsKeepLemma ==
    ASSUME Refs, RowsStay, NEW d \in Client,
           job'[d] = Idle \/ job'[d] = job[d], job'[d] # Idle => phase'[d] = "listening"
    PROVE  JobRef(d)'
<1>1. JobRef(d)
  BY DEF Refs, JobRefs
<1> QED BY <1>1 DEF JobRef, RowsStay, StoredFor

LEMMA QueuesKeepLemma ==
    ASSUME ChanTypes, Refs, RowsStay
    PROVE  /\ \A n \in Node : forward'[n] \in {forward[n], <<>>} => ForwardRef(n)'
           /\ \A n \in Node : sub'[n] \in {sub[n], Idle} => SubRef(n)'
           /\ \A c \in Client : send'[c] \in {send[c], <<>>} => SendRef(c)'
           /\ \A c \in Client : unread'[c] \subseteq unread[c] /\ received'[c] \subseteq received[c] \cup unread[c]
                                => SeenRef(c)'
<1>1. ASSUME NEW n \in Node, forward'[n] \in {forward[n], <<>>} PROVE ForwardRef(n)'
  BY <1>1 DEF Refs, ForwardRefs, ForwardRef, RowsStay, StoredFor
<1>2. ASSUME NEW n \in Node, sub'[n] \in {sub[n], Idle} PROVE SubRef(n)'
  BY <1>2 DEF Refs, SubRefs, SubRef, RowsStay, StoredFor
<1>3. ASSUME NEW c \in Client, send'[c] \in {send[c], <<>>} PROVE SendRef(c)'
  BY <1>3 DEF Refs, SendRefs, SendRef, RowsStay, StoredFor
<1>4. ASSUME NEW c \in Client, unread'[c] \subseteq unread[c], received'[c] \subseteq received[c] \cup unread[c]
      PROVE  SeenRef(c)'
  BY <1>4 DEF Refs, SeenRefs, SeenRef, RowsStay, StoredWith
<1> QED BY <1>1, <1>2, <1>3, <1>4

LEMMA TakeLemma ==
    ASSUME ChanTypes, Refs, RowsStay
    PROVE  /\ \A n \in Node : forward[n] # <<>> /\ forward'[n] = Tail(forward[n]) => ForwardRef(n)'
           /\ \A c \in Client : send[c] # <<>> /\ send'[c] = Tail(send[c]) => SendRef(c)'
<1>1. ASSUME NEW n \in Node, forward[n] # <<>>, forward'[n] = Tail(forward[n]) PROVE ForwardRef(n)'
  <2> DEFINE q == forward[n]
  <2>1. q \in Seq([to : User, id : Id]) /\ q # <<>>
    BY <1>1 DEF ChanTypes
  <2>2. \A k \in 1 .. Len(q) : StoredFor(q[k].id, q[k].to)
    BY DEF Refs, ForwardRefs, ForwardRef
  <2> HIDE DEF q
  <2>3. Len(Tail(q)) = Len(q) - 1 /\ Len(q) \in Nat /\ \A k \in 1 .. Len(q) - 1 : Tail(q)[k] = q[k + 1]
    BY <2>1, TailLemma
  <2>4. \A k \in 1 .. Len(Tail(q)) : StoredFor(Tail(q)[k].id, Tail(q)[k].to)
    BY <2>2, <2>3
  <2>5. forward'[n] = Tail(q)
    BY <1>1 DEF q
  <2> QED BY <2>4, <2>5 DEF ForwardRef, RowsStay, StoredFor
<1>2. ASSUME NEW c \in Client, send[c] # <<>>, send'[c] = Tail(send[c]) PROVE SendRef(c)'
  <2> DEFINE q == send[c]
  <2>1. q \in Seq(Id) /\ q # <<>>
    BY <1>2 DEF ChanTypes
  <2>2. \A k \in 1 .. Len(q) : StoredFor(q[k], Owner[c])
    BY DEF Refs, SendRefs, SendRef
  <2> HIDE DEF q
  <2>3. Len(Tail(q)) = Len(q) - 1 /\ Len(q) \in Nat /\ \A k \in 1 .. Len(q) - 1 : Tail(q)[k] = q[k + 1]
    BY <2>1, TailLemma
  <2>4. \A k \in 1 .. Len(Tail(q)) : StoredFor(Tail(q)[k], Owner[c])
    BY <2>2, <2>3
  <2>5. send'[c] = Tail(q)
    BY <1>2 DEF q
  <2> QED BY <2>4, <2>5 DEF SendRef, RowsStay, StoredFor
<1> QED BY <1>1, <1>2

LEMMA AddLemma ==
    ASSUME ChanTypes, Refs, RowsStay
    PROVE  /\ \A n \in Node, m \in [to : User, id : Id] :
                forward'[n] = Append(forward[n], m) /\ StoredFor(m.id, m.to) => ForwardRef(n)'
           /\ \A c \in Client, i \in Id :
                send'[c] = Append(send[c], i) /\ StoredFor(i, Owner[c]) => SendRef(c)'
<1>1. ASSUME NEW n \in Node, NEW m \in [to : User, id : Id],
             forward'[n] = Append(forward[n], m), StoredFor(m.id, m.to)
      PROVE  ForwardRef(n)'
  <2> DEFINE q == forward[n]
  <2>1. q \in Seq([to : User, id : Id])
    BY DEF ChanTypes
  <2>2. \A k \in 1 .. Len(q) : StoredFor(q[k].id, q[k].to)
    BY DEF Refs, ForwardRefs, ForwardRef
  <2>3. forward'[n] = Append(q, m)
    BY <1>1 DEF q
  <2> HIDE DEF q
  <2>4. \A k \in 1 .. Len(Append(q, m)) : StoredFor(Append(q, m)[k].id, Append(q, m)[k].to)
    BY <1>1, <2>1, <2>2, AppendLemma
  <2> QED BY <2>3, <2>4 DEF ForwardRef, RowsStay, StoredFor
<1>2. ASSUME NEW c \in Client, NEW i \in Id, send'[c] = Append(send[c], i), StoredFor(i, Owner[c])
      PROVE  SendRef(c)'
  <2> DEFINE q == send[c]
  <2>1. q \in Seq(Id)
    BY DEF ChanTypes
  <2>2. \A k \in 1 .. Len(q) : StoredFor(q[k], Owner[c])
    BY DEF Refs, SendRefs, SendRef
  <2>3. send'[c] = Append(q, i)
    BY <1>2 DEF q
  <2> HIDE DEF q
  <2>4. \A k \in 1 .. Len(Append(q, i)) : StoredFor(Append(q, i)[k], Owner[c])
    BY <1>2, <2>1, <2>2, AppendLemma
  <2> QED BY <2>3, <2>4 DEF SendRef, RowsStay, StoredFor
<1> QED BY <1>1, <1>2

-----------------------------------------------------------------------------
(* One lemma for each group of steps.                                      *)

\* The whole of Refs, place by place.
LEMMA RefsByPlaceLemma ==
    ASSUME \A d \in Client : JobRef(d)' /\ SendRef(d)' /\ SeenRef(d)',
           \A n \in Node : ForwardRef(n)' /\ SubRef(n)'
    PROVE  Refs'
  BY DEF Refs, JobRefs, ForwardRefs, SubRefs, SendRefs, SeenRefs

\* The registry's own steps and those that only touch the connection.
LEMMA FrameLemma ==
    ASSUME DInv, UNCHANGED <<msgVars, job, writer, loaded, unread, sub, panicked>>,
           gone' \subseteq Client,
           send' = send \/ \E c \in Client : send' = [send EXCEPT ![c] = <<>>],
           forward' = forward \/ \E n \in Node : forward' = [forward EXCEPT ![n] = <<>>],
           \A d \in Client : job[d] # Idle => phase'[d] = "listening"
    PROVE  ChanTypes' /\ Refs'
<1> USE DEF DInv, ChanTypes, msgVars
<1>1. ChanTypes'
  <2>1. send' \in [Client -> Seq(Id)] /\ \A c \in Client : Len(send'[c]) <= Capacity
    <3>1. <<>> \in Seq(Id) /\ Len(<<>>) = 0 /\ 0 <= Capacity
      BY EmptySeqLemma, DeliveryAssumption
    <3> QED BY <3>1
  <2>2. forward' \in [Node -> Seq([to : User, id : Id])]
    <3>1. <<>> \in Seq([to : User, id : Id])
      BY EmptySeqLemma
    <3> QED BY <3>1
  <2> QED BY <2>1, <2>2
<1>2. RowsStay
  BY RowsStayLemma
<1>3. \A d \in Client : JobRef(d)'
  BY <1>2, JobsKeepLemma
<1>4. \A d \in Client : send'[d] \in {send[d], <<>>}
  OBVIOUS
<1>5. \A n \in Node : forward'[n] \in {forward[n], <<>>}
  OBVIOUS
<1>6. \A d \in Client : SendRef(d)' /\ SeenRef(d)'
  BY <1>2, <1>4, QueuesKeepLemma
<1>7. \A n \in Node : ForwardRef(n)' /\ SubRef(n)'
  BY <1>2, <1>5, QueuesKeepLemma
<1> QED BY <1>1, <1>3, <1>6, <1>7, RefsByPlaceLemma

\* A process ends, and with it its handlers, channels and subscriber.
LEMMA LostLemma ==
    ASSUME DInv, NEW n \in Node, Lost(n), panicked' \subseteq Node
    PROVE  ChanTypes' /\ Refs'
<1> USE DEF DInv, ChanTypes
<1> DEFINE mine == {c \in Client : Home[c] = n /\ phase[c] # "new"}
<1>1. /\ job' = [c \in Client |-> IF c \in mine THEN Idle ELSE job[c]]
      /\ send' = [c \in Client |-> IF c \in mine THEN <<>> ELSE send[c]]
      /\ unread' = [c \in Client |-> IF c \in mine THEN {} ELSE unread[c]]
      /\ gone' = gone \cup mine
      /\ forward' = [forward EXCEPT ![n] = <<>>]
      /\ sub' = [sub EXCEPT ![n] = Idle]
      /\ UNCHANGED <<msgVars, writer, loaded>>
  BY DEF Lost
<1>2. phase' = [c \in Client |-> IF c \in mine THEN "closed" ELSE phase[c]]
  BY DEF Lost, Vanish
<1> HIDE DEF mine
<1>3. ChanTypes'
  <2>1. send' \in [Client -> Seq(Id)] /\ \A c \in Client : Len(send'[c]) <= Capacity
    BY <1>1, EmptySeqLemma, DeliveryAssumption
  <2>2. forward' \in [Node -> Seq([to : User, id : Id])]
    BY <1>1, EmptySeqLemma
  <2>3. job' \in [Client -> Job] /\ sub' \in [Node -> Handover]
    BY <1>1, HandoverLemma, IdleLemma
  <2>4. gone' \subseteq Client
    BY <1>1 DEF mine
  <2>5. unread' \in [Client -> SUBSET Id]
    BY <1>1
  <2> QED BY <1>1, <2>1, <2>2, <2>3, <2>4, <2>5 DEF msgVars
<1>4. RowsStay
  BY <1>1, RowsStayLemma DEF msgVars
<1>5. ASSUME NEW d \in Client PROVE JobRef(d)'
  <2>1. job'[d] = Idle \/ (job'[d] = job[d] /\ phase'[d] = phase[d])
    BY <1>1, <1>2
  <2>2. JobRef(d)
    BY DEF Refs, JobRefs
  <2>3. job'[d] # Idle => phase'[d] = "listening"
    BY <2>1, <2>2 DEF JobRef
  <2> QED BY <1>4, <2>1, <2>3, JobsKeepLemma
<1>6. \A d \in Client : SendRef(d)' /\ SeenRef(d)'
  <2>1. \A d \in Client : send'[d] \in {send[d], <<>>} /\ unread'[d] \subseteq unread[d] /\ received' = received
    BY <1>1 DEF msgVars
  <2> QED BY <1>4, <2>1, QueuesKeepLemma
<1>7. \A k \in Node : ForwardRef(k)' /\ SubRef(k)'
  <2>1. \A k \in Node : forward'[k] \in {forward[k], <<>>} /\ sub'[k] \in {sub[k], Idle}
    BY <1>1
  <2> QED BY <1>4, <2>1, QueuesKeepLemma
<1> QED BY <1>3, <1>5, <1>6, <1>7, RefsByPlaceLemma

\* DeliverTotalMsg, whoever calls it, puts a message only into a channel that
\* has room, and only into its addressee's.
LEMMA DeliverTotalLemma ==
    ASSUME DInv, NEW c \in Client, NEW i \in Id, StoredFor(i, Owner[c]), UNCHANGED rows,
           Enqueue(c, i) \/ KickFull(c)
    PROVE  /\ send' \in [Client -> Seq(Id)] /\ \A d \in Client : Len(send'[d]) <= Capacity
           /\ \A d \in Client : SendRef(d)'
           /\ phase' = phase
<1> USE DEF DInv, ChanTypes
<1>1. RowsStay
  BY RowsStayLemma
<1>2. CASE Enqueue(c, i)
  <2>1. send' = [send EXCEPT ![c] = Append(send[c], i)] /\ Len(send[c]) < Capacity /\ phase' = phase
    BY <1>2 DEF Enqueue, presenceVars
  <2>2. /\ Append(send[c], i) \in Seq(Id)
        /\ Len(Append(send[c], i)) = Len(send[c]) + 1 /\ Len(send[c]) \in Nat
    BY AppendLemma
  <2>3. send' \in [Client -> Seq(Id)]
    BY <2>1, <2>2
  <2>4. ASSUME NEW d \in Client PROVE Len(send'[d]) <= Capacity /\ SendRef(d)'
    <3>1. CASE d = c
      <4>1. send'[c] = Append(send[c], i)
        BY <2>1
      <4>2. SendRef(c)'
        BY <1>1, <4>1, AddLemma
      <4> QED BY <2>1, <2>2, <3>1, <4>1, <4>2, DeliveryAssumption
    <3>2. CASE d # c
      <4>1. send'[d] = send[d]
        BY <2>1, <3>2
      <4> QED BY <1>1, <4>1, QueuesKeepLemma
    <3> QED BY <3>1, <3>2
  <2> QED BY <2>1, <2>3, <2>4
<1>3. CASE KickFull(c)
  <2>1. send' = send /\ phase' = phase
    BY <1>3 DEF KickFull, SpawnKick, presenceVars
  <2> QED BY <1>1, <2>1, QueuesKeepLemma
<1> QED BY <1>2, <1>3

\* Ids are what the rows are numbered with.
LEMMA RowIdLemma ==
    ASSUME DInv
    PROVE  /\ Len(rows) \in Nat
           /\ \A i \in 1 .. Len(rows) : i \in Id /\ rows[i] \in Row /\ rows[i].from \in User /\ rows[i].to \in User
<1>1. rows \in Seq(Row) /\ Len(rows) <= MaxMsgs /\ MaxMsgs \in Nat /\ Len(rows) \in Nat
  BY DeliveryAssumption DEF DInv, ChanTypes
<1>2. \A i \in 1 .. Len(rows) : rows[i] \in Row
  BY <1>1
<1> QED BY <1>1, <1>2 DEF Id, Row

\* DeliverUnreadMsg loads and writes the rows of its own user.
LEMMA UnreadLemma ==
    ASSUME DInv, NEW c \in Client, LoadUnread(c) \/ PushUnread(c)
    PROVE  ChanTypes' /\ Refs'
<1> USE DEF DInv, ChanTypes
<1>1. /\ UNCHANGED <<rows, lastRead, job, send, writer, gone, forward, sub, panicked, phase>>
      /\ \A d \in Client : d # c => unread'[d] = unread[d] /\ received'[d] = received[d]
      /\ loaded' \subseteq Client
    BY DEF LoadUnread, PushUnread, presenceVars, msgVars
<1>2. RowsStay
  BY <1>1, RowsStayLemma
<1>3. SeenRef(c)' /\ unread' \in [Client -> SUBSET Id] /\ received' \in [Client -> SUBSET Id]
  <2>1. CASE unread' = [unread EXCEPT ![c] = UnreadOf(Owner[c])] /\ received' = received
    <3>1. \A i \in UnreadOf(Owner[c]) : StoredWith(i, Owner[c]) /\ i \in Id
      BY RowIdLemma DEF UnreadOf, StoredWith
    <3>2. unread'[c] = UnreadOf(Owner[c]) /\ received'[c] = received[c]
      BY <2>1
    <3>3. SeenRef(c)
      BY DEF Refs, SeenRefs
    <3>4. SeenRef(c)'
      BY <1>1, <3>1, <3>2, <3>3 DEF SeenRef, StoredWith
    <3>5. UnreadOf(Owner[c]) \in SUBSET Id
      BY <3>1
    <3> QED BY <2>1, <3>4, <3>5
  <2>2. CASE UNCHANGED <<unread, received>>
    BY <1>2, <2>2, QueuesKeepLemma
  <2>3. CASE PushUnread(c)
    <3>1. PICK i \in InOrder(unread[c]) :
             /\ received' \in {received, [received EXCEPT ![c] = @ \cup {i}]}
             /\ \E rest \in {unread[c] \ {i}, {}} : unread' = [unread EXCEPT ![c] = rest]
      BY <2>3 DEF PushUnread
    <3>2. i \in unread[c] /\ unread[c] \subseteq Id
      BY <3>1 DEF InOrder
    <3>3. unread' \in [Client -> SUBSET Id] /\ received' \in [Client -> SUBSET Id]
      <4>1. received[c] \cup {i} \in SUBSET Id /\ unread[c] \ {i} \in SUBSET Id /\ {} \in SUBSET Id
        BY <3>2
      <4> QED BY <3>1, <4>1
    <3>4. unread'[c] \subseteq unread[c] /\ received'[c] \subseteq received[c] \cup unread[c]
      BY <3>1, <3>2
    <3> QED BY <1>2, <3>3, <3>4, QueuesKeepLemma
  <2>4. CASE LoadUnread(c)
    BY <2>1, <2>2, <2>4 DEF LoadUnread, msgVars
  <2> QED BY <2>3, <2>4
<1>4. \A d \in Client : JobRef(d)'
  <2>1. ASSUME NEW d \in Client PROVE JobRef(d)'
    <3>1. JobRef(d)
      BY DEF Refs, JobRefs
    <3> QED BY <1>1, <1>2, <3>1, JobsKeepLemma DEF JobRef
  <2> QED BY <2>1
<1>5. \A d \in Client : SendRef(d)' /\ SeenRef(d)'
  BY <1>1, <1>2, <1>3, QueuesKeepLemma
<1>6. \A n \in Node : ForwardRef(n)' /\ SubRef(n)'
  BY <1>1, <1>2, QueuesKeepLemma
<1>7. ChanTypes'
  BY <1>1, <1>3
<1> QED BY <1>4, <1>5, <1>6, <1>7, RefsByPlaceLemma

\* DeliverMsg writes to its own peer what its own channel held.
LEMMA WriteSendLemma ==
    ASSUME DInv, NEW c \in Client, WriteSend(c)
    PROVE  ChanTypes' /\ Refs'
<1> USE DEF DInv, ChanTypes
<1> DEFINE q == send[c]
<1>1. /\ q # <<>> /\ send' = [send EXCEPT ![c] = Tail(q)]
      /\ UNCHANGED <<rows, lastRead, job, loaded, unread, gone, forward, sub, panicked, phase>>
      /\ received' \in {received, [received EXCEPT ![c] = @ \cup {Head(q)}]}
      /\ writer' \subseteq Client
  BY DEF WriteSend, presenceVars
<1>2. RowsStay
  BY <1>1, RowsStayLemma
<1>3. /\ Tail(q) \in Seq(Id) /\ Len(q) \in Nat \ {0} /\ Len(Tail(q)) = Len(q) - 1
      /\ Head(q) = q[1] /\ q[1] \in Id
  <2>1. q \in Seq(Id)
    OBVIOUS
  <2> QED BY <1>1, <2>1, TailLemma
<1>4. StoredFor(Head(q), Owner[c])
  BY <1>3 DEF Refs, SendRefs, SendRef
<1>5. Len(q) <= Capacity /\ Capacity \in Nat
  BY DeliveryAssumption
<1> HIDE DEF q
<1>6. send'[c] = Tail(q) /\ \A d \in Client : d # c => send'[d] = send[d]
  BY <1>1
<1>7. ChanTypes'
  <2>1. send' \in [Client -> Seq(Id)]
    BY <1>1, <1>3
  <2>2. \A d \in Client : Len(send'[d]) <= Capacity
    <3>1. Len(send'[c]) <= Capacity
      BY <1>3, <1>5, <1>6
    <3> QED BY <1>6, <3>1
  <2>3. received' \in [Client -> SUBSET Id]
    <3>1. received[c] \cup {Head(q)} \in SUBSET Id
      BY <1>3
    <3> QED BY <1>1, <3>1
  <2> QED BY <1>1, <2>1, <2>2, <2>3
<1>8. ASSUME NEW d \in Client PROVE SendRef(d)'
  <2>1. CASE d = c
    BY <1>1, <1>2, <1>6, <2>1, TakeLemma DEF q
  <2>2. CASE d # c
    BY <1>2, <1>6, <2>2, QueuesKeepLemma
  <2> QED BY <2>1, <2>2
<1>9. ASSUME NEW d \in Client PROVE SeenRef(d)'
  <2>1. SeenRef(d) /\ unread' = unread
    BY <1>1 DEF Refs, SeenRefs
  <2>2. \A i \in received'[d] : i \in received[d] \/ (d = c /\ i = Head(q))
    BY <1>1
  <2> QED BY <1>1, <1>4, <2>1, <2>2 DEF SeenRef, StoredWith, StoredFor
<1>10. ASSUME NEW d \in Client PROVE JobRef(d)'
  <2>1. JobRef(d)
    BY DEF Refs, JobRefs
  <2> QED BY <1>1, <1>2, <2>1, JobsKeepLemma DEF JobRef
<1>11. \A n \in Node : ForwardRef(n)' /\ SubRef(n)'
  BY <1>1, <1>2, QueuesKeepLemma
<1> QED BY <1>7, <1>8, <1>9, <1>10, <1>11, RefsByPlaceLemma

\* An ACK moves a mark to a message the peer has received.
LEMMA MarkReadLemma ==
    ASSUME DInv, NEW u \in User, NEW i \in 1 .. Len(rows), MarkRead(u, i)
    PROVE  lastRead' \in [User -> [User -> 0 .. MaxMsgs]]
<1>1. Partner(u, rows[i]) \in User /\ i \in 0 .. MaxMsgs
  BY DeliveryAssumption, RowIdLemma DEF Partner, Id
<1> HIDE DEF Partner
<1>2. lastRead \in [User -> [User -> 0 .. MaxMsgs]]
  BY DEF DInv, ChanTypes
<1> DEFINE v == Partner(u, rows[i])
           x == IF lastRead[u][v] < i THEN i ELSE lastRead[u][v]
<1>3. lastRead' = [lastRead EXCEPT ![u][v] = x]
  BY DEF MarkRead
<1>4. x \in 0 .. MaxMsgs /\ v \in User
  BY <1>1, <1>2
<1> QED BY <1>2, <1>3, <1>4

\* Without a change to what waits anywhere, nothing is at stake.
LEMMA QuietLemma ==
    ASSUME DInv, UNCHANGED <<rows, job, send, writer, loaded, unread, received, gone, forward, sub, panicked, phase>>,
           lastRead' \in [User -> [User -> 0 .. MaxMsgs]]
    PROVE  ChanTypes' /\ Refs'
<1> USE DEF DInv, ChanTypes
<1>1. ChanTypes'
  OBVIOUS
<1>2. Refs'
  BY DEF Refs, JobRefs, JobRef, ForwardRefs, ForwardRef, SubRefs, SubRef, SendRefs, SendRef,
         SeenRefs, SeenRef, StoredFor, StoredWith
<1> QED BY <1>1, <1>2

\* handleChatMsg begins: the row is stored, and the handler holds its id.
LEMMA ChatLemma ==
    ASSUME DInv, NEW c \in Client, NEW v \in User, Chat(c, v)
    PROVE  ChanTypes' /\ Refs'
<1> USE PresenceAssumption DEF DInv, ChanTypes
<1> DEFINE r == [from |-> Owner[c], to |-> v]
           j == [step |-> "stored", to |-> v, id |-> Len(rows) + 1]
<1>1. /\ rows' = Append(rows, r) /\ job' = [job EXCEPT ![c] = j]
      /\ phase[c] = "listening" /\ Len(rows) < MaxMsgs
      /\ UNCHANGED <<lastRead, received, send, writer, loaded, unread, gone, forward, sub, panicked, phase>>
  BY DEF Chat, presenceVars
<1>2. r \in Row /\ r.from = Owner[c] /\ r.to = v
  BY DEF Row
<1>3. /\ rows' \in Seq(Row) /\ Len(rows') = Len(rows) + 1 /\ Len(rows) \in Nat
      /\ rows'[Len(rows) + 1] = r
  BY <1>1, <1>2, AppendLemma
<1>4. RowsStay
  BY <1>1, <1>2, RowsStayLemma
<1>5. Len(rows) + 1 \in Id /\ Len(rows') <= MaxMsgs
  BY <1>1, <1>3, DeliveryAssumption DEF Id
<1>6. j \in Job /\ j # Idle /\ j.step = "stored" /\ j.to = v /\ j.id = Len(rows) + 1
  BY <1>5, MakeJobLemma
<1> HIDE DEF r, j
<1>7. ChanTypes'
  BY <1>1, <1>3, <1>5, <1>6
<1>8. ASSUME NEW d \in Client PROVE JobRef(d)'
  <2>1. CASE d = c
    <3>1. job'[c] = j
      BY <1>1
    <3> QED BY <1>1, <1>2, <1>3, <1>6, <2>1, <3>1 DEF JobRef, StoredFor
  <2>2. CASE d # c
    <3>1. job'[d] = job[d] /\ JobRef(d)
      BY <1>1, <2>2 DEF Refs, JobRefs
    <3> QED BY <1>1, <1>4, <3>1, JobsKeepLemma DEF JobRef
  <2> QED BY <2>1, <2>2
<1>9. \A d \in Client : SendRef(d)' /\ SeenRef(d)'
  BY <1>1, <1>4, QueuesKeepLemma
<1>10. \A n \in Node : ForwardRef(n)' /\ SubRef(n)'
  BY <1>1, <1>4, QueuesKeepLemma
<1> QED BY <1>7, <1>8, <1>9, <1>10, RefsByPlaceLemma

\* A handler that goes on keeps its message, and the client it finds in the
\* map is one of the addressee's, on its own node.
LEMMA HandlerLemma ==
    ASSUME DInv, NEW c \in Client, NEW j \in Job, job[c] # Idle,
           job' = [job EXCEPT ![c] = j],
           j # Idle => /\ j.id = job[c].id /\ j.to = job[c].to
                       /\ j.step = "local" => Owner[j.client] = j.to /\ Home[j.client] = Home[c],
           UNCHANGED <<rows, received, send, writer, loaded, unread, gone, sub, panicked, phase>>,
           lastRead' \in [User -> [User -> 0 .. MaxMsgs]],
           forward' = forward \/ \E n \in Node, m \in [to : User, id : Id] :
                forward' = [forward EXCEPT ![n] = Append(@, m)] /\ StoredFor(m.id, m.to)
    PROVE  ChanTypes' /\ Refs'
<1> USE DEF DInv, ChanTypes
<1>1. RowsStay
  BY RowsStayLemma
<1>2. forward' \in [Node -> Seq([to : User, id : Id])] /\ \A n \in Node : ForwardRef(n)'
  <2>1. CASE forward' = forward
    BY <1>1, <2>1, QueuesKeepLemma
  <2>2. ASSUME NEW n \in Node, NEW m \in [to : User, id : Id],
               forward' = [forward EXCEPT ![n] = Append(@, m)], StoredFor(m.id, m.to)
        PROVE  forward' \in [Node -> Seq([to : User, id : Id])] /\ \A k \in Node : ForwardRef(k)'
    <3>1. Append(forward[n], m) \in Seq([to : User, id : Id])
      BY AppendLemma
    <3>2. forward' \in [Node -> Seq([to : User, id : Id])] /\ forward'[n] = Append(forward[n], m)
      BY <2>2, <3>1
    <3>3. ForwardRef(n)'
      BY <1>1, <2>2, <3>2, AddLemma
    <3>4. \A k \in Node : k # n => forward'[k] = forward[k]
      BY <2>2
    <3>5. \A k \in Node : k # n => ForwardRef(k)'
      BY <1>1, <3>4, QueuesKeepLemma
    <3> QED BY <3>2, <3>3, <3>5
  <2> QED BY <2>1, <2>2
<1>3. ChanTypes'
  BY <1>2
<1>4. ASSUME NEW d \in Client PROVE JobRef(d)'
  <2>1. JobRef(d)
    BY DEF Refs, JobRefs
  <2>2. CASE d = c
    <3>1. job'[d] = j
      BY <2>2
    <3> QED BY <2>1, <2>2, <3>1 DEF JobRef, StoredFor
  <2>3. CASE d # c
    <3>1. job'[d] = job[d]
      BY <2>3
    <3> QED BY <1>1, <2>1, <3>1, JobsKeepLemma DEF JobRef
  <2> QED BY <2>2, <2>3
<1>5. \A d \in Client : SendRef(d)' /\ SeenRef(d)'
  BY <1>1, QueuesKeepLemma
<1>6. \A n \in Node : SubRef(n)'
  BY <1>1, QueuesKeepLemma
<1> QED BY <1>2, <1>3, <1>4, <1>5, <1>6, RefsByPlaceLemma

\* The steps of handleChatMsg up to the hand-over.
LEMMA HandlerStepLemma ==
    ASSUME DInv, NEW c \in Client, MarkOwn(c) \/ FindClient(c) \/ FindNode(c) \/ Publish(c)
    PROVE  ChanTypes' /\ Refs'
<1> USE PresenceAssumption
<1> DEFINE J == job[c]
<1>1. J \in Job /\ J # Idle /\ job \in [Client -> Job]
  BY DEF DInv, ChanTypes, MarkOwn, FindClient, FindNode, Publish, Idle
<1>2. /\ J.to \in User /\ J.id \in Id
      /\ J.step \in {"stored", "marked", "remote"} => J = [step |-> J.step, to |-> J.to, id |-> J.id]
      /\ J.step = "forward" => J.node \in Node
  BY <1>1, JobLemma
<1>3. StoredFor(J.id, J.to) /\ rows[J.id].from = Owner[c]
  BY <1>1 DEF DInv, Refs, JobRefs, JobRef
<1>4. lastRead \in [User -> [User -> 0 .. MaxMsgs]]
  BY DEF DInv, ChanTypes
<1> HIDE DEF J
<1>5. /\ \A s \in {"stored", "marked", "remote"} :
            LET k == [step |-> s, to |-> J.to, id |-> J.id] IN
            k \in Job /\ k # Idle /\ k.to = J.to /\ k.id = J.id /\ k.step = s
      /\ \A d \in Client :
            LET k == [step |-> "local", to |-> J.to, id |-> J.id, client |-> d] IN
            k \in Job /\ k.to = J.to /\ k.id = J.id /\ k.client = d
      /\ \A n \in Node :
            LET k == [step |-> "forward", to |-> J.to, id |-> J.id, node |-> n] IN
            k \in Job /\ k.to = J.to /\ k.id = J.id /\ k.step = "forward"
      /\ Idle \in Job
  BY <1>2, MakeJobLemma, IdleLemma
<1>6. CASE MarkOwn(c)
  <2> DEFINE j == [step |-> "marked", to |-> J.to, id |-> J.id]
  <2>1. J.step = "stored" /\ job' = [job EXCEPT ![c].step = "marked"]
    BY <1>6 DEF MarkOwn, J
  <2>2. [J EXCEPT !.step = "marked"] = j
    BY <1>2, <2>1
  <2>3. job' = [job EXCEPT ![c] = j]
    BY <2>1, <2>2 DEF J
  <2>4. lastRead' \in [User -> [User -> 0 .. MaxMsgs]]
    <3>1. CASE MarkRead(Owner[c], J.id)
      <4>1. J.id \in 1 .. Len(rows) /\ Owner[c] \in User
        BY <1>3 DEF StoredFor
      <4> QED BY <3>1, <4>1, MarkReadLemma
    <3>2. CASE lastRead' = lastRead
      BY <1>4, <3>2
    <3> QED BY <1>6, <3>1, <3>2 DEF MarkOwn, J
  <2>5. UNCHANGED <<rows, received, send, writer, loaded, unread, gone, forward, sub, panicked, phase>>
    BY <1>6 DEF MarkOwn, presenceVars
  <2>6. j \in Job /\ j.id = J.id /\ j.to = J.to /\ j.step # "local"
    BY <1>5
  <2> HIDE DEF j
  <2> QED BY <1>1, <2>3, <2>4, <2>5, <2>6, HandlerLemma DEF J
<1>7. CASE FindClient(c)
  <2> DEFINE t == clients[Home[c]][J.to]
             j == IF t = NoClient THEN [step |-> "remote", to |-> J.to, id |-> J.id]
                                  ELSE [step |-> "local", to |-> J.to, id |-> J.id, client |-> t]
  <2>1. J.step = "marked"
    BY <1>7 DEF FindClient, J
  <2>2. [J EXCEPT !.step = "remote"] = [step |-> "remote", to |-> J.to, id |-> J.id]
    BY <1>2, <2>1
  <2>3. job' = [job EXCEPT ![c] = j]
    BY <1>7, <2>2 DEF FindClient, J
  <2>4. t # NoClient => t \in Client /\ Owner[t] = J.to /\ Home[t] = Home[c]
    <3>1. Home[c] \in Node /\ J.to \in User
      BY <1>2
    <3> QED BY <3>1 DEF DInv, IInv, PresenceTypeOK, EntryIsServed
  <2>5. UNCHANGED <<rows, lastRead, received, send, writer, loaded, unread, gone, forward, sub, panicked, phase>>
    BY <1>7 DEF FindClient, presenceVars, msgVars
  <2> HIDE DEF t
  <2>6. /\ j \in Job /\ j.id = J.id /\ j.to = J.to
        /\ j.step = "local" => Owner[j.client] = j.to /\ Home[j.client] = Home[c]
    <3>1. CASE t = NoClient
      BY <1>5, <3>1
    <3>2. CASE t # NoClient
      BY <1>5, <2>4, <3>2
    <3> QED BY <3>1, <3>2
  <2> HIDE DEF j
  <2> QED BY <1>1, <1>4, <2>3, <2>5, <2>6, HandlerLemma DEF J
<1>8. CASE FindNode(c)
  <2> DEFINE n == online[J.to]
             j == [step |-> "forward", to |-> J.to, id |-> J.id, node |-> n]
  <2>1. job' = [job EXCEPT ![c] = Idle] \/ (n # NoNode /\ job' = [job EXCEPT ![c] = j])
    BY <1>8 DEF FindNode, J
  <2>2. n # NoNode => n \in Node
    BY <1>2 DEF DInv, IInv, PresenceTypeOK
  <2>3. UNCHANGED <<rows, lastRead, received, send, writer, loaded, unread, gone, forward, sub, panicked, phase>>
    BY <1>8 DEF FindNode, presenceVars, msgVars
  <2>4. n # NoNode => j \in Job /\ j.id = J.id /\ j.to = J.to /\ j.step # "local"
    BY <1>5, <2>2
  <2> HIDE DEF j, n
  <2>5. CASE job' = [job EXCEPT ![c] = Idle]
    BY <1>1, <1>4, <1>5, <2>3, <2>5, HandlerLemma DEF J
  <2>6. CASE n # NoNode /\ job' = [job EXCEPT ![c] = j]
    BY <1>1, <1>4, <2>3, <2>4, <2>6, HandlerLemma DEF J
  <2> QED BY <2>1, <2>5, <2>6
<1>9. CASE Publish(c)
  <2> DEFINE m == [to |-> J.to, id |-> J.id]
  <2>1. J.step = "forward" /\ job' = [job EXCEPT ![c] = Idle]
    BY <1>9 DEF Publish, J
  <2>2. J.node \in Node
    BY <1>2, <2>1
  <2>3. forward' = forward \/ forward' = [forward EXCEPT ![J.node] = Append(@, m)]
    BY <1>9 DEF Publish, J
  <2>4. m \in [to : User, id : Id] /\ StoredFor(m.id, m.to)
    BY <1>2, <1>3
  <2>5. UNCHANGED <<rows, lastRead, received, send, writer, loaded, unread, gone, sub, panicked, phase>>
    BY <1>9 DEF Publish, presenceVars, msgVars
  <2> HIDE DEF m
  <2> QED BY <1>1, <1>4, <1>5, <2>1, <2>2, <2>3, <2>4, <2>5, HandlerLemma DEF J
<1> QED BY <1>6, <1>7, <1>8, <1>9

\* The hand-over ends the handler; a panic ends its node.
LEMMA DeliverLocalLemma ==
    ASSUME DInv, NEW c \in Client, DeliverLocal(c)
    PROVE  ChanTypes' /\ Refs'
<1> USE PresenceAssumption
<1> DEFINE t == job[c].client  i == job[c].id
<1>1. job[c] \in Job /\ job[c] # Idle /\ job[c].step = "local"
  BY DEF DInv, ChanTypes, DeliverLocal, Idle
<1>2. t \in Client /\ i \in Id
  BY <1>1, JobLemma
<1>3. StoredFor(i, Owner[t])
  BY <1>1 DEF DInv, Refs, JobRefs, JobRef
<1>4. \/ /\ Enqueue(t, i) \/ KickFull(t)
         /\ job' = [job EXCEPT ![c] = Idle]
         /\ UNCHANGED <<msgVars, writer, loaded, unread, gone, forward, sub, panicked>>
      \/ Panic(t)
  BY DEF DeliverLocal
<1> HIDE DEF t, i
<1>5. CASE Panic(t)
  <2>1. Home[t] \in Node /\ Lost(Home[t]) /\ panicked' \subseteq Node
    BY <1>2, <1>5 DEF Panic, DInv, ChanTypes
  <2> QED BY <2>1, LostLemma
<1>6. CASE /\ Enqueue(t, i) \/ KickFull(t)
           /\ job' = [job EXCEPT ![c] = Idle]
           /\ UNCHANGED <<msgVars, writer, loaded, unread, gone, forward, sub, panicked>>
  <2>1. /\ send' \in [Client -> Seq(Id)] /\ \A d \in Client : Len(send'[d]) <= Capacity
        /\ \A d \in Client : SendRef(d)'
        /\ phase' = phase
    BY <1>2, <1>3, <1>6, DeliverTotalLemma DEF msgVars
  <2>2. RowsStay
    BY <1>6, RowsStayLemma DEF msgVars, DInv
  <2>3. ChanTypes'
    BY <1>6, <2>1, IdleLemma DEF DInv, ChanTypes, msgVars
  <2>4. ASSUME NEW d \in Client PROVE JobRef(d)'
    <3>1. JobRef(d) /\ (job'[d] = Idle \/ job'[d] = job[d])
      BY <1>6 DEF DInv, ChanTypes, Refs, JobRefs
    <3> QED BY <2>1, <2>2, <3>1, JobsKeepLemma DEF JobRef, DInv
  <2>5. \A d \in Client : SeenRef(d)'
    BY <1>6, <2>2, QueuesKeepLemma DEF msgVars, DInv
  <2>6. \A n \in Node : ForwardRef(n)' /\ SubRef(n)'
    BY <1>6, <2>2, QueuesKeepLemma DEF DInv
  <2> QED BY <2>1, <2>3, <2>4, <2>5, <2>6, RefsByPlaceLemma
<1> QED BY <1>4, <1>5, <1>6

\* The subscriber looks the addressee up in the map of its node.
LEMMA ReceiveForwardLemma ==
    ASSUME DInv, NEW n \in Node, ReceiveForward(n)
    PROVE  ChanTypes' /\ Refs'
<1> USE PresenceAssumption
<1> DEFINE q == forward[n]  m == Head(q)  t == clients[n][m.to]
           h == IF t = NoClient THEN Idle ELSE [step |-> "local", id |-> m.id, client |-> t]
<1>1. /\ q # <<>> /\ forward' = [forward EXCEPT ![n] = Tail(q)]
      /\ sub' = [sub EXCEPT ![n] = h]
      /\ UNCHANGED <<rows, lastRead, received, job, send, writer, loaded, unread, gone, panicked, phase>>
  BY DEF ReceiveForward, presenceVars, msgVars
<1>2. q \in Seq([to : User, id : Id]) /\ forward \in [Node -> Seq([to : User, id : Id])]
  BY DEF DInv, ChanTypes
<1>3. \A k \in 1 .. Len(q) : StoredFor(q[k].id, q[k].to)
  BY DEF DInv, Refs, ForwardRefs, ForwardRef
<1> HIDE DEF q
<1>4. m = q[1] /\ m \in [to : User, id : Id] /\ Len(q) \in Nat \ {0} /\ Tail(q) \in Seq([to : User, id : Id])
  <2> DEFINE S == [to : User, id : Id]
  <2>1. q \in Seq(S)
    BY <1>2
  <2> HIDE DEF S
  <2>2. Tail(q) \in Seq(S) /\ Len(q) \in Nat \ {0} /\ Head(q) = q[1] /\ q[1] \in S
    BY <1>1, <2>1, TailLemma
  <2> QED BY <2>2 DEF S
<1>5. StoredFor(m.id, m.to) /\ m.to \in User /\ m.id \in Id
  BY <1>3, <1>4
<1> HIDE DEF m
<1>6. t # NoClient => t \in Client /\ Owner[t] = m.to /\ Home[t] = n
  BY <1>5 DEF DInv, IInv, PresenceTypeOK, EntryIsServed
<1> HIDE DEF t
<1>7. h \in Handover /\ (h # Idle => h.id = m.id /\ h.client = t /\ t # NoClient)
  BY <1>5, <1>6, HandoverLemma
<1> HIDE DEF h
<1>8. RowsStay
  BY <1>1, RowsStayLemma DEF DInv
<1>9. ChanTypes'
  <2>1. forward' \in [Node -> Seq([to : User, id : Id])]
    BY <1>1, <1>2, <1>4
  <2>2. sub' \in [Node -> Handover]
    BY <1>1, <1>7 DEF DInv, ChanTypes
  <2> QED BY <1>1, <2>1, <2>2 DEF DInv, ChanTypes
<1>10. ASSUME NEW d \in Client PROVE JobRef(d)' /\ SendRef(d)' /\ SeenRef(d)'
  <2>1. JobRef(d)
    BY DEF DInv, Refs, JobRefs
  <2>2. JobRef(d)'
    BY <1>1, <1>8, <2>1, JobsKeepLemma DEF JobRef, DInv
  <2> QED BY <1>1, <1>8, <2>2, QueuesKeepLemma DEF DInv
<1>11. ASSUME NEW k \in Node PROVE ForwardRef(k)' /\ SubRef(k)'
  <2>1. CASE k = n
    <3>1. forward'[n] = Tail(q) /\ sub'[n] = h
      BY <1>1, <1>2 DEF DInv, ChanTypes
    <3>2. ForwardRef(n)'
      BY <1>1, <1>8, <3>1, TakeLemma DEF DInv, q
    <3>3. SubRef(n)'
      BY <1>1, <1>5, <1>6, <1>7, <3>1 DEF SubRef, StoredFor
    <3> QED BY <2>1, <3>2, <3>3
  <2>2. CASE k # n
    <3>1. forward'[k] = forward[k] /\ sub'[k] = sub[k]
      BY <1>1, <1>2, <2>2 DEF DInv, ChanTypes
    <3> QED BY <1>8, <3>1, QueuesKeepLemma DEF DInv
  <2> QED BY <2>1, <2>2
<1> QED BY <1>9, <1>10, <1>11, RefsByPlaceLemma

LEMMA DeliverForwardedLemma ==
    ASSUME DInv, NEW n \in Node, DeliverForwarded(n)
    PROVE  ChanTypes' /\ Refs'
<1> USE PresenceAssumption
<1> DEFINE t == sub[n].client  i == sub[n].id
<1>1. sub[n] \in Handover /\ sub[n] # Idle
  BY DEF DInv, ChanTypes, DeliverForwarded
<1>2. t \in Client /\ i \in Id
  BY <1>1, HandoverLemma
<1>3. StoredFor(i, Owner[t])
  BY <1>1 DEF DInv, Refs, SubRefs, SubRef
<1>4. \/ /\ Enqueue(t, i) \/ KickFull(t)
         /\ sub' = [sub EXCEPT ![n] = Idle]
         /\ UNCHANGED <<msgVars, job, writer, loaded, unread, gone, forward, panicked>>
      \/ Panic(t)
  BY DEF DeliverForwarded
<1> HIDE DEF t, i
<1>5. CASE Panic(t)
  <2>1. Home[t] \in Node /\ Lost(Home[t]) /\ panicked' \subseteq Node
    BY <1>2, <1>5 DEF Panic, DInv, ChanTypes
  <2> QED BY <2>1, LostLemma
<1>6. CASE /\ Enqueue(t, i) \/ KickFull(t)
           /\ sub' = [sub EXCEPT ![n] = Idle]
           /\ UNCHANGED <<msgVars, job, writer, loaded, unread, gone, forward, panicked>>
  <2>1. /\ send' \in [Client -> Seq(Id)] /\ \A d \in Client : Len(send'[d]) <= Capacity
        /\ \A d \in Client : SendRef(d)'
        /\ phase' = phase
    BY <1>2, <1>3, <1>6, DeliverTotalLemma DEF msgVars
  <2>2. RowsStay
    BY <1>6, RowsStayLemma DEF msgVars, DInv
  <2>3. ChanTypes'
    BY <1>6, <2>1, HandoverLemma DEF DInv, ChanTypes, msgVars
  <2>4. ASSUME NEW d \in Client PROVE JobRef(d)'
    <3>1. JobRef(d)
      BY DEF DInv, Refs, JobRefs
    <3> QED BY <1>6, <2>1, <2>2, <3>1, JobsKeepLemma DEF JobRef, DInv
  <2>5. \A d \in Client : SeenRef(d)'
    BY <1>6, <2>2, QueuesKeepLemma DEF msgVars, DInv
  <2>6. \A k \in Node : ForwardRef(k)' /\ SubRef(k)'
    <3>1. \A k \in Node : sub'[k] \in {sub[k], Idle}
      BY <1>6 DEF DInv, ChanTypes
    <3> QED BY <1>6, <2>2, <3>1, QueuesKeepLemma DEF DInv
  <2> QED BY <2>1, <2>3, <2>4, <2>5, <2>6, RefsByPlaceLemma
<1> QED BY <1>4, <1>5, <1>6

\* The registry's steps, and those of the connection, move no message.
LEMMA RegistryFrameLemma ==
    ASSUME DInv, NEW c \in Client,
           RegistryStep(c) \/ Connect(c) \/ Listen(c) \/ Hangup(c) \/ CloseSend(c) \/ PeerGoes(c)
    PROVE  ChanTypes' /\ Refs'
<1>1. \A d \in Client : job[d] # Idle => phase[d] = "listening"
  BY DEF DInv, Refs, JobRefs, JobRef
<1>2. phase \in [Client -> Phase]
  BY DEF DInv, IInv, PresenceTypeOK
<1>3. CASE RegistryStep(c) \/ Connect(c) \/ Listen(c)
  <2>1. \A d \in Client : phase[d] = "listening" => phase'[d] = "listening"
    BY <1>2, <1>3 DEF RegistryStep, Connect, Listen, RegisterEntry, RegisterOnline, ClearOnline,
                      KickEntry, KickOnline, Accept, StartListening
  <2>2. UNCHANGED <<msgVars, chanVars>>
    BY <1>3 DEF RegistryStep, Connect, Listen
  <2>3. gone' \subseteq Client
    BY <2>2 DEF chanVars, DInv, ChanTypes
  <2> QED BY <1>1, <2>1, <2>2, <2>3, FrameLemma DEF chanVars
<1>4. CASE Hangup(c)
  <2>1. \A d \in Client : job[d] # Idle => phase'[d] = "listening"
    BY <1>1, <1>2, <1>4 DEF Hangup, Leave
  <2>2. gone' \subseteq Client
    BY <1>4 DEF Hangup, chanVars, DInv, ChanTypes
  <2> QED BY <1>4, <2>1, <2>2, FrameLemma DEF Hangup, chanVars
<1>5. CASE CloseSend(c)
  <2>1. \A d \in Client : job[d] # Idle => phase'[d] = "listening"
    BY <1>1, <1>2, <1>5 DEF CloseSend, Close
  <2>2. gone' \subseteq Client
    BY <1>5 DEF CloseSend, DInv, ChanTypes
  <2> QED BY <1>5, <2>1, <2>2, FrameLemma DEF CloseSend
<1>6. CASE PeerGoes(c)
  <2>1. \A d \in Client : job[d] # Idle => phase'[d] = "listening"
    BY <1>1, <1>6 DEF PeerGoes, presenceVars
  <2>2. gone' \subseteq Client
    BY <1>6 DEF PeerGoes, DInv, ChanTypes
  <2> QED BY <1>6, <2>1, <2>2, FrameLemma DEF PeerGoes
<1> QED BY <1>3, <1>4, <1>5, <1>6

\* A shutdown closes connections and drops what Redis still had for the node.
LEMMA ShutdownLemma ==
    ASSUME DInv, NEW n \in Node, ShutdownStep(n)
    PROVE  ChanTypes' /\ Refs'
<1>1. \A d \in Client : job[d] # Idle => phase[d] = "listening"
  BY DEF DInv, Refs, JobRefs, JobRef
<1>2. CASE \/ /\ CloseAllClear(n)
              /\ gone' = gone \cup snap[n]
              /\ UNCHANGED <<msgVars, job, send, writer, loaded, unread, forward, sub, panicked>>
           \/ /\ Release(n)
              /\ forward' = [forward EXCEPT ![n] = <<>>]
              /\ UNCHANGED <<msgVars, job, send, writer, loaded, unread, gone, sub, panicked>>
           \/ /\ BeginShutdown(n) \/ CloseAllCollect(n) \/ Restart(n)
              /\ UNCHANGED <<msgVars, chanVars>>
  <2>1. phase' = phase
    BY <1>2 DEF CloseAllClear, Release, BeginShutdown, CloseAllCollect, Restart
  <2>2. gone' \subseteq Client
    BY <1>2 DEF chanVars, DInv, ChanTypes, IInv, PresenceTypeOK
  <2>3. UNCHANGED <<msgVars, job, send, writer, loaded, unread, sub, panicked>>
    BY <1>2 DEF chanVars
  <2>4. forward' = forward \/ forward' = [forward EXCEPT ![n] = <<>>]
    BY <1>2 DEF chanVars
  <2> QED BY <1>1, <2>1, <2>2, <2>3, <2>4, FrameLemma
<1>3. CASE Lost(n) /\ UNCHANGED panicked
  BY <1>3, LostLemma DEF DInv, ChanTypes
<1> QED BY <1>2, <1>3 DEF ShutdownStep

-----------------------------------------------------------------------------
(* Types and references hold in every state.                               *)

LEMMA DeliveryStepLemma ==
    ASSUME DInv, [DeliveryNext]_deliveryVars
    PROVE  DInv'
<1> SUFFICES ChanTypes' /\ Refs'
  BY RegistryStepLemma DEF DInv
<1>1. ASSUME NEW c \in Client, ClientStep(c) PROVE ChanTypes' /\ Refs'
  BY <1>1, RegistryFrameLemma, UnreadLemma, WriteSendLemma, HandlerStepLemma, DeliverLocalLemma
     DEF ClientStep
<1>2. ASSUME NEW c \in Client, Connect(c) \/ PeerGoes(c) PROVE ChanTypes' /\ Refs'
  BY <1>2, RegistryFrameLemma
<1>3. ASSUME NEW c \in Client, NEW v \in User, Chat(c, v) PROVE ChanTypes' /\ Refs'
  BY <1>3, ChatLemma
<1>4. ASSUME NEW c \in Client, NEW i \in Id, Ack(c, i) PROVE ChanTypes' /\ Refs'
  <2>1. i \in 1 .. Len(rows) /\ Owner[c] \in User /\ MarkRead(Owner[c], i)
    BY <1>4, PresenceAssumption DEF Ack, DInv, Refs, SeenRefs, SeenRef, StoredWith
  <2>2. lastRead' \in [User -> [User -> 0 .. MaxMsgs]]
    BY <2>1, MarkReadLemma
  <2> QED BY <1>4, <2>2, QuietLemma DEF Ack, chanVars, presenceVars
<1>5. ASSUME NEW n \in Node, ReceiveForward(n) \/ DeliverForwarded(n) \/ ShutdownStep(n)
      PROVE  ChanTypes' /\ Refs'
  BY <1>5, ReceiveForwardLemma, DeliverForwardedLemma, ShutdownLemma
<1>6. ASSUME NEW u \in User, KeyExpires(u), UNCHANGED <<msgVars, chanVars>> PROVE ChanTypes' /\ Refs'
  BY <1>6, QuietLemma DEF KeyExpires, msgVars, chanVars, DInv, ChanTypes
<1>7. CASE UNCHANGED deliveryVars
  BY <1>7, QuietLemma DEF deliveryVars, DInv, ChanTypes
<1> QED BY <1>1, <1>2, <1>3, <1>4, <1>5, <1>6, <1>7 DEF DeliveryNext

LEMMA DeliveryInitLemma == DeliveryInit => DInv
<1> SUFFICES ASSUME DeliveryInit PROVE DInv
  OBVIOUS
<1> USE DeliveryAssumption DEF DeliveryInit
<1>1. IInv
  BY InitLemma
<1>2. ChanTypes
  BY IdleLemma, HandoverLemma, EmptySeqLemma DEF ChanTypes
<1>3. Refs
  BY DEF Refs, JobRefs, JobRef, ForwardRefs, ForwardRef, SubRefs, SubRef, SendRefs, SendRef,
         SeenRefs, SeenRef
<1> QED BY <1>1, <1>2, <1>3 DEF DInv

THEOREM DeliveryInductive == DeliverySpec => []DInv
  BY DeliveryInitLemma, DeliveryStepLemma, PTL DEF DeliverySpec

\* Every variable of delivery has its type; no Send channel holds more than
\* SendBufferSize, whoever sends to it (client.go:24, 315-325).
THEOREM DeliveryTypeCorrect == DeliverySpec => []DeliveryTypeOK
<1>1. DInv => DeliveryTypeOK
  BY DEF DInv, ChanTypes, IInv, DeliveryTypeOK
<1> QED BY <1>1, DeliveryInductive, PTL

\* With messages under way, kicks at full channels, and processes that die of
\* a panic, a client found in the map is one that is still served
\* (manager.go:68-79, client.go:315-325).
THEOREM LookupsAreServedUnderDelivery == DeliverySpec => []EntryIsServed
<1>1. DInv => EntryIsServed
  BY DEF DInv, IInv
<1> QED BY <1>1, DeliveryInductive, PTL

-----------------------------------------------------------------------------
(* The promise to the users.  Storing, writing to a peer and marking are   *)
(* the steps that Inbox knows; every other step leaves its state alone.    *)

SeenMap == [u \in User |-> SeenBy(u)]

LEMMA SeenStaysLemma == received' = received => SeenMap' = SeenMap
  BY DEF SeenMap, SeenBy

LEMMA SeenGrowsLemma ==
    ASSUME DInv, NEW c \in Client, NEW i, received' = [received EXCEPT ![c] = @ \cup {i}]
    PROVE  SeenMap' = [SeenMap EXCEPT ![Owner[c]] = @ \cup {i}]
<1> USE PresenceAssumption
<1>1. received \in [Client -> SUBSET Id]
  BY DEF DInv, ChanTypes
<1>2. ASSUME NEW u \in User PROVE SeenBy(u)' = IF u = Owner[c] THEN SeenBy(u) \cup {i} ELSE SeenBy(u)
  <2>1. ASSUME NEW x PROVE x \in SeenBy(u)' <=> \E d \in Client : Owner[d] = u /\ x \in received'[d]
    BY DEF SeenBy
  <2>2. ASSUME NEW x PROVE x \in SeenBy(u) <=> \E d \in Client : Owner[d] = u /\ x \in received[d]
    BY DEF SeenBy
  <2>3. /\ received'[c] = received[c] \cup {i}
        /\ \A d \in Client : d # c => received'[d] = received[d]
    BY <1>1
  <2>4. CASE u = Owner[c]
    <3>1. \A x : x \in SeenBy(u)' <=> x \in SeenBy(u) \cup {i}
      BY <2>1, <2>2, <2>3, <2>4
    <3> QED BY <2>4, <3>1
  <2>5. CASE u # Owner[c]
    <3>1. \A x : x \in SeenBy(u)' <=> x \in SeenBy(u)
      BY <2>1, <2>2, <2>3, <2>5
    <3> QED BY <2>5, <3>1
  <2> QED BY <2>4, <2>5
<1>3. SeenMap' = [u \in User |-> SeenBy(u)']
  BY DEF SeenMap
<1>4. SeenMap' = [u \in User |-> IF u = Owner[c] THEN SeenBy(u) \cup {i} ELSE SeenBy(u)]
  BY <1>2, <1>3
<1>5. [SeenMap EXCEPT ![Owner[c]] = @ \cup {i}]
        = [u \in User |-> IF u = Owner[c] THEN SeenBy(u) \cup {i} ELSE SeenBy(u)]
  BY DEF SeenMap
<1> QED BY <1>4, <1>5

\* Where the mark stands, and what a handler marks, is the user's own affair.
LEMMA MarkPromiseLemma ==
    ASSUME DInv, NEW u \in User, NEW i \in 1 .. Len(rows), MarkRead(u, i),
           UNCHANGED <<rows, received>>, u \in {rows[i].from, rows[i].to},
           rows[i].from = u \/ i \in SeenBy(u)
    PROVE  [Promise!Next]_(Promise!vars)
<1> USE RowIdLemma
<1> DEFINE v == Partner(u, rows[i])
<1>1. v \in User
  BY DEF Partner
<1>2. lastRead \in [User -> [User -> 0 .. MaxMsgs]]
  BY DEF DInv, ChanTypes
<1>3. SeenMap' = SeenMap
  BY SeenStaysLemma
<1>4. lastRead' = [lastRead EXCEPT ![u][v] = IF lastRead[u][v] < i THEN i ELSE lastRead[u][v]]
  BY DEF MarkRead
<1>5. CASE lastRead[u][v] < i
  <2>1. lastRead' = [lastRead EXCEPT ![u][v] = i]
    BY <1>4, <1>5
  <2>2. Promise!Mark(u, i)
    BY <1>3, <1>5, <2>1 DEF Promise!Mark, Promise!Partner, Partner, SeenMap
  <2> QED BY <2>2 DEF Promise!Next
<1>6. CASE ~(lastRead[u][v] < i)
  <2>1. lastRead' = lastRead
    BY <1>1, <1>2, <1>4, <1>6
  <2> QED BY <1>3, <2>1 DEF Promise!vars, SeenMap
<1> QED BY <1>5, <1>6

\* What reaches a peer.
LEMMA SeePromiseLemma ==
    ASSUME DInv, NEW c \in Client, NEW i, StoredWith(i, Owner[c]),
           received' = [received EXCEPT ![c] = @ \cup {i}], UNCHANGED <<rows, lastRead>>
    PROVE  Promise!Next
<1>1. SeenMap' = [SeenMap EXCEPT ![Owner[c]] = @ \cup {i}]
  BY SeenGrowsLemma
<1>2. Promise!See(Owner[c], i)
  BY <1>1 DEF Promise!See, SeenMap, StoredWith
<1> QED BY <1>2, PresenceAssumption DEF Promise!Next, StoredWith

LEMMA PromiseStepLemma ==
    ASSUME DInv, [DeliveryNext]_deliveryVars
    PROVE  [Promise!Next]_(Promise!vars)
<1> USE PresenceAssumption
<1>1. CASE UNCHANGED msgVars
  <2>1. SeenMap' = SeenMap
    BY <1>1, SeenStaysLemma DEF msgVars
  <2> QED BY <1>1, <2>1 DEF msgVars, Promise!vars, SeenMap
<1>2. ASSUME NEW c \in Client, PushUnread(c) PROVE [Promise!Next]_(Promise!vars)
  <2>1. PICK i \in InOrder(unread[c]) : received' \in {received, [received EXCEPT ![c] = @ \cup {i}]}
    BY <1>2 DEF PushUnread
  <2>2. StoredWith(i, Owner[c])
    BY <2>1 DEF InOrder, DInv, Refs, SeenRefs, SeenRef
  <2>3. UNCHANGED <<rows, lastRead>>
    BY <1>2 DEF PushUnread
  <2> QED BY <1>1, <2>1, <2>2, <2>3, SeePromiseLemma DEF msgVars
<1>3. ASSUME NEW c \in Client, WriteSend(c) PROVE [Promise!Next]_(Promise!vars)
  <2>1. received' \in {received, [received EXCEPT ![c] = @ \cup {Head(send[c])}]} /\ send[c] # <<>>
    BY <1>3 DEF WriteSend
  <2>2. Head(send[c]) = send[c][1] /\ Len(send[c]) \in Nat \ {0}
    <3>1. send[c] \in Seq(Id)
      BY DEF DInv, ChanTypes
    <3> QED BY <2>1, <3>1, TailLemma
  <2>3. StoredWith(Head(send[c]), Owner[c])
    BY <2>2 DEF DInv, Refs, SendRefs, SendRef, StoredFor, StoredWith
  <2>4. UNCHANGED <<rows, lastRead>>
    BY <1>3 DEF WriteSend
  <2> QED BY <1>1, <2>1, <2>3, <2>4, SeePromiseLemma DEF msgVars
<1>4. ASSUME NEW c \in Client, MarkOwn(c) PROVE [Promise!Next]_(Promise!vars)
  <2>1. job[c] # Idle /\ UNCHANGED <<rows, received>>
    BY <1>4 DEF MarkOwn, Idle
  <2>2. job[c].id \in 1 .. Len(rows) /\ rows[job[c].id].from = Owner[c]
    BY <2>1 DEF DInv, Refs, JobRefs, JobRef, StoredFor
  <2>3. CASE MarkRead(Owner[c], job[c].id)
    BY <2>1, <2>2, <2>3, MarkPromiseLemma
  <2>4. CASE lastRead' = lastRead
    BY <1>1, <2>1, <2>4 DEF msgVars
  <2> QED BY <1>4, <2>3, <2>4 DEF MarkOwn
<1>5. ASSUME NEW c \in Client, NEW i \in Id, Ack(c, i) PROVE [Promise!Next]_(Promise!vars)
  <2>1. i \in received[c] /\ MarkRead(Owner[c], i) /\ UNCHANGED <<rows, received>>
    BY <1>5 DEF Ack
  <2>2. i \in 1 .. Len(rows) /\ Owner[c] \in {rows[i].from, rows[i].to}
    BY <2>1 DEF DInv, Refs, SeenRefs, SeenRef, StoredWith
  <2>3. i \in SeenBy(Owner[c])
    BY <2>1 DEF SeenBy
  <2> QED BY <2>1, <2>2, <2>3, MarkPromiseLemma
<1>6. ASSUME NEW c \in Client, NEW v \in User, Chat(c, v) PROVE [Promise!Next]_(Promise!vars)
  <2>1. /\ Len(rows) < MaxMsgs /\ rows' = Append(rows, [from |-> Owner[c], to |-> v])
        /\ UNCHANGED <<received, lastRead>>
    BY <1>6 DEF Chat
  <2>2. SeenMap' = SeenMap
    BY <2>1, SeenStaysLemma
  <2>3. [from |-> Owner[c], to |-> v] \in Promise!Message
    BY DEF Promise!Message
  <2>4. Promise!Store([from |-> Owner[c], to |-> v])
    BY <2>1, <2>2 DEF Promise!Store, SeenMap
  <2> QED BY <2>3, <2>4 DEF Promise!Next
<1>7. ASSUME NEW c \in Client, ClientStep(c) PROVE [Promise!Next]_(Promise!vars)
  <2>1. CASE \/ RegistryStep(c) \/ LoadUnread(c) \/ Listen(c) \/ Hangup(c) \/ CloseSend(c)
             \/ FindClient(c) \/ FindNode(c) \/ Publish(c)
    BY <1>1, <2>1 DEF RegistryStep, LoadUnread, Listen, Hangup, CloseSend, FindClient, FindNode, Publish
  <2>2. CASE DeliverLocal(c)
    BY <1>1, <2>2 DEF DeliverLocal, Panic, Lost
  <2> QED BY <1>2, <1>3, <1>4, <1>7, <2>1, <2>2 DEF ClientStep
<1>8. ASSUME NEW n \in Node, ReceiveForward(n) \/ DeliverForwarded(n) \/ ShutdownStep(n)
      PROVE  [Promise!Next]_(Promise!vars)
  BY <1>1, <1>8 DEF ReceiveForward, DeliverForwarded, ShutdownStep, Panic, Lost
<1>9. CASE UNCHANGED deliveryVars
  BY <1>1, <1>9 DEF deliveryVars, msgVars
<1>10. ASSUME NEW c \in Client, Connect(c) \/ PeerGoes(c) PROVE [Promise!Next]_(Promise!vars)
  BY <1>1, <1>10 DEF Connect, PeerGoes
<1> QED BY <1>1, <1>5, <1>6, <1>7, <1>8, <1>9, <1>10 DEF DeliveryNext

LEMMA PromiseInitLemma == DeliveryInit => Promise!Init
<1> SUFFICES ASSUME DeliveryInit PROVE Promise!Init
  OBVIOUS
<1>1. \A u \in User : SeenBy(u) = {}
  BY DEF DeliveryInit, SeenBy
<1> QED BY <1>1 DEF DeliveryInit, Promise!Init

\* Whatever connections, nodes, queues and the registry do, a message reaches
\* only its two parties, and only once it is stored, and a mark moves only
\* upwards and only to a message its user saw or sent (client.go:211-300,
\* conversationMember.go:60-68, 151-164).
THEOREM PromiseKept == DeliverySpec => KeepsPromise
<1> USE DEF KeepsPromise, Promise!Spec
<1>1. DInv /\ [DeliveryNext]_deliveryVars => [Promise!Next]_(Promise!vars)
  BY PromiseStepLemma
<1> QED BY <1>1, PromiseInitLemma, DeliveryInductive, PTL DEF DeliverySpec

=============================================================================
