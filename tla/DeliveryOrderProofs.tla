------------------------- MODULE DeliveryOrderProofs -------------------------
(***************************************************************************)
(* Proofs about the order of messages in Delivery: nothing falls between   *)
(* the tables and the live path (NoGap), and the mark passes over nothing  *)
(* that is still to come (NoUnreadSkipped), for any number of nodes,       *)
(* users, connections and messages.                                        *)
(*                                                                         *)
(* The argument follows one message i to a session c of its addressee that *)
(* is open and whose peer is there.  Either c has no more need of it       *)
(* (Taken), or it waits in one definite place on the way to c (Placed):    *)
(* with its sender's handler, in Redis, with the subscriber, in c.Send.    *)
(* In all these places nothing of the same sender overtakes it.  So what   *)
(* c's peer receives of one sender is always a prefix of what was sent     *)
(* (PrefixSeen), and a mark, which is an id the user saw or sent, has only *)
(* seen messages below it.                                                 *)
(***************************************************************************)
EXTENDS DeliveryProofs

-----------------------------------------------------------------------------
(* What holds whatever goes wrong.                                         *)

\* A session reads the tables after it has registered and before it listens;
\* when it ends, its peer is gone.
LoadedInTime(c) ==
    /\ phase[c] \in {"new", "upgraded", "registering"} => c \notin loaded
    /\ phase[c] = "listening" => c \in loaded /\ unread[c] = {}
    /\ c \notin loaded => unread[c] = {}
    /\ phase[c] \in {"clearing", "closing", "closed"} => c \in gone
LoadInv == \A c \in Client : LoadedInTime(c)

RowsTalk == \A i \in 1 .. Len(rows) : <<rows[i].from, rows[i].to>> \in Talk

\* A mark is an id of that conversation which its user sent or has seen.
MarkRef ==
    \A u, v \in User :
        LET k == lastRead[u][v] IN
        k # 0 =>
            /\ k \in 1 .. Len(rows) /\ u \in {rows[k].from, rows[k].to}
            /\ Partner(u, rows[k]) = v
            /\ rows[k].from = u \/ k \in SeenBy(u)

-----------------------------------------------------------------------------
(* What holds while nothing has gone wrong.                                *)

UpInv == \A n \in Node : status[n] = "up" /\ snap[n] = {}

\* An open session of a user with one session at a time has its entry.
EntryStays ==
    \A c \in Client :
        /\ Owner[c] \in Exclusive
        /\ phase[c] \in {"registering", "pushing", "listening"}
        => clients[Home[c]][Owner[c]] = c

\* A session that can still receive.
Open(c) ==
    /\ phase[c] \in {"registering", "pushing", "listening"}
    /\ c \notin gone /\ Owner[c] \in Exclusive

\* Message i is for the user of c, from a sender whose messages keep order.
For(c, i) == i \in 1 .. Len(rows) /\ rows[i].to = Owner[c] /\ Steady(rows[i].from)

\* Session c needs message i from nowhere else any more.
Taken(c, i) ==
    i \in SeenBy(Owner[c]) \/ AnsweredAfter(i) \/ c \notin loaded \/ i \in unread[c]

InSend(c, i) == \E p \in 1 .. Len(send[c]) : send[c][p] = i
InSub(c, i) == sub[Home[c]] # Idle /\ sub[Home[c]].client = c /\ sub[Home[c]].id = i
InForward(c, i) == \E p \in 1 .. Len(forward[Home[c]]) : forward[Home[c]][p].id = i

\* Handler d holds message i and is on its way to session c.
Carries(d, c, i) ==
    /\ job[d] # Idle /\ job[d].id = i
    /\ \/ job[d].step \in {"stored", "marked"}
       \/ job[d].step = "local" /\ job[d].client = c
       \/ job[d].step = "remote" /\ Home[d] # Home[c]
       \/ job[d].step = "forward" /\ job[d].node = Home[c]
OnJob(c, i) == \E d \in Client : Carries(d, c, i)

\* Message i was sent before message k, by the same user.
Before(i, k) == i < k /\ rows[i].from = rows[k].from

SomePlace(c, i) == InSend(c, i) \/ InSub(c, i) \/ InForward(c, i) \/ OnJob(c, i)
OrderSend(c, i) ==
    \A p \in 1 .. Len(send[c]) :
        Before(i, send[c][p]) => \E q \in 1 .. p - 1 : send[c][q] = i
OrderSub(c, i) == InSub(c, sub[Home[c]].id) /\ Before(i, sub[Home[c]].id) => InSend(c, i)
OrderForward(c, i) ==
    \A p \in 1 .. Len(forward[Home[c]]) :
        forward[Home[c]][p].to = Owner[c] /\ Before(i, forward[Home[c]][p].id) =>
            InSend(c, i) \/ InSub(c, i) \/ \E q \in 1 .. p - 1 : forward[Home[c]][q].id = i

\* Message i is on its way to c, and nothing of its sender is ahead of it.
Placed(c, i) == SomePlace(c, i) /\ OrderSend(c, i) /\ OrderSub(c, i) /\ OrderForward(c, i)

PathInv == \A c \in Client : Open(c) => \A i \in Id : For(c, i) => Taken(c, i) \/ Placed(c, i)

\* What DeliverUnreadMsg has still to write begins where the seen ends.
LoadedBelow ==
    \A c \in Client : Open(c) =>
        \A k \in unread[c], i \in Id : For(c, i) /\ i <= k => Taken(c, i)

\* A forward comes from another node than the one it goes to.
Far(i, n) == Steady(rows[i].from) => \A d \in Client : Owner[d] = rows[i].from => Home[d] # n
FarInv ==
    /\ \A d \in Client : job[d] # Idle /\ job[d].step = "forward" => job[d].node # Home[d]
    /\ \A n \in Node :
        /\ \A p \in 1 .. Len(forward[n]) : Far(forward[n][p].id, n)
        /\ sub[n] # Idle => Far(sub[n].id, n)

\* Of a sender's messages a user has seen, or answered, a prefix.
PrefixSeen ==
    \A u \in Exclusive : \A k \in SeenBy(u) : \A i \in 1 .. k :
        rows[k].to = u /\ rows[i] = rows[k] /\ Steady(rows[k].from) =>
            i \in SeenBy(u) \/ AnsweredAfter(i)

CalmInv ==
    /\ UpInv /\ ExclusiveInv /\ EntryStays /\ FarInv
    /\ PathInv /\ LoadedBelow /\ PrefixSeen

OrderInv == LoadInv /\ RowsTalk /\ MarkRef /\ (Undisturbed => CalmInv)

-----------------------------------------------------------------------------
(* The unconditional part.                                                 *)

\* Rows stay as they are, and what was seen stays seen.
LEMMA GrowLemma ==
    ASSUME DInv, [Promise!Next]_(Promise!vars)
    PROVE  RowsStay /\ \A u \in User : SeenBy(u) \subseteq SeenBy(u)'
<1>1. CASE rows' = rows /\ SeenMap' = SeenMap
  <2>1. \A u \in User : SeenMap[u] = SeenBy(u) /\ SeenMap'[u] = SeenBy(u)'
    BY DEF SeenMap
  <2> QED BY <1>1, <2>1 DEF RowsStay
<1>2. ASSUME NEW m \in Promise!Message, Promise!Store(m)
      PROVE  RowsStay /\ \A u \in User : SeenBy(u) \subseteq SeenBy(u)'
  <2>1. rows' = Append(rows, m) /\ SeenMap' = SeenMap /\ m \in Row
    BY <1>2 DEF Promise!Store, SeenMap, Promise!Message, Row
  <2>2. \A u \in User : SeenMap[u] = SeenBy(u) /\ SeenMap'[u] = SeenBy(u)'
    BY DEF SeenMap
  <2> QED BY <2>1, <2>2, RowsStayLemma DEF DInv
<1>3. ASSUME NEW v \in User, NEW i \in 1 .. Len(rows), Promise!See(v, i)
      PROVE  RowsStay /\ \A u \in User : SeenBy(u) \subseteq SeenBy(u)'
  <2>1. rows' = rows /\ SeenMap' = [SeenMap EXCEPT ![v] = @ \cup {i}]
    BY <1>3 DEF Promise!See, SeenMap
  <2>2. \A u \in User : SeenMap[u] = SeenBy(u) /\ SeenMap'[u] = SeenBy(u)'
    BY DEF SeenMap
  <2> QED BY <2>1, <2>2 DEF RowsStay, SeenMap
<1>4. ASSUME NEW v \in User, NEW i \in 1 .. Len(rows), Promise!Mark(v, i)
      PROVE  rows' = rows /\ SeenMap' = SeenMap
  BY <1>4 DEF Promise!Mark, SeenMap
<1>5. CASE UNCHANGED Promise!vars
  BY <1>1, <1>5 DEF Promise!vars, SeenMap
<1> QED BY <1>1, <1>2, <1>3, <1>4, <1>5 DEF Promise!Next

\* The promise of Inbox keeps the marks on messages seen or sent.
LEMMA MarkRefLemma ==
    ASSUME DInv, MarkRef, [Promise!Next]_(Promise!vars)
    PROVE  MarkRef'
<1> USE RowIdLemma
<1> SUFFICES ASSUME NEW u \in User, NEW v \in User, lastRead'[u][v] # 0
             PROVE  LET k == lastRead'[u][v] IN
                    /\ k \in 1 .. Len(rows') /\ u \in {rows'[k].from, rows'[k].to}
                    /\ Partner(u, rows'[k]) = v
                    /\ rows'[k].from = u \/ k \in SeenBy(u)'
  BY DEF MarkRef
<1>1. RowsStay /\ SeenBy(u) \subseteq SeenBy(u)'
  BY GrowLemma
<1>2. lastRead \in [User -> [User -> 0 .. MaxMsgs]]
  BY DEF DInv, ChanTypes
<1> DEFINE k == lastRead'[u][v]
<1>3. CASE k = lastRead[u][v]
  <2>1. /\ k \in 1 .. Len(rows) /\ u \in {rows[k].from, rows[k].to}
        /\ Partner(u, rows[k]) = v
        /\ rows[k].from = u \/ k \in SeenBy(u)
    BY <1>3 DEF MarkRef
  <2>2. rows'[k] = rows[k] /\ k \in 1 .. Len(rows')
    BY <1>1, <2>1 DEF RowsStay
  <2> QED BY <1>1, <2>1, <2>2
<1>4. ASSUME NEW w \in User, NEW i \in 1 .. Len(rows), Promise!Mark(w, i), k # lastRead[u][v]
      PROVE  /\ k \in 1 .. Len(rows) /\ u \in {rows[k].from, rows[k].to}
             /\ Partner(u, rows[k]) = v
             /\ rows[k].from = u \/ k \in SeenBy(u)
  <2> DEFINE x == Partner(w, rows[i])
  <2>1. /\ lastRead' = [lastRead EXCEPT ![w][x] = i]
        /\ rows[i].from = w \/ i \in SeenBy(w)
    BY <1>4 DEF Promise!Mark, Promise!Partner, Partner
  <2>2. w = u /\ x = v /\ k = i
    BY <1>2, <1>4, <2>1
  <2>3. i \in SeenBy(w) => w \in {rows[i].from, rows[i].to}
    BY DEF SeenBy, DInv, Refs, SeenRefs, SeenRef, StoredWith
  <2> QED BY <2>1, <2>2, <2>3
<1>5. CASE lastRead' = lastRead
  BY <1>3, <1>5
<1>6. CASE \E w \in User, i \in 1 .. Len(rows) : Promise!Mark(w, i)
  <2>1. CASE k # lastRead[u][v]
    <3>1. /\ k \in 1 .. Len(rows) /\ u \in {rows[k].from, rows[k].to}
          /\ Partner(u, rows[k]) = v
          /\ rows[k].from = u \/ k \in SeenBy(u)
      BY <1>4, <1>6, <2>1
    <3>2. rows'[k] = rows[k] /\ k \in 1 .. Len(rows')
      BY <1>1, <3>1 DEF RowsStay
    <3> QED BY <1>1, <3>1, <3>2
  <2> QED BY <1>3, <2>1
<1>7. lastRead' = lastRead \/ \E w \in User, i \in 1 .. Len(rows) : Promise!Mark(w, i)
  BY DEF Promise!Next, Promise!Store, Promise!See, Promise!vars
<1> QED BY <1>5, <1>6, <1>7

\* Only handleChatMsg stores, for two users who may talk.
LEMMA RowsLemma ==
    ASSUME DInv, DeliveryNext
    PROVE  rows' = rows \/ \E c \in Client, v \in User : Chat(c, v)
<1>1. ASSUME NEW c \in Client, ClientStep(c) PROVE rows' = rows
  <2>1. CASE \/ RegistryStep(c) \/ LoadUnread(c) \/ Listen(c) \/ Hangup(c) \/ CloseSend(c)
             \/ FindClient(c) \/ FindNode(c) \/ Publish(c)
    BY <2>1 DEF RegistryStep, LoadUnread, Listen, Hangup, CloseSend, FindClient, FindNode, Publish, msgVars
  <2>2. CASE PushUnread(c) \/ WriteSend(c) \/ MarkOwn(c)
    BY <2>2 DEF PushUnread, WriteSend, MarkOwn
  <2>3. CASE DeliverLocal(c)
    BY <2>3 DEF DeliverLocal, Panic, Lost, msgVars
  <2> QED BY <1>1, <2>1, <2>2, <2>3 DEF ClientStep
<1>2. ASSUME NEW n \in Node, ReceiveForward(n) \/ DeliverForwarded(n) \/ ShutdownStep(n) PROVE rows' = rows
  BY <1>2 DEF ReceiveForward, DeliverForwarded, ShutdownStep, Panic, Lost, msgVars
<1>3. ASSUME NEW c \in Client, Connect(c) \/ PeerGoes(c) \/ \E i \in Id : Ack(c, i) PROVE rows' = rows
  BY <1>3 DEF Connect, PeerGoes, Ack, msgVars
<1> QED BY <1>1, <1>2, <1>3 DEF DeliveryNext, msgVars

LEMMA RowsTalkLemma ==
    ASSUME DInv, RowsTalk, DeliveryNext
    PROVE  RowsTalk'
<1>1. CASE rows' = rows
  BY <1>1 DEF RowsTalk
<1>2. ASSUME NEW c \in Client, NEW v \in User, Chat(c, v) PROVE RowsTalk'
  <2> DEFINE r == [from |-> Owner[c], to |-> v]
  <2>1. rows' = Append(rows, r) /\ <<r.from, r.to>> \in Talk
    BY <1>2 DEF Chat
  <2>2. r \in Row /\ rows \in Seq(Row)
    BY PresenceAssumption DEF Row, DInv, ChanTypes
  <2> HIDE DEF r
  <2>3. /\ Len(rows') = Len(rows) + 1 /\ Len(rows) \in Nat /\ rows'[Len(rows) + 1] = r
        /\ \A k \in 1 .. Len(rows) : rows'[k] = rows[k]
    BY <2>1, <2>2, AppendLemma
  <2> QED BY <2>1, <2>3 DEF RowsTalk
<1> QED BY <1>1, <1>2, RowsLemma

\* The session's own order: Register, read the tables, write, listen, leave.
LEMMA LoadedStepLemma ==
    ASSUME DInv, LoadInv, DeliveryNext
    PROVE  LoadInv'
<1> SUFFICES ASSUME NEW x \in Client PROVE LoadedInTime(x)'
  BY DEF LoadInv
<1>1. LoadedInTime(x)
  BY DEF LoadInv
<1> USE PresenceAssumption DEF DInv, IInv, PresenceTypeOK, ChanTypes
<1>2. CASE UNCHANGED <<phase, loaded, unread, gone>>
  BY <1>1, <1>2 DEF LoadedInTime
<1>3. ASSUME NEW n \in Node, Lost(n) PROVE LoadedInTime(x)'
  <2>1. /\ phase' = [c \in Client |-> IF Home[c] = n /\ phase[c] # "new" THEN "closed" ELSE phase[c]]
        /\ unread' = [c \in Client |-> IF Home[c] = n /\ phase[c] # "new" THEN {} ELSE unread[c]]
        /\ gone' = gone \cup {c \in Client : Home[c] = n /\ phase[c] # "new"} /\ loaded' = loaded
    BY <1>3 DEF Lost, Vanish
  <2> QED BY <1>1, <2>1 DEF LoadedInTime
<1>4. ASSUME NEW c \in Client, ClientStep(c) PROVE LoadedInTime(x)'
  <2>1. CASE RegistryStep(c)
    <3>1. /\ UNCHANGED <<loaded, unread, gone>>
          /\ phase' = phase \/ \E p \in {"registering", "pushing", "closing"} :
                phase' = [phase EXCEPT ![c] = p] /\ phase[c] \in {"upgraded", "registering", "clearing"}
                /\ (p = "closing" <=> phase[c] = "clearing") /\ (p = "registering" <=> phase[c] = "upgraded")
      BY <2>1 DEF RegistryStep, RegisterEntry, RegisterOnline, ClearOnline, KickEntry, KickOnline, chanVars
    <3> QED BY <1>1, <3>1 DEF LoadedInTime
  <2>2. CASE LoadUnread(c) \/ PushUnread(c)
    <3>1. /\ UNCHANGED <<phase, gone>> /\ phase[c] = "pushing"
          /\ c \in loaded' /\ loaded \subseteq loaded' /\ loaded' \subseteq loaded \cup {c}
          /\ \A d \in Client : d # c => unread'[d] = unread[d]
      <4>1. CASE LoadUnread(c)
        BY <4>1 DEF LoadUnread, presenceVars
      <4>2. CASE PushUnread(c)
        <5>1. c \in loaded
          BY <4>2 DEF PushUnread, InOrder, LoadInv, LoadedInTime
        <5> QED BY <4>2, <5>1 DEF PushUnread, presenceVars
      <4> QED BY <2>2, <4>1, <4>2
    <3> QED BY <1>1, <3>1 DEF LoadedInTime
  <2>3. CASE Listen(c)
    <3>1. /\ UNCHANGED <<loaded, unread, gone>> /\ c \in loaded /\ unread[c] = {}
          /\ phase' = [phase EXCEPT ![c] = "listening"]
      BY <2>3 DEF Listen, StartListening, chanVars
    <3> QED BY <1>1, <3>1 DEF LoadedInTime
  <2>4. CASE Hangup(c)
    <3>1. /\ UNCHANGED <<loaded, unread, gone>> /\ c \in gone /\ phase[c] = "listening"
          /\ \E p \in {"clearing", "closing"} : phase' = [phase EXCEPT ![c] = p]
      BY <2>4 DEF Hangup, Leave, chanVars
    <3> QED BY <1>1, <3>1 DEF LoadedInTime
  <2>5. CASE CloseSend(c)
    <3>1. /\ UNCHANGED <<loaded, unread, gone>> /\ phase[c] = "closing"
          /\ phase' = [phase EXCEPT ![c] = "closed"]
      BY <2>5 DEF CloseSend, Close
    <3> QED BY <1>1, <3>1 DEF LoadedInTime
  <2>6. CASE WriteSend(c) \/ MarkOwn(c) \/ FindClient(c) \/ FindNode(c) \/ Publish(c)
    BY <1>2, <2>6 DEF WriteSend, MarkOwn, FindClient, FindNode, Publish, presenceVars
  <2>7. CASE DeliverLocal(c)
    <3>1. job[c] \in Job /\ job[c] # Idle /\ job[c].step = "local"
      BY <2>7 DEF DeliverLocal, Idle
    <3>2. Home[job[c].client] \in Node
      BY <3>1, JobLemma
    <3> QED BY <1>2, <1>3, <2>7, <3>2 DEF DeliverLocal, Enqueue, KickFull, SpawnKick, Panic, presenceVars
  <2> QED BY <1>4, <2>1, <2>2, <2>3, <2>4, <2>5, <2>6, <2>7 DEF ClientStep
<1>5. ASSUME NEW c \in Client, \/ Connect(c) \/ PeerGoes(c)
                               \/ \E v \in User : Chat(c, v)
                               \/ \E i \in Id : Ack(c, i)
      PROVE  LoadedInTime(x)'
  <2>1. CASE Connect(c)
    <3>1. /\ UNCHANGED <<loaded, unread, gone>> /\ phase[c] = "new"
          /\ phase' = [phase EXCEPT ![c] = "upgraded"]
      BY <2>1 DEF Connect, Accept, chanVars
    <3> QED BY <1>1, <3>1 DEF LoadedInTime
  <2>2. CASE PeerGoes(c)
    <3>1. UNCHANGED <<loaded, unread, phase>> /\ gone \subseteq gone'
      BY <2>2 DEF PeerGoes, presenceVars
    <3> QED BY <1>1, <3>1 DEF LoadedInTime
  <2>3. CASE (\E v \in User : Chat(c, v)) \/ \E i \in Id : Ack(c, i)
    BY <1>2, <2>3 DEF Chat, Ack, presenceVars, chanVars
  <2> QED BY <1>5, <2>1, <2>2, <2>3
<1>6. ASSUME NEW n \in Node, ReceiveForward(n) \/ DeliverForwarded(n) \/ ShutdownStep(n)
      PROVE  LoadedInTime(x)'
  <2>1. CASE ReceiveForward(n)
    BY <1>2, <2>1 DEF ReceiveForward, presenceVars
  <2>2. CASE DeliverForwarded(n)
    <3>1. Home[sub[n].client] \in Node
      BY <2>2, HandoverLemma DEF DeliverForwarded
    <3> QED BY <1>2, <1>3, <2>2, <3>1 DEF DeliverForwarded, Enqueue, KickFull, SpawnKick, Panic, presenceVars
  <2>3. CASE ShutdownStep(n)
    <3>1. CASE Lost(n)
      BY <1>3, <3>1
    <3>2. CASE ~Lost(n)
      <4>1. UNCHANGED <<loaded, unread, phase>> /\ gone \subseteq gone'
        BY <2>3, <3>2 DEF ShutdownStep, CloseAllClear, Release, BeginShutdown, CloseAllCollect, Restart, chanVars
      <4> QED BY <1>1, <4>1 DEF LoadedInTime
    <3> QED BY <3>1, <3>2
  <2> QED BY <1>6, <2>1, <2>2, <2>3
<1>7. ASSUME NEW u \in User, KeyExpires(u), UNCHANGED <<msgVars, chanVars>> PROVE LoadedInTime(x)'
  BY <1>2, <1>7 DEF KeyExpires, chanVars
<1> QED BY <1>4, <1>5, <1>6, <1>7 DEF DeliveryNext

-----------------------------------------------------------------------------
(* Once something has gone wrong it stays so; until then only some of the  *)
(* steps are possible: no kick, no panic, and no node that stops.          *)

Hand(c) ==
    /\ job[c].step = "local"
    /\ Enqueue(job[c].client, job[c].id)
    /\ job' = [job EXCEPT ![c] = Idle]
    /\ UNCHANGED <<msgVars, writer, loaded, unread, gone, forward, sub, panicked>>
HandForwarded(n) ==
    /\ sub[n] # Idle
    /\ Enqueue(sub[n].client, sub[n].id)
    /\ sub' = [sub EXCEPT ![n] = Idle]
    /\ UNCHANGED <<msgVars, job, writer, loaded, unread, gone, forward, panicked>>

SessionCalm(c) ==
    \/ /\ RegisterEntry(c) \/ RegisterOnline(c) \/ ClearOnline(c)
       /\ UNCHANGED <<msgVars, chanVars>>
    \/ Connect(c) \/ Listen(c) \/ Hangup(c) \/ CloseSend(c) \/ PeerGoes(c)
    \/ LoadUnread(c) \/ PushUnread(c) \/ WriteSend(c)
    \/ \E i \in Id : Ack(c, i)

CalmStep ==
    \/ \E c \in Client :
          \/ SessionCalm(c)
          \/ (\E v \in User : Chat(c, v)) \/ MarkOwn(c) \/ FindClient(c) \/ FindNode(c)
          \/ Publish(c) \/ Hand(c)
    \/ \E n \in Node : ReceiveForward(n) \/ HandForwarded(n)
    \/ \E u \in User : KeyExpires(u) /\ UNCHANGED <<msgVars, chanVars>>

LEMMA PanickedStaysLemma ==
    ASSUME DeliveryNext
    PROVE  panicked \subseteq panicked'
<1>1. ASSUME NEW c \in Client, ClientStep(c) PROVE panicked \subseteq panicked'
  <2>1. CASE \/ RegistryStep(c) \/ LoadUnread(c) \/ Listen(c) \/ Hangup(c) \/ CloseSend(c)
             \/ FindClient(c) \/ FindNode(c) \/ Publish(c)
    BY <2>1 DEF RegistryStep, LoadUnread, Listen, Hangup, CloseSend, FindClient, FindNode, Publish, chanVars
  <2>2. CASE PushUnread(c) \/ WriteSend(c) \/ MarkOwn(c)
    BY <2>2 DEF PushUnread, WriteSend, MarkOwn
  <2>3. CASE DeliverLocal(c)
    BY <2>3 DEF DeliverLocal, Panic
  <2> QED BY <1>1, <2>1, <2>2, <2>3 DEF ClientStep
<1>2. ASSUME NEW n \in Node, ReceiveForward(n) \/ DeliverForwarded(n) \/ ShutdownStep(n)
      PROVE  panicked \subseteq panicked'
  BY <1>2 DEF ReceiveForward, DeliverForwarded, ShutdownStep, Panic, chanVars
<1>3. ASSUME NEW c \in Client, \/ Connect(c) \/ PeerGoes(c) \/ (\E i \in Id : Ack(c, i))
                               \/ \E v \in User : Chat(c, v)
      PROVE  panicked \subseteq panicked'
  BY <1>3 DEF Connect, PeerGoes, Ack, Chat, chanVars
<1> QED BY <1>1, <1>2, <1>3 DEF DeliveryNext, chanVars

LEMMA KickStaysLemma ==
    ASSUME PresenceTypeOK, [PresenceNext]_presenceVars, NEW c \in Client, kick'[c] = "none"
    PROVE  kick[c] = "none"
<1> USE PresenceAssumption DEF PresenceTypeOK
<1>1. CASE UNCHANGED presenceVars
  BY <1>1 DEF presenceVars
<1>2. ASSUME NEW d \in Client, Accept(d) \/ SpawnKick(d) \/ SessionStep(d) PROVE kick[c] = "none"
  <2>1. kick' = kick \/ \E k \in Kick \ {"none"} : kick' = [kick EXCEPT ![d] = k]
    BY <1>2 DEF Accept, SpawnKick, SessionStep, RegisterEntry, RegisterOnline, StartListening,
                Leave, ClearOnline, Close, KickEntry, KickOnline, Kick
  <2> QED BY <2>1
<1>3. ASSUME NEW n \in Node, NodeStep(n) PROVE kick[c] = "none"
  BY <1>3 DEF NodeStep, BeginShutdown, CloseAllCollect, CloseAllClear, Release, Restart, Exit, Crash, Vanish
<1>4. ASSUME NEW u \in User, KeyExpires(u) PROVE kick[c] = "none"
  BY <1>4 DEF KeyExpires
<1> QED BY <1>1, <1>2, <1>3, <1>4 DEF PresenceNext

LEMMA CalmBeforeLemma ==
    ASSUME DInv, DeliveryNext, Undisturbed'
    PROVE  Undisturbed /\ [PresenceNext]_presenceVars
<1>1. panicked' = {} /\ panicked = {}
  BY PanickedStaysLemma DEF Undisturbed
<1>2. [PresenceNext]_presenceVars
  BY <1>1, RegistryPartLemma DEF RegistryPart
<1>3. \A c \in Client : kick[c] = "none"
  BY <1>2, KickStaysLemma DEF Undisturbed, DInv, IInv
<1> QED BY <1>1, <1>2, <1>3 DEF Undisturbed

LEMMA CalmEnqueueLemma ==
    ASSUME DInv, Undisturbed, Undisturbed', NEW c \in Client, NEW i
    PROVE  ~KickFull(c) /\ ~Panic(c)
<1>1. ~KickFull(c)
  BY DEF KickFull, SpawnKick, Undisturbed, DInv, IInv, PresenceTypeOK
<1>2. ~Panic(c)
  BY DEF Panic, Undisturbed
<1> QED BY <1>1, <1>2

LEMMA CalmStepLemma ==
    ASSUME DInv, DeliveryNext, UpInv, Undisturbed, Undisturbed'
    PROVE  CalmStep
<1>1. ASSUME NEW c \in Client, ClientStep(c) PROVE CalmStep
  <2>1. CASE RegistryStep(c)
    <3>1. ~KickEntry(c) /\ ~KickOnline(c)
      BY DEF KickEntry, KickOnline, Undisturbed
    <3> QED BY <2>1, <3>1 DEF RegistryStep, SessionCalm, CalmStep
  <2>2. CASE LoadUnread(c) \/ PushUnread(c) \/ Listen(c) \/ WriteSend(c) \/ Hangup(c) \/ CloseSend(c)
    BY <2>2 DEF SessionCalm, CalmStep
  <2>3. CASE MarkOwn(c) \/ FindClient(c) \/ FindNode(c) \/ Publish(c)
    BY <2>3 DEF CalmStep
  <2>4. CASE DeliverLocal(c)
    <3>1. job[c] \in Job /\ job[c] # Idle /\ job[c].step = "local"
      BY <2>4 DEF DeliverLocal, Idle, DInv, ChanTypes
    <3>2. job[c].client \in Client
      BY <3>1, JobLemma
    <3>3. Hand(c)
      BY <2>4, <3>2, CalmEnqueueLemma DEF DeliverLocal, Hand
    <3> QED BY <3>3 DEF CalmStep
  <2> QED BY <1>1, <2>1, <2>2, <2>3, <2>4 DEF ClientStep
<1>2. ASSUME NEW c \in Client, \/ Connect(c) \/ PeerGoes(c)
                               \/ \E v \in User : Chat(c, v)
                               \/ \E i \in Id : Ack(c, i)
      PROVE  CalmStep
  BY <1>2 DEF SessionCalm, CalmStep
<1>3. ASSUME NEW n \in Node, ReceiveForward(n) \/ DeliverForwarded(n) \/ ShutdownStep(n) PROVE CalmStep
  <2>1. CASE ReceiveForward(n)
    BY <2>1 DEF CalmStep
  <2>2. CASE DeliverForwarded(n)
    <3>1. sub[n].client \in Client
      BY <2>2, HandoverLemma DEF DeliverForwarded, DInv, ChanTypes
    <3>2. HandForwarded(n)
      BY <2>2, <3>1, CalmEnqueueLemma DEF DeliverForwarded, HandForwarded
    <3> QED BY <3>2 DEF CalmStep
  <2>3. ~ShutdownStep(n)
    BY DEF ShutdownStep, CloseAllClear, Release, BeginShutdown, CloseAllCollect, Restart, UpInv, Undisturbed
  <2> QED BY <1>3, <2>1, <2>2, <2>3
<1> QED BY <1>1, <1>2, <1>3 DEF DeliveryNext, CalmStep

-----------------------------------------------------------------------------
(* The registry in calm.                                                   *)

LEMMA UpLemma ==
    ASSUME UpInv, CalmStep
    PROVE  UpInv'
<1>1. UNCHANGED <<status, snap>>
  <2>1. ASSUME NEW c \in Client, SessionCalm(c) PROVE UNCHANGED <<status, snap>>
    BY <2>1 DEF SessionCalm, RegisterEntry, RegisterOnline, ClearOnline, Connect, Accept, Listen, StartListening,
       Hangup, Leave, CloseSend, Close, PeerGoes, LoadUnread, PushUnread, WriteSend, Ack, presenceVars
  <2>2. ASSUME NEW c \in Client, \/ \E v \in User : Chat(c, v)
                                 \/ MarkOwn(c) \/ FindClient(c) \/ FindNode(c) \/ Publish(c) \/ Hand(c)
        PROVE  UNCHANGED <<status, snap>>
    BY <2>2 DEF Chat, MarkOwn, FindClient, FindNode, Publish, Hand, Enqueue, presenceVars
  <2>3. ASSUME NEW n \in Node, ReceiveForward(n) \/ HandForwarded(n) PROVE UNCHANGED <<status, snap>>
    BY <2>3 DEF ReceiveForward, HandForwarded, Enqueue, presenceVars
  <2>4. ASSUME NEW u \in User, KeyExpires(u) PROVE UNCHANGED <<status, snap>>
    BY <2>4 DEF KeyExpires
  <2> QED BY <2>1, <2>2, <2>3, <2>4 DEF CalmStep
<1> QED BY <1>1 DEF UpInv

\* An entry of a user with one session at a time goes only with the session.
LEMMA EntryStaysLemma ==
    ASSUME DInv, CalmInv, CalmStep, NEW x \in Client, Owner[x] \in Exclusive,
           phase'[x] \in {"registering", "pushing", "listening"}
    PROVE  clients'[Home[x]][Owner[x]] = x
<1> USE PresenceAssumption DEF DInv, IInv, PresenceTypeOK
<1>1. Home[x] \in Node /\ Owner[x] \in User /\ x # NoClient
  OBVIOUS
<1>2. phase[x] \in {"registering", "pushing", "listening"} => clients[Home[x]][Owner[x]] = x
  BY DEF CalmInv, EntryStays
<1>3. CASE UNCHANGED <<phase, clients>>
  BY <1>2, <1>3
<1>4. ASSUME NEW c \in Client, RegisterEntry(c) PROVE clients'[Home[x]][Owner[x]] = x
  <2>1. /\ phase[c] = "upgraded" /\ phase' = [phase EXCEPT ![c] = "registering"]
        /\ clients' = [clients EXCEPT ![Home[c]][Owner[c]] = c]
    BY <1>4 DEF RegisterEntry
  <2>2. CASE c = x
    BY <1>1, <2>1, <2>2
  <2>3. CASE c # x
    <3>1. phase[x] \in {"registering", "pushing", "listening"}
      BY <2>1, <2>3
    <3>2. Engaged(x) /\ Engaged(c)
      BY <2>1, <3>1 DEF Engaged, Finished
    <3>3. Owner[c] # Owner[x]
      BY <2>3, <3>2 DEF CalmInv, ExclusiveInv, SoleSession
    <3> QED BY <1>1, <1>2, <2>1, <3>1, <3>3
  <2> QED BY <2>2, <2>3
<1>5. ASSUME NEW c \in Client, Hangup(c) PROVE clients'[Home[x]][Owner[x]] = x
  <2>1. /\ clients' = WithoutClient(c)
        /\ \E p \in {"clearing", "closing"} : phase' = [phase EXCEPT ![c] = p]
    BY <1>5 DEF Hangup, Leave
  <2>2. c # x /\ phase[x] \in {"registering", "pushing", "listening"}
    BY <2>1
  <2>3. clients[Home[x]][Owner[x]] = x
    BY <1>2, <2>2
  <2> QED BY <1>1, <2>1, <2>2, <2>3, WithoutClientLemma
<1>6. ASSUME NEW c \in Client, \/ RegisterOnline(c) \/ ClearOnline(c) \/ Connect(c)
                               \/ Listen(c) \/ CloseSend(c)
      PROVE  clients'[Home[x]][Owner[x]] = x
  <2>1. /\ clients' = clients
        /\ \/ /\ phase[c] \in {"registering", "pushing"}
              /\ \E p \in {"pushing", "listening"} : phase' = [phase EXCEPT ![c] = p]
           \/ \E p \in {"upgraded", "closing", "closed"} : phase' = [phase EXCEPT ![c] = p]
    BY <1>6 DEF RegisterOnline, ClearOnline, Connect, Accept, Listen, StartListening, CloseSend, Close
  <2> QED BY <1>2, <2>1
<1>7. ASSUME NEW c \in Client, SessionCalm(c) PROVE clients'[Home[x]][Owner[x]] = x
  <2>1. CASE PeerGoes(c) \/ LoadUnread(c) \/ PushUnread(c) \/ WriteSend(c) \/ \E i \in Id : Ack(c, i)
    BY <1>3, <2>1 DEF PeerGoes, LoadUnread, PushUnread, WriteSend, Ack, presenceVars
  <2> QED BY <1>4, <1>5, <1>6, <1>7, <2>1 DEF SessionCalm
<1>8. ASSUME NEW c \in Client, \/ \E v \in User : Chat(c, v)
                               \/ MarkOwn(c) \/ FindClient(c) \/ FindNode(c) \/ Publish(c) \/ Hand(c)
      PROVE  UNCHANGED <<phase, clients>>
  BY <1>8 DEF Chat, MarkOwn, FindClient, FindNode, Publish, Hand, Enqueue, presenceVars
<1>9. ASSUME NEW n \in Node, ReceiveForward(n) \/ HandForwarded(n) PROVE UNCHANGED <<phase, clients>>
  BY <1>9 DEF ReceiveForward, HandForwarded, Enqueue, presenceVars
<1>10. ASSUME NEW u \in User, KeyExpires(u) PROVE UNCHANGED <<phase, clients>>
  BY <1>10 DEF KeyExpires
<1> QED BY <1>3, <1>7, <1>8, <1>9, <1>10 DEF CalmStep

-----------------------------------------------------------------------------
(* What the mark says, and what a session has taken.                       *)

\* Below a user's mark every message of a steady sender is seen or answered.
LEMMA BelowMarkLemma ==
    ASSUME DInv, RowsTalk, MarkRef, PrefixSeen,
           NEW i \in 1 .. Len(rows), rows[i].to \in Exclusive, Steady(rows[i].from),
           lastRead[rows[i].to][rows[i].from] >= i
    PROVE  i \in SeenBy(rows[i].to) \/ AnsweredAfter(i)
<1> USE RowIdLemma
<1> DEFINE u == rows[i].to  v == rows[i].from  k == lastRead[u][v]
<1>1. u \in User /\ v \in User /\ u # v
  BY DeliveryAssumption DEF RowsTalk
<1>2. k \in 0 .. MaxMsgs
  BY <1>1 DEF DInv, ChanTypes
<1>3. /\ k \in 1 .. Len(rows) /\ u \in {rows[k].from, rows[k].to}
      /\ Partner(u, rows[k]) = v /\ (rows[k].from = u \/ k \in SeenBy(u))
  BY <1>1, <1>2 DEF MarkRef
<1>4. rows[k] \in Row /\ rows[i] \in Row
  BY <1>3
<1>5. CASE rows[k].from = u
  <2>1. rows[k].to = v
    BY <1>3, <1>5 DEF Partner
  <2>2. rows[k] = [from |-> rows[i].to, to |-> rows[i].from]
    BY <1>4, <1>5, <2>1 DEF Row
  <2>3. k # i
    BY <1>1, <1>5
  <2>4. k \in i + 1 .. Len(rows)
    BY <1>2, <1>3, <2>3
  <2> QED BY <2>2, <2>4 DEF AnsweredAfter
<1>6. CASE rows[k].from # u
  <2>1. rows[k].to = u /\ rows[k].from = v /\ k \in SeenBy(u)
    BY <1>3, <1>6 DEF Partner
  <2>2. rows[k] = rows[i]
    BY <1>4, <2>1 DEF Row
  <2>3. i \in 1 .. k
    BY <1>2, <1>3
  <2> QED BY <2>1, <2>2, <2>3 DEF PrefixSeen
<1> QED BY <1>5, <1>6

\* So the rows above the mark are all that a session still needs.
LEMMA LoadTakenLemma ==
    ASSUME DInv, RowsTalk, MarkRef, PrefixSeen, NEW c \in Client, NEW i,
           Owner[c] \in Exclusive, For(c, i)
    PROVE  i \in SeenBy(Owner[c]) \/ AnsweredAfter(i) \/ i \in UnreadOf(Owner[c])
<1> USE RowIdLemma
<1>1. i \in 1 .. Len(rows) /\ rows[i].to = Owner[c] /\ Steady(rows[i].from)
  BY DEF For
<1>2. rows[i].from # Owner[c]
  BY <1>1, DeliveryAssumption DEF RowsTalk
<1>3. Partner(Owner[c], rows[i]) = rows[i].from
  BY <1>2 DEF Partner
<1>4. lastRead[Owner[c]][rows[i].from] \in 0 .. MaxMsgs
  BY <1>1 DEF DInv, ChanTypes
<1>5. CASE lastRead[Owner[c]][rows[i].from] >= i
  BY <1>1, <1>5, BelowMarkLemma
<1>6. CASE i > lastRead[Owner[c]][rows[i].from]
  BY <1>1, <1>3, <1>6 DEF UnreadOf
<1> QED BY <1>1, <1>4, <1>5, <1>6

\* A row that was answered stays answered.
LEMMA AnsweredStaysLemma ==
    ASSUME DInv, RowsStay, Len(rows') \in Nat, NEW i \in 1 .. Len(rows), AnsweredAfter(i)
    PROVE  AnsweredAfter(i)'
<1>1. PICK j \in i + 1 .. Len(rows) : rows[j] = [from |-> rows[i].to, to |-> rows[i].from]
  BY DEF AnsweredAfter
<1>2. Len(rows) \in Nat
  BY RowIdLemma
<1>3. j \in 1 .. Len(rows)
  BY <1>2
<1>4. rows'[j] = rows[j] /\ rows'[i] = rows[i] /\ j \in 1 .. Len(rows')
  BY <1>3 DEF RowsStay
<1>5. j \in i + 1 .. Len(rows')
  BY <1>4
<1> QED BY <1>1, <1>4, <1>5 DEF AnsweredAfter

\* An old row is for the same session after the step as before.
LEMMA ForLemma ==
    ASSUME RowsStay, NEW c \in Client, NEW i \in 1 .. Len(rows)
    PROVE  For(c, i)' <=> For(c, i)
  BY DEF For, RowsStay, Steady

\* A session that opens has not read the tables.
LEMMA OpensLemma ==
    ASSUME DInv, LoadInv, LoadInv', CalmStep, NEW c \in Client, Open(c)', c \in loaded'
    PROVE  Open(c)
<1> USE DEF DInv, IInv, PresenceTypeOK
<1>1. phase'[c] \in {"pushing", "listening"} /\ c \notin gone' /\ Owner[c] \in Exclusive
  BY DEF Open, LoadInv, LoadedInTime
<1>2. gone \subseteq gone' /\ (phase[c] \notin {"registering", "pushing", "listening"} =>
                                   phase'[c] \notin {"pushing", "listening"})
  <2>1. ASSUME NEW d \in Client, SessionCalm(d)
        PROVE  gone \subseteq gone' /\ (phase[c] \notin {"registering", "pushing", "listening"} =>
                                            phase'[c] \notin {"pushing", "listening"})
    <3>1. gone \subseteq gone'
      BY <2>1 DEF SessionCalm, Connect, Listen, Hangup, CloseSend, PeerGoes, LoadUnread, PushUnread,
                  WriteSend, Ack, chanVars
    <3>2. \/ phase' = phase
          \/ /\ phase[d] \in {"registering", "pushing"}
             /\ \E p \in {"pushing", "listening"} : phase' = [phase EXCEPT ![d] = p]
          \/ \E p \in {"upgraded", "registering", "clearing", "closing", "closed"} : phase' = [phase EXCEPT ![d] = p]
      BY <2>1 DEF SessionCalm, RegisterEntry, RegisterOnline, ClearOnline, Connect, Accept, Listen,
                  StartListening, Hangup, Leave, CloseSend, Close, PeerGoes, LoadUnread, PushUnread,
                  WriteSend, Ack, presenceVars
    <3> QED BY <3>1, <3>2
  <2>2. ASSUME NEW d \in Client, \/ \E v \in User : Chat(d, v)
                                 \/ MarkOwn(d) \/ FindClient(d) \/ FindNode(d) \/ Publish(d) \/ Hand(d)
        PROVE  gone' = gone /\ phase' = phase
    BY <2>2 DEF Chat, MarkOwn, FindClient, FindNode, Publish, Hand, Enqueue, presenceVars
  <2>3. ASSUME NEW n \in Node, ReceiveForward(n) \/ HandForwarded(n) PROVE gone' = gone /\ phase' = phase
    BY <2>3 DEF ReceiveForward, HandForwarded, Enqueue, presenceVars
  <2>4. ASSUME NEW u \in User, KeyExpires(u), UNCHANGED <<msgVars, chanVars>> PROVE gone' = gone /\ phase' = phase
    BY <2>4 DEF KeyExpires, chanVars
  <2> QED BY <2>1, <2>2, <2>3, <2>4 DEF CalmStep
<1> QED BY <1>1, <1>2 DEF Open


\* Only DeliverUnreadMsg of c touches what c has loaded.
LEMMA LoadedEffectLemma ==
    ASSUME DInv, CalmStep, NEW c \in Client
    PROVE  \/ (c \in loaded' <=> c \in loaded) /\ unread'[c] = unread[c]
           \/ LoadUnread(c) \/ PushUnread(c)
<1> USE DEF DInv, ChanTypes
<1> DEFINE Same == (c \in loaded' <=> c \in loaded) /\ unread'[c] = unread[c]
<1>1. ASSUME NEW d \in Client, SessionCalm(d) PROVE Same \/ LoadUnread(c) \/ PushUnread(c)
  <2>1. CASE LoadUnread(d) \/ PushUnread(d)
    <3>1. CASE d = c
      BY <2>1, <3>1
    <3>2. CASE d # c
      BY <2>1, <3>2 DEF LoadUnread, PushUnread
    <3> QED BY <3>1, <3>2
  <2>2. CASE ~(LoadUnread(d) \/ PushUnread(d))
    BY <1>1, <2>2 DEF SessionCalm, Connect, Listen, Hangup, CloseSend, PeerGoes, WriteSend, Ack, chanVars
  <2> QED BY <2>1, <2>2
<1>2. ASSUME NEW d \in Client, \/ \E v \in User : Chat(d, v)
                               \/ MarkOwn(d) \/ FindClient(d) \/ FindNode(d) \/ Publish(d) \/ Hand(d)
      PROVE  Same
  BY <1>2 DEF Chat, MarkOwn, FindClient, FindNode, Publish, Hand
<1>3. ASSUME NEW n \in Node, ReceiveForward(n) \/ HandForwarded(n) PROVE Same
  BY <1>3 DEF ReceiveForward, HandForwarded
<1>4. ASSUME NEW u \in User, KeyExpires(u), UNCHANGED <<msgVars, chanVars>> PROVE Same
  BY <1>4 DEF chanVars
<1> QED BY <1>1, <1>2, <1>3, <1>4 DEF CalmStep

\* What an open session has taken, it has taken for good.
LEMMA TakenStaysLemma ==
    ASSUME DInv, DInv', RowsTalk, MarkRef, PrefixSeen, CalmStep, Undisturbed,
           [Promise!Next]_(Promise!vars),
           NEW c \in Client, Open(c), NEW i \in 1 .. Len(rows), For(c, i), Taken(c, i)
    PROVE  Taken(c, i)'
<1> USE PresenceAssumption
<1>1. RowsStay /\ SeenBy(Owner[c]) \subseteq SeenBy(Owner[c])'
  BY GrowLemma
<1>2. Len(rows') \in Nat
  BY DEF DInv, ChanTypes
<1>3. i \in SeenBy(Owner[c]) => Taken(c, i)'
  BY <1>1 DEF Taken
<1>4. AnsweredAfter(i) => Taken(c, i)'
  BY <1>1, <1>2, AnsweredStaysLemma DEF Taken
<1>5. CASE (c \in loaded' <=> c \in loaded) /\ unread'[c] = unread[c]
  BY <1>3, <1>4, <1>5 DEF Taken
<1>6. CASE LoadUnread(c)
  <2>1. c \notin loaded /\ unread' = [unread EXCEPT ![c] = UnreadOf(Owner[c])]
    BY <1>6 DEF LoadUnread, Undisturbed
  <2>2. unread'[c] = UnreadOf(Owner[c])
    BY <2>1 DEF DInv, ChanTypes
  <2>3. i \in SeenBy(Owner[c]) \/ AnsweredAfter(i) \/ i \in UnreadOf(Owner[c])
    BY LoadTakenLemma DEF Open
  <2> QED BY <1>3, <1>4, <2>2, <2>3 DEF Taken
<1>7. CASE PushUnread(c)
  <2>1. PICK k \in InOrder(unread[c]) :
           /\ received' = [received EXCEPT ![c] = @ \cup {k}]
           /\ unread' = [unread EXCEPT ![c] = @ \ {k}]
           /\ loaded' = loaded
    BY <1>7 DEF PushUnread, Open
  <2>2. unread'[c] = unread[c] \ {k} /\ k \in received'[c]
    BY <2>1 DEF DInv, ChanTypes
  <2>3. i \in unread[c] => i \in SeenBy(Owner[c])' \/ i \in unread'[c]
    BY <2>2 DEF SeenBy
  <2> QED BY <1>3, <1>4, <2>1, <2>3 DEF Taken
<1> QED BY <1>5, <1>6, <1>7, LoadedEffectLemma

\* An open session that still needs message i needed it before, unless i is
\* the message just stored.
LEMMA NeedLemma ==
    ASSUME DInv, DInv', LoadInv, LoadInv', RowsTalk, MarkRef, PrefixSeen, CalmStep, Undisturbed,
           [Promise!Next]_(Promise!vars),
           NEW c \in Client, Open(c)', NEW i \in Id, For(c, i)', ~Taken(c, i)'
    PROVE  /\ Open(c) /\ c \in loaded'
           /\ i \in 1 .. Len(rows) => For(c, i) /\ ~Taken(c, i)
<1>1. c \in loaded' /\ Open(c)
  BY OpensLemma DEF Taken
<1>2. RowsStay
  BY GrowLemma
<1> QED BY <1>1, <1>2, ForLemma, TakenStaysLemma

-----------------------------------------------------------------------------
(* What a peer sees is a prefix of what each steady sender sent it.        *)

LEMMA PrefixOneLemma ==
    ASSUME DInv, NEW u \in Exclusive, NEW k \in Id, k \in 1 .. Len(rows),
           NEW c \in Client, Owner[c] = u, c \in loaded,
           \A i \in Id : For(c, i) /\ Before(i, k) => Taken(c, i),
           \A i \in unread[c] : k <= i
    PROVE  \A i \in 1 .. k : rows[k].to = u /\ rows[i] = rows[k] /\ Steady(rows[k].from) =>
               i = k \/ i \in SeenBy(u) \/ AnsweredAfter(i)
<1> SUFFICES ASSUME NEW i \in 1 .. k, rows[k].to = u, rows[i] = rows[k], Steady(rows[k].from), i # k
             PROVE  i \in SeenBy(u) \/ AnsweredAfter(i)
  OBVIOUS
<1>1. Len(rows) \in Nat /\ k \in Nat
  BY RowIdLemma
<1>2. i \in 1 .. Len(rows) /\ i < k
  BY <1>1
<1>3. i \in Id
  BY <1>2, RowIdLemma
<1>4. For(c, i) /\ Before(i, k)
  BY <1>2 DEF For, Before
<1>5. Taken(c, i)
  BY <1>3, <1>4
<1>6. i \notin unread[c]
  BY <1>1, <1>2
<1> QED BY <1>5, <1>6 DEF Taken

LEMMA PrefixStepLemma ==
    ASSUME DInv, DInv', LoadInv, PrefixSeen, PathInv, LoadedBelow, CalmStep,
           [Promise!Next]_(Promise!vars)
    PROVE  PrefixSeen'
<1> USE PresenceAssumption
<1>1. RowsStay /\ \A u \in User : SeenBy(u) \subseteq SeenBy(u)'
  BY GrowLemma
<1>2. Len(rows') \in Nat /\ Len(rows) \in Nat
  BY DEF DInv, ChanTypes
<1>3. \A u \in User : SeenBy(u) \subseteq 1 .. Len(rows)
  BY DEF SeenBy, DInv, Refs, SeenRefs, SeenRef, StoredWith
<1>4. ASSUME NEW u \in Exclusive, NEW k \in 1 .. Len(rows), NEW i \in 1 .. k,
             rows'[k].to = u, rows'[i] = rows'[k], Steady(rows'[k].from),
             k \in SeenBy(u) \/ i = k \/ i \in SeenBy(u) \/ AnsweredAfter(i), k \in SeenBy(u)'
      PROVE  i \in SeenBy(u)' \/ AnsweredAfter(i)'
  <2>1. i \in 1 .. Len(rows)
    BY <1>2
  <2>2. rows[k] = rows'[k] /\ rows[i] = rows'[i]
    BY <1>1, <2>1 DEF RowsStay
  <2>3. CASE k \in SeenBy(u)
    <3>1. i \in SeenBy(u) \/ AnsweredAfter(i)
      BY <1>4, <2>2, <2>3 DEF PrefixSeen
    <3> QED BY <1>1, <1>2, <2>1, <3>1, AnsweredStaysLemma
  <2>4. CASE i = k
    BY <1>4, <2>4
  <2>5. CASE i \in SeenBy(u) \/ AnsweredAfter(i)
    BY <1>1, <1>2, <2>1, <2>5, AnsweredStaysLemma
  <2> QED BY <1>4, <2>3, <2>4, <2>5
<1>5. CASE UNCHANGED received
  <2>1. \A u \in User : SeenBy(u)' = SeenBy(u)
    BY <1>5 DEF SeenBy
  <2>2. ASSUME NEW u \in Exclusive, NEW k \in SeenBy(u)', NEW i \in 1 .. k,
               rows'[k].to = u, rows'[i] = rows'[k], Steady(rows'[k].from)
        PROVE  i \in SeenBy(u)' \/ AnsweredAfter(i)'
    <3>1. k \in SeenBy(u) /\ k \in 1 .. Len(rows)
      BY <1>3, <2>1
    <3> QED BY <1>4, <2>2, <3>1
  <2>3. Exclusive \subseteq User
    OBVIOUS
  <2> QED BY <2>2 DEF PrefixSeen, Steady
<1>6. ASSUME NEW c \in Client, NEW k \in 1 .. Len(rows), received' = [received EXCEPT ![c] = @ \cup {k}],
             Owner[c] \in Exclusive =>
                \A i \in 1 .. k : rows[k].to = Owner[c] /\ rows[i] = rows[k] /\ Steady(rows[k].from) =>
                    i = k \/ i \in SeenBy(Owner[c]) \/ AnsweredAfter(i)
      PROVE  PrefixSeen'
  <2>1. SeenMap' = [SeenMap EXCEPT ![Owner[c]] = @ \cup {k}]
    BY <1>6, SeenGrowsLemma
  <2>2. \A u \in User : \A x \in SeenBy(u)' : x \in SeenBy(u) \/ (u = Owner[c] /\ x = k)
    <3>1. \A u \in User : SeenMap[u] = SeenBy(u) /\ SeenMap'[u] = SeenBy(u)'
      BY DEF SeenMap
    <3>2. SeenMap = [u \in User |-> SeenMap[u]]
      BY DEF SeenMap
    <3>3. \A u \in User : SeenMap'[u] = IF u = Owner[c] THEN SeenMap[u] \cup {k} ELSE SeenMap[u]
      BY <2>1, <3>2
    <3>4. ASSUME NEW u \in User, NEW x \in SeenBy(u)' PROVE x \in SeenBy(u) \/ (u = Owner[c] /\ x = k)
      <4>1. SeenBy(u)' = SeenMap'[u] /\ SeenBy(u) = SeenMap[u]
        BY <3>1
      <4>2. SeenMap'[u] = IF u = Owner[c] THEN SeenMap[u] \cup {k} ELSE SeenMap[u]
        BY <3>3
      <4>3. x \in SeenMap'[u]
        BY <3>4, <4>1
      <4> QED BY <4>1, <4>2, <4>3
    <3> QED BY <3>4
  <2>3. ASSUME NEW u \in Exclusive, NEW x \in SeenBy(u)', NEW i \in 1 .. x,
               rows'[x].to = u, rows'[i] = rows'[x], Steady(rows'[x].from)
        PROVE  i \in SeenBy(u)' \/ AnsweredAfter(i)'
    <3>1. x \in 1 .. Len(rows)
      BY <1>3, <2>2
    <3>2. i \in 1 .. Len(rows)
      BY <1>2, <3>1
    <3>3. rows[x] = rows'[x] /\ rows[i] = rows'[i]
      BY <1>1, <3>1, <3>2 DEF RowsStay
    <3>4. CASE x \in SeenBy(u)
      BY <1>4, <2>3, <3>1, <3>4
    <3>5. CASE x \notin SeenBy(u)
      <4>1. u = Owner[c] /\ x = k
        BY <2>2, <3>5
      <4>2. i = k \/ i \in SeenBy(u) \/ AnsweredAfter(i)
        BY <1>6, <2>3, <3>3, <4>1
      <4> QED BY <1>4, <2>3, <3>1, <4>1, <4>2
    <3> QED BY <3>4, <3>5
  <2> QED BY <2>3 DEF PrefixSeen, Steady
<1>7. ASSUME NEW c \in Client, PushUnread(c) PROVE PrefixSeen'
  <2>1. CASE received' = received
    BY <1>5, <2>1
  <2>2. CASE received' # received
    <3>1. c \notin gone /\ phase[c] = "pushing"
      BY <1>7, <2>2 DEF PushUnread
    <3>2. PICK k \in InOrder(unread[c]) : received' = [received EXCEPT ![c] = @ \cup {k}]
      BY <1>7, <3>1 DEF PushUnread
    <3>3. k \in unread[c] /\ \A i \in unread[c] : k <= i
      BY <3>2 DEF InOrder
    <3>4. k \in 1 .. Len(rows) /\ k \in Id
      BY <3>3, RowIdLemma DEF DInv, Refs, SeenRefs, SeenRef, StoredWith
    <3>5. c \in loaded
      BY <3>3 DEF LoadInv, LoadedInTime
    <3>6. ASSUME Owner[c] \in Exclusive
          PROVE  \A i \in Id : For(c, i) /\ Before(i, k) => Taken(c, i)
      <4>1. Open(c)
        BY <3>1, <3>6 DEF Open
      <4>2. \A i \in Id : For(c, i) /\ i <= k => Taken(c, i)
        BY <3>3, <4>1 DEF LoadedBelow
      <4>3. \A i \in Id : Before(i, k) => i <= k
        BY <3>4 DEF Before, Id
      <4> QED BY <4>2, <4>3
    <3> QED BY <1>6, <3>2, <3>3, <3>4, <3>5, <3>6, PrefixOneLemma
  <2> QED BY <2>1, <2>2
<1>8. ASSUME NEW c \in Client, WriteSend(c) PROVE PrefixSeen'
  <2>1. CASE received' = received
    BY <1>5, <2>1
  <2>2. CASE received' # received
    <3> DEFINE k == Head(send[c])
    <3>1. /\ c \notin gone /\ phase[c] \in {"listening", "clearing", "closing"} /\ send[c] # <<>>
          /\ received' = [received EXCEPT ![c] = @ \cup {k}]
      BY <1>8, <2>2 DEF WriteSend
    <3>2. phase[c] = "listening" /\ c \in loaded /\ unread[c] = {}
      BY <3>1 DEF LoadInv, LoadedInTime
    <3>3. k = send[c][1] /\ Len(send[c]) \in Nat \ {0}
      <4>1. send[c] \in Seq(Id)
        BY DEF DInv, ChanTypes
      <4> QED BY <3>1, <4>1, TailLemma
    <3>4. k \in 1 .. Len(rows) /\ k \in Id
      BY <3>3, RowIdLemma DEF DInv, Refs, SendRefs, SendRef, StoredFor
    <3>5. ASSUME Owner[c] \in Exclusive
          PROVE  \A i \in Id : For(c, i) /\ Before(i, k) => Taken(c, i)
      <4>1. Open(c)
        BY <3>1, <3>2, <3>5 DEF Open
      <4>2. SUFFICES ASSUME NEW i \in Id, For(c, i), Before(i, k), Placed(c, i) PROVE FALSE
        BY <4>1 DEF PathInv
      <4>3. \E q \in 1 .. 1 - 1 : send[c][q] = i
        BY <3>3, <4>2 DEF Placed, OrderSend
      <4> QED BY <4>3
    <3> HIDE DEF k
    <3> QED BY <1>6, <3>1, <3>2, <3>4, <3>5, PrefixOneLemma
  <2> QED BY <2>1, <2>2
<1>9. ASSUME NEW c \in Client, SessionCalm(c), ~PushUnread(c), ~WriteSend(c) PROVE received' = received
  BY <1>9 DEF SessionCalm, Connect, Listen, Hangup, CloseSend, PeerGoes, LoadUnread, Ack, msgVars
<1>10. ASSUME NEW c \in Client, \/ \E v \in User : Chat(c, v)
                                \/ MarkOwn(c) \/ FindClient(c) \/ FindNode(c) \/ Publish(c) \/ Hand(c)
       PROVE  received' = received
  BY <1>10 DEF Chat, MarkOwn, FindClient, FindNode, Publish, Hand, msgVars
<1>11. ASSUME NEW n \in Node, ReceiveForward(n) \/ HandForwarded(n) PROVE received' = received
  BY <1>11 DEF ReceiveForward, HandForwarded, msgVars
<1> QED BY <1>5, <1>7, <1>8, <1>9, <1>10, <1>11 DEF CalmStep, msgVars

-----------------------------------------------------------------------------
(* What DeliverUnreadMsg has still to write, and where forwards come from. *)

\* A step in which nothing goes wrong, from a state in which nothing has.
QuietStep ==
    /\ DInv /\ DInv' /\ LoadInv /\ LoadInv' /\ RowsTalk /\ MarkRef /\ CalmInv
    /\ CalmStep /\ Undisturbed /\ [Promise!Next]_(Promise!vars)

LEMMA LoadedBelowLemma ==
    ASSUME QuietStep
    PROVE  LoadedBelow'
<1> USE DEF QuietStep, CalmInv
<1> SUFFICES ASSUME NEW c \in Client, Open(c)', NEW k \in unread'[c], NEW i \in Id,
                    For(c, i)', i <= k, ~Taken(c, i)'
             PROVE  FALSE
  BY DEF LoadedBelow
<1>1. /\ Open(c) /\ c \in loaded'
      /\ i \in 1 .. Len(rows) => For(c, i) /\ ~Taken(c, i)
  BY NeedLemma
<1>2. Len(rows) \in Nat /\ i \in Nat \ {0}
  BY RowIdLemma DEF Id
<1>3. k \notin unread[c]
  <2>1. SUFFICES ASSUME k \in unread[c] PROVE FALSE
    OBVIOUS
  <2>2. k \in 1 .. Len(rows)
    BY <2>1 DEF DInv, Refs, SeenRefs, SeenRef, StoredWith
  <2>3. i \in 1 .. Len(rows)
    BY <1>2, <2>2
  <2> QED BY <1>1, <2>1, <2>3 DEF LoadedBelow
<1>4. CASE LoadUnread(c)
  <2>1. c \notin loaded /\ unread' = [unread EXCEPT ![c] = UnreadOf(Owner[c])]
    BY <1>4 DEF LoadUnread, Undisturbed
  <2>2. k \in UnreadOf(Owner[c])
    BY <2>1 DEF DInv, ChanTypes
  <2>3. i \in 1 .. Len(rows)
    BY <1>2, <2>2 DEF UnreadOf
  <2> QED BY <1>1, <2>1, <2>3 DEF Taken
<1>5. CASE PushUnread(c)
  <2>1. \E j \in InOrder(unread[c]) : unread' = [unread EXCEPT ![c] = @ \ {j}]
    BY <1>1, <1>5 DEF PushUnread, Open
  <2>2. unread'[c] \subseteq unread[c]
    BY <2>1 DEF DInv, ChanTypes
  <2> QED BY <1>3, <2>2
<1> QED BY <1>3, <1>4, <1>5, LoadedEffectLemma

\* Most steps leave alone all the places where a message waits, but for what
\* DeliverMsg takes from its own channel.
Still ==
    /\ UNCHANGED <<rows, job, forward, sub>>
    /\ \A c \in Client : send'[c] = send[c] \/ WriteSend(c) \/ CloseSend(c)

LEMMA StillLemma ==
    ASSUME DInv, CalmStep
    PROVE  \/ Still
           \/ \E c \in Client :
                 \/ \E v \in User : Chat(c, v)
                 \/ MarkOwn(c) \/ FindClient(c) \/ FindNode(c) \/ Publish(c) \/ Hand(c)
           \/ \E n \in Node : ReceiveForward(n) \/ HandForwarded(n)
<1>1. ASSUME NEW d \in Client, SessionCalm(d) PROVE Still
  <2>1. UNCHANGED <<rows, job, forward, sub>>
    BY <1>1 DEF SessionCalm, Connect, Listen, Hangup, CloseSend, PeerGoes, LoadUnread, PushUnread,
                WriteSend, Ack, chanVars, msgVars
  <2>2. CASE WriteSend(d) \/ CloseSend(d)
    <3>1. send' = [send EXCEPT ![d] = Tail(@)] \/ send' = [send EXCEPT ![d] = <<>>]
      BY <2>2 DEF WriteSend, CloseSend
    <3>2. ASSUME NEW c \in Client, c # d PROVE send'[c] = send[c]
      BY <3>1, <3>2 DEF DInv, ChanTypes
    <3> QED BY <2>1, <2>2, <3>2 DEF Still
  <2>3. CASE ~(WriteSend(d) \/ CloseSend(d))
    <3>1. send' = send
      BY <1>1, <2>3 DEF SessionCalm, Connect, Listen, Hangup, PeerGoes, LoadUnread, PushUnread,
                        Ack, chanVars
    <3> QED BY <2>1, <3>1 DEF Still
  <2> QED BY <2>2, <2>3
<1>2. ASSUME NEW u \in User, KeyExpires(u), UNCHANGED <<msgVars, chanVars>> PROVE Still
  BY <1>2 DEF msgVars, chanVars, Still
<1> QED BY <1>1, <1>2 DEF CalmStep

LEMMA NextStepLemma ==
    ASSUME NEW j \in Job, j # Idle, j.step \in {"stored", "marked"}, NEW s
    PROVE  [j EXCEPT !.step = s] = [step |-> s, to |-> j.to, id |-> j.id]
<1>1. j = [step |-> j.step, to |-> j.to, id |-> j.id]
  BY JobLemma
<1> QED BY <1>1

\* What a step of handleChatMsg does to its own job.
LEMMA JobEffectLemma ==
    ASSUME DInv, NEW d \in Client,
           MarkOwn(d) \/ FindClient(d) \/ FindNode(d) \/ Publish(d) \/ Hand(d)
    PROVE  /\ rows' = rows /\ job[d] \in Job /\ job[d] # Idle
           /\ \A e \in Client : e # d => job'[e] = job[e]
           /\ MarkOwn(d) =>
                /\ job[d].step = "stored" /\ job'[d].step = "marked"
                /\ job'[d] # Idle /\ job'[d].id = job[d].id
           /\ FindClient(d) =>
                LET t == clients[Home[d]][job[d].to] IN
                /\ job[d].step = "marked" /\ job'[d] # Idle /\ job'[d].id = job[d].id
                /\ t = NoClient => job'[d].step = "remote"
                /\ t # NoClient => job'[d].step = "local" /\ job'[d].client = t
           /\ FindNode(d) =>
                LET n == online[job[d].to] IN
                /\ job[d].step = "remote"
                /\ \/ /\ n \notin {NoNode, Home[d]} /\ job'[d] # Idle /\ job'[d].step = "forward"
                      /\ job'[d].id = job[d].id /\ job'[d].node = n
                   \/ job'[d] = Idle /\ (RedisErrs(Home[d]) \/ n \in {NoNode, Home[d]})
           /\ Publish(d) => job[d].step = "forward" /\ job'[d] = Idle
           /\ Hand(d) => job[d].step = "local" /\ job'[d] = Idle
<1> USE DEF DInv, ChanTypes
<1> DEFINE j == job[d]
<1>1. j \in Job /\ j # Idle /\ job \in [Client -> Job] /\ rows' = rows
  BY DEF MarkOwn, FindClient, FindNode, Publish, Hand, Idle, msgVars
<1>3. CASE MarkOwn(d)
  <2>1. j.step = "stored" /\ job' = [job EXCEPT ![d].step = "marked"]
    BY <1>3 DEF MarkOwn
  <2>2. job'[d] = [j EXCEPT !.step = "marked"] /\ \A e \in Client : e # d => job'[e] = job[e]
    BY <1>1, <2>1
  <2>3. [j EXCEPT !.step = "marked"] = [step |-> "marked", to |-> j.to, id |-> j.id]
    BY <1>1, <2>1, NextStepLemma
  <2>4. job'[d].step = "marked" /\ job'[d].id = j.id /\ job'[d] # Idle
    BY <2>2, <2>3 DEF Idle
  <2> QED BY <1>1, <2>1, <2>2, <2>4 DEF FindClient, FindNode, Publish, Hand
<1>4. CASE FindClient(d)
  <2> DEFINE t == clients[Home[d]][j.to]
             x == IF t = NoClient THEN [j EXCEPT !.step = "remote"]
                  ELSE [step |-> "local", to |-> j.to, id |-> j.id, client |-> t]
  <2>1. j.step = "marked" /\ job' = [job EXCEPT ![d] = x]
    BY <1>4 DEF FindClient
  <2>2. job'[d] = x /\ \A e \in Client : e # d => job'[e] = job[e]
    BY <1>1, <2>1
  <2>3. [j EXCEPT !.step = "remote"] = [step |-> "remote", to |-> j.to, id |-> j.id]
    BY <1>1, <2>1, NextStepLemma
  <2>4. /\ job'[d].id = j.id /\ job'[d] # Idle
        /\ t = NoClient => job'[d].step = "remote"
        /\ t # NoClient => job'[d].step = "local" /\ job'[d].client = t
    BY <2>2, <2>3 DEF Idle
  <2> QED BY <1>1, <2>1, <2>2, <2>4 DEF MarkOwn, FindNode, Publish, Hand
<1>5. CASE FindNode(d)
  <2> DEFINE n == online[j.to]
             x == [step |-> "forward", to |-> j.to, id |-> j.id, node |-> n]
  <2>1. /\ j.step = "remote"
        /\ \/ n \notin {NoNode, Home[d]} /\ job' = [job EXCEPT ![d] = x]
           \/ (RedisErrs(Home[d]) \/ n \in {NoNode, Home[d]}) /\ job' = [job EXCEPT ![d] = Idle]
    BY <1>5 DEF FindNode
  <2>2. x # Idle /\ x.step = "forward" /\ x.id = j.id /\ x.node = n
    BY DEF Idle
  <2> HIDE DEF x
  <2>3. /\ \A e \in Client : e # d => job'[e] = job[e]
        /\ \/ n \notin {NoNode, Home[d]} /\ job'[d] = x
           \/ (RedisErrs(Home[d]) \/ n \in {NoNode, Home[d]}) /\ job'[d] = Idle
    BY <1>1, <2>1
  <2> QED BY <1>1, <2>1, <2>2, <2>3 DEF MarkOwn, FindClient, Publish, Hand
<1>6. CASE Publish(d)
  <2>1. j.step = "forward" /\ job' = [job EXCEPT ![d] = Idle]
    BY <1>6 DEF Publish
  <2>2. job'[d] = Idle /\ \A e \in Client : e # d => job'[e] = job[e]
    BY <1>1, <2>1
  <2> QED BY <1>1, <2>1, <2>2 DEF MarkOwn, FindClient, FindNode, Hand
<1>7. CASE Hand(d)
  <2>1. j.step = "local" /\ job' = [job EXCEPT ![d] = Idle]
    BY <1>7 DEF Hand
  <2>2. job'[d] = Idle /\ \A e \in Client : e # d => job'[e] = job[e]
    BY <1>1, <2>1
  <2> QED BY <1>1, <2>1, <2>2 DEF MarkOwn, FindClient, FindNode, Publish
<1> QED BY <1>3, <1>4, <1>5, <1>6, <1>7

\* The subscriber takes the head of its queue and looks its addressee up.
LEMMA ReceiveEffectLemma ==
    ASSUME DInv, NEW n \in Node, ReceiveForward(n)
    PROVE  LET q == forward[n]  t == clients[n][q[1].to] IN
           /\ UNCHANGED <<rows, job, send>> /\ sub[n] = Idle
           /\ Len(q) \in Nat \ {0} /\ q[1].to \in User /\ t \in Client \cup {NoClient}
           /\ Len(forward'[n]) = Len(q) - 1
           /\ \A p \in 1 .. Len(q) - 1 : forward'[n][p] = q[p + 1]
           /\ \A x \in Node : x # n => forward'[x] = forward[x] /\ sub'[x] = sub[x]
           /\ t = NoClient => sub'[n] = Idle
           /\ t # NoClient => sub'[n] = [step |-> "local", id |-> q[1].id, client |-> t]
<1> USE DEF DInv, ChanTypes
<1> DEFINE q == forward[n]  m == q[1]  t == clients[n][m.to]
           h == [step |-> "local", id |-> m.id, client |-> t]
           g == IF t = NoClient THEN Idle ELSE h
<1>1. q \in Seq([to : User, id : Id]) /\ q # <<>>
  BY DEF ReceiveForward
<1> HIDE DEF q
<1>2. /\ Len(q) \in Nat \ {0} /\ Len(Tail(q)) = Len(q) - 1 /\ Head(q) = m
      /\ \A p \in 1 .. Len(q) - 1 : Tail(q)[p] = q[p + 1]
      /\ m \in [to : User, id : Id]
  BY <1>1, TailLemma
<1>3. /\ sub' = [sub EXCEPT ![n] = g] /\ forward' = [forward EXCEPT ![n] = Tail(@)]
      /\ UNCHANGED <<rows, job, send>> /\ sub[n] = Idle
  BY <1>2 DEF ReceiveForward, msgVars, q
<1> HIDE DEF m
<1>4. t \in Client \cup {NoClient} /\ m.to \in User
  BY <1>2 DEF IInv, PresenceTypeOK
<1> HIDE DEF t, h, g
<1>5. forward'[n] = Tail(q) /\ \A x \in Node : x # n => forward'[x] = forward[x] /\ sub'[x] = sub[x]
  BY <1>3 DEF q
<1>6. sub'[n] = g
  BY <1>3
<1> QED BY <1>2, <1>3, <1>4, <1>5, <1>6 DEF q, m, t, h, g

\* What is queued is stored, and stored rows are as far as they were.
FarNext(i, n) ==
    Steady(rows'[i].from) => \A d \in Client : Owner[d] = rows'[i].from => Home[d] # n

LEMMA FarStaysLemma ==
    ASSUME RowsStay, NEW i \in 1 .. Len(rows), NEW n \in Node, Far(i, n)
    PROVE  FarNext(i, n)
  BY DEF Far, FarNext, RowsStay

LEMMA FarLemma ==
    ASSUME QuietStep
    PROVE  FarInv'
<1> USE PresenceAssumption DEF QuietStep, CalmInv
<1>1. RowsStay
  BY GrowLemma
<1>2. ASSUME NEW d \in Client, job'[d] # Idle, job'[d].step = "forward" PROVE job'[d].node # Home[d]
  <2>1. CASE job'[d] = job[d]
    BY <1>2, <2>1 DEF FarInv
  <2>2. ASSUME NEW e \in Client, NEW v \in User, Chat(e, v) PROVE job'[d] = job[d]
    <3> DEFINE j == [step |-> "stored", to |-> v, id |-> Len(rows) + 1]
    <3>1. job' = [job EXCEPT ![e] = j] /\ j.step = "stored"
      BY <2>2 DEF Chat
    <3> HIDE DEF j
    <3> QED BY <1>2, <3>1 DEF DInv, ChanTypes
  <2>3. ASSUME NEW e \in Client, MarkOwn(e) \/ FindClient(e) \/ FindNode(e) \/ Publish(e) \/ Hand(e),
               job'[d] # job[d]
        PROVE  job'[d].node # Home[d]
    <3>1. e = d
      BY <2>3, JobEffectLemma
    <3> QED BY <1>2, <2>3, <3>1, JobEffectLemma
  <2>4. ASSUME NEW n \in Node, ReceiveForward(n) \/ HandForwarded(n) PROVE job'[d] = job[d]
    BY <2>4 DEF ReceiveForward, HandForwarded
  <2> QED BY <2>1, <2>2, <2>3, <2>4, StillLemma DEF Still
<1> DEFINE F(n) == \A p \in 1 .. Len(forward'[n]) : FarNext(forward'[n][p].id, n)
           G(n) == sub'[n] # Idle => FarNext(sub'[n].id, n)
           QueuesFar == \A n \in Node : F(n) /\ G(n)
<1>3. ASSUME NEW n \in Node, NEW p \in 1 .. Len(forward[n]) PROVE FarNext(forward[n][p].id, n)
  <2> DEFINE i == forward[n][p].id
  <2>1. Far(i, n) /\ i \in 1 .. Len(rows)
    BY DEF FarInv, DInv, Refs, ForwardRefs, ForwardRef, StoredFor
  <2> QED BY <1>1, <2>1, FarStaysLemma
<1>4. ASSUME NEW n \in Node, sub[n] # Idle PROVE FarNext(sub[n].id, n)
  <2> DEFINE i == sub[n].id
  <2>1. Far(i, n) /\ i \in 1 .. Len(rows)
    BY <1>4 DEF FarInv, DInv, Refs, SubRefs, SubRef, StoredFor
  <2> QED BY <1>1, <2>1, FarStaysLemma
<1>5. ASSUME NEW n \in Node
      PROVE  (forward'[n] = forward[n] => F(n)) /\ (sub'[n] = sub[n] => G(n))
  BY <1>3, <1>4
<1> HIDE DEF F, G
<1>6. ASSUME NEW d \in Client, Publish(d) PROVE QueuesFar
  <2> DEFINE n == job[d].node  m == [to |-> job[d].to, id |-> job[d].id]
  <2>1. job[d] \in Job /\ job[d] # Idle /\ job[d].step = "forward" /\ rows' = rows
    BY <1>6, JobEffectLemma
  <2>2. /\ n \in Node /\ n # Home[d] /\ m \in [to : User, id : Id]
        /\ m.id \in 1 .. Len(rows) /\ rows[m.id].from = Owner[d]
    BY <2>1, JobLemma DEF FarInv, DInv, Refs, JobRefs, JobRef, StoredFor
  <2>3. Far(m.id, n)
    BY <2>2 DEF Far, Steady
  <2>4. sub' = sub /\ (forward' = forward \/ forward' = [forward EXCEPT ![n] = Append(@, m)])
    BY <1>6 DEF Publish
  <2>5. CASE forward' = forward
    BY <1>5, <2>4, <2>5
  <2>6. CASE forward' = [forward EXCEPT ![n] = Append(@, m)]
    <3> DEFINE q == forward[n]
    <3>1. q \in Seq([to : User, id : Id]) /\ forward'[n] = Append(q, m)
          /\ \A x \in Node : x # n => forward'[x] = forward[x]
      BY <2>2, <2>6 DEF DInv, ChanTypes
    <3>2. FarNext(m.id, n)
      BY <1>1, <2>2, <2>3, FarStaysLemma
    <3>3. \A p \in 1 .. Len(q) : FarNext(q[p].id, n)
      BY <1>3, <2>2
    <3> HIDE DEF q, n, m
    <3>4. /\ Len(Append(q, m)) = Len(q) + 1 /\ Len(q) \in Nat /\ Append(q, m)[Len(q) + 1] = m
          /\ \A p \in 1 .. Len(q) : Append(q, m)[p] = q[p]
      BY <2>2, <3>1, AppendLemma
    <3>5. \A p \in 1 .. Len(q) + 1 : p \in 1 .. Len(q) \/ p = Len(q) + 1
      BY <3>4
    <3>6. \A p \in 1 .. Len(q) + 1 : FarNext(Append(q, m)[p].id, n)
      BY <3>2, <3>3, <3>4, <3>5
    <3>7. F(n)
      BY <3>1, <3>4, <3>6 DEF F
    <3> QED BY <1>5, <2>2, <2>4, <3>1, <3>7
  <2> QED BY <2>4, <2>5, <2>6
<1>7. ASSUME NEW n \in Node, ReceiveForward(n) PROVE QueuesFar
  <2> DEFINE q == forward[n]
  <2>1. /\ Len(q) \in Nat \ {0} /\ Len(forward'[n]) = Len(q) - 1
        /\ \A p \in 1 .. Len(q) - 1 : forward'[n][p] = q[p + 1]
        /\ \A x \in Node : x # n => forward'[x] = forward[x] /\ sub'[x] = sub[x]
    BY <1>7, ReceiveEffectLemma
  <2>7. sub'[n] # Idle => sub'[n].id = q[1].id
    <3> DEFINE t == clients[n][q[1].to]
    <3>1. /\ t = NoClient => sub'[n] = Idle
          /\ t # NoClient => sub'[n] = [step |-> "local", id |-> q[1].id, client |-> t]
      BY <1>7, ReceiveEffectLemma
    <3> QED BY <3>1
  <2>2. \A p \in 1 .. Len(q) : FarNext(q[p].id, n)
    BY <1>3
  <2> HIDE DEF q
  <2>3. \A p \in 1 .. Len(q) - 1 : p + 1 \in 1 .. Len(q)
    BY <2>1
  <2>4. F(n)
    BY <2>1, <2>2, <2>3 DEF F
  <2>5. 1 \in 1 .. Len(q)
    BY <2>1
  <2>6. G(n)
    BY <2>1, <2>2, <2>5, <2>7 DEF G
  <2> QED BY <1>5, <2>1, <2>4, <2>6
<1>8. ASSUME NEW n \in Node, HandForwarded(n) PROVE QueuesFar
  <2>1. forward' = forward /\ sub'[n] = Idle /\ \A x \in Node : x # n => sub'[x] = sub[x]
    BY <1>8 DEF HandForwarded, DInv, ChanTypes
  <2>2. G(n)
    BY <2>1 DEF G
  <2> QED BY <1>5, <2>1, <2>2
<1>9. ASSUME NEW d \in Client, \/ \E v \in User : Chat(d, v)
                               \/ MarkOwn(d) \/ FindClient(d) \/ FindNode(d) \/ Hand(d)
      PROVE  forward' = forward /\ sub' = sub
  BY <1>9 DEF Chat, MarkOwn, FindClient, FindNode, Hand
<1>10. forward' = forward /\ sub' = sub => QueuesFar
  BY <1>5
<1>11. QueuesFar
  BY <1>6, <1>7, <1>8, <1>9, <1>10, StillLemma DEF Still
<1> QED BY <1>2, <1>11 DEF FarInv, Far, FarNext, Steady, F, G

-----------------------------------------------------------------------------
(* The way of a message: each step leaves it in place or takes it one      *)
(* place further, behind everything its sender sent before.                *)

\* The ids that wait for c are those of stored rows.
LEMMA QueuedLemma ==
    ASSUME DInv, NEW c \in Client
    PROVE  /\ Home[c] \in Node
           /\ \A p \in 1 .. Len(send[c]) : send[c][p] \in 1 .. Len(rows)
           /\ \A p \in 1 .. Len(forward[Home[c]]) :
                 LET k == forward[Home[c]][p].id IN
                 k \in 1 .. Len(rows) /\ forward[Home[c]][p].to = rows[k].to
           /\ sub[Home[c]] # Idle => sub[Home[c]].id \in 1 .. Len(rows)
<1>1. Home[c] \in Node
  BY PresenceAssumption
<1> QED BY <1>1 DEF DInv, Refs, SendRefs, SendRef, ForwardRefs, ForwardRef, SubRefs, SubRef, StoredFor

\* One of several sessions of such a user.
LEMMA OneSessionLemma ==
    ASSUME SoleSession, NEW c \in Client, NEW d \in Client, Owner[c] = Owner[d], Owner[c] \in Exclusive,
           phase[c] \in {"registering", "pushing", "listening"},
           phase[d] \in {"registering", "pushing", "listening"}
    PROVE  c = d
<1>1. Engaged(c) /\ Engaged(d)
  BY DEF Engaged, Finished
<1> QED BY <1>1 DEF SoleSession

\* Only one handler works for a steady sender.
LEMMA OneHandlerLemma ==
    ASSUME DInv, SoleSession, NEW d \in Client, NEW e \in Client, job[d] # Idle, job[e] # Idle,
           rows[job[d].id].from = rows[job[e].id].from, rows[job[d].id].from \in Exclusive
    PROVE  d = e
<1>1. /\ phase[d] = "listening" /\ Owner[d] = rows[job[d].id].from
      /\ phase[e] = "listening" /\ Owner[e] = rows[job[e].id].from
  BY DEF DInv, Refs, JobRefs, JobRef
<1> QED BY <1>1, OneSessionLemma

LEMMA CarriesLemma ==
    ASSUME DInv, NEW c \in Client, NEW d \in Client, NEW i, For(c, i), Carries(d, c, i)
    PROVE  /\ job[d] # Idle /\ job[d].id = i /\ job[d].to = Owner[c]
           /\ Owner[d] = rows[i].from /\ phase[d] = "listening"
  BY DEF DInv, Refs, JobRefs, JobRef, StoredFor, Carries, For

\* A session that still needs an old message was open, and needed it, before.
LEMMA NeedPlacedLemma ==
    ASSUME QuietStep, NEW c \in Client, Open(c)', NEW i \in Id, For(c, i)', ~Taken(c, i)'
    PROVE  /\ Open(c) /\ c \in loaded'
           /\ i \in 1 .. Len(rows) => For(c, i) /\ c \in loaded /\ Placed(c, i)
<1>1. /\ Open(c) /\ c \in loaded'
      /\ i \in 1 .. Len(rows) => For(c, i) /\ ~Taken(c, i)
  BY NeedLemma DEF QuietStep, CalmInv
<1>2. Placed(c, i) \/ Taken(c, i) \/ ~For(c, i)
  BY <1>1 DEF QuietStep, CalmInv, PathInv
<1> QED BY <1>1, <1>2 DEF Taken

LEMMA BeforeLemma ==
    ASSUME RowsStay, NEW i \in 1 .. Len(rows), NEW k \in 1 .. Len(rows)
    PROVE  Before(i, k)' <=> Before(i, k)
  BY DEF RowsStay, Before

\* A place that no step touches.
LEMMA PlacedFrameLemma ==
    ASSUME DInv, RowsStay, NEW c \in Client, NEW i \in 1 .. Len(rows), Placed(c, i),
           send'[c] = send[c], sub'[Home[c]] = sub[Home[c]], forward'[Home[c]] = forward[Home[c]],
           OnJob(c, i) => OnJob(c, i)'
    PROVE  Placed(c, i)'
<1>1. SomePlace(c, i)'
  BY DEF Placed, SomePlace, InSend, InSub, InForward
<1>2. OrderSend(c, i)'
  BY QueuedLemma, BeforeLemma DEF Placed, OrderSend
<1>3. OrderSub(c, i)'
  BY QueuedLemma, BeforeLemma DEF Placed, OrderSub, InSub, InSend
<1>4. OrderForward(c, i)'
  BY QueuedLemma, BeforeLemma DEF Placed, OrderForward, InSub, InSend
<1> QED BY <1>1, <1>2, <1>3, <1>4 DEF Placed

\* DeliverMsg writes what is in front.
LEMMA WritePlacedLemma ==
    ASSUME DInv, DInv', NEW c \in Client, NEW i \in 1 .. Len(rows), Placed(c, i), Still, WriteSend(c),
           c \notin gone, ~Taken(c, i)'
    PROVE  Placed(c, i)'
<1> DEFINE q == send[c]
<1>1. /\ q \in Seq(Id) /\ q # <<>> /\ send'[c] = Tail(q)
      /\ UNCHANGED <<rows, job, forward, sub>>
      /\ Head(q) \in received'[c]
  BY DEF DInv, ChanTypes, WriteSend, Still
<1>2. Head(q) # i
  BY <1>1 DEF Taken, SeenBy
<1>3. OrderSend(c, i) /\ OrderSub(c, i) /\ OrderForward(c, i) /\ SomePlace(c, i)
  BY DEF Placed
<1>4. \A p \in 1 .. Len(q) : Before(i, q[p]) => \E r \in 1 .. p - 1 : q[r] = i
  BY <1>3 DEF OrderSend
<1>5. InSend(c, i) <=> \E p \in 1 .. Len(q) : q[p] = i
  BY DEF InSend
<1> HIDE DEF q
<1>6. /\ Len(q) \in Nat \ {0} /\ Len(Tail(q)) = Len(q) - 1 /\ q[1] # i
      /\ \A p \in 1 .. Len(q) - 1 : Tail(q)[p] = q[p + 1]
  BY <1>1, <1>2, TailLemma
<1>7. ASSUME NEW n \in 1 .. Len(q), NEW p \in 1 .. n, q[p] = i PROVE p - 1 \in 1 .. n - 1 /\ Tail(q)[p - 1] = i
  <2>1. p # 1 /\ p - 1 \in 1 .. n - 1 /\ p - 1 \in 1 .. Len(q) - 1 /\ p = (p - 1) + 1
    BY <1>6, <1>7
  <2> QED BY <1>6, <1>7, <2>1
<1>8. InSend(c, i) => InSend(c, i)'
  <2>1. ASSUME NEW p \in 1 .. Len(q), q[p] = i PROVE \E r \in 1 .. Len(Tail(q)) : Tail(q)[r] = i
    BY <1>6, <1>7, <2>1
  <2> QED BY <1>1, <1>5, <2>1 DEF InSend
<1>9. OrderSend(c, i)'
  <2>1. ASSUME NEW p \in 1 .. Len(Tail(q)), Before(i, Tail(q)[p]) PROVE \E r \in 1 .. p - 1 : Tail(q)[r] = i
    <3>1. p + 1 \in 1 .. Len(q) /\ Tail(q)[p] = q[p + 1] /\ p + 1 - 1 = p /\ p \in 1 .. Len(q)
      BY <1>6
    <3>2. PICK r \in 1 .. p : q[r] = i
      BY <1>4, <2>1, <3>1
    <3> QED BY <1>7, <3>1, <3>2
  <2> QED BY <1>1, <2>1 DEF OrderSend, Before
<1>10. (InSub(c, i)' <=> InSub(c, i)) /\ (InForward(c, i)' <=> InForward(c, i)) /\ (OnJob(c, i)' <=> OnJob(c, i))
  BY <1>1 DEF InSub, InForward, OnJob, Carries
<1>11. SomePlace(c, i)'
  BY <1>3, <1>8, <1>10 DEF SomePlace
<1>12. OrderSub(c, i)'
  BY <1>1, <1>3, <1>8 DEF OrderSub, Before, InSub
<1>13. OrderForward(c, i)'
  BY <1>1, <1>3, <1>8 DEF OrderForward, Before, InSub
<1> QED BY <1>9, <1>11, <1>12, <1>13 DEF Placed

\* handleChatMsg stores a message: it waits with its handler, behind nothing.
LEMMA NewPlacedLemma ==
    ASSUME DInv, DInv', NEW d \in Client, NEW v \in User, Chat(d, v), NEW c \in Client,
           NEW i, i = Len(rows) + 1
    PROVE  Placed(c, i)'
<1>1. Len(rows) \in Nat
  BY RowIdLemma
<1>2. /\ UNCHANGED <<send, forward, sub>> /\ job \in [Client -> Job]
      /\ job' = [job EXCEPT ![d] = [step |-> "stored", to |-> v, id |-> i]]
  BY DEF Chat, DInv, ChanTypes
<1>3. job'[d].step = "stored" /\ job'[d].id = i /\ job'[d] # Idle
  BY <1>2 DEF Idle
<1>4. \A k \in 1 .. Len(rows) : ~(i < k)
  BY <1>1
<1>5. Carries(d, c, i)'
  BY <1>3 DEF Carries
<1>6. SomePlace(c, i)'
  BY <1>5 DEF SomePlace, OnJob
<1>7. OrderSend(c, i)' /\ OrderSub(c, i)' /\ OrderForward(c, i)'
  <2>1. /\ \A p \in 1 .. Len(send[c]) : ~(i < send[c][p])
        /\ \A p \in 1 .. Len(forward[Home[c]]) : ~(i < forward[Home[c]][p].id)
        /\ sub[Home[c]] # Idle => ~(i < sub[Home[c]].id)
    BY <1>4, QueuedLemma
  <2>2. OrderSend(c, i)'
    BY <1>2, <2>1 DEF OrderSend, Before
  <2>3. OrderSub(c, i)'
    BY <1>2, <2>1 DEF OrderSub, InSub, Before
  <2>4. OrderForward(c, i)'
    BY <1>2, <2>1 DEF OrderForward, Before
  <2> QED BY <2>2, <2>3, <2>4
<1> QED BY <1>6, <1>7 DEF Placed

\* The handler looks the receiver up, first in its own map, then in Redis: a
\* session that still needs the message is found in one of the two.
LEMMA LookupPlacedLemma ==
    ASSUME QuietStep, NEW d \in Client, MarkOwn(d) \/ FindClient(d) \/ FindNode(d),
           NEW c \in Client, Open(c), c \in loaded, NEW i \in 1 .. Len(rows), For(c, i), Placed(c, i)
    PROVE  Placed(c, i)'
<1> USE PresenceAssumption DEF QuietStep, CalmInv
<1>1. /\ UNCHANGED <<send, sub, forward>> /\ RowsStay
      /\ \A e \in Client : e # d => job'[e] = job[e]
  BY GrowLemma, JobEffectLemma DEF MarkOwn, FindClient, FindNode
<1>2. phase[c] \in {"pushing", "listening"} /\ Owner[c] \in Exclusive
  BY DEF Open, LoadInv, LoadedInTime
<1>3. clients[Home[c]][Owner[c]] = c /\ c # NoClient
  BY <1>2 DEF EntryStays
<1>4. ASSUME Carries(d, c, i) PROVE Carries(d, c, i)'
  <2>1. job[d] # Idle /\ job[d].id = i /\ job[d].to = Owner[c] /\ Home[d] \in Node /\ Owner[c] \in User
    BY <1>4, CarriesLemma
  <2>2. CASE MarkOwn(d)
    <3>1. job'[d].step = "marked" /\ job'[d] # Idle /\ job'[d].id = job[d].id
      BY <2>2, JobEffectLemma
    <3> QED BY <2>1, <3>1 DEF Carries
  <2>3. CASE FindClient(d)
    <3> DEFINE t == clients[Home[d]][Owner[c]]
    <3>1. /\ job'[d] # Idle /\ job'[d].id = i
          /\ t = NoClient => job'[d].step = "remote"
          /\ t # NoClient => job'[d].step = "local" /\ job'[d].client = t
      BY <2>1, <2>3, JobEffectLemma
    <3>2. CASE t = NoClient
      <4>1. Home[d] # Home[c]
        BY <1>3, <3>2
      <4> QED BY <3>1, <3>2, <4>1 DEF Carries
    <3>3. CASE t # NoClient
      <4>1. t \in Client /\ Owner[t] = Owner[c] /\ phase[t] \in {"registering", "pushing", "listening"}
        BY <2>1, <3>3 DEF DInv, IInv, PresenceTypeOK, EntryIsServed
      <4>2. t = c
        BY <1>2, <4>1, OneSessionLemma DEF ExclusiveInv
      <4> QED BY <3>1, <3>3, <4>2 DEF Carries
    <3> QED BY <3>2, <3>3
  <2>4. CASE FindNode(d)
    <3> DEFINE n == online[Owner[c]]
    <3>1. /\ job[d].step = "remote"
          /\ \/ /\ job'[d] # Idle /\ job'[d].step = "forward" /\ job'[d].id = i /\ job'[d].node = n
             \/ RedisErrs(Home[d]) \/ n \in {NoNode, Home[d]}
      BY <2>1, <2>4, JobEffectLemma
    <3>2. Home[d] # Home[c]
      BY <1>4, <3>1 DEF Carries
    <3>3. status[Home[c]] = "up" /\ status[Home[d]] = "up" /\ ~RedisMayFail
      BY DEF UpInv, Undisturbed
    <3>4. n = Home[c]
      BY <1>2, <1>3, <3>3 DEF ExclusiveInv, VisibleWhenExclusive
    <3>5. ~RedisErrs(Home[d]) /\ n \notin {NoNode, Home[d]}
      BY <3>2, <3>3, <3>4 DEF RedisErrs
    <3> QED BY <3>1, <3>4, <3>5 DEF Carries
  <2> QED BY <2>2, <2>3, <2>4
<1>5. OnJob(c, i) => OnJob(c, i)'
  <2>1. ASSUME NEW e \in Client, Carries(e, c, i) PROVE Carries(e, c, i)'
    <3>1. CASE e = d
      BY <1>4, <2>1, <3>1
    <3>2. CASE e # d
      BY <1>1, <2>1, <3>2 DEF Carries
    <3> QED BY <3>1, <3>2
  <2> QED BY <2>1 DEF OnJob
<1> QED BY <1>1, <1>5, PlacedFrameLemma

\* While a handler works on a message, an earlier one of the same sender is
\* with no handler any more.
LEMMA AheadLemma ==
    ASSUME QuietStep, NEW d \in Client, job[d] # Idle, NEW c \in Client, NEW i \in 1 .. Len(rows),
           For(c, i), Before(i, job[d].id)
    PROVE  ~OnJob(c, i)
<1> USE DEF QuietStep, CalmInv
<1>1. Owner[d] = rows[i].from /\ i # job[d].id
  BY RowIdLemma DEF Before, DInv, Refs, JobRefs, JobRef
<1>2. SUFFICES ASSUME NEW e \in Client, Carries(e, c, i) PROVE FALSE
  BY DEF OnJob
<1>3. job[e] # Idle /\ job[e].id = i
  BY <1>2, CarriesLemma
<1>4. rows[i].from \in Exclusive /\ rows[job[d].id].from = rows[i].from
  BY DEF For, Steady, Before
<1>5. d = e
  BY <1>3, <1>4, OneHandlerLemma DEF ExclusiveInv
<1> QED BY <1>1, <1>3, <1>5

\* Nor is it on the way from another node when the handler is on c's node.
LEMMA NotForwardedLemma ==
    ASSUME QuietStep, NEW d \in Client, NEW c \in Client, Home[d] = Home[c], NEW i \in 1 .. Len(rows),
           For(c, i), Owner[d] = rows[i].from
    PROVE  ~InSub(c, i) /\ ~InForward(c, i)
<1> USE DEF QuietStep, CalmInv
<1>1. ~Far(i, Home[c]) /\ Home[c] \in Node
  BY PresenceAssumption DEF Far, For
<1> QED BY <1>1 DEF FarInv, InSub, InForward

\* An id enters c.Send: it comes after what its sender sent before.
LEMMA SendPlacedLemma ==
    ASSUME DInv, rows' = rows, NEW c \in Client, NEW i \in 1 .. Len(rows), Placed(c, i),
           NEW k \in Id, send'[c] = Append(send[c], k), Before(i, k) => InSend(c, i),
           forward'[Home[c]] = forward[Home[c]], sub'[Home[c]] \in {sub[Home[c]], Idle},
           InSub(c, i) => i = k \/ InSub(c, i)', OnJob(c, i) => i = k \/ OnJob(c, i)'
    PROVE  Placed(c, i)'
<1> DEFINE q == send[c]
<1>1. q \in Seq(Id) /\ send'[c] = Append(q, k)
  BY DEF DInv, ChanTypes
<1>2. OrderSend(c, i) /\ OrderSub(c, i) /\ OrderForward(c, i) /\ SomePlace(c, i)
  BY DEF Placed
<1>3. /\ \A p \in 1 .. Len(q) : Before(i, q[p]) => \E r \in 1 .. p - 1 : q[r] = i
      /\ InSend(c, i) <=> \E p \in 1 .. Len(q) : q[p] = i
  BY <1>2 DEF OrderSend, InSend
<1> HIDE DEF q
<1>4. /\ Len(Append(q, k)) = Len(q) + 1 /\ Len(q) \in Nat /\ Append(q, k)[Len(q) + 1] = k
      /\ \A p \in 1 .. Len(q) : Append(q, k)[p] = q[p]
  BY <1>1, AppendLemma
<1>5. \A p \in 1 .. Len(q) + 1 : p \in 1 .. Len(q) \/ p = Len(q) + 1
  BY <1>4
<1>6. InSend(c, i) \/ i = k => InSend(c, i)'
  <2>1. (\E p \in 1 .. Len(q) : q[p] = i) \/ i = k => \E p \in 1 .. Len(q) + 1 : Append(q, k)[p] = i
    BY <1>4
  <2> QED BY <1>1, <1>3, <1>4, <2>1 DEF InSend
<1>7. OrderSend(c, i)'
  <2>1. ASSUME NEW p \in 1 .. Len(q) + 1, Before(i, Append(q, k)[p])
        PROVE  \E r \in 1 .. p - 1 : Append(q, k)[r] = i
    <3>1. CASE p \in 1 .. Len(q)
      <4>1. PICK r \in 1 .. p - 1 : q[r] = i
        BY <1>3, <1>4, <2>1, <3>1
      <4>2. r \in 1 .. Len(q)
        BY <1>4, <3>1
      <4> QED BY <1>4, <4>1, <4>2
    <3>2. CASE p = Len(q) + 1
      <4>1. PICK r \in 1 .. Len(q) : q[r] = i
        BY <1>3, <1>4, <2>1, <3>2
      <4>2. Append(q, k)[r] = i /\ r \in 1 .. p - 1
        BY <1>4, <3>2, <4>1
      <4> QED BY <4>2
    <3> QED BY <1>5, <3>1, <3>2
  <2>2. Len(send'[c]) = Len(q) + 1
    BY <1>1, <1>4
  <2>3. \A j : Before(i, j)' <=> Before(i, j)
    BY DEF Before
  <2> QED BY <1>1, <2>1, <2>2, <2>3 DEF OrderSend, Before
<1>8. OrderSub(c, i)'
  BY <1>2, <1>6 DEF OrderSub, InSub, Before
<1>9. OrderForward(c, i)'
  BY <1>2, <1>6 DEF OrderForward, Before
<1>10. InForward(c, i) <=> InForward(c, i)'
  BY DEF InForward
<1>11. SomePlace(c, i)'
  BY <1>2, <1>6, <1>10 DEF SomePlace
<1> QED BY <1>7, <1>8, <1>9, <1>11 DEF Placed

\* DeliverTotalMsg of the sender's handler.
LEMMA HandPlacedLemma ==
    ASSUME QuietStep, NEW d \in Client, Hand(d),
           NEW c \in Client, NEW i \in 1 .. Len(rows), For(c, i), Placed(c, i)
    PROVE  Placed(c, i)'
<1> USE PresenceAssumption DEF QuietStep, CalmInv
<1> DEFINE t == job[d].client  k == job[d].id
<1>1. /\ job[d] \in Job /\ job[d] # Idle /\ job[d].step = "local" /\ job'[d] = Idle
      /\ \A e \in Client : e # d => job'[e] = job[e]
      /\ rows' = rows
  BY JobEffectLemma
<1>2. /\ t \in Client /\ k \in Id /\ k \in 1 .. Len(rows) /\ rows[k].from = Owner[d]
      /\ Home[t] = Home[d]
  BY <1>1, JobLemma DEF DInv, Refs, JobRefs, JobRef, StoredFor
<1>3. /\ forward' = forward /\ sub' = sub
      /\ send' = [send EXCEPT ![t] = Append(@, k)]
  BY DEF Hand, Enqueue
<1>4. send \in [Client -> Seq(Id)] /\ RowsStay
  BY GrowLemma DEF DInv, ChanTypes
<1>5. ASSUME NEW e \in Client, Carries(e, c, i), e # d PROVE Carries(e, c, i)'
  BY <1>1, <1>5 DEF Carries
<1>6. Carries(d, c, i) => t = c /\ i = k
  BY <1>1, CarriesLemma DEF Carries
<1>7. CASE t # c
  <2>1. send'[c] = send[c]
    BY <1>3, <1>4, <1>7
  <2>2. OnJob(c, i) => OnJob(c, i)'
    BY <1>5, <1>6, <1>7 DEF OnJob
  <2> QED BY <1>3, <1>4, <2>1, <2>2, PlacedFrameLemma
<1>8. CASE t = c
  <2>1. send'[c] = Append(send[c], k)
    BY <1>3, <1>4, <1>8
  <2>2. OnJob(c, i) => i = k \/ OnJob(c, i)'
    BY <1>5, <1>6 DEF OnJob
  <2>3. ASSUME Before(i, k) PROVE InSend(c, i)
    <3>1. ~OnJob(c, i)
      BY <1>1, <2>3, AheadLemma
    <3>2. Owner[d] = rows[i].from
      BY <1>2, <2>3 DEF Before
    <3>3. ~InSub(c, i) /\ ~InForward(c, i)
      BY <1>2, <1>8, <3>2, NotForwardedLemma
    <3> QED BY <3>1, <3>3 DEF Placed, SomePlace
  <2>4. InSub(c, i) => InSub(c, i)'
    BY <1>3 DEF InSub
  <2> HIDE DEF k
  <2> QED BY <1>1, <1>2, <1>3, <2>1, <2>2, <2>3, <2>4, SendPlacedLemma
<1> QED BY <1>7, <1>8

\* DeliverTotalMsg of the node's subscriber.
LEMMA HandForwardedPlacedLemma ==
    ASSUME QuietStep, NEW n \in Node, HandForwarded(n),
           NEW c \in Client, NEW i \in 1 .. Len(rows), For(c, i), Placed(c, i)
    PROVE  Placed(c, i)'
<1> USE PresenceAssumption DEF QuietStep, CalmInv
<1> DEFINE t == sub[n].client  k == sub[n].id
<1>1. sub[n] # Idle /\ t \in Client /\ k \in Id /\ Home[t] = n
  BY HandoverLemma DEF HandForwarded, DInv, ChanTypes, Refs, SubRefs, SubRef
<1>2. /\ UNCHANGED <<rows, job, forward>> /\ sub' = [sub EXCEPT ![n] = Idle]
      /\ send' = [send EXCEPT ![t] = Append(@, k)]
  BY DEF HandForwarded, Enqueue, msgVars
<1>3. send \in [Client -> Seq(Id)] /\ sub \in [Node -> Handover] /\ RowsStay /\ Home[c] \in Node
  BY GrowLemma DEF DInv, ChanTypes
<1>4. OnJob(c, i) => OnJob(c, i)'
  BY <1>2 DEF OnJob, Carries
<1>5. CASE t = c
  <2>1. send'[c] = Append(send[c], k) /\ sub'[Home[c]] = Idle
    BY <1>1, <1>2, <1>3, <1>5
  <2>2. InSub(c, i) => i = k
    BY <1>1, <1>5 DEF InSub
  <2>3. Before(i, k) => InSend(c, i)
    BY <1>1, <1>5 DEF Placed, OrderSub, InSub
  <2> HIDE DEF k
  <2> QED BY <1>1, <1>2, <1>4, <2>1, <2>2, <2>3, SendPlacedLemma
<1>6. CASE t # c
  <2>1. send'[c] = send[c]
    BY <1>2, <1>3, <1>6
  <2>2. CASE n # Home[c]
    <3>1. sub'[Home[c]] = sub[Home[c]]
      BY <1>2, <1>3, <2>2
    <3> QED BY <1>2, <1>3, <1>4, <2>1, <3>1, PlacedFrameLemma
  <2>3. CASE n = Home[c]
    <3>1. sub'[Home[c]] = Idle /\ \A j : ~InSub(c, j)
      BY <1>2, <1>3, <1>6, <2>3 DEF InSub
    <3>2. /\ InSend(c, i)' <=> InSend(c, i)
          /\ InForward(c, i)' <=> InForward(c, i)
      BY <1>2, <2>1 DEF InSend, InForward
    <3>3. SomePlace(c, i)'
      BY <1>4, <3>1, <3>2 DEF Placed, SomePlace
    <3>4. OrderSend(c, i)'
      BY <1>2, <2>1 DEF Placed, OrderSend, Before
    <3>5. OrderSub(c, i)'
      BY <3>1 DEF OrderSub, InSub
    <3>6. OrderForward(c, i)'
      BY <1>2, <3>1, <3>2 DEF Placed, OrderForward, Before
    <3> QED BY <3>3, <3>4, <3>5, <3>6 DEF Placed
  <2> QED BY <2>2, <2>3
<1> QED BY <1>5, <1>6

\* PublishForward: Redis queues the message behind the earlier ones.
LEMMA PublishPlacedLemma ==
    ASSUME QuietStep, NEW d \in Client, Publish(d),
           NEW c \in Client, NEW i \in 1 .. Len(rows), For(c, i), Placed(c, i)
    PROVE  Placed(c, i)'
<1> USE PresenceAssumption DEF QuietStep, CalmInv
<1> DEFINE n == job[d].node  k == job[d].id  m == [to |-> job[d].to, id |-> k]  q == forward[n]
<1>1. /\ job[d] \in Job /\ job[d] # Idle /\ job[d].step = "forward" /\ job'[d] = Idle
      /\ \A e \in Client : e # d => job'[e] = job[e]
      /\ rows' = rows
  BY JobEffectLemma
<1>2. n \in Node /\ m \in [to : User, id : Id] /\ k \in 1 .. Len(rows)
  BY <1>1, JobLemma DEF DInv, Refs, JobRefs, JobRef, StoredFor
<1>3. /\ send' = send /\ sub' = sub
      /\ forward' = [forward EXCEPT ![n] = Append(@, m)]
  BY <1>2 DEF Publish, UpInv, Undisturbed, RedisErrs
<1>4. forward \in [Node -> Seq([to : User, id : Id])] /\ RowsStay /\ Home[c] \in Node
  BY GrowLemma DEF DInv, ChanTypes
<1>5. ASSUME NEW e \in Client, Carries(e, c, i), e # d PROVE Carries(e, c, i)'
  BY <1>1, <1>5 DEF Carries
<1>6. Carries(d, c, i) => n = Home[c] /\ i = k
  BY <1>1, CarriesLemma DEF Carries
<1>7. CASE n # Home[c]
  <2>1. forward'[Home[c]] = forward[Home[c]]
    BY <1>3, <1>4, <1>7
  <2>2. OnJob(c, i) => OnJob(c, i)'
    BY <1>5, <1>6, <1>7 DEF OnJob
  <2> QED BY <1>3, <1>4, <2>1, <2>2, PlacedFrameLemma
<1>8. CASE n = Home[c]
  <2>1. q \in Seq([to : User, id : Id]) /\ forward'[Home[c]] = Append(q, m) /\ q = forward[Home[c]]
    BY <1>3, <1>4, <1>8
  <2>2. OrderSend(c, i) /\ OrderSub(c, i) /\ OrderForward(c, i) /\ SomePlace(c, i)
    BY DEF Placed
  <2>3. OnJob(c, i) => i = k \/ OnJob(c, i)'
    BY <1>5, <1>6 DEF OnJob
  <2>4. ASSUME Before(i, k) PROVE InSend(c, i) \/ InSub(c, i) \/ InForward(c, i)
    <3>1. ~OnJob(c, i)
      BY <1>1, <2>4, AheadLemma
    <3> QED BY <2>2, <3>1 DEF SomePlace
  <2>5. m.id = k
    OBVIOUS
  <2> HIDE DEF q, m, k, n
  <2>6. /\ Len(Append(q, m)) = Len(q) + 1 /\ Len(q) \in Nat /\ Append(q, m)[Len(q) + 1] = m
        /\ \A p \in 1 .. Len(q) : Append(q, m)[p] = q[p]
    BY <1>2, <2>1, AppendLemma
  <2>7. \A p \in 1 .. Len(q) + 1 : p \in 1 .. Len(q) \/ p = Len(q) + 1
    BY <2>6
  <2>8. /\ InSend(c, i)' <=> InSend(c, i)
        /\ InSub(c, i)' <=> InSub(c, i)
        /\ \A j : Before(i, j)' <=> Before(i, j)
    BY <1>1, <1>3 DEF InSend, InSub, Before
  <2>9. InForward(c, i) <=> \E p \in 1 .. Len(q) : q[p].id = i
    BY <2>1 DEF InForward
  <2>10. InForward(c, i) \/ i = k => InForward(c, i)'
    <3>1. (\E p \in 1 .. Len(q) : q[p].id = i) \/ i = k => \E p \in 1 .. Len(q) + 1 : Append(q, m)[p].id = i
      BY <2>5, <2>6
    <3> QED BY <2>1, <2>6, <2>9, <3>1 DEF InForward
  <2>11. SomePlace(c, i)'
    BY <2>2, <2>3, <2>8, <2>10 DEF SomePlace
  <2>12. OrderSend(c, i)' /\ OrderSub(c, i)'
    BY <1>1, <1>3, <2>2 DEF OrderSend, OrderSub, InSub, InSend, Before
  <2>13. OrderForward(c, i)'
    <3>1. ASSUME NEW p \in 1 .. Len(q) + 1, Append(q, m)[p].to = Owner[c], Before(i, Append(q, m)[p].id)
          PROVE  InSend(c, i) \/ InSub(c, i) \/ \E r \in 1 .. p - 1 : Append(q, m)[r].id = i
      <4>1. CASE p \in 1 .. Len(q)
        <5>1. InSend(c, i) \/ InSub(c, i) \/ \E r \in 1 .. p - 1 : q[r].id = i
          BY <2>1, <2>2, <2>6, <3>1, <4>1 DEF OrderForward
        <5>2. \A r \in 1 .. p - 1 : r \in 1 .. Len(q)
          BY <2>6, <4>1
        <5> QED BY <2>6, <5>1, <5>2
      <4>2. CASE p = Len(q) + 1
        <5>1. InSend(c, i) \/ InSub(c, i) \/ \E r \in 1 .. Len(q) : q[r].id = i
          BY <2>4, <2>5, <2>6, <2>9, <3>1, <4>2
        <5>2. \A r \in 1 .. Len(q) : r \in 1 .. p - 1
          BY <2>6, <4>2
        <5> QED BY <2>6, <5>1, <5>2
      <4> QED BY <2>7, <4>1, <4>2
    <3>2. Len(forward'[Home[c]]) = Len(q) + 1
      BY <2>1, <2>6
    <3> QED BY <1>1, <2>1, <2>8, <3>1, <3>2 DEF OrderForward, Before
  <2> QED BY <2>11, <2>12, <2>13 DEF Placed
<1> QED BY <1>7, <1>8

\* The subscriber finds the session that still needs the message.
LEMMA ReceivePlacedLemma ==
    ASSUME QuietStep, NEW n \in Node, ReceiveForward(n),
           NEW c \in Client, Open(c), NEW i \in 1 .. Len(rows), For(c, i), Placed(c, i)
    PROVE  Placed(c, i)'
<1> USE PresenceAssumption DEF QuietStep, CalmInv
<1> DEFINE q == forward[n]  t == clients[n][q[1].to]
<1>1. /\ UNCHANGED <<rows, job, send>> /\ sub[n] = Idle
      /\ Len(q) \in Nat \ {0} /\ Len(forward'[n]) = Len(q) - 1
      /\ \A p \in 1 .. Len(q) - 1 : forward'[n][p] = q[p + 1]
      /\ \A x \in Node : x # n => forward'[x] = forward[x] /\ sub'[x] = sub[x]
      /\ t = NoClient => sub'[n] = Idle
      /\ t # NoClient => sub'[n] = [step |-> "local", id |-> q[1].id, client |-> t]
  BY ReceiveEffectLemma
<1>2. OnJob(c, i) => OnJob(c, i)'
  BY <1>1 DEF OnJob, Carries
<1>3. Home[c] \in Node /\ RowsStay
  BY GrowLemma
<1>4. CASE n # Home[c]
  <2>1. forward'[Home[c]] = forward[Home[c]] /\ sub'[Home[c]] = sub[Home[c]] /\ send'[c] = send[c]
    BY <1>1, <1>3, <1>4
  <2> QED BY <1>2, <1>3, <2>1, PlacedFrameLemma
<1>5. CASE n = Home[c]
  <2>1. OrderSend(c, i) /\ OrderSub(c, i) /\ OrderForward(c, i) /\ SomePlace(c, i)
    BY DEF Placed
  <2>2. clients[n][Owner[c]] = c /\ c # NoClient
    BY <1>5 DEF Open, EntryStays
  <2>3. q[1].to = Owner[c] =>
          sub'[n] # Idle /\ sub'[n].client = c /\ sub'[n].id = q[1].id
    BY <1>1, <2>2 DEF Idle
  <2>4. \A p \in 1 .. Len(q) : q[p].id = i => q[p].to = Owner[c]
    BY <1>5, QueuedLemma DEF For
  <2>5. 1 \in 1 .. Len(q) /\ \A p \in 1 .. Len(q) - 1 : p + 1 \in 1 .. Len(q)
    BY <1>1
  <2>6. q[1].id = i => InSub(c, i)'
    BY <1>5, <2>3, <2>4, <2>5 DEF InSub
  <2>7. ASSUME NEW x \in 1 .. Len(q), NEW p \in 1 .. x, q[p].id = i
        PROVE  InSub(c, i)' \/ \E r \in 1 .. x - 1 : forward'[n][r].id = i
    <3>1. CASE p = 1
      BY <2>6, <2>7, <3>1
    <3>2. CASE p # 1
      <4>1. p - 1 \in 1 .. x - 1 /\ p - 1 \in 1 .. Len(q) - 1 /\ (p - 1) + 1 = p
        BY <1>1, <3>2
      <4>2. forward'[n][p - 1].id = i
        BY <1>1, <2>7, <4>1
      <4> QED BY <4>1, <4>2
    <3> QED BY <3>1, <3>2
  <2>8. /\ InSend(c, i)' <=> InSend(c, i)
        /\ \A j : Before(i, j)' <=> Before(i, j)
        /\ \A j : ~InSub(c, j)
    BY <1>1, <1>5 DEF InSend, InSub, Before
  <2>9. InForward(c, i) => InSub(c, i)' \/ InForward(c, i)'
    <3>1. ASSUME NEW p \in 1 .. Len(q), q[p].id = i
          PROVE  InSub(c, i)' \/ \E r \in 1 .. Len(q) - 1 : forward'[n][r].id = i
      <4>1. Len(q) \in 1 .. Len(q) /\ p \in 1 .. Len(q)
        BY <1>1
      <4> QED BY <2>7, <3>1, <4>1
    <3>2. InForward(c, i) <=> \E p \in 1 .. Len(q) : q[p].id = i
      BY <1>5 DEF InForward
    <3>3. InForward(c, i)' <=> \E r \in 1 .. Len(q) - 1 : forward'[n][r].id = i
      BY <1>1, <1>5 DEF InForward
    <3> QED BY <3>1, <3>2, <3>3
  <2>10. SomePlace(c, i)'
    BY <1>2, <2>1, <2>8, <2>9 DEF SomePlace
  <2>11. OrderSend(c, i)'
    BY <1>1, <2>1 DEF OrderSend, Before
  <2>12. OrderSub(c, i)'
    <3>1. SUFFICES ASSUME sub'[n] # Idle, sub'[n].client = c, Before(i, sub'[n].id) PROVE InSend(c, i)
      BY <1>5, <2>8 DEF OrderSub, InSub, Before
    <3>2. t # NoClient /\ t = c /\ sub'[n].id = q[1].id
      BY <1>1, <3>1
    <3>3. q[1].to = Owner[c]
      <4>1. q[1].to \in User
        BY ReceiveEffectLemma
      <4> QED BY <3>2, <4>1 DEF DInv, IInv, EntryIsServed
    <3>4. InSend(c, i) \/ InSub(c, i) \/ \E r \in 1 .. 1 - 1 : q[r].id = i
      BY <1>5, <2>1, <2>5, <3>1, <3>2, <3>3 DEF OrderForward
    <3> QED BY <2>8, <3>4
  <2>13. OrderForward(c, i)'
    <3>1. ASSUME NEW p \in 1 .. Len(q) - 1, forward'[n][p].to = Owner[c], Before(i, forward'[n][p].id)
          PROVE  InSend(c, i) \/ InSub(c, i)' \/ \E r \in 1 .. p - 1 : forward'[n][r].id = i
      <4>1. p + 1 \in 1 .. Len(q) /\ forward'[n][p] = q[p + 1] /\ (p + 1) - 1 = p /\ p \in 1 .. Len(q)
        BY <1>1, <2>5
      <4>2. InSend(c, i) \/ InSub(c, i) \/ \E r \in 1 .. (p + 1) - 1 : q[r].id = i
        BY <1>5, <2>1, <3>1, <4>1 DEF OrderForward
      <4>3. InSend(c, i) \/ \E r \in 1 .. p : q[r].id = i
        BY <2>8, <4>1, <4>2
      <4> QED BY <2>7, <4>1, <4>3
    <3> QED BY <1>1, <1>5, <2>8, <3>1 DEF OrderForward
  <2> QED BY <2>10, <2>11, <2>12, <2>13 DEF Placed
<1> QED BY <1>4, <1>5

\* Whatever the step, what c still needs is in place afterwards.
LEMMA PathLemma ==
    ASSUME QuietStep
    PROVE  PathInv'
<1> SUFFICES ASSUME NEW c \in Client, Open(c)', NEW i \in Id, For(c, i)', ~Taken(c, i)'
             PROVE  Placed(c, i)'
  BY DEF PathInv
<1>1. /\ Open(c) /\ c \in loaded'
      /\ i \in 1 .. Len(rows) => For(c, i) /\ c \in loaded /\ Placed(c, i)
  BY NeedPlacedLemma
<1>2. DInv /\ DInv' /\ CalmStep /\ RowsStay
  BY GrowLemma DEF QuietStep
<1>3. CASE i \in 1 .. Len(rows)
  <2> USE <1>3
  <2>1. For(c, i) /\ c \in loaded /\ Placed(c, i)
    BY <1>1
  <2>2. CASE Still
    <3>1. CASE send'[c] = send[c]
      <4>1. OnJob(c, i) => OnJob(c, i)'
        BY <2>2 DEF Still, OnJob, Carries
      <4> QED BY <1>2, <2>1, <2>2, <3>1, <4>1, PlacedFrameLemma DEF Still
    <3>2. CASE WriteSend(c)
      BY <1>1, <1>2, <2>1, <2>2, <3>2, WritePlacedLemma DEF Open
    <3>3. ~CloseSend(c)
      BY <1>1 DEF Open, CloseSend, Close
    <3> QED BY <2>2, <3>1, <3>2, <3>3 DEF Still
  <2>3. ASSUME NEW d \in Client, NEW v \in User, Chat(d, v) PROVE Placed(c, i)'
    <3>1. /\ UNCHANGED <<send, sub, forward>> /\ job[d] = Idle
          /\ \A e \in Client : e # d => job'[e] = job[e]
      BY <1>2, <2>3 DEF Chat, DInv, ChanTypes
    <3>2. \A e \in Client : Carries(e, c, i) => Carries(e, c, i)'
      BY <3>1 DEF Carries
    <3>3. OnJob(c, i) => OnJob(c, i)'
      BY <3>2 DEF OnJob
    <3> QED BY <1>2, <2>1, <3>1, <3>3, PlacedFrameLemma
  <2>4. ASSUME NEW d \in Client, MarkOwn(d) \/ FindClient(d) \/ FindNode(d) \/ Publish(d) \/ Hand(d)
        PROVE  Placed(c, i)'
    BY <1>1, <2>1, <2>4, LookupPlacedLemma, PublishPlacedLemma, HandPlacedLemma
  <2>5. ASSUME NEW n \in Node, ReceiveForward(n) \/ HandForwarded(n) PROVE Placed(c, i)'
    BY <1>1, <2>1, <2>5, ReceivePlacedLemma, HandForwardedPlacedLemma
  <2> QED BY <1>2, <2>2, <2>3, <2>4, <2>5, StillLemma
<1>4. CASE i \notin 1 .. Len(rows)
  <2>1. rows' # rows
    BY <1>4 DEF For
  <2>2. ASSUME NEW d \in Client, MarkOwn(d) \/ FindClient(d) \/ FindNode(d) \/ Publish(d) \/ Hand(d)
        PROVE  FALSE
    BY <1>2, <2>1, <2>2, JobEffectLemma
  <2>3. ASSUME NEW n \in Node, ReceiveForward(n) \/ HandForwarded(n) PROVE FALSE
    BY <2>1, <2>3 DEF ReceiveForward, HandForwarded, msgVars
  <2>4. PICK d \in Client, v \in User : Chat(d, v)
    BY <1>2, <2>1, <2>2, <2>3, StillLemma DEF Still
  <2> DEFINE r == [from |-> Owner[d], to |-> v]
  <2>5. rows' = Append(rows, r) /\ r \in Row /\ rows \in Seq(Row)
    BY <1>2, <2>4, PresenceAssumption DEF Chat, Row, DInv, ChanTypes
  <2> HIDE DEF r
  <2>6. Len(rows') = Len(rows) + 1 /\ Len(rows) \in Nat
    BY <2>5, AppendLemma
  <2>7. i = Len(rows) + 1
    BY <1>4, <2>6 DEF For
  <2> QED BY <1>2, <2>4, <2>7, NewPlacedLemma
<1> QED BY <1>3, <1>4

-----------------------------------------------------------------------------
(* The invariant, and what it is for.                                      *)

LEMMA OrderInitLemma == DeliveryInit => OrderInv
<1> SUFFICES ASSUME DeliveryInit PROVE OrderInv
  OBVIOUS
<1> USE PresenceAssumption, DeliveryAssumption DEF DeliveryInit
<1>1. LoadInv
  BY DEF LoadInv, LoadedInTime, PresenceInit
<1>2. RowsTalk /\ MarkRef
  BY DEF RowsTalk, MarkRef
<1>3. UpInv /\ ExclusiveInv /\ EntryStays
  BY ExclusiveInitLemma DEF UpInv, EntryStays, PresenceInit
<1>4. FarInv
  BY DEF FarInv
<1>5. PathInv /\ LoadedBelow
  BY DEF PathInv, LoadedBelow, Open, PresenceInit
<1>6. \A u \in User : SeenBy(u) = {}
  BY DEF SeenBy
<1>7. PrefixSeen
  BY <1>6 DEF PrefixSeen
<1> QED BY <1>1, <1>2, <1>3, <1>4, <1>5, <1>7 DEF OrderInv, CalmInv

LEMMA OrderStutterLemma ==
    ASSUME OrderInv, UNCHANGED deliveryVars
    PROVE  OrderInv'
<1> USE DEF deliveryVars
<1>1. LoadInv' /\ RowsTalk'
  BY DEF OrderInv, LoadInv, LoadedInTime, RowsTalk
<1>2. \A u : SeenBy(u)' = SeenBy(u)
  BY DEF SeenBy
<1>3. MarkRef'
  BY <1>2 DEF OrderInv, MarkRef, Partner
<1>4. ASSUME Undisturbed' PROVE CalmInv'
  <2>1. CalmInv
    BY <1>4 DEF OrderInv, Undisturbed
  <2>2. UpInv' /\ EntryStays' /\ FarInv'
    BY <2>1 DEF CalmInv, UpInv, EntryStays, FarInv, Far, Steady
  <2>3. ExclusiveInv'
    BY <2>1 DEF CalmInv, ExclusiveInv, SoleSession, Engaged, Finished, SnapshotWasServed,
                DownIsQuiet, VisibleWhenExclusive
  <2>4. \A i : AnsweredAfter(i)' <=> AnsweredAfter(i)
    BY DEF AnsweredAfter
  <2>5. \A c, i : (Taken(c, i)' <=> Taken(c, i)) /\ (For(c, i)' <=> For(c, i)) /\ (Open(c)' <=> Open(c))
    BY <1>2, <2>4 DEF Taken, For, Open, Steady
  <2>6. \A c, i : Placed(c, i)' <=> Placed(c, i)
    BY DEF Placed, SomePlace, InSend, InSub, InForward, OnJob, Carries, OrderSend, OrderSub, OrderForward, Before
  <2>7. PathInv' /\ LoadedBelow'
    BY <2>1, <2>5, <2>6 DEF CalmInv, PathInv, LoadedBelow
  <2>8. PrefixSeen'
    BY <1>2, <2>1, <2>4 DEF CalmInv, PrefixSeen, Steady
  <2> QED BY <2>2, <2>3, <2>7, <2>8 DEF CalmInv
<1> QED BY <1>1, <1>3, <1>4 DEF OrderInv

LEMMA OrderStepLemma ==
    ASSUME DInv, OrderInv, [DeliveryNext]_deliveryVars
    PROVE  OrderInv'
<1>1. CASE UNCHANGED deliveryVars
  BY <1>1, OrderStutterLemma
<1>2. CASE DeliveryNext
  <2>1. DInv' /\ [Promise!Next]_(Promise!vars)
    BY DeliveryStepLemma, PromiseStepLemma
  <2>2. LoadInv' /\ RowsTalk' /\ MarkRef'
    BY <1>2, <2>1, LoadedStepLemma, RowsTalkLemma, MarkRefLemma DEF OrderInv
  <2>3. ASSUME Undisturbed' PROVE CalmInv'
    <3>1. Undisturbed /\ [PresenceNext]_presenceVars
      BY <1>2, <2>3, CalmBeforeLemma
    <3>2. CalmInv
      BY <3>1 DEF OrderInv
    <3>3. CalmStep
      BY <1>2, <2>3, <3>1, <3>2, CalmStepLemma DEF CalmInv
    <3>4. QuietStep
      BY <2>1, <2>2, <3>1, <3>2, <3>3 DEF QuietStep, OrderInv
    <3>5. UpInv'
      BY <3>2, <3>3, UpLemma DEF CalmInv
    <3>6. ExclusiveInv'
      BY <3>1, <3>2, ExclusiveStepLemma DEF CalmInv, DInv
    <3>7. EntryStays'
      BY <3>2, <3>3, EntryStaysLemma DEF EntryStays
    <3>8. PrefixSeen'
      BY <2>1, <3>2, <3>3, PrefixStepLemma DEF CalmInv, OrderInv
    <3> QED BY <3>4, <3>5, <3>6, <3>7, <3>8, FarLemma, PathLemma, LoadedBelowLemma DEF CalmInv
  <2> QED BY <2>2, <2>3 DEF OrderInv
<1> QED BY <1>1, <1>2

THEOREM OrderInductive == DeliverySpec => [](DInv /\ OrderInv)
<1>1. DeliveryInit => DInv /\ OrderInv
  BY DeliveryInitLemma, OrderInitLemma
<1>2. DInv /\ OrderInv /\ [DeliveryNext]_deliveryVars => (DInv /\ OrderInv)'
  BY DeliveryStepLemma, OrderStepLemma
<1> QED BY <1>1, <1>2, PTL DEF DeliverySpec

\* No message falls between the tables and the live path: with nothing under
\* way, a listening session has got every promised message written to its user
\* (handler/user.go:40-43, client.go:211-325).
THEOREM NothingFallsBetween == DeliverySpec => []NoGap
<1>1. ASSUME DInv, OrderInv PROVE NoGap
  <2> SUFFICES ASSUME NEW c \in Client, Undisturbed, Settled(c), NothingFor(Owner[c]), send[c] = <<>>,
                      NEW i \in 1 .. Len(rows), rows[i].to = Owner[c], Promised(i)
               PROVE  i \in SeenBy(Owner[c])
    BY DEF NoGap
  <2> USE <1>1
  <2>1. Open(c) /\ For(c, i) /\ i \in Id
    BY RowIdLemma DEF Settled, Open, For, Promised
  <2>2. c \in loaded /\ unread[c] = {}
    BY DEF Settled, OrderInv, LoadInv, LoadedInTime
  <2>3. Taken(c, i) \/ Placed(c, i)
    BY <2>1 DEF OrderInv, CalmInv, PathInv
  <2>4. ~InSend(c, i)
    BY EmptySeqLemma DEF InSend
  <2>5. ~InSub(c, i) /\ ~InForward(c, i)
    BY QueuedLemma DEF NothingFor, InSub, InForward
  <2>6. ~OnJob(c, i)
    BY <2>1, CarriesLemma DEF OnJob, NothingFor
  <2>7. Taken(c, i)
    BY <2>3, <2>4, <2>5, <2>6 DEF Placed, SomePlace
  <2> QED BY <2>2, <2>7 DEF Taken, Promised
<1> QED BY <1>1, OrderInductive, PTL

\* The mark, a single number, never passes over a promised message that its
\* user has not seen (conversationMember.go:62, 157).
THEOREM MarkSkipsNothing == DeliverySpec => []NoUnreadSkipped
<1>1. ASSUME DInv, OrderInv PROVE NoUnreadSkipped
  BY <1>1, BelowMarkLemma DEF OrderInv, CalmInv, NoUnreadSkipped, Promised
<1> QED BY <1>1, OrderInductive, PTL

=============================================================================
