--------------------------- MODULE PresenceProofs ---------------------------
(***************************************************************************)
(* Proofs about Presence, for any number of nodes, users and connections.  *)
(*                                                                         *)
(* EntryIsServed is not inductive alone: RegisterEntry puts a client into  *)
(* the map, so one must know that nobody kicked it before.  KickAfterEntry *)
(* says so, and with the types the three are inductive.                    *)
(***************************************************************************)
EXTENDS Presence, TLAPS

\* A client that never was in the map was never kicked: only who found it
\* there can start the goroutine (client.go:322).
KickAfterEntry ==
    \A c \in Client : phase[c] \in {"new", "upgraded"} => kick[c] = "none"

IInv == PresenceTypeOK /\ EntryIsServed /\ KickAfterEntry

-----------------------------------------------------------------------------
(* Lemmas about the helpers.                                               *)

\* SET stores the node of the client, DEL stores nothing.
LEMMA OnlineTypeLemma ==
    ASSUME PresenceTypeOK
    PROVE  /\ \A c \in Client : SetOnline(c) => online' \in [User -> Node \cup {NoNode}]
           /\ \A n \in Node : \A us : DelOnline(n, us) => online' \in [User -> Node \cup {NoNode}]
  BY PresenceAssumption DEF PresenceTypeOK, SetOnline, DelOnline

\* What the critical section of Unregister does to the map: the entry of c is
\* gone, every other entry is what it was.
LEMMA WithoutClientLemma ==
    ASSUME PresenceTypeOK, NEW c \in Client
    PROVE  /\ WithoutClient(c) \in [Node -> [User -> Client \cup {NoClient}]]
           /\ WithoutClient(c)[Home[c]][Owner[c]] # c
           /\ \A n \in Node, u \in User :
                 \/ WithoutClient(c)[n][u] = clients[n][u]
                 \/ /\ n = Home[c] /\ u = Owner[c] /\ clients[n][u] = c
                    /\ WithoutClient(c)[n][u] = NoClient
  BY PresenceAssumption DEF PresenceTypeOK, WithoutClient, Holds

-----------------------------------------------------------------------------
(* The invariant holds initially and is preserved by every step.           *)

LEMMA InitLemma == PresenceInit => IInv
  BY PresenceAssumption
  DEF PresenceInit, IInv, PresenceTypeOK, EntryIsServed, KickAfterEntry, Phase, Kick, Status

\* The end of a process, whatever ended it.
LEMMA VanishTypeLemma ==
    ASSUME PresenceTypeOK, NEW n \in Node, Vanish(n)
    PROVE  PresenceTypeOK'
<1> USE PresenceAssumption DEF PresenceTypeOK, Phase, Kick, Status
<1>1. clients' \in [Node -> [User -> Client \cup {NoClient}]] /\ online' = online
  BY DEF Vanish
<1>2. gauge' \in [Node -> Int] /\ status' \in [Node -> Status] /\ snap' \in [Node -> SUBSET Client]
  BY DEF Vanish
<1>3. phase' \in [Client -> Phase] /\ kick' \in [Client -> Kick]
  BY DEF Vanish
<1> QED BY <1>1, <1>2, <1>3

LEMMA VanishEntryLemma ==
    ASSUME IInv, NEW n \in Node, Vanish(n)
    PROVE  EntryIsServed' /\ KickAfterEntry'
<1> USE PresenceAssumption DEF IInv, PresenceTypeOK
<1>1. EntryIsServed'
  BY DEF Vanish, EntryIsServed
<1>2. KickAfterEntry'
  BY DEF Vanish, KickAfterEntry
<1> QED BY <1>1, <1>2

\* Types, one step per group of actions.
LEMMA TypeStepLemma == PresenceTypeOK /\ PresenceNext => PresenceTypeOK'
<1> SUFFICES ASSUME PresenceTypeOK, PresenceNext PROVE PresenceTypeOK'
  OBVIOUS
<1> USE PresenceAssumption DEF PresenceTypeOK, Phase, Kick, Status
<1>1. ASSUME NEW c \in Client, Accept(c) \/ SpawnKick(c) PROVE PresenceTypeOK'
  BY <1>1 DEF Accept, SpawnKick
<1>2. ASSUME NEW c \in Client, SessionStep(c) PROVE PresenceTypeOK'
  <2>1. CASE RegisterEntry(c)
    BY <2>1 DEF RegisterEntry
  <2>2. CASE RegisterOnline(c)
    BY <2>2, OnlineTypeLemma DEF RegisterOnline
  <2>3. CASE StartListening(c) \/ Close(c)
    BY <2>3 DEF StartListening, Close
  <2>4. CASE Leave(c)
    BY <2>4, WithoutClientLemma DEF Leave
  <2>5. CASE ClearOnline(c)
    BY <2>5, OnlineTypeLemma DEF ClearOnline
  <2>6. CASE KickEntry(c)
    BY <2>6, WithoutClientLemma DEF KickEntry
  <2>7. CASE KickOnline(c)
    BY <2>7, OnlineTypeLemma DEF KickOnline
  <2> QED
    BY <1>2, <2>1, <2>2, <2>3, <2>4, <2>5, <2>6, <2>7 DEF SessionStep
<1>3. ASSUME NEW n \in Node, NodeStep(n) PROVE PresenceTypeOK'
  <2>1. CASE BeginShutdown(n) \/ Release(n) \/ Restart(n)
    BY <2>1 DEF BeginShutdown, Release, Restart
  <2>2. CASE CloseAllCollect(n)
    BY <2>2 DEF CloseAllCollect
  <2>3. CASE CloseAllClear(n)
    BY <2>3, OnlineTypeLemma DEF CloseAllClear
  <2>4. CASE Exit(n) \/ Crash(n)
    BY <2>4, VanishTypeLemma DEF Exit, Crash
  <2> QED
    BY <1>3, <2>1, <2>2, <2>3, <2>4 DEF NodeStep
<1>4. ASSUME NEW u \in User, KeyExpires(u) PROVE PresenceTypeOK'
  BY <1>4 DEF KeyExpires
<1> QED
  BY <1>1, <1>2, <1>3, <1>4 DEF PresenceNext

\* The registry itself.  An entry survives a step unless the step is the
\* critical section of an Unregister or a stop of the node.
LEMMA EntryStepLemma == IInv /\ PresenceNext => EntryIsServed' /\ KickAfterEntry'
<1> SUFFICES ASSUME IInv, PresenceNext PROVE EntryIsServed' /\ KickAfterEntry'
  OBVIOUS
<1> USE PresenceAssumption DEF IInv, PresenceTypeOK
<1>1. ASSUME NEW c \in Client, Accept(c) PROVE EntryIsServed' /\ KickAfterEntry'
  <2>1. phase' = [phase EXCEPT ![c] = "upgraded"] /\ phase[c] = "new" /\ UNCHANGED <<clients, kick>>
    BY <1>1 DEF Accept
  <2> QED BY <2>1 DEF EntryIsServed, KickAfterEntry
<1>2. ASSUME NEW c \in Client, SpawnKick(c) PROVE EntryIsServed' /\ KickAfterEntry'
  <2>1. /\ kick' = [kick EXCEPT ![c] = "spawned"] /\ kick[c] = "none"
        /\ phase[c] \notin {"new", "upgraded"} /\ UNCHANGED <<clients, phase>>
    BY <1>2 DEF SpawnKick
  <2> QED BY <2>1 DEF EntryIsServed, KickAfterEntry
<1>3. ASSUME NEW c \in Client, SessionStep(c) PROVE EntryIsServed' /\ KickAfterEntry'
  <2>1. CASE RegisterEntry(c)
    <3>1. EntryIsServed'
      BY <2>1 DEF RegisterEntry, EntryIsServed, KickAfterEntry
    <3>2. KickAfterEntry'
      BY <2>1 DEF RegisterEntry, KickAfterEntry
    <3> QED BY <3>1, <3>2
  <2>2. CASE RegisterOnline(c) \/ StartListening(c)
    <3>1. /\ phase[c] \in {"registering", "pushing"}
          /\ \E p \in {"pushing", "listening"} : phase' = [phase EXCEPT ![c] = p]
          /\ UNCHANGED <<clients, kick>>
      BY <2>2 DEF RegisterOnline, StartListening
    <3> QED BY <3>1 DEF EntryIsServed, KickAfterEntry
  <2>3. CASE ClearOnline(c) \/ Close(c)
    <3>1. /\ phase[c] \in {"clearing", "closing"}
          /\ \E p \in {"closing", "closed"} : phase' = [phase EXCEPT ![c] = p]
          /\ UNCHANGED <<clients, kick>>
      BY <2>3 DEF ClearOnline, Close
    <3> QED BY <3>1 DEF EntryIsServed, KickAfterEntry
  <2>4. CASE Leave(c)
    <3>1. EntryIsServed'
      BY <2>4, WithoutClientLemma DEF Leave, EntryIsServed
    <3>2. KickAfterEntry'
      BY <2>4 DEF Leave, KickAfterEntry
    <3> QED BY <3>1, <3>2
  <2>5. CASE KickEntry(c)
    <3>1. EntryIsServed'
      BY <2>5, WithoutClientLemma DEF KickEntry, EntryIsServed
    <3>2. KickAfterEntry'
      BY <2>5 DEF KickEntry, KickAfterEntry
    <3> QED BY <3>1, <3>2
  <2>6. CASE KickOnline(c)
    <3>1. /\ kick[c] = "clearing" /\ kick' = [kick EXCEPT ![c] = "cleared"]
          /\ UNCHANGED <<clients, phase>>
      BY <2>6 DEF KickOnline
    <3> QED BY <3>1 DEF EntryIsServed, KickAfterEntry
  <2> QED
    BY <1>3, <2>1, <2>2, <2>3, <2>4, <2>5, <2>6 DEF SessionStep
<1>4. ASSUME NEW n \in Node, NodeStep(n) PROVE EntryIsServed' /\ KickAfterEntry'
  <2>1. CASE \/ BeginShutdown(n) \/ CloseAllCollect(n) \/ CloseAllClear(n)
             \/ Release(n) \/ Restart(n)
    <3>1. UNCHANGED <<clients, phase, kick>>
      BY <2>1 DEF BeginShutdown, CloseAllCollect, CloseAllClear, Release, Restart
    <3> QED BY <3>1 DEF EntryIsServed, KickAfterEntry
  <2>2. CASE Exit(n) \/ Crash(n)
    BY <2>2, VanishEntryLemma DEF Exit, Crash
  <2> QED
    BY <1>4, <2>1, <2>2 DEF NodeStep
<1>5. ASSUME NEW u \in User, KeyExpires(u) PROVE EntryIsServed' /\ KickAfterEntry'
  <2>1. UNCHANGED <<clients, phase, kick>>
    BY <1>5 DEF KeyExpires
  <2> QED BY <2>1 DEF EntryIsServed, KickAfterEntry
<1> QED
  BY <1>1, <1>2, <1>3, <1>4, <1>5 DEF PresenceNext

LEMMA StepLemma == IInv /\ [PresenceNext]_presenceVars => IInv'
<1> SUFFICES ASSUME IInv, [PresenceNext]_presenceVars PROVE IInv'
  OBVIOUS
<1>1. CASE PresenceNext
  BY <1>1, TypeStepLemma, EntryStepLemma DEF IInv
<1>2. CASE UNCHANGED presenceVars
  BY <1>2 DEF presenceVars, IInv, PresenceTypeOK, EntryIsServed, KickAfterEntry
<1> QED BY <1>1, <1>2

-----------------------------------------------------------------------------
(* The theorems.                                                           *)

\* The strengthened invariant holds in every reachable state.
THEOREM Inductive == PresenceSpec => []IInv
  BY InitLemma, StepLemma, PTL DEF PresenceSpec

\* Every variable has its type, whatever the interleaving.
THEOREM TypeCorrect == PresenceSpec => []PresenceTypeOK
<1>1. IInv => PresenceTypeOK
  BY DEF IInv
<1> QED BY <1>1, Inductive, PTL

\* A lookup in a node's map never returns a client whose connection or Send
\* channel is closed, or that was kicked (manager.go:46-76, client.go:79-85).
THEOREM LookupsAreServed == PresenceSpec => []EntryIsServed
<1>1. IInv => EntryIsServed
  BY DEF IInv
<1> QED BY <1>1, Inductive, PTL

\* What one step may do to an entry, from the types alone.
LEMMA EntryRemovedLemma ==
    ASSUME PresenceTypeOK, PresenceNext, NEW n \in Node, NEW u \in User,
           clients[n][u] # NoClient, clients'[n][u] # clients[n][u]
    PROVE  \/ clients'[n][u] # NoClient /\ phase[clients'[n][u]] = "upgraded"
           \/ clients'[n][u] = NoClient /\ phase[clients[n][u]] # phase'[clients[n][u]]
           \/ clients'[n][u] = NoClient /\ kick[clients[n][u]] # kick'[clients[n][u]]
           \/ status'[n] = "down"
<1> DEFINE Goal ==
        \/ clients'[n][u] # NoClient /\ phase[clients'[n][u]] = "upgraded"
        \/ clients'[n][u] = NoClient /\ phase[clients[n][u]] # phase'[clients[n][u]]
        \/ clients'[n][u] = NoClient /\ kick[clients[n][u]] # kick'[clients[n][u]]
        \/ status'[n] = "down"
<1> USE PresenceAssumption DEF PresenceTypeOK
<1>1. ASSUME NEW c \in Client, Accept(c) \/ SpawnKick(c) PROVE Goal
  <2>1. clients' = clients
    BY <1>1 DEF Accept, SpawnKick
  <2> QED BY <2>1
<1>2. ASSUME NEW c \in Client, SessionStep(c) PROVE Goal
  <2>1. CASE RegisterEntry(c)
    BY <2>1 DEF RegisterEntry
  <2>2. CASE RegisterOnline(c) \/ StartListening(c) \/ ClearOnline(c) \/ Close(c) \/ KickOnline(c)
    <3>1. clients' = clients
      BY <2>2 DEF RegisterOnline, StartListening, ClearOnline, Close, KickOnline
    <3> QED BY <3>1
  <2>3. CASE Leave(c)
    <3>1. clients[n][u] = c /\ clients'[n][u] = NoClient
      BY <2>3, WithoutClientLemma DEF Leave
    <3>2. phase'[c] # "listening" /\ phase[c] = "listening"
      BY <2>3 DEF Leave
    <3> QED BY <3>1, <3>2
  <2>4. CASE KickEntry(c)
    <3>1. clients[n][u] = c /\ clients'[n][u] = NoClient
      BY <2>4, WithoutClientLemma DEF KickEntry
    <3>2. kick'[c] # "spawned" /\ kick[c] = "spawned"
      BY <2>4 DEF KickEntry
    <3> QED BY <3>1, <3>2
  <2> QED
    BY <1>2, <2>1, <2>2, <2>3, <2>4 DEF SessionStep
<1>3. ASSUME NEW m \in Node, NodeStep(m) PROVE Goal
  <2>1. CASE \/ BeginShutdown(m) \/ CloseAllCollect(m) \/ CloseAllClear(m)
             \/ Release(m) \/ Restart(m)
    <3>1. clients' = clients
      BY <2>1 DEF BeginShutdown, CloseAllCollect, CloseAllClear, Release, Restart
    <3> QED BY <3>1
  <2>2. CASE Exit(m) \/ Crash(m)
    <3>1. Vanish(m)
      BY <2>2 DEF Exit, Crash
    <3> QED BY <3>1 DEF Vanish
  <2> QED
    BY <1>3, <2>1, <2>2 DEF NodeStep
<1>4. ASSUME NEW v \in User, KeyExpires(v) PROVE Goal
  <2>1. clients' = clients
    BY <1>4 DEF KeyExpires
  <2> QED BY <2>1
<1> QED
  BY <1>1, <1>2, <1>3, <1>4 DEF PresenceNext

\* Only its own Unregister, a successor or the end of the node takes an entry
\* out of the map (manager.go:68-75).
THEOREM OnlyOwnUnregisterRemoves == PresenceSpec => EntryRemovedByOwn
<1> DEFINE A ==
      \A n \in Node, u \in User :
        LET c == clients[n][u]  d == clients'[n][u] IN
        c # NoClient /\ d # c =>
            \/ d # NoClient /\ phase[d] = "upgraded"
            \/ d = NoClient /\ phase[c] # phase'[c]
            \/ d = NoClient /\ kick[c] # kick'[c]
            \/ status'[n] = "down"
<1>1. ASSUME IInv, [PresenceNext]_presenceVars PROVE [A]_presenceVars
  BY <1>1, EntryRemovedLemma DEF IInv
<1>2. EntryRemovedByOwn <=> [][A]_presenceVars
  BY DEF EntryRemovedByOwn
<1> QED BY <1>1, <1>2, Inductive, PTL DEF PresenceSpec

-----------------------------------------------------------------------------
(* A user with one session at a time.  Such a user has at most one session *)
(* that is not over, so whoever may still delete the key is the session    *)
(* whose entry is in the map, and that one has not begun to.               *)

Engaged(c) == phase[c] # "new" /\ ~Finished(c)

SoleSession ==
    \A c, d \in Client :
        Owner[c] = Owner[d] /\ Owner[c] \in Exclusive /\ Engaged(c) /\ Engaged(d) => c = d

\* What CloseAll collected are clients of its node that were served.
SnapshotWasServed ==
    \A n \in Node : \A c \in snap[n] : Home[c] = n /\ phase[c] # "new"

\* No goroutine outlives its process.
DownIsQuiet ==
    \A c \in Client : status[Home[c]] = "down" => phase[c] \in {"new", "closed"}

ExclusiveInv == SoleSession /\ SnapshotWasServed /\ DownIsQuiet /\ VisibleWhenExclusive

\* CloseAll of a node collects clients of that node which are being served.
LEMMA CollectLemma ==
    ASSUME IInv, NEW n \in Node, CloseAllCollect(n)
    PROVE  /\ \A c \in snap'[n] : Home[c] = n /\ phase[c] \in {"registering", "pushing", "listening"}
           /\ \A m \in Node : m # n => snap'[m] = snap[m]
           /\ UNCHANGED <<clients, online, gauge, phase, kick>>
<1> DEFINE held == {clients[n][u] : u \in User} \ {NoClient}
<1>1. snap' = [snap EXCEPT ![n] = held] /\ UNCHANGED <<clients, online, gauge, phase, kick>>
  BY DEF CloseAllCollect
<1>2. \A c \in held : Home[c] = n /\ phase[c] \in {"registering", "pushing", "listening"}
  BY DEF IInv, EntryIsServed
<1> HIDE DEF held
<1> QED BY <1>1, <1>2 DEF IInv, PresenceTypeOK

\* Only WsConnect begins a session; what is over stays over.
LEMMA EngagedLemma ==
    ASSUME IInv, PresenceNext, NEW c \in Client, Engaged(c)'
    PROVE  Engaged(c) \/ Accept(c)
<1> USE PresenceAssumption DEF IInv, PresenceTypeOK
<1> SUFFICES ASSUME ~Accept(c), phase[c] = "new" \/ Finished(c)
             PROVE  phase'[c] = "new" \/ Finished(c)'
  BY DEF Engaged
<1>1. ASSUME NEW d \in Client, Accept(d) \/ SpawnKick(d) PROVE phase'[c] = "new" \/ Finished(c)'
  BY <1>1 DEF Accept, SpawnKick, Finished
<1>2. ASSUME NEW d \in Client, SessionStep(d) PROVE phase'[c] = "new" \/ Finished(c)'
  <2>1. snap' = snap
    BY <1>2 DEF SessionStep, RegisterEntry, RegisterOnline, StartListening, Leave, ClearOnline,
                Close, KickEntry, KickOnline
  <2>2. CASE RegisterEntry(d) \/ RegisterOnline(d) \/ StartListening(d) \/ Leave(d) \/ ClearOnline(d) \/ Close(d)
    <3>1. /\ kick' = kick /\ phase[d] \notin {"new", "closed"}
          /\ \E p \in Phase : phase' = [phase EXCEPT ![d] = p]
      BY <2>2 DEF RegisterEntry, RegisterOnline, StartListening, Leave, ClearOnline, Close, Phase
    <3>2. d # c
      BY <3>1 DEF Finished
    <3> QED BY <2>1, <3>1, <3>2 DEF Finished
  <2>3. CASE KickEntry(d) \/ KickOnline(d)
    <3>1. /\ phase' = phase /\ kick[d] \in {"spawned", "clearing"}
          /\ \E k \in Kick : kick' = [kick EXCEPT ![d] = k]
      BY <2>3 DEF KickEntry, KickOnline, Kick
    <3> QED BY <2>1, <3>1 DEF Finished
  <2> QED BY <1>2, <2>2, <2>3 DEF SessionStep
<1>3. ASSUME NEW n \in Node, NodeStep(n) PROVE phase'[c] = "new" \/ Finished(c)'
  <2>1. CASE BeginShutdown(n) \/ CloseAllClear(n) \/ Release(n) \/ Restart(n)
    BY <2>1 DEF BeginShutdown, CloseAllClear, Release, Restart, Finished
  <2>2. CASE CloseAllCollect(n)
    BY <2>2, CollectLemma DEF Finished
  <2>3. CASE Exit(n) \/ Crash(n)
    BY <2>3 DEF Exit, Crash, Vanish, Finished
  <2> QED BY <1>3, <2>1, <2>2, <2>3 DEF NodeStep
<1>4. ASSUME NEW u \in User, KeyExpires(u) PROVE phase'[c] = "new" \/ Finished(c)'
  BY <1>4 DEF KeyExpires, Finished
<1> QED BY <1>1, <1>2, <1>3, <1>4 DEF PresenceNext

LEMMA SoleSessionStepLemma ==
    ASSUME IInv, SoleSession, PresenceNext
    PROVE  SoleSession'
<1> USE PresenceAssumption
<1> SUFFICES ASSUME NEW c \in Client, NEW d \in Client, Owner[c] = Owner[d],
                    Owner[c] \in Exclusive, Engaged(c)', Engaged(d)', c # d
             PROVE  FALSE
  BY DEF SoleSession
<1>1. ASSUME NEW a \in Client, NEW b \in Client, Owner[a] = Owner[b], a # b,
             Owner[a] \in Exclusive, Engaged(b)', Accept(a)
      PROVE  FALSE
  <2>1. phase[b] = "new" \/ Finished(b)
    BY <1>1 DEF Accept
  <2>2. phase' = [phase EXCEPT ![a] = "upgraded"] /\ kick' = kick /\ snap' = snap
    BY <1>1 DEF Accept
  <2> QED BY <1>1, <2>1, <2>2 DEF Engaged, Finished, IInv, PresenceTypeOK
<1>2. ~Accept(c) /\ ~Accept(d)
  BY <1>1
<1>3. Engaged(c) /\ Engaged(d)
  BY <1>2, EngagedLemma
<1> QED BY <1>3 DEF SoleSession

LEMMA SnapshotStepLemma ==
    ASSUME IInv, SnapshotWasServed, PresenceNext
    PROVE  SnapshotWasServed'
<1> USE PresenceAssumption DEF IInv, PresenceTypeOK
<1>1. ASSUME NEW d \in Client, Accept(d) \/ SpawnKick(d) \/ SessionStep(d) PROVE SnapshotWasServed'
  <2>1. snap' = snap
    BY <1>1 DEF Accept, SpawnKick, SessionStep, RegisterEntry, RegisterOnline, StartListening,
                Leave, ClearOnline, Close, KickEntry, KickOnline
  <2>2. phase' = phase \/ \E p \in Phase \ {"new"} : phase' = [phase EXCEPT ![d] = p]
    BY <1>1 DEF Accept, SpawnKick, SessionStep, RegisterEntry, RegisterOnline, StartListening,
                Leave, ClearOnline, Close, KickEntry, KickOnline, Phase
  <2> QED BY <2>1, <2>2 DEF SnapshotWasServed
<1>2. ASSUME NEW n \in Node, NodeStep(n) PROVE SnapshotWasServed'
  <2>1. CASE BeginShutdown(n) \/ Release(n) \/ Restart(n)
    BY <2>1 DEF BeginShutdown, Release, Restart, SnapshotWasServed
  <2>2. CASE CloseAllCollect(n)
    BY <2>2, CollectLemma DEF SnapshotWasServed
  <2>3. CASE CloseAllClear(n)
    BY <2>3 DEF CloseAllClear, SnapshotWasServed
  <2>4. CASE Exit(n) \/ Crash(n)
    <3>1. Vanish(n)
      BY <2>4 DEF Exit, Crash
    <3>2. snap' = [snap EXCEPT ![n] = {}] /\ \A c \in Client : phase[c] # "new" => phase'[c] # "new"
      BY <3>1 DEF Vanish
    <3> QED BY <3>2 DEF SnapshotWasServed
  <2> QED BY <1>2, <2>1, <2>2, <2>3, <2>4 DEF NodeStep
<1>3. ASSUME NEW u \in User, KeyExpires(u) PROVE SnapshotWasServed'
  BY <1>3 DEF KeyExpires, SnapshotWasServed
<1> QED BY <1>1, <1>2, <1>3 DEF PresenceNext

LEMMA DownStepLemma ==
    ASSUME IInv, DownIsQuiet, PresenceNext
    PROVE  DownIsQuiet'
<1> USE PresenceAssumption DEF IInv, PresenceTypeOK
<1>1. ASSUME NEW d \in Client, Accept(d) \/ SpawnKick(d) \/ SessionStep(d) PROVE DownIsQuiet'
  <2>1. status' = status
    BY <1>1 DEF Accept, SpawnKick, SessionStep, RegisterEntry, RegisterOnline, StartListening,
                Leave, ClearOnline, Close, KickEntry, KickOnline
  <2>2. \/ phase' = phase
        \/ \E p \in Phase : phase' = [phase EXCEPT ![d] = p] /\ (p = "closed" \/ status[Home[d]] # "down")
    <3>1. CASE Accept(d) \/ SpawnKick(d)
      BY <3>1 DEF Accept, SpawnKick, Phase
    <3>2. CASE RegisterEntry(d) \/ RegisterOnline(d) \/ StartListening(d)
      BY <3>2 DEF RegisterEntry, RegisterOnline, StartListening, Phase, Running, DownIsQuiet
    <3>3. CASE Leave(d) \/ ClearOnline(d) \/ Close(d)
      BY <3>3 DEF Leave, ClearOnline, Close, Phase, DownIsQuiet
    <3>4. CASE KickEntry(d) \/ KickOnline(d)
      BY <3>4 DEF KickEntry, KickOnline
    <3> QED BY <1>1, <3>1, <3>2, <3>3, <3>4 DEF SessionStep
  <2> QED BY <2>1, <2>2 DEF DownIsQuiet
<1>2. ASSUME NEW n \in Node, NodeStep(n) PROVE DownIsQuiet'
  <2>1. CASE \/ BeginShutdown(n) \/ CloseAllCollect(n) \/ CloseAllClear(n)
             \/ Release(n) \/ Restart(n)
    BY <2>1 DEF BeginShutdown, CloseAllCollect, CloseAllClear, Release, Restart, DownIsQuiet
  <2>2. CASE Exit(n) \/ Crash(n)
    BY <2>2 DEF Exit, Crash, Vanish, DownIsQuiet
  <2> QED BY <1>2, <2>1, <2>2 DEF NodeStep
<1>3. ASSUME NEW u \in User, KeyExpires(u) PROVE DownIsQuiet'
  BY <1>3 DEF KeyExpires, DownIsQuiet
<1> QED BY <1>1, <1>2, <1>3 DEF PresenceNext

\* Whoever deletes the key of a user who is served is a session of that user
\* that is not over, so the served one itself, which still has its entry.
LEMMA VisibleStepLemma ==
    ASSUME IInv, ExclusiveInv, PresenceNext
    PROVE  VisibleWhenExclusive'
<1> USE PresenceAssumption DEF IInv, PresenceTypeOK
<1> SUFFICES ASSUME NEW c \in Client, Owner[c] \in Exclusive, ~RedisMayFail,
                    status'[Home[c]] \in {"up", "draining", "clearing"},
                    phase'[c] \in {"pushing", "listening"}, clients'[Home[c]][Owner[c]] = c
             PROVE  online'[Owner[c]] = Home[c]
  BY DEF VisibleWhenExclusive
<1>1. Engaged(c) \/ Accept(c)
  BY EngagedLemma DEF Engaged, Finished
<1>2. ~Accept(c) /\ Engaged(c)
  BY <1>1 DEF Accept
<1>3. \A d \in Client : Owner[d] = Owner[c] /\ Engaged(d) => d = c
  BY <1>2 DEF ExclusiveInv, SoleSession
<1> DEFINE Was == /\ phase[c] \in {"pushing", "listening"} /\ clients[Home[c]][Owner[c]] = c
                  /\ status[Home[c]] \in {"up", "draining", "clearing"}
<1>4. Was => online[Owner[c]] = Home[c]
  BY DEF ExclusiveInv, VisibleWhenExclusive
<1>5. ASSUME NEW d \in Client, Accept(d) \/ SpawnKick(d) PROVE online'[Owner[c]] = Home[c]
  <2>1. Was /\ online' = online
    BY <1>2, <1>5 DEF Accept, SpawnKick
  <2> QED BY <1>4, <2>1
<1>6. ASSUME NEW d \in Client, SessionStep(d) PROVE online'[Owner[c]] = Home[c]
  <2>1. CASE RegisterEntry(d)
    <3>1. d # c
      BY <2>1 DEF RegisterEntry
    <3>2. Was /\ online' = online
      BY <2>1, <3>1 DEF RegisterEntry
    <3> QED BY <1>4, <3>2
  <2>2. CASE RegisterOnline(d)
    <3>1. CASE d = c
      BY <2>2, <3>1 DEF RegisterOnline, SetOnline, RedisErrs
    <3>2. CASE d # c
      <4>1. Was /\ Engaged(d)
        BY <2>2, <3>2 DEF RegisterOnline, Engaged, Finished
      <4>2. Owner[d] # Owner[c]
        BY <1>3, <3>2, <4>1
      <4> QED BY <1>4, <2>2, <4>1, <4>2 DEF RegisterOnline, SetOnline
    <3> QED BY <3>1, <3>2
  <2>3. CASE StartListening(d) \/ Close(d) \/ Leave(d) \/ KickEntry(d)
    <3>1. online' = online /\ status' = status
      BY <2>3 DEF StartListening, Close, Leave, KickEntry
    <3>2. phase[c] \in {"pushing", "listening"}
      BY <2>3 DEF StartListening, Close, Leave, KickEntry
    <3>3. clients' = clients \/ clients' = WithoutClient(d)
      BY <2>3 DEF StartListening, Close, Leave, KickEntry
    <3>4. clients[Home[c]][Owner[c]] = c
      <4>1. Home[c] \in Node /\ Owner[c] \in User /\ c # NoClient
        OBVIOUS
      <4>2. CASE clients' = WithoutClient(d)
        <5>1. \/ clients'[Home[c]][Owner[c]] = clients[Home[c]][Owner[c]]
              \/ clients'[Home[c]][Owner[c]] = NoClient
          BY <4>1, <4>2, WithoutClientLemma
        <5> QED BY <4>1, <5>1
      <4> QED BY <3>3, <4>2
    <3> QED BY <1>4, <3>1, <3>2, <3>4
  <2>4. CASE ClearOnline(d) \/ KickOnline(d)
    <3>1. Was /\ DelOnline(Home[d], {Owner[d]})
      BY <2>4 DEF ClearOnline, KickOnline
    <3>2. Engaged(d)
      BY <2>4 DEF ClearOnline, KickOnline, Engaged, Finished, KickAfterEntry
    <3>3. d # c
      BY <2>4, <3>1 DEF ClearOnline, KickOnline, EntryIsServed
    <3>4. Owner[d] # Owner[c]
      BY <1>3, <3>2, <3>3
    <3> QED BY <1>4, <3>1, <3>4 DEF DelOnline
  <2> QED BY <1>6, <2>1, <2>2, <2>3, <2>4 DEF SessionStep
<1>7. ASSUME NEW n \in Node, NodeStep(n) PROVE online'[Owner[c]] = Home[c]
  <2>1. CASE BeginShutdown(n) \/ CloseAllCollect(n) \/ Release(n)
    <3>1. Was /\ online' = online
      BY <2>1 DEF BeginShutdown, CloseAllCollect, Release
    <3> QED BY <1>4, <3>1
  <2>2. CASE CloseAllClear(n)
    <3>1. Was /\ n # Home[c] /\ DelOnline(n, {Owner[d] : d \in snap[n]})
      BY <2>2 DEF CloseAllClear
    <3>2. ASSUME NEW d \in snap[n], Owner[d] = Owner[c] PROVE FALSE
      <4>1. d \in Client /\ Home[d] = n /\ Engaged(d)
        BY DEF ExclusiveInv, SnapshotWasServed, Engaged, Finished
      <4> QED BY <1>3, <3>1, <3>2, <4>1
    <3> QED BY <1>4, <3>1, <3>2 DEF DelOnline
  <2>3. CASE Exit(n) \/ Crash(n)
    <3>1. Was /\ online' = online
      BY <2>3 DEF Exit, Crash, Vanish
    <3> QED BY <1>4, <3>1
  <2>4. CASE Restart(n)
    <3>1. /\ status' = [status EXCEPT ![n] = "up"] /\ status[n] = "down"
          /\ UNCHANGED <<clients, online, phase>>
      BY <2>4 DEF Restart
    <3>2. n # Home[c]
      BY <3>1 DEF ExclusiveInv, DownIsQuiet
    <3> QED BY <1>4, <3>1, <3>2
  <2> QED BY <1>7, <2>1, <2>2, <2>3, <2>4 DEF NodeStep
<1>8. ASSUME NEW u \in User, KeyExpires(u) PROVE online'[Owner[c]] = Home[c]
  <2>1. Was /\ MayExpire(u) /\ online' = [online EXCEPT ![u] = NoNode]
    BY <1>8 DEF KeyExpires
  <2>2. Owner[c] # u
    BY <2>1 DEF MayExpire, Served, RedisAnswers
  <2> QED BY <1>4, <2>1, <2>2
<1> QED BY <1>5, <1>6, <1>7, <1>8 DEF PresenceNext

LEMMA ExclusiveInitLemma == PresenceInit => ExclusiveInv
  BY PresenceAssumption
  DEF PresenceInit, ExclusiveInv, SoleSession, Engaged, SnapshotWasServed, DownIsQuiet, VisibleWhenExclusive

LEMMA ExclusiveStepLemma ==
    IInv /\ ExclusiveInv /\ [PresenceNext]_presenceVars => ExclusiveInv'
<1> SUFFICES ASSUME IInv, ExclusiveInv, [PresenceNext]_presenceVars PROVE ExclusiveInv'
  OBVIOUS
<1>1. CASE PresenceNext
  BY <1>1, SoleSessionStepLemma, SnapshotStepLemma, DownStepLemma, VisibleStepLemma DEF ExclusiveInv
<1>2. CASE UNCHANGED presenceVars
  BY <1>2 DEF presenceVars, ExclusiveInv, SoleSession, Engaged, Finished, SnapshotWasServed,
              DownIsQuiet, VisibleWhenExclusive
<1> QED BY <1>1, <1>2

\* The key of a user who opens one session at a time names the user's node for
\* as long as the session has its entry (manager.go:55-57, 78-83).
THEOREM ExclusiveUserVisible == PresenceSpec => []VisibleWhenExclusive
<1>1. ExclusiveInv => VisibleWhenExclusive
  BY DEF ExclusiveInv
<1> QED BY <1>1, InitLemma, StepLemma, ExclusiveInitLemma, ExclusiveStepLemma, PTL DEF PresenceSpec

=============================================================================
