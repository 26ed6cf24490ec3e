------------------------- MODULE PresenceTimedProofs -------------------------
(***************************************************************************)
(* Proofs about PresenceTimed, for any periods that satisfy                *)
(* PeriodAssumption: the key of a served user outlives every read deadline *)
(* of the user, so Redis expires only what Presence lets it expire, and    *)
(* the heartbeat implements the untimed registry.                          *)
(***************************************************************************)
EXTENDS PresenceTimed, PresenceProofs

\* How far ahead the deadlines of a connection may lie.  KeyOutlivesDeadline
\* needs it: a renewal of the key by one connection must cover the others.
TimerBounded ==
    \A c \in Client :
        /\ phase[c] = "pushing" => timer[c] <= PushTime
        /\ phase[c] = "listening" => timer[c] <= ReadDeadline

ClockTypeOK ==
    /\ ttl \in [User -> 0 .. OnlineTTL]
    /\ timer \in [Client -> Nat]
    /\ beat \in [Client -> Nat]
    /\ link \in [Client -> Link]

TimedInv == ClockTypeOK /\ TimerBounded /\ KeyOutlivesDeadline

-----------------------------------------------------------------------------
(* Every timed step is a step of Presence or leaves its variables alone.   *)

\* Redis expires only keys of users nobody serves.
LEMMA LapseLemma ==
    ASSUME IInv, TimedInv, NEW u \in User, Lapse(u)
    PROVE  KeyExpires(u)
<1> USE PresenceAssumption
<1>1. MayExpire(u)
  <2>1. online[u] # NoNode /\ ttl[u] = 0
    BY DEF Lapse
  <2>2. ASSUME ~RedisMayFail, Served(u) PROVE FALSE
    <3>1. PICK c \in Client : /\ Owner[c] = u /\ phase[c] \in {"pushing", "listening"}
                              /\ status[Home[c]] # "released"
      BY <2>2 DEF Served, RedisAnswers
    <3>2. ttl[u] > timer[c] + (IF phase[c] = "pushing" THEN ReadDeadline ELSE 0)
      BY <2>1, <2>2, <3>1 DEF TimedInv, KeyOutlivesDeadline
    <3> QED
      BY <2>1, <3>1, <3>2, PeriodAssumption DEF TimedInv, ClockTypeOK, ReadDeadline
  <2> QED BY <2>1, <2>2 DEF MayExpire
<1> QED BY <1>1 DEF Lapse, KeyExpires

LEMMA RefinementStepLemma ==
    ASSUME IInv, TimedInv, TimedNext
    PROVE  PresenceNext \/ UNCHANGED presenceVars
<1>1. ASSUME NEW c \in Client, TimedSessionStep(c)
      PROVE  PresenceNext \/ UNCHANGED presenceVars
  <2>1. CASE TimedRegisterOnline(c) \/ TimedStartListening(c) \/ TimedLeave(c)
    BY <2>1 DEF TimedRegisterOnline, TimedStartListening, TimedLeave, SessionStep, PresenceNext
  <2>2. CASE Pong(c) \/ PeerVanishes(c) \/ PeerCloses(c)
    BY <2>2 DEF Pong, NextPing, RefreshOnlineTTL, PeerVanishes, PeerCloses, presenceVars
  <2>3. CASE (ClearOnline(c) \/ KickOnline(c)) /\ DropTTL /\ UNCHANGED <<timer, beat, link>>
    BY <2>3 DEF SessionStep, PresenceNext
  <2>4. CASE (Accept(c) \/ RegisterEntry(c) \/ Close(c) \/ SpawnKick(c) \/ KickEntry(c))
                /\ UNCHANGED clockVars
    BY <2>4 DEF SessionStep, PresenceNext
  <2> QED BY <1>1, <2>1, <2>2, <2>3, <2>4 DEF TimedSessionStep
<1>2. ASSUME NEW n \in Node, TimedNodeStep(n) PROVE PresenceNext
  BY <1>2 DEF TimedNodeStep, TimedCloseAllClear, NodeStep, PresenceNext
<1>3. ASSUME NEW u \in User, Lapse(u) PROVE PresenceNext
  BY <1>3, LapseLemma DEF PresenceNext
<1>4. CASE Tick
  BY <1>4 DEF Tick, presenceVars
<1> QED BY <1>1, <1>2, <1>3, <1>4 DEF TimedNext

-----------------------------------------------------------------------------
(* The clocks keep their types and their order.                            *)

LEMMA ClockTypeStepLemma ==
    ASSUME PresenceTypeOK, TimedInv, TimedNext
    PROVE  ClockTypeOK'
<1> USE PresenceAssumption, PeriodAssumption DEF TimedInv, ClockTypeOK, Link
<1>1. ASSUME NEW c \in Client, TimedSessionStep(c) PROVE ClockTypeOK'
  <2>1. CASE TimedRegisterOnline(c)
    <3>1. timer' = [timer EXCEPT ![c] = PushTime] /\ UNCHANGED <<beat, link>>
      BY <2>1 DEF TimedRegisterOnline
    <3>2. ttl' = [ttl EXCEPT ![Owner[c]] = OnlineTTL] \/ ttl' = ttl
      BY <2>1 DEF TimedRegisterOnline
    <3> QED BY <3>1, <3>2
  <2>2. CASE TimedStartListening(c)
    BY <2>2 DEF TimedStartListening, ReadDeadline
  <2>3. CASE Pong(c)
    BY <2>3 DEF Pong, NextPing, RefreshOnlineTTL, ReadDeadline
  <2>4. CASE PeerVanishes(c)
    BY <2>4 DEF PeerVanishes
  <2>8. CASE PeerCloses(c)
    <3>1. timer' \in [Client -> Nat]
      BY <2>8 DEF PeerCloses
    <3>2. link' \in [Client -> Link] /\ ttl' = ttl /\ beat' = beat
      BY <2>8 DEF PeerCloses
    <3> QED BY <3>1, <3>2
  <2>5. CASE TimedLeave(c)
    BY <2>5 DEF TimedLeave, clockVars
  <2>6. CASE (ClearOnline(c) \/ KickOnline(c)) /\ DropTTL /\ UNCHANGED <<timer, beat, link>>
    BY <2>6 DEF DropTTL
  <2>7. CASE (Accept(c) \/ RegisterEntry(c) \/ Close(c) \/ SpawnKick(c) \/ KickEntry(c))
                /\ UNCHANGED clockVars
    BY <2>7 DEF clockVars
  <2> QED BY <1>1, <2>1, <2>2, <2>3, <2>4, <2>5, <2>6, <2>7, <2>8 DEF TimedSessionStep
<1>2. ASSUME NEW n \in Node, TimedNodeStep(n) PROVE ClockTypeOK'
  <2>1. CASE TimedCloseAllClear(n)
    BY <2>1 DEF TimedCloseAllClear, DropTTL
  <2>2. CASE UNCHANGED clockVars
    BY <2>2 DEF clockVars
  <2> QED BY <1>2, <2>1, <2>2 DEF TimedNodeStep
<1>3. ASSUME NEW u \in User, Lapse(u) PROVE ClockTypeOK'
  BY <1>3 DEF Lapse, clockVars
<1>4. CASE Tick
  <2>1. ttl' \in [User -> 0 .. OnlineTTL] /\ link' = link
    BY <1>4 DEF Tick
  <2>2. timer' \in [Client -> Nat]
    BY <1>4 DEF Tick, Due
  <2>3. beat' \in [Client -> Nat]
    BY <1>4 DEF Tick, Due
  <2> QED BY <2>1, <2>2, <2>3
<1> QED BY <1>1, <1>2, <1>3, <1>4 DEF TimedNext

\* A step that starts no connection, renews no deadline and at most deletes
\* keys keeps every key ahead of the deadlines.
LEMMA QuietLemma ==
    ASSUME TimedInv, ClockTypeOK',
           \A c \in Client : phase'[c] \in {"pushing", "listening"} =>
               /\ phase'[c] = phase[c]
               /\ timer'[c] <= timer[c]
               /\ status'[Home[c]] # "released" => status[Home[c]] # "released",
           \A u \in User : online'[u] # NoNode => online[u] # NoNode /\ ttl'[u] = ttl[u]
    PROVE  TimerBounded' /\ KeyOutlivesDeadline'
<1> USE PresenceAssumption, PeriodAssumption DEF TimedInv, ClockTypeOK, ReadDeadline
<1>1. TimerBounded'
  BY DEF TimerBounded
<1>2. KeyOutlivesDeadline'
  BY DEF KeyOutlivesDeadline
<1> QED BY <1>1, <1>2

\* A step that gives the key of one user the full TTL covers every deadline of
\* that user, because none lies further ahead than TimerBounded says.
LEMMA RenewalLemma ==
    ASSUME PresenceTypeOK, TimedInv, ClockTypeOK', TimerBounded', NEW c \in Client,
           \A d \in Client : /\ d # c => phase'[d] = phase[d] /\ timer'[d] = timer[d]
                             /\ status'[Home[d]] = status[Home[d]],
           \A u \in User : /\ u # Owner[c] => online'[u] = online[u] /\ ttl'[u] = ttl[u]
                           /\ u = Owner[c] /\ online'[u] # NoNode => ttl'[u] = OnlineTTL
    PROVE  KeyOutlivesDeadline'
<1> USE PresenceAssumption, PeriodAssumption DEF ReadDeadline
<1> SUFFICES ASSUME ~RedisMayFail, NEW d \in Client,
                    phase'[d] \in {"pushing", "listening"},
                    status'[Home[d]] # "released", online'[Owner[d]] # NoNode
             PROVE  ttl'[Owner[d]] > timer'[d] + (IF phase'[d] = "pushing" THEN ReadDeadline ELSE 0)
  BY DEF KeyOutlivesDeadline
<1>1. CASE Owner[d] = Owner[c]
  <2>1. ttl'[Owner[d]] = OnlineTTL
    BY <1>1
  <2>2. timer'[d] \in Nat
    BY DEF ClockTypeOK
  <2>3. /\ phase'[d] = "pushing" => timer'[d] <= PushTime
        /\ phase'[d] = "listening" => timer'[d] <= ReadDeadline
    BY DEF TimerBounded
  <2> QED BY <2>1, <2>2, <2>3
<1>2. CASE Owner[d] # Owner[c]
  <2>1. /\ phase'[d] = phase[d] /\ timer'[d] = timer[d] /\ status'[Home[d]] = status[Home[d]]
        /\ online'[Owner[d]] = online[Owner[d]] /\ ttl'[Owner[d]] = ttl[Owner[d]]
    BY <1>2
  <2> QED BY <2>1 DEF TimedInv, KeyOutlivesDeadline
<1> QED BY <1>1, <1>2

\* A step of a connection whose Redis command may have failed either is not
\* spoken about, or is on a node that closed Redis.
LEMMA RefusedLemma ==
    ASSUME TimedInv, NEW c \in Client, RedisErrs(Home[c]),
           \A d \in Client : d # c => phase'[d] = phase[d] /\ timer'[d] = timer[d],
           online' = online, ttl' = ttl, status' = status
    PROVE  KeyOutlivesDeadline'
<1> SUFFICES ASSUME ~RedisMayFail, NEW d \in Client,
                    phase'[d] \in {"pushing", "listening"},
                    status'[Home[d]] # "released", online'[Owner[d]] # NoNode
             PROVE  ttl'[Owner[d]] > timer'[d] + (IF phase'[d] = "pushing" THEN ReadDeadline ELSE 0)
  BY DEF KeyOutlivesDeadline
<1>1. d # c
  BY DEF RedisErrs
<1> QED BY <1>1 DEF TimedInv, KeyOutlivesDeadline

LEMMA OutliveStepLemma ==
    ASSUME PresenceTypeOK, TimedInv, TimedNext, ClockTypeOK'
    PROVE  TimerBounded' /\ KeyOutlivesDeadline'
<1> USE PresenceAssumption, PeriodAssumption DEF PresenceTypeOK
<1>1. ASSUME NEW c \in Client, TimedSessionStep(c) PROVE TimerBounded' /\ KeyOutlivesDeadline'
  <2>1. CASE TimedRegisterOnline(c)
    <3>1. /\ phase[c] = "registering" /\ phase' = [phase EXCEPT ![c] = "pushing"]
          /\ timer' = [timer EXCEPT ![c] = PushTime] /\ status' = status
      BY <2>1 DEF TimedRegisterOnline, RegisterOnline
    <3>2. TimerBounded'
      BY <3>1 DEF TimedInv, ClockTypeOK, TimerBounded
    <3>3. CASE online' = online /\ ttl' = ttl /\ RedisErrs(Home[c])
      <4>1. \A d \in Client : d # c => phase'[d] = phase[d] /\ timer'[d] = timer[d]
        BY <3>1 DEF TimedInv, ClockTypeOK
      <4> QED BY <3>1, <3>2, <3>3, <4>1, RefusedLemma
    <3>4. CASE /\ online' = [online EXCEPT ![Owner[c]] = Home[c]]
               /\ ttl' = [ttl EXCEPT ![Owner[c]] = OnlineTTL]
      <4>1. \A d \in Client : /\ d # c => phase'[d] = phase[d] /\ timer'[d] = timer[d]
                              /\ status'[Home[d]] = status[Home[d]]
        BY <3>1 DEF TimedInv, ClockTypeOK
      <4>2. \A u \in User : /\ u # Owner[c] => online'[u] = online[u] /\ ttl'[u] = ttl[u]
                            /\ u = Owner[c] /\ online'[u] # NoNode => ttl'[u] = OnlineTTL
        BY <3>1, <3>4 DEF TimedInv, ClockTypeOK
      <4> QED BY <3>2, <4>1, <4>2, RenewalLemma
    <3>5. \/ online' = online /\ ttl' = ttl /\ RedisErrs(Home[c])
          \/ /\ online' = [online EXCEPT ![Owner[c]] = Home[c]]
             /\ ttl' = [ttl EXCEPT ![Owner[c]] = OnlineTTL]
      BY <2>1 DEF TimedRegisterOnline, RegisterOnline, SetOnline
    <3> QED BY <3>2, <3>3, <3>4, <3>5
  <2>2. CASE TimedStartListening(c)
    <3>1. /\ phase[c] = "pushing" /\ phase' = [phase EXCEPT ![c] = "listening"]
          /\ timer' = [timer EXCEPT ![c] = ReadDeadline]
          /\ UNCHANGED <<ttl, online, status>>
      BY <2>2 DEF TimedStartListening, StartListening
    <3>2. TimerBounded'
      BY <3>1 DEF TimedInv, ClockTypeOK, TimerBounded, ReadDeadline
    <3>3. KeyOutlivesDeadline'
      BY <3>1 DEF TimedInv, ClockTypeOK, KeyOutlivesDeadline, ReadDeadline
    <3> QED BY <3>2, <3>3
  <2>3. CASE Pong(c)
    <3>1. /\ phase[c] = "listening" /\ timer' = [timer EXCEPT ![c] = ReadDeadline]
          /\ UNCHANGED <<phase, online, status>>
      BY <2>3 DEF Pong, NextPing, RefreshOnlineTTL
    <3>2. TimerBounded'
      BY <3>1 DEF TimedInv, ClockTypeOK, TimerBounded, ReadDeadline
    <3>3. CASE RedisErrs(Home[c]) /\ ttl' = ttl
      <4>1. \A d \in Client : d # c => phase'[d] = phase[d] /\ timer'[d] = timer[d]
        BY <3>1 DEF TimedInv, ClockTypeOK
      <4> QED BY <3>1, <3>2, <3>3, <4>1, RefusedLemma
    <3>4. CASE ttl' = [ttl EXCEPT ![Owner[c]] = IF online[Owner[c]] = NoNode THEN @ ELSE OnlineTTL]
      <4>1. \A d \in Client : /\ d # c => phase'[d] = phase[d] /\ timer'[d] = timer[d]
                              /\ status'[Home[d]] = status[Home[d]]
        BY <3>1 DEF TimedInv, ClockTypeOK
      <4>2. \A u \in User : /\ u # Owner[c] => online'[u] = online[u] /\ ttl'[u] = ttl[u]
                            /\ u = Owner[c] /\ online'[u] # NoNode => ttl'[u] = OnlineTTL
        BY <3>1, <3>4 DEF TimedInv, ClockTypeOK
      <4> QED BY <3>2, <4>1, <4>2, RenewalLemma
    <3> QED BY <2>3, <3>2, <3>3, <3>4 DEF Pong, NextPing, RefreshOnlineTTL
  <2>4. CASE PeerVanishes(c) \/ PeerCloses(c)
    <3>1. UNCHANGED <<phase, online, status, ttl>>
      BY <2>4 DEF PeerVanishes, PeerCloses
    <3>2. \A d \in Client : timer'[d] <= timer[d]
      BY <2>4 DEF PeerVanishes, PeerCloses, TimedInv, ClockTypeOK
    <3> QED BY <3>1, <3>2, QuietLemma
  <2>5. CASE TimedLeave(c)
    <3>1. \E p \in {"clearing", "closing"} : phase' = [phase EXCEPT ![c] = p]
      BY <2>5 DEF TimedLeave, Leave
    <3>2. UNCHANGED <<online, status, ttl, timer>>
      BY <2>5 DEF TimedLeave, Leave, clockVars
    <3> QED BY <3>1, <3>2, QuietLemma DEF TimedInv, ClockTypeOK
  <2>6. CASE (ClearOnline(c) \/ KickOnline(c)) /\ DropTTL /\ UNCHANGED <<timer, beat, link>>
    <3>1. phase' = phase \/ phase' = [phase EXCEPT ![c] = "closing"]
      BY <2>6 DEF ClearOnline, KickOnline
    <3>2. \A u \in User : online'[u] # NoNode => online[u] # NoNode /\ ttl'[u] = ttl[u]
      BY <2>6 DEF ClearOnline, KickOnline, DelOnline, DropTTL
    <3>3. status' = status /\ timer' = timer
      BY <2>6 DEF ClearOnline, KickOnline
    <3> QED BY <3>1, <3>2, <3>3, QuietLemma DEF TimedInv, ClockTypeOK
  <2>7. CASE (Accept(c) \/ RegisterEntry(c) \/ Close(c) \/ SpawnKick(c) \/ KickEntry(c))
                /\ UNCHANGED clockVars
    <3>1. \/ phase' = phase
          \/ \E p \in {"upgraded", "registering", "closed"} : phase' = [phase EXCEPT ![c] = p]
      BY <2>7 DEF Accept, RegisterEntry, Close, SpawnKick, KickEntry
    <3>2. UNCHANGED <<online, status, ttl, timer>>
      BY <2>7 DEF Accept, RegisterEntry, Close, SpawnKick, KickEntry, clockVars
    <3> QED BY <3>1, <3>2, QuietLemma DEF TimedInv, ClockTypeOK
  <2> QED BY <1>1, <2>1, <2>2, <2>3, <2>4, <2>5, <2>6, <2>7 DEF TimedSessionStep
<1>2. ASSUME NEW n \in Node, TimedNodeStep(n) PROVE TimerBounded' /\ KeyOutlivesDeadline'
  <2>1. CASE TimedCloseAllClear(n)
    <3>1. phase' = phase /\ status' = [status EXCEPT ![n] = "drained"] /\ status[n] = "clearing"
      BY <2>1 DEF TimedCloseAllClear, CloseAllClear
    <3>2. \A u \in User : online'[u] # NoNode => online[u] # NoNode /\ ttl'[u] = ttl[u]
      BY <2>1 DEF TimedCloseAllClear, CloseAllClear, DelOnline, DropTTL
    <3>3. \A d \in Client : timer'[d] <= timer[d]
      BY <2>1 DEF TimedCloseAllClear, TimedInv, ClockTypeOK
    <3> QED BY <3>1, <3>2, <3>3, QuietLemma
  <2>2. CASE /\ BeginShutdown(n) \/ CloseAllCollect(n) \/ Release(n) \/ Restart(n)
             /\ UNCHANGED clockVars
    <3>1. phase' = phase /\ online' = online /\ ttl' = ttl /\ timer' = timer
      BY <2>2 DEF BeginShutdown, CloseAllCollect, Release, Restart, clockVars
    <3>2. \A m \in Node : status'[m] # "released" => status[m] # "released"
      BY <2>2 DEF BeginShutdown, CloseAllCollect, Release, Restart
    <3> QED BY <3>1, <3>2, QuietLemma DEF TimedInv, ClockTypeOK
  <2>3. CASE (Exit(n) \/ Crash(n)) /\ UNCHANGED clockVars
    <3>1. Vanish(n) /\ ttl' = ttl /\ timer' = timer
      BY <2>3 DEF Exit, Crash, clockVars
    <3>2. online' = online
      BY <3>1 DEF Vanish
    <3>3. \A c \in Client : phase'[c] \in {"pushing", "listening"} =>
              phase'[c] = phase[c] /\ status'[Home[c]] = status[Home[c]]
      BY <3>1 DEF Vanish
    <3> QED BY <3>1, <3>2, <3>3, QuietLemma DEF TimedInv, ClockTypeOK
  <2> QED BY <1>2, <2>1, <2>2, <2>3 DEF TimedNodeStep
<1>3. ASSUME NEW u \in User, Lapse(u) PROVE TimerBounded' /\ KeyOutlivesDeadline'
  <2>1. /\ online' = [online EXCEPT ![u] = NoNode]
        /\ UNCHANGED <<phase, status, ttl, timer>>
    BY <1>3 DEF Lapse, clockVars
  <2> QED BY <2>1, QuietLemma DEF TimedInv, ClockTypeOK
<1>4. CASE Tick
  <2>1. UNCHANGED <<phase, status, online>>
    BY <1>4 DEF Tick
  <2>2. \A c \in Client : phase[c] \in {"pushing", "listening"} => timer'[c] = timer[c] - 1 /\ timer[c] # 0
    BY <1>4 DEF Tick, Due
  <2>3. \A u \in User : online[u] # NoNode => ttl'[u] = ttl[u] - 1
    BY <1>4 DEF Tick, Due
  <2>4. TimerBounded'
    BY <2>1, <2>2 DEF TimedInv, ClockTypeOK, TimerBounded, ReadDeadline
  <2>5. KeyOutlivesDeadline'
    BY <2>1, <2>2, <2>3 DEF TimedInv, ClockTypeOK, KeyOutlivesDeadline, ReadDeadline
  <2> QED BY <2>4, <2>5
<1> QED BY <1>1, <1>2, <1>3, <1>4 DEF TimedNext

LEMMA TimedInitLemma == TimedInit => IInv /\ TimedInv
<1> SUFFICES ASSUME TimedInit PROVE IInv /\ TimedInv
  OBVIOUS
<1>1. IInv
  BY InitLemma DEF TimedInit
<1>2. TimedInv
  BY PeriodAssumption
  DEF TimedInit, PresenceInit, TimedInv, ClockTypeOK, Link, TimerBounded, KeyOutlivesDeadline
<1> QED BY <1>1, <1>2

LEMMA TimedStepLemma ==
    IInv /\ TimedInv /\ [TimedNext]_timedVars
        => [PresenceNext]_presenceVars /\ IInv' /\ TimedInv'
<1> SUFFICES ASSUME IInv, TimedInv, [TimedNext]_timedVars
             PROVE  [PresenceNext]_presenceVars /\ IInv' /\ TimedInv'
  OBVIOUS
<1>1. CASE TimedNext
  <2>1. [PresenceNext]_presenceVars
    BY <1>1, RefinementStepLemma
  <2>2. IInv'
    BY <2>1, StepLemma
  <2>3. TimedInv'
    BY <1>1, ClockTypeStepLemma, OutliveStepLemma DEF IInv, TimedInv
  <2> QED BY <2>1, <2>2, <2>3
<1>2. CASE UNCHANGED timedVars
  <2>1. UNCHANGED presenceVars
    BY <1>2 DEF timedVars, presenceVars
  <2>2. IInv'
    BY <2>1, StepLemma
  <2>3. TimedInv'
    BY <1>2 DEF timedVars, TimedInv, ClockTypeOK, TimerBounded, KeyOutlivesDeadline
  <2> QED BY <2>1, <2>2, <2>3
<1> QED BY <1>1, <1>2

-----------------------------------------------------------------------------
(* The theorems.                                                           *)

\* The heartbeat implements the registry: with the periods of the code no key
\* of a served user expires while Redis answers (client.go:71-75, 341-350).
THEOREM HeartbeatImplementsRegistry == TimedSpec => PresenceSpec
<1>1. TimedInit => PresenceInit
  BY DEF TimedInit
<1> QED
  BY <1>1, TimedInitLemma, TimedStepLemma, PTL DEF TimedSpec, PresenceSpec

\* The key of a user outlives the read deadline of each of the user's
\* connections (manager.go:57 against client.go:73).
THEOREM KeysOutliveDeadlines == TimedSpec => []KeyOutlivesDeadline
<1>1. TimedInv => KeyOutlivesDeadline
  BY DEF TimedInv
<1> QED
  BY <1>1, TimedInitLemma, TimedStepLemma, PTL DEF TimedSpec

\* Every variable has its type; in particular no clock runs below zero.
THEOREM ClocksTypeCorrect == TimedSpec => []TimedTypeOK
<1>1. IInv /\ TimedInv => TimedTypeOK
  BY DEF IInv, TimedInv, ClockTypeOK, TimedTypeOK
<1> QED
  BY <1>1, TimedInitLemma, TimedStepLemma, PTL DEF TimedSpec

\* What holds of every behaviour of the registry holds with the clocks of the
\* code in place of its guard on expiry: the key of a user who opens one
\* session at a time is there while the session has its entry.
THEOREM ExclusiveUserVisibleInTime == TimedSpec => []VisibleWhenExclusive
  BY HeartbeatImplementsRegistry, ExclusiveUserVisible, PTL

-----------------------------------------------------------------------------
(* Peers that answer.  AnsweringPeerStays compares the deadline with the   *)
(* lateness of the reader only; what is inductive is its distance from the *)
(* next pong, which every pong restores and no tick changes.               *)

PongBeforeDeadline ==
    \A c \in Client :
        phase[c] = "listening" /\ link[c] = "answering"
        => timer[c] >= beat[c] + (PongWait - PingPeriod)

LEMMA PongStepLemma ==
    ASSUME PresenceTypeOK, ClockTypeOK, PongBeforeDeadline, TimedNext
    PROVE  PongBeforeDeadline'
<1> USE PresenceAssumption, PeriodAssumption DEF PresenceTypeOK, ClockTypeOK
\* A step after which a connection that is listened to and answers did so
\* before, with the same clocks.
<1> DEFINE Same(c) == phase'[c] = "listening" /\ link'[c] = "answering" =>
                        /\ phase[c] = "listening" /\ link[c] = "answering"
                        /\ timer'[c] = timer[c] /\ beat'[c] = beat[c]
<1>1. ASSUME \A c \in Client : Same(c) PROVE PongBeforeDeadline'
  BY <1>1 DEF PongBeforeDeadline
<1>2. ASSUME NEW d \in Client, TimedSessionStep(d) PROVE PongBeforeDeadline'
  <2>1. CASE TimedStartListening(d) \/ Pong(d)
    <3>1. /\ timer' = [timer EXCEPT ![d] = PongWait + Latency]
          /\ beat'[d] <= PingPeriod + Latency /\ beat'[d] \in Nat
      BY <2>1 DEF TimedStartListening, Pong, NextPing, ReadDeadline, Link
    <3>2. \A c \in Client : c # d => Same(c)
      BY <2>1 DEF TimedStartListening, StartListening, Pong, NextPing
    <3> QED BY <3>1, <3>2 DEF PongBeforeDeadline
  <2>2. CASE TimedRegisterOnline(d)
    BY <1>1, <2>2 DEF TimedRegisterOnline, RegisterOnline
  <2>3. CASE PeerVanishes(d) \/ PeerCloses(d)
    <3>1. /\ phase' = phase /\ beat' = beat
          /\ link' = [link EXCEPT ![d] = "silent"] \/ link' = [link EXCEPT ![d] = "severed"]
          /\ \A c \in Client : c # d => timer'[c] = timer[c]
      BY <2>3 DEF PeerVanishes, PeerCloses
    <3> QED BY <1>1, <3>1
  <2>4. CASE TimedLeave(d)
    <3>1. /\ UNCHANGED <<timer, beat, link>>
          /\ \E p \in {"clearing", "closing"} : phase' = [phase EXCEPT ![d] = p]
      BY <2>4 DEF TimedLeave, Leave, clockVars
    <3> QED BY <1>1, <3>1
  <2>5. CASE (ClearOnline(d) \/ KickOnline(d)) /\ DropTTL /\ UNCHANGED <<timer, beat, link>>
    BY <1>1, <2>5 DEF ClearOnline, KickOnline
  <2>6. CASE (Accept(d) \/ RegisterEntry(d) \/ Close(d) \/ SpawnKick(d) \/ KickEntry(d))
                /\ UNCHANGED clockVars
    BY <1>1, <2>6 DEF Accept, RegisterEntry, Close, SpawnKick, KickEntry, clockVars
  <2> QED BY <1>2, <2>1, <2>2, <2>3, <2>4, <2>5, <2>6 DEF TimedSessionStep
<1>3. ASSUME NEW n \in Node, TimedNodeStep(n) PROVE PongBeforeDeadline'
  <2>1. CASE TimedCloseAllClear(n)
    <3>1. /\ phase' = phase /\ beat' = beat
          /\ \A c \in Client : c \in snap[n] => link'[c] = "severed"
          /\ \A c \in Client : c \notin snap[n] => link'[c] = link[c] /\ timer'[c] = timer[c]
      BY <2>1 DEF TimedCloseAllClear, CloseAllClear
    <3> QED BY <1>1, <3>1
  <2>2. CASE (BeginShutdown(n) \/ CloseAllCollect(n) \/ Release(n) \/ Restart(n)) /\ UNCHANGED clockVars
    BY <1>1, <2>2 DEF BeginShutdown, CloseAllCollect, Release, Restart, clockVars
  <2>3. CASE (Exit(n) \/ Crash(n)) /\ UNCHANGED clockVars
    BY <1>1, <2>3 DEF Exit, Crash, Vanish, clockVars
  <2> QED BY <1>3, <2>1, <2>2, <2>3 DEF TimedNodeStep
<1>4. ASSUME NEW u \in User, Lapse(u) PROVE PongBeforeDeadline'
  BY <1>1, <1>4 DEF Lapse, clockVars
<1>5. CASE Tick
  <2>1. phase' = phase /\ link' = link
    BY <1>5 DEF Tick
  <2>2. \A c \in Client : phase[c] = "listening" /\ link[c] = "answering" =>
            timer'[c] = timer[c] - 1 /\ beat'[c] = beat[c] - 1
    BY <1>5 DEF Tick
  <2> QED BY <2>1, <2>2 DEF PongBeforeDeadline
<1> QED BY <1>2, <1>3, <1>4, <1>5 DEF TimedNext

\* A connection whose peer answers its pings never meets its read deadline:
\* client.go:71-75 with any periods that satisfy PeriodAssumption.
THEOREM AnsweringPeersStay == TimedSpec => []AnsweringPeerStays
<1>1. TimedInit => PongBeforeDeadline
  BY DEF TimedInit, PresenceInit, PongBeforeDeadline
<1>2. IInv /\ TimedInv /\ PongBeforeDeadline /\ [TimedNext]_timedVars => PongBeforeDeadline'
  <2> SUFFICES ASSUME IInv, TimedInv, PongBeforeDeadline, [TimedNext]_timedVars
               PROVE  PongBeforeDeadline'
    OBVIOUS
  <2>1. CASE TimedNext
    BY <2>1, PongStepLemma DEF IInv, TimedInv
  <2>2. CASE UNCHANGED timedVars
    BY <2>2 DEF timedVars, PongBeforeDeadline
  <2> QED BY <2>1, <2>2
<1>3. TimedInv /\ PongBeforeDeadline => AnsweringPeerStays
  BY PeriodAssumption DEF TimedInv, ClockTypeOK, PongBeforeDeadline, AnsweringPeerStays
<1> QED
  BY <1>1, <1>2, <1>3, TimedInitLemma, TimedStepLemma, PTL DEF TimedSpec

=============================================================================
