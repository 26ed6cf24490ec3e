---------------------------- MODULE PresenceTimed ----------------------------
(***************************************************************************)
(* The heartbeat of internal/ws/client.go on top of Presence.  pingLoop    *)
(* pings every peer, a pong renews the read deadline of the connection and *)
(* the TTL of the user's Redis key, a connection without a pong for        *)
(* PongWait is dropped, a key without a renewal for OnlineTTL disappears.  *)
(*                                                                         *)
(* Presence lets a key expire only while no connection of the user is      *)
(* served; here that guard is gone, and the periods of the code must bring *)
(* it about.  Time passes in ticks; a deadline that is due holds the clock *)
(* until its handler has run.  Latency bounds how late a handler may be:   *)
(* the reader of a connection sees neither a pong nor its deadline while   *)
(* it is inside handleChatMsg.                                             *)
(***************************************************************************)
EXTENDS Presence

CONSTANTS
    PingPeriod,   \* client.go:72, 30 s
    PongWait,     \* client.go:73, 60 s
    OnlineTTL,    \* manager.go:57, client.go:347, 90 s
    PushTime,     \* bound on the time DeliverUnreadMsg takes
    Latency       \* bound on a round trip and on one handleChatMsg

ASSUME PeriodAssumption ==
    /\ PingPeriod \in Nat /\ PongWait \in Nat /\ OnlineTTL \in Nat
    /\ PushTime \in Nat /\ Latency \in Nat
    /\ Latency < PingPeriod
    /\ PingPeriod + Latency < PongWait
    /\ PushTime + PongWait + Latency < OnlineTTL

VARIABLES
    ttl,     \* ttl[u]: time to live of online:user:<u>
    timer,   \* timer[c]: time DeliverUnreadMsg may still take; afterwards
             \* time until ListenMsg must have met its read deadline
    beat,    \* beat[c]: time until the pong to the next ping must be handled
    link     \* link[c]: the connection as the reader of c finds it

clockVars == <<ttl, timer, beat, link>>
timedVars == <<clients, online, gauge, phase, kick, status, snap, ttl, timer, beat, link>>

\* answering: the peer answers pings.  silent: it is gone, the socket is not.
\* severed: reads fail.
Link == {"answering", "silent", "severed"}

TimedTypeOK ==
    /\ PresenceTypeOK
    /\ ttl \in [User -> 0 .. OnlineTTL]
    /\ timer \in [Client -> Nat]
    /\ beat \in [Client -> Nat]
    /\ link \in [Client -> Link]

TimedInit ==
    /\ PresenceInit
    /\ ttl = [u \in User |-> 0]
    /\ timer = [c \in Client |-> 0]
    /\ beat = [c \in Client |-> 0]
    /\ link = [c \in Client |-> "answering"]

-----------------------------------------------------------------------------
\* A read deadline set now is met after PongWait, and a busy handler later.
ReadDeadline == PongWait + Latency

\* Keys that a DEL removed have no time to live.
DropTTL == ttl' = [u \in User |-> IF online'[u] = NoNode THEN 0 ELSE ttl[u]]

\* SET gives the key the full TTL; DeliverUnreadMsg begins.  Slip: a TTL no
\* longer than pongWait.
RegisterForPongWait(c) ==
    /\ RegisterOnline(c)
    /\ \/ /\ RedisAnswers(Home[c]) /\ online'[Owner[c]] = Home[c]
          /\ ttl' = [ttl EXCEPT ![Owner[c]] = PongWait]
       \/ RedisErrs(Home[c]) /\ online' = online /\ UNCHANGED ttl
    /\ timer' = [timer EXCEPT ![c] = PushTime]
    /\ UNCHANGED <<beat, link>>
TimedRegisterOnline(c) ==
    /\ RegisterOnline(c)
    /\ \/ /\ RedisAnswers(Home[c]) /\ online'[Owner[c]] = Home[c]
          /\ ttl' = [ttl EXCEPT ![Owner[c]] = OnlineTTL]
       \/ RedisErrs(Home[c]) /\ online' = online /\ UNCHANGED ttl
    /\ timer' = [timer EXCEPT ![c] = PushTime]
    /\ UNCHANGED <<beat, link>>

\* ListenMsg sets the first read deadline, pingLoop starts its ticker.  The
\* peer may have gone while DeliverUnreadMsg was writing to it.
TimedStartListening(c) ==
    /\ StartListening(c)
    /\ timer' = [timer EXCEPT ![c] = ReadDeadline]
    /\ beat' = [beat EXCEPT ![c] = PingPeriod + Latency]
    /\ UNCHANGED <<ttl, link>>

\* pingLoop: the next ping is a period away.
NextPing(c) == beat' = [beat EXCEPT ![c] = @ + PingPeriod]

\* refreshOnlineTTL: EXPIRE, which does nothing to a key that is not there;
\* an error is only logged.
RefreshOnlineTTL(u, n) ==
    \/ /\ RedisAnswers(n)
       /\ ttl' = [ttl EXCEPT ![u] = IF online[u] = NoNode THEN @ ELSE OnlineTTL]
    \/ RedisErrs(n) /\ UNCHANGED ttl

\* The answer to a ping reaches the pong handler: a new read deadline and a
\* new TTL.  Slips: to renew only the TTL, or only the deadline.
PongRenewsKeyOnly(c) ==
    /\ phase[c] = "listening" /\ link[c] = "answering" /\ beat[c] <= Latency
    /\ NextPing(c)
    /\ RefreshOnlineTTL(Owner[c], Home[c])
    /\ UNCHANGED <<clients, online, gauge, phase, kick, status, snap, timer, link>>
PongRenewsDeadlineOnly(c) ==
    /\ phase[c] = "listening" /\ link[c] = "answering" /\ beat[c] <= Latency
    /\ NextPing(c)
    /\ timer' = [timer EXCEPT ![c] = ReadDeadline]
    /\ UNCHANGED <<clients, online, gauge, phase, kick, status, snap, ttl, link>>
Pong(c) ==
    /\ phase[c] = "listening" /\ link[c] = "answering" /\ beat[c] <= Latency
    /\ NextPing(c)
    /\ timer' = [timer EXCEPT ![c] = ReadDeadline]
    /\ RefreshOnlineTTL(Owner[c], Home[c])
    /\ UNCHANGED <<clients, online, gauge, phase, kick, status, snap, link>>

\* The peer vanishes without a FIN, or closes the connection.
PeerVanishes(c) ==
    /\ phase[c] \in {"pushing", "listening"} /\ link[c] = "answering"
    /\ link' = [link EXCEPT ![c] = "silent"]
    /\ UNCHANGED <<clients, online, gauge, phase, kick, status, snap, ttl, timer, beat>>

PeerCloses(c) ==
    /\ phase[c] \in {"pushing", "listening"} /\ link[c] = "answering"
    /\ link' = [link EXCEPT ![c] = "severed"]
    /\ timer' = [timer EXCEPT ![c] = IF phase[c] = "listening" /\ @ > Latency
                                     THEN Latency ELSE @]
    /\ UNCHANGED <<clients, online, gauge, phase, kick, status, snap, ttl, beat>>

\* ReadMessage fails: the connection is closed, or its deadline has passed.
\* Slip: a reader without a deadline.
LeaveOnlyWhenSevered(c) ==
    /\ link[c] = "severed"
    /\ Leave(c)
    /\ UNCHANGED clockVars
TimedLeave(c) ==
    /\ link[c] = "severed" \/ timer[c] <= Latency
    /\ Leave(c)
    /\ UNCHANGED clockVars

\* CloseAll also closes every connection it collected.
TimedCloseAllClear(n) ==
    /\ CloseAllClear(n)
    /\ DropTTL
    /\ link' = [c \in Client |-> IF c \in snap[n] THEN "severed" ELSE link[c]]
    /\ timer' = [c \in Client |-> IF c \in snap[n] /\ phase[c] = "listening" /\ timer[c] > Latency
                                  THEN Latency ELSE timer[c]]
    /\ UNCHANGED beat

\* Redis removes a key whose time is up.
Lapse(u) ==
    /\ online[u] # NoNode /\ ttl[u] = 0
    /\ online' = [online EXCEPT ![u] = NoNode]
    /\ UNCHANGED <<clients, gauge, phase, kick, status, snap, clockVars>>

\* One unit of time, once nothing is due.  Slips: nobody waits for the read
\* deadlines; keys that are set without a TTL.
DueWithoutReaders ==
    \/ \E u \in User : online[u] # NoNode /\ ttl[u] = 0
    \/ \E c \in Client : phase[c] = "listening" /\ link[c] = "answering" /\ beat[c] = 0
Due ==
    \/ \E u \in User : online[u] # NoNode /\ ttl[u] = 0
    \/ \E c \in Client : phase[c] \in {"pushing", "listening"} /\ timer[c] = 0
    \/ \E c \in Client : phase[c] = "listening" /\ link[c] = "answering" /\ beat[c] = 0

TickWithoutTTL ==
    /\ ~Due
    /\ timer' = [c \in Client |-> IF phase[c] \in {"pushing", "listening"} THEN timer[c] - 1 ELSE 0]
    /\ beat' = [c \in Client |-> IF phase[c] = "listening" /\ link[c] = "answering"
                                 THEN beat[c] - 1 ELSE 0]
    /\ UNCHANGED <<clients, online, gauge, phase, kick, status, snap, ttl, link>>
Tick ==
    /\ ~Due
    /\ ttl' = [u \in User |-> IF ttl[u] = 0 THEN 0 ELSE ttl[u] - 1]
    /\ timer' = [c \in Client |-> IF phase[c] \in {"pushing", "listening"} THEN timer[c] - 1 ELSE 0]
    /\ beat' = [c \in Client |-> IF phase[c] = "listening" /\ link[c] = "answering"
                                 THEN beat[c] - 1 ELSE 0]
    /\ UNCHANGED <<clients, online, gauge, phase, kick, status, snap, link>>

-----------------------------------------------------------------------------
TimedSessionStep(c) ==
    \/ TimedRegisterOnline(c) \/ TimedStartListening(c) \/ Pong(c)
    \/ PeerVanishes(c) \/ PeerCloses(c) \/ TimedLeave(c)
    \/ (ClearOnline(c) \/ KickOnline(c)) /\ DropTTL /\ UNCHANGED <<timer, beat, link>>
    \/ (Accept(c) \/ RegisterEntry(c) \/ Close(c) \/ SpawnKick(c) \/ KickEntry(c))
          /\ UNCHANGED clockVars

TimedNodeStep(n) ==
    \/ TimedCloseAllClear(n)
    \/ (BeginShutdown(n) \/ CloseAllCollect(n) \/ Release(n) \/ Exit(n) \/ Crash(n) \/ Restart(n))
          /\ UNCHANGED clockVars

TimedNext ==
    \/ \E c \in Client : TimedSessionStep(c)
    \/ \E n \in Node : TimedNodeStep(n)
    \/ \E u \in User : Lapse(u)
    \/ Tick

TimedSpec == TimedInit /\ [][TimedNext]_timedVars

\* Time passes, Redis expires what is due, DeliverUnreadMsg returns because
\* every write has a deadline, and the runtime runs a reader whose connection
\* failed or whose deadline passed, and one that has a pong to handle.
TimedFairness ==
    /\ WF_timedVars(Tick)
    /\ \A u \in User : WF_timedVars(Lapse(u))
    /\ \A c \in Client :
        /\ WF_timedVars(TimedStartListening(c))
        /\ WF_timedVars(Pong(c))
        /\ WF_timedVars(TimedLeave(c))

FairTimedSpec == TimedSpec /\ TimedFairness

-----------------------------------------------------------------------------
(* What the periods guarantee.                                             *)

\* A peer that answers its pings is never dropped by a read deadline, as
\* client.go:73 asks of pongWait and pingPeriod.
AnsweringPeerStays ==
    \A c \in Client :
        phase[c] = "listening" /\ link[c] = "answering" => timer[c] > Latency

\* While a connection of the user is pushed to or listened to, the key (if
\* nobody deleted it) outlives the read deadline: the 90 s of manager.go:57
\* and client.go:347 against the 60 s of client.go:73.
KeyOutlivesDeadline ==
    ~RedisMayFail =>
        \A c \in Client :
            /\ phase[c] \in {"pushing", "listening"}
            /\ status[Home[c]] # "released"
            /\ online[Owner[c]] # NoNode
            => ttl[Owner[c]] > timer[c] + (IF phase[c] = "pushing" THEN ReadDeadline ELSE 0)

\* A peer that vanished without closing its socket is unregistered all the
\* same, by its read deadline (client.go:86-97).
SilentPeerIsReaped ==
    \A c \in Client :
        phase[c] = "listening" /\ link[c] # "answering" ~> phase[c] # "listening"

\* A key that no connection keeps alive disappears: a crash, a failed DEL or a
\* Register after CloseAll leaves no user online for ever (manager.go:57).
GhostKeyLapses ==
    \A u \in User :
        online[u] # NoNode /\ ~Served(u) ~> online[u] = NoNode \/ Served(u)

=============================================================================
