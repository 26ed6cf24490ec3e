------------------------------ MODULE Presence ------------------------------
(***************************************************************************)
(* The connection registry of internal/ws/manager.go: on every node the    *)
(* map ConnManager.clients from a user to that user's current Client, in   *)
(* Redis the key online:user:<id> that tells the other nodes where the     *)
(* user is, and the gauge metrics.OnlineUsers.                             *)
(*                                                                         *)
(* A client object is created by one WsConnect and never reused, so its    *)
(* user and its node are constants.  ConnManager.mu makes the map accesses *)
(* atomic; the Redis commands and the gauge come after the unlock and are  *)
(* steps of their own, so every interleaving of them is a behaviour.       *)
(*                                                                         *)
(* Time is abstract here: a key may expire whenever no connection of its   *)
(* user is being served.  PresenceTimed derives that from the code's       *)
(* periods and shows that it implements this module.                       *)
(***************************************************************************)
EXTENDS Integers, FiniteSets

CONSTANTS
    Node,          \* server instances, named by node.GetNodeID()
    User,          \* user ids
    Client,        \* *Client objects, each made by one WsConnect call
    NoNode,        \* the answer redis.Nil to GET online:user:<id>
    NoClient,      \* a missing map entry
    Owner,         \* Owner[c] is c.UserID
    Home,          \* Home[c] is the node whose ConnManager c registers with
    Exclusive,     \* users who open a session only after their last is gone
    Stoppable,     \* nodes that may shut down, crash and restart
    RedisMayFail   \* whether a Redis command may time out or be refused

ASSUME PresenceAssumption ==
    /\ Owner \in [Client -> User]
    /\ Home \in [Client -> Node]
    /\ NoNode \notin Node
    /\ NoClient \notin Client
    /\ Exclusive \subseteq User
    /\ Stoppable \subseteq Node
    /\ RedisMayFail \in BOOLEAN

VARIABLES
    clients,   \* clients[n][u]: ConnManager.clients of node n
    online,    \* online[u]: the value of online:user:<u> in Redis
    gauge,     \* gauge[n]: metrics.OnlineUsers of node n
    phase,     \* phase[c]: where c's WsConnect, then its ListenMsg, stands
    kick,      \* kick[c]: the goroutine "go Manager.Unregister(c)"
    status,    \* status[n]: where main() of node n stands
    snap       \* snap[n]: the clients CloseAll of node n is about to clear

presenceVars == <<clients, online, gauge, phase, kick, status, snap>>

\* new: not created.  upgraded: websocket open, Register not called.
\* registering: in the map, SET still to come.  pushing: DeliverUnreadMsg.
\* listening: the ListenMsg and DeliverMsg loops.  clearing: Unregister
\* deleted the map entry, DEL still to come.  closing: Unregister returned.
\* closed: the connection and the Send channel are closed.
Phase == {"new", "upgraded", "registering", "pushing", "listening",
          "clearing", "closing", "closed"}

\* none: not started.  spawned: started.  clearing: it deleted the map entry,
\* DEL still to come.  cleared: it finished.  void: it found another client
\* or nothing in the map, and returned.
Kick == {"none", "spawned", "clearing", "cleared", "void"}

\* draining: srv.Shutdown returned.  clearing: CloseAll has its snapshot.
\* drained: CloseAll returned.  released: redisdb.Close returned.
Status == {"up", "draining", "clearing", "drained", "released", "down"}

PresenceTypeOK ==
    /\ clients \in [Node -> [User -> Client \cup {NoClient}]]
    /\ online \in [User -> Node \cup {NoNode}]
    /\ gauge \in [Node -> Int]
    /\ phase \in [Client -> Phase]
    /\ kick \in [Client -> Kick]
    /\ status \in [Node -> Status]
    /\ snap \in [Node -> SUBSET Client]

PresenceInit ==
    /\ clients = [n \in Node |-> [u \in User |-> NoClient]]
    /\ online = [u \in User |-> NoNode]
    /\ gauge = [n \in Node |-> 0]
    /\ phase = [c \in Client |-> "new"]
    /\ kick = [c \in Client |-> "none"]
    /\ status = [n \in Node |-> "up"]
    /\ snap = [n \in Node |-> {}]

-----------------------------------------------------------------------------
(* Helpers.                                                                *)

Running(n) == status[n] # "down"

\* A Redis command of node n may take effect, or may return an error.
RedisAnswers(n) == status[n] # "released"
RedisErrs(n) == RedisMayFail \/ status[n] = "released"

\* The test of Unregister: the map still holds this very client.  Slips: to
\* test only that the user is in the map, or nothing.
HoldsSomeone(c) == clients[Home[c]][Owner[c]] # NoClient
HoldsAnything(c) == TRUE
Holds(c) == clients[Home[c]][Owner[c]] = c

\* The critical section of Unregister: delete the entry unless a newer
\* connection of the user took it over.
WithoutClient(c) ==
    IF Holds(c) THEN [clients EXCEPT ![Home[c]][Owner[c]] = NoClient]
                ELSE clients

\* SET online:user:<id> <node> EX 90, whose error is only logged.  Slip: the
\* client in place of the node.
SetOnlineClient(c) == online' = [online EXCEPT ![Owner[c]] = c]
SetOnline(c) ==
    \/ /\ RedisAnswers(Home[c])
       /\ online' = [online EXCEPT ![Owner[c]] = Home[c]]
    \/ RedisErrs(Home[c]) /\ UNCHANGED online

\* DEL online:user:<id> for the users us, whatever the keys hold.
DelOnline(n, us) ==
    \/ /\ RedisAnswers(n)
       /\ online' = [u \in User |-> IF u \in us THEN NoNode ELSE online[u]]
    \/ RedisErrs(n) /\ UNCHANGED online

\* Everything a session ever started is finished, and no CloseAll will still
\* delete its key.
Finished(c) ==
    /\ phase[c] = "closed"
    /\ kick[c] \notin {"spawned", "clearing"}
    /\ c \notin snap[Home[c]]

-----------------------------------------------------------------------------
(* Opening a connection: WsConnect and ConnManager.Register.               *)

\* WsConnect up to Upgrader.Upgrade; a node that shuts down accepts nothing.
Accept(c) ==
    /\ phase[c] = "new"
    /\ status[Home[c]] = "up"
    /\ Owner[c] \in Exclusive =>
         \A d \in Client \ {c} :
            Owner[d] = Owner[c] => phase[d] = "new" \/ Finished(d)
    /\ phase' = [phase EXCEPT ![c] = "upgraded"]
    /\ UNCHANGED <<clients, online, gauge, kick, status, snap>>

\* Register under the lock: the newest connection takes the user's entry.
RegisterEntry(c) ==
    /\ phase[c] = "upgraded"
    /\ Running(Home[c])
    /\ clients' = [clients EXCEPT ![Home[c]][Owner[c]] = c]
    /\ phase' = [phase EXCEPT ![c] = "registering"]
    /\ UNCHANGED <<online, gauge, kick, status, snap>>

\* The rest of Register: publish the node in Redis, then count the user.
RegisterOnline(c) ==
    /\ phase[c] = "registering"
    /\ SetOnline(c)
    /\ gauge' = [gauge EXCEPT ![Home[c]] = @ + 1]
    /\ phase' = [phase EXCEPT ![c] = "pushing"]
    /\ UNCHANGED <<clients, kick, status, snap>>

\* DeliverUnreadMsg returns; ListenMsg and DeliverMsg start.
StartListening(c) ==
    /\ phase[c] = "pushing"
    /\ phase' = [phase EXCEPT ![c] = "listening"]
    /\ UNCHANGED <<clients, online, gauge, kick, status, snap>>

-----------------------------------------------------------------------------
(* Closing a connection: the deferred function of ListenMsg.               *)

\* ReadMessage fails and Unregister runs its critical section.  Slip: a defer
\* that closes the connection and forgets to unregister it.
LeaveRegistered(c) ==
    /\ phase[c] = "listening"
    /\ phase' = [phase EXCEPT ![c] = "closing"]
    /\ UNCHANGED <<clients, online, gauge, kick, status, snap>>
Leave(c) ==
    /\ phase[c] = "listening"
    /\ clients' = WithoutClient(c)
    /\ phase' = [phase EXCEPT ![c] = IF Holds(c) THEN "clearing" ELSE "closing"]
    /\ UNCHANGED <<online, gauge, kick, status, snap>>

\* The rest of that Unregister: delete the Redis key, uncount the user.
ClearOnline(c) ==
    /\ phase[c] = "clearing"
    /\ DelOnline(Home[c], {Owner[c]})
    /\ gauge' = [gauge EXCEPT ![Home[c]] = @ - 1]
    /\ phase' = [phase EXCEPT ![c] = "closing"]
    /\ UNCHANGED <<clients, kick, status, snap>>

\* Conn.Close and close(c.Send).
Close(c) ==
    /\ phase[c] = "closing"
    /\ phase' = [phase EXCEPT ![c] = "closed"]
    /\ UNCHANGED <<clients, online, gauge, kick, status, snap>>

-----------------------------------------------------------------------------
(* Kicking a client whose Send buffer is full: DeliverTotalMsg starts      *)
(* "go Manager.Unregister(c)" and nothing closes the connection.  A second *)
(* goroutine for the same client finds the entry gone, as void does.       *)

SpawnKick(c) ==
    /\ phase[c] \notin {"new", "upgraded", "closed"}
    /\ kick[c] = "none"
    /\ kick' = [kick EXCEPT ![c] = "spawned"]
    /\ UNCHANGED <<clients, online, gauge, phase, status, snap>>

KickEntry(c) ==
    /\ kick[c] = "spawned"
    /\ clients' = WithoutClient(c)
    /\ kick' = [kick EXCEPT ![c] = IF Holds(c) THEN "clearing" ELSE "void"]
    /\ UNCHANGED <<online, gauge, phase, status, snap>>

KickOnline(c) ==
    /\ kick[c] = "clearing"
    /\ DelOnline(Home[c], {Owner[c]})
    /\ gauge' = [gauge EXCEPT ![Home[c]] = @ - 1]
    /\ kick' = [kick EXCEPT ![c] = "cleared"]
    /\ UNCHANGED <<clients, phase, status, snap>>

-----------------------------------------------------------------------------
(* A node stops: the shutdown sequence of main(), or a crash.              *)

\* srv.Shutdown returns: no new connection, but it neither waits for nor
\* closes hijacked websocket connections.
BeginShutdown(n) ==
    /\ n \in Stoppable /\ status[n] = "up"
    /\ status' = [status EXCEPT ![n] = "draining"]
    /\ UNCHANGED <<clients, online, gauge, phase, kick, snap>>

\* CloseAll under the lock: collect the keys and connections; with an empty
\* map it returns at once.
CloseAllCollect(n) ==
    /\ status[n] = "draining"
    /\ LET held == {clients[n][u] : u \in User} \ {NoClient} IN
         /\ snap' = [snap EXCEPT ![n] = held]
         /\ status' = [status EXCEPT ![n] =
                          IF held = {} THEN "drained" ELSE "clearing"]
    /\ UNCHANGED <<clients, online, gauge, phase, kick>>

\* CloseAll after the unlock: one DEL for all keys, then close each
\* connection; the entries stay in the map until their ListenMsg leaves.
CloseAllClear(n) ==
    /\ status[n] = "clearing"
    /\ DelOnline(n, {Owner[c] : c \in snap[n]})
    /\ status' = [status EXCEPT ![n] = "drained"]
    /\ snap' = [snap EXCEPT ![n] = {}]
    /\ UNCHANGED <<clients, gauge, phase, kick>>

\* redisdb.Close: later Redis commands of this process fail.
Release(n) ==
    /\ status[n] = "drained"
    /\ status' = [status EXCEPT ![n] = "released"]
    /\ UNCHANGED <<clients, online, gauge, phase, kick, snap>>

\* The process ends: its goroutines, its map and its gauge are gone; what it
\* wrote to Redis stays.
Vanish(n) ==
    /\ clients' = [clients EXCEPT ![n] = [u \in User |-> NoClient]]
    /\ gauge' = [gauge EXCEPT ![n] = 0]
    /\ phase' = [c \in Client |-> IF Home[c] = n /\ phase[c] # "new"
                                  THEN "closed" ELSE phase[c]]
    /\ kick' = [c \in Client |-> IF Home[c] = n /\ phase[c] # "new"
                                 THEN "void" ELSE kick[c]]
    /\ status' = [status EXCEPT ![n] = "down"]
    /\ snap' = [snap EXCEPT ![n] = {}]
    /\ UNCHANGED online

Exit(n) == status[n] = "released" /\ Vanish(n)

Crash(n) == n \in Stoppable /\ Running(n) /\ Vanish(n)

\* main() runs again under the same node id.
Restart(n) ==
    /\ status[n] = "down"
    /\ status' = [status EXCEPT ![n] = "up"]
    /\ UNCHANGED <<clients, online, gauge, phase, kick, snap>>

-----------------------------------------------------------------------------
(* Redis lets a key expire.  While a connection of the user is served its  *)
(* pongs renew the key in time, unless Redis refuses the renewal.          *)

Served(u) ==
    \E c \in Client :
        /\ Owner[c] = u /\ phase[c] \in {"pushing", "listening"}
        /\ RedisAnswers(Home[c])

MayExpire(u) == online[u] # NoNode /\ (RedisMayFail \/ ~Served(u))

KeyExpires(u) ==
    /\ MayExpire(u)
    /\ online' = [online EXCEPT ![u] = NoNode]
    /\ UNCHANGED <<clients, gauge, phase, kick, status, snap>>

-----------------------------------------------------------------------------
SessionStep(c) ==
    \/ RegisterEntry(c) \/ RegisterOnline(c) \/ StartListening(c)
    \/ Leave(c) \/ ClearOnline(c) \/ Close(c)
    \/ KickEntry(c) \/ KickOnline(c)

NodeStep(n) ==
    \/ BeginShutdown(n) \/ CloseAllCollect(n) \/ CloseAllClear(n)
    \/ Release(n) \/ Exit(n) \/ Crash(n) \/ Restart(n)

PresenceNext ==
    \/ \E c \in Client : Accept(c) \/ SpawnKick(c) \/ SessionStep(c)
    \/ \E n \in Node : NodeStep(n)
    \/ \E u \in User : KeyExpires(u)

PresenceSpec == PresenceInit /\ [][PresenceNext]_presenceVars

-----------------------------------------------------------------------------
(* What the registry guarantees.                                           *)

\* A map entry is a client of that user and that node whose Unregister has
\* not run.  So nobody can look up a client whose Send channel is closed: a
\* delivery can only meet a closed channel through a pointer it read before
\* (manager.go:69-76 against client.go:79-85).
EntryIsServed ==
    \A n \in Node, u \in User :
        LET c == clients[n][u] IN
        c # NoClient =>
            /\ Owner[c] = u /\ Home[c] = n
            /\ phase[c] \in {"registering", "pushing", "listening"}
            /\ kick[c] \in {"none", "spawned"}

\* An entry disappears only by an Unregister of the very client it holds, is
\* replaced only by a connection that registers, or goes down with its node:
\* the late Unregister of a replaced connection never evicts its successor
\* (manager.go:70-74).
EntryRemovedByOwn ==
    [][\A n \in Node, u \in User :
        LET c == clients[n][u]  d == clients'[n][u] IN
        c # NoClient /\ d # c =>
            \/ d # NoClient /\ phase[d] = "upgraded"
            \/ d = NoClient /\ phase[c] # phase'[c]
            \/ d = NoClient /\ kick[c] # kick'[c]
            \/ status'[n] = "down"]_presenceVars

\* OnlineUsers never counts fewer than the users the node serves or is about
\* to uncount: each session is uncounted at most once, although both its own
\* Unregister and a kick may run for it (manager.go:63, 76, 88).
GaugeNeverUndercounts ==
    \A n \in Node :
        LET mine == {c \in Client : Home[c] = n}
            counted == {c \in mine :
                \/ phase[c] \in {"pushing", "listening"} /\ clients[n][Owner[c]] = c
                \/ phase[c] = "clearing"
                \/ kick[c] = "clearing" /\ phase[c] # "registering"}
            early == {c \in mine : phase[c] = "registering" /\ kick[c] = "cleared"}
        IN gauge[n] >= Cardinality(counted) - Cardinality(early)

\* A user with one session at a time is visible to the other nodes for as
\* long as the session holds its map entry: neither an expiry nor the
\* cleanup of an earlier session removes the key (manager.go:55-57, 78-83).
\* It needs Redis to answer and the user's node not to be shutting down.
VisibleWhenExclusive ==
    \A c \in Client :
        LET n == Home[c]  u == Owner[c] IN
        /\ u \in Exclusive /\ ~RedisMayFail /\ status[n] \in {"up", "draining", "clearing"}
        /\ phase[c] \in {"pushing", "listening"} /\ clients[n][u] = c
        => online[u] = n

-----------------------------------------------------------------------------
(* What the comments promise and the code does not keep.                   *)

\* manager.go:77: Redis is cleaned only by the client that is the user's
\* active one.  The entry was checked before the unlock, and only on the own
\* node, so by the time of the DEL a newer session may be in its place, with
\* its SET done, and the key that goes is that session's.
ClearsOnlyOwnKey ==
    [][\A c, d \in Client :
        /\ ClearOnline(c) /\ online'[Owner[c]] = NoNode
        /\ Owner[d] = Owner[c] /\ phase[d] \in {"pushing", "listening"}
        /\ clients[Home[d]][Owner[d]] = d
        => online[Owner[d]] # Home[d]]_presenceVars

\* metrics.go:37 calls OnlineUsers the current number of online users.  A
\* connection that was replaced is counted on entry and never uncounted.
GaugeIsUsersOnline ==
    \A n \in Node :
        (\A c \in Client : Home[c] = n =>
            /\ phase[c] \in {"new", "listening", "closed"}
            /\ kick[c] \notin {"spawned", "clearing"})
        => gauge[n] = Cardinality({u \in User : clients[n][u] # NoClient})

=============================================================================
