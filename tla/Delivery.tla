------------------------------- MODULE Delivery -------------------------------
(***************************************************************************)
(* The way of a message through internal/ws/client.go, internal/router and *)
(* the message tables, on top of the registry of Presence.                 *)
(*                                                                         *)
(* ListenMsg of a sender stores the message, marks it read for the sender, *)
(* looks for the receiver in the map of its own node and, failing that, in *)
(* Redis, and hands the message to the receiver's Send channel or to the   *)
(* subscriber of the receiver's node.  DeliverMsg of the receiver writes   *)
(* what the channel holds to the websocket.  A new session is first sent   *)
(* everything above the user's high-water mark.                            *)
(*                                                                         *)
(* Each access to a lock, to Redis, to MySQL or to a channel is a step.    *)
(* The conversation of two users exists from the start, and the update of  *)
(* its last message over RabbitMQ does not matter to delivery.             *)
(***************************************************************************)
EXTENDS Presence, Sequences

CONSTANTS
    Talk,            \* <<u, v>>: u may write to v
    MaxMsgs,         \* bound on the messages stored
    Capacity,        \* SendBufferSize, client.go:24
    PubSubMayLose,   \* whether Redis may drop a published message
    MySQLMayFail     \* whether a statement may return an error

ASSUME DeliveryAssumption ==
    /\ Talk \subseteq {p \in User \X User : p[1] # p[2]}
    /\ MaxMsgs \in Nat /\ Capacity \in Nat \ {0}
    /\ PubSubMayLose \in BOOLEAN /\ MySQLMayFail \in BOOLEAN

VARIABLES
    rows,       \* table messages, in the order of the ids
    lastRead,   \* lastRead[u][v]: last_read_msg_id of u in the chat with v
    job,        \* job[c]: where ListenMsg of c stands in handleChatMsg
    send,       \* send[c]: the ids in the channel c.Send
    writer,     \* clients whose DeliverMsg has not given up on an error
    loaded,     \* clients whose DeliverUnreadMsg has read the tables
    unread,     \* unread[c]: the rows it has still to write
    gone,       \* clients whose peer is gone or whose connection is closed
    forward,    \* forward[n]: messages published for n, not yet handled
    sub,        \* sub[n]: where handlerForwardMsg of n stands
    received,   \* received[c]: ids that reached the peer of c
    panicked    \* nodes whose process died of a send on a closed channel

msgVars == <<rows, lastRead, received>>
chanVars == <<job, send, writer, loaded, unread, gone, forward, sub, panicked>>
deliveryVars == <<clients, online, gauge, phase, kick, status, snap,
                  rows, lastRead, job, send, writer, loaded, unread, gone,
                  forward, sub, received, panicked>>

Id == 1 .. MaxMsgs
Row == [from : User, to : User]

\* stored: CreateMessage returned.  marked: UpdateLastReadMsgID returned.
\* local: targetClient found in the map.  remote: not found there.
\* forward: GET named another node.
Job == [step : {"idle"}]
       \cup [step : {"stored", "marked", "remote"}, to : User, id : Id]
       \cup [step : {"local"}, to : User, id : Id, client : Client]
       \cup [step : {"forward"}, to : User, id : Id, node : Node]
Idle == [step |-> "idle"]

\* handlerForwardMsg between its lookup in the map and DeliverTotalMsg.
Handover == [step : {"local"}, id : Id, client : Client] \cup {Idle}

DeliveryTypeOK ==
    /\ PresenceTypeOK
    /\ rows \in Seq(Row) /\ Len(rows) <= MaxMsgs
    /\ lastRead \in [User -> [User -> 0 .. MaxMsgs]]
    /\ job \in [Client -> Job]
    /\ send \in [Client -> Seq(Id)] /\ \A c \in Client : Len(send[c]) <= Capacity
    /\ writer \subseteq Client /\ loaded \subseteq Client /\ gone \subseteq Client
    /\ unread \in [Client -> SUBSET Id]
    /\ forward \in [Node -> Seq([to : User, id : Id])]
    /\ sub \in [Node -> Handover]
    /\ received \in [Client -> SUBSET Id]
    /\ panicked \subseteq Node

DeliveryInit ==
    /\ PresenceInit
    /\ rows = <<>>
    /\ lastRead = [u \in User |-> [v \in User |-> 0]]
    /\ job = [c \in Client |-> Idle]
    /\ send = [c \in Client |-> <<>>]
    /\ writer = Client
    /\ loaded = {} /\ gone = {} /\ panicked = {}
    /\ unread = [c \in Client |-> {}]
    /\ forward = [n \in Node |-> <<>>]
    /\ sub = [n \in Node |-> Idle]
    /\ received = [c \in Client |-> {}]

-----------------------------------------------------------------------------
(* Helpers.                                                                *)

Partner(u, row) == IF row.from = u THEN row.to ELSE row.from

\* UPDATE conversation_members SET last_read_msg_id = i WHERE the row is u's
\* in the conversation of message i and last_read_msg_id < i.  Slip: without
\* the comparison.
MarkReadAnyway(u, i) == lastRead' = [lastRead EXCEPT ![u][Partner(u, rows[i])] = i]
MarkRead(u, i) ==
    lastRead' = [lastRead EXCEPT ![u][Partner(u, rows[i])] = IF @ < i THEN i ELSE @]

\* SELECT of GetUnreadConversationMsgByUserID: the messages of all of u's
\* conversations above u's mark, u's own included.  Slip: one id too high.
UnreadOfSkipping(u) ==
    {i \in 1 .. Len(rows) :
        /\ u \in {rows[i].from, rows[i].to}
        /\ i > lastRead[u][Partner(u, rows[i])] + 1}
UnreadOf(u) ==
    {i \in 1 .. Len(rows) :
        /\ u \in {rows[i].from, rows[i].to}
        /\ i > lastRead[u][Partner(u, rows[i])]}

\* Its ORDER BY id: the row that is written next.  Slip: the newest first.
NewestFirst(S) == {i \in S : \A j \in S : i >= j}
InOrder(S) == {i \in S : \A j \in S : i <= j}

\* The goroutines of node n are gone with their channels.
Lost(n) ==
    LET mine == {c \in Client : Home[c] = n /\ phase[c] # "new"} IN
    /\ Vanish(n)
    /\ job' = [c \in Client |-> IF c \in mine THEN Idle ELSE job[c]]
    /\ send' = [c \in Client |-> IF c \in mine THEN <<>> ELSE send[c]]
    /\ unread' = [c \in Client |-> IF c \in mine THEN {} ELSE unread[c]]
    /\ gone' = gone \cup mine
    /\ forward' = [forward EXCEPT ![n] = <<>>]
    /\ sub' = [sub EXCEPT ![n] = Idle]
    /\ UNCHANGED <<msgVars, writer, loaded>>

\* DeliverTotalMsg: the send on c.Send panics if the channel is closed, and
\* takes the whole process along; into a full channel it does not happen, and
\* "go Manager.Unregister(c)" starts.  Slip: a channel without a bound.
EnqueueAlways(c, i) ==
    /\ phase[c] # "closed"
    /\ send' = [send EXCEPT ![c] = Append(@, i)]
    /\ UNCHANGED presenceVars
Enqueue(c, i) ==
    /\ phase[c] # "closed" /\ Len(send[c]) < Capacity
    /\ send' = [send EXCEPT ![c] = Append(@, i)]
    /\ UNCHANGED presenceVars
KickFull(c) ==
    /\ phase[c] # "closed" /\ Len(send[c]) = Capacity
    /\ IF kick[c] = "none" THEN SpawnKick(c) ELSE UNCHANGED presenceVars
    /\ UNCHANGED send
Panic(c) ==
    /\ phase[c] = "closed"
    /\ panicked' = panicked \cup {Home[c]}
    /\ Lost(Home[c])

-----------------------------------------------------------------------------
(* A session.                                                              *)

\* DeliverUnreadMsg reads the tables; after an error it has nothing to write.
\* Slip: to read them before Register.
LoadUnreadEarly(c) ==
    /\ phase[c] = "upgraded" /\ c \notin loaded
    /\ loaded' = loaded \cup {c}
    /\ unread' = [unread EXCEPT ![c] = UnreadOf(Owner[c])]
    /\ UNCHANGED <<presenceVars, msgVars, job, send, writer, gone, forward, sub, panicked>>
LoadUnread(c) ==
    /\ phase[c] = "pushing" /\ c \notin loaded
    /\ loaded' = loaded \cup {c}
    /\ \/ unread' = [unread EXCEPT ![c] = UnreadOf(Owner[c])]
       \/ MySQLMayFail /\ UNCHANGED unread
    /\ UNCHANGED <<presenceVars, msgVars, job, send, writer, gone, forward, sub, panicked>>

\* It writes one row.  A write to a peer that is gone may still succeed on
\* this side; when it fails DeliverUnreadMsg returns.
PushUnread(c) ==
    /\ phase[c] = "pushing"
    /\ \E i \in InOrder(unread[c]) :
       \/ /\ c \notin gone
          /\ received' = [received EXCEPT ![c] = @ \cup {i}]
          /\ unread' = [unread EXCEPT ![c] = @ \ {i}]
       \/ /\ c \in gone /\ UNCHANGED received
          /\ \E rest \in {unread[c] \ {i}, {}} : unread' = [unread EXCEPT ![c] = rest]
    /\ UNCHANGED <<presenceVars, rows, lastRead, job, send, writer, loaded, gone, forward, sub, panicked>>

Listen(c) ==
    /\ c \in loaded /\ unread[c] = {}
    /\ StartListening(c)
    /\ UNCHANGED <<msgVars, chanVars>>

\* DeliverMsg takes the next message and writes it; after an error it never
\* comes back, and the channel fills up.
WriteSend(c) ==
    /\ phase[c] \in {"listening", "clearing", "closing"}
    /\ c \in writer /\ send[c] # <<>>
    /\ send' = [send EXCEPT ![c] = Tail(@)]
    /\ \/ /\ c \notin gone
          /\ received' = [received EXCEPT ![c] = @ \cup {Head(send[c])}]
          /\ UNCHANGED writer
       \/ /\ c \in gone /\ UNCHANGED received
          /\ writer' \in {writer, writer \ {c}}
    /\ UNCHANGED <<presenceVars, rows, lastRead, job, loaded, unread, gone, forward, sub, panicked>>

\* The peer closes the connection or vanishes.
PeerGoes(c) ==
    /\ phase[c] \in {"upgraded", "registering", "pushing", "listening"} /\ c \notin gone
    /\ gone' = gone \cup {c}
    /\ UNCHANGED <<presenceVars, msgVars, job, send, writer, loaded, unread, forward, sub, panicked>>

\* ReadMessage fails: between two messages, and only on a dead connection.
Hangup(c) ==
    /\ c \in gone /\ job[c] = Idle
    /\ Leave(c)
    /\ UNCHANGED <<msgVars, chanVars>>

\* Conn.Close and close(c.Send): what the channel holds can only be written
\* to a closed connection.
CloseSend(c) ==
    /\ Close(c)
    /\ send' = [send EXCEPT ![c] = <<>>]
    /\ UNCHANGED <<msgVars, job, writer, loaded, unread, gone, forward, sub, panicked>>

\* handleACKMsg, for a message the peer has received on this connection; an
\* error of UpdateLastReadMsgID changes nothing.
Ack(c, i) ==
    /\ phase[c] = "listening" /\ job[c] = Idle /\ i \in received[c]
    /\ MarkRead(Owner[c], i)
    /\ UNCHANGED <<presenceVars, rows, received, chanVars>>

-----------------------------------------------------------------------------
(* handleChatMsg.                                                          *)

\* The receiver exists and the conversation is found (Talk), CreateMessage
\* stores; after any error before that handleChatMsg returns, which changes
\* nothing.
Chat(c, v) ==
    /\ phase[c] = "listening" /\ job[c] = Idle
    /\ <<Owner[c], v>> \in Talk /\ Len(rows) < MaxMsgs
    /\ rows' = Append(rows, [from |-> Owner[c], to |-> v])
    /\ job' = [job EXCEPT ![c] = [step |-> "stored", to |-> v, id |-> Len(rows) + 1]]
    /\ UNCHANGED <<presenceVars, lastRead, received, send, writer, loaded, unread, gone, forward, sub, panicked>>

\* UpdateLastReadMsgID for the sender's own message; an error is only logged.
MarkOwn(c) ==
    /\ job[c].step = "stored"
    /\ \/ MarkRead(Owner[c], job[c].id)
       \/ MySQLMayFail /\ UNCHANGED lastRead
    /\ job' = [job EXCEPT ![c].step = "marked"]
    /\ UNCHANGED <<presenceVars, rows, received, send, writer, loaded, unread, gone, forward, sub, panicked>>

\* The lookup in the node's own map.
FindClient(c) ==
    /\ job[c].step = "marked"
    /\ LET t == clients[Home[c]][job[c].to] IN
       job' = [job EXCEPT ![c] =
                 IF t = NoClient THEN [@ EXCEPT !.step = "remote"]
                 ELSE [step |-> "local", to |-> @.to, id |-> @.id, client |-> t]]
    /\ UNCHANGED <<presenceVars, msgVars, send, writer, loaded, unread, gone, forward, sub, panicked>>

\* DeliverTotalMsg to the client found, whatever became of it.
DeliverLocal(c) ==
    /\ job[c].step = "local"
    /\ \/ /\ Enqueue(job[c].client, job[c].id) \/ KickFull(job[c].client)
          /\ job' = [job EXCEPT ![c] = Idle]
          /\ UNCHANGED <<msgVars, writer, loaded, unread, gone, forward, sub, panicked>>
       \/ Panic(job[c].client)

\* GetOnlineNode: an error, no key, or the own node end the delivery.
FindNode(c) ==
    /\ job[c].step = "remote"
    /\ LET n == online[job[c].to] IN
       \/ /\ RedisAnswers(Home[c]) /\ n \notin {NoNode, Home[c]}
          /\ job' = [job EXCEPT ![c] =
                       [step |-> "forward", to |-> @.to, id |-> @.id, node |-> n]]
       \/ /\ RedisErrs(Home[c]) \/ n \in {NoNode, Home[c]}
          /\ job' = [job EXCEPT ![c] = Idle]
    /\ UNCHANGED <<presenceVars, msgVars, send, writer, loaded, unread, gone, forward, sub, panicked>>

\* PublishForward: Redis hands the message to the subscribers there are.
Publish(c) ==
    /\ job[c].step = "forward"
    /\ LET n == job[c].node
           m == [to |-> job[c].to, id |-> job[c].id]
       IN \/ /\ RedisAnswers(Home[c]) /\ status[n] \notin {"released", "down"}
             /\ forward' = [forward EXCEPT ![n] = Append(@, m)]
          \/ /\ PubSubMayLose \/ RedisErrs(Home[c]) \/ status[n] \in {"released", "down"}
             /\ UNCHANGED forward
    /\ job' = [job EXCEPT ![c] = Idle]
    /\ UNCHANGED <<presenceVars, msgVars, send, writer, loaded, unread, gone, sub, panicked>>

-----------------------------------------------------------------------------
(* The subscriber of a node: handlerForwardMsg, one message at a time.     *)

ReceiveForward(n) ==
    /\ sub[n] = Idle /\ forward[n] # <<>>
    /\ LET m == Head(forward[n])  t == clients[n][m.to] IN
       sub' = [sub EXCEPT ![n] =
                 IF t = NoClient THEN Idle
                 ELSE [step |-> "local", id |-> m.id, client |-> t]]
    /\ forward' = [forward EXCEPT ![n] = Tail(@)]
    /\ UNCHANGED <<presenceVars, msgVars, job, send, writer, loaded, unread, gone, panicked>>

DeliverForwarded(n) ==
    /\ sub[n] # Idle
    /\ \/ /\ Enqueue(sub[n].client, sub[n].id) \/ KickFull(sub[n].client)
          /\ sub' = [sub EXCEPT ![n] = Idle]
          /\ UNCHANGED <<msgVars, job, writer, loaded, unread, gone, forward, panicked>>
       \/ Panic(sub[n].client)

-----------------------------------------------------------------------------
(* The rest of Presence.                                                   *)

RegistryStep(c) ==
    /\ \/ RegisterEntry(c) \/ RegisterOnline(c) \/ ClearOnline(c)
       \/ KickEntry(c) \/ KickOnline(c)
    /\ UNCHANGED <<msgVars, chanVars>>

Connect(c) == Accept(c) /\ UNCHANGED <<msgVars, chanVars>>

\* CloseAll closes the connections; StopSubscribe and Close end the
\* subscription; the end of the process ends everything.
ShutdownStep(n) ==
    \/ /\ CloseAllClear(n)
       /\ gone' = gone \cup snap[n]
       /\ UNCHANGED <<msgVars, job, send, writer, loaded, unread, forward, sub, panicked>>
    \/ /\ Release(n)
       /\ forward' = [forward EXCEPT ![n] = <<>>]
       /\ UNCHANGED <<msgVars, job, send, writer, loaded, unread, gone, sub, panicked>>
    \/ /\ BeginShutdown(n) \/ CloseAllCollect(n) \/ Restart(n)
       /\ UNCHANGED <<msgVars, chanVars>>
    \/ /\ status[n] = "released" \/ (n \in Stoppable /\ Running(n))
       /\ Lost(n) /\ UNCHANGED panicked

ClientStep(c) ==
    \/ RegistryStep(c) \/ LoadUnread(c) \/ PushUnread(c) \/ Listen(c)
    \/ WriteSend(c) \/ Hangup(c) \/ CloseSend(c)
    \/ MarkOwn(c) \/ FindClient(c) \/ DeliverLocal(c) \/ FindNode(c) \/ Publish(c)

DeliveryNext ==
    \/ \E c \in Client :
          \/ ClientStep(c) \/ Connect(c) \/ PeerGoes(c)
          \/ \E v \in User : Chat(c, v)
          \/ \E i \in Id : Ack(c, i)
    \/ \E n \in Node : ReceiveForward(n) \/ DeliverForwarded(n) \/ ShutdownStep(n)
    \/ \E u \in User : KeyExpires(u) /\ UNCHANGED <<msgVars, chanVars>>

DeliverySpec == DeliveryInit /\ [][DeliveryNext]_deliveryVars

\* The goroutines of every node run, each connection's and the subscriber's;
\* whether users connect, write, acknowledge or go is up to them.
DeliveryFairness ==
    /\ \A c \in Client : WF_deliveryVars(ClientStep(c))
    /\ \A n \in Node : WF_deliveryVars(ReceiveForward(n) \/ DeliverForwarded(n))

FairDeliverySpec == DeliverySpec /\ DeliveryFairness

-----------------------------------------------------------------------------
(* What delivery guarantees.                                               *)

\* What the devices of u have seen.
SeenBy(u) == UNION {received[c] : c \in {d \in Client : Owner[d] = u}}

\* The service as its users see it.
Promise == INSTANCE Inbox WITH
    msgs <- rows, seen <- [u \in User |-> SeenBy(u)], mark <- lastRead

\* Whatever connections, nodes, queues and the registry do, a message reaches
\* only its two parties and only once it is stored, and a mark moves only
\* upwards and only to a message its user saw or sent (client.go:211-300,
\* conversationMember.go:60-68, 151-164).
KeepsPromise == Promise!Spec

\* Nothing of u's is under way: no sender and no subscriber works for u.
NothingFor(u) ==
    /\ \A c \in Client : job[c] # Idle => job[c].to # u
    /\ \A n \in Node :
        /\ sub[n] # Idle => Owner[sub[n].client] # u
        /\ \A k \in 1 .. Len(forward[n]) : forward[n][k].to # u

\* A live session in full operation, the only one of its user.
Settled(c) ==
    /\ phase[c] = "listening" /\ clients[Home[c]][Owner[c]] = c
    /\ c \notin gone /\ Owner[c] \in Exclusive

\* Nothing went wrong that the design leaves to the next reconnect: no fault,
\* no panic, and no Send buffer that ran full.
Undisturbed ==
    /\ panicked = {} /\ Stoppable = {}
    /\ ~RedisMayFail /\ ~PubSubMayLose /\ ~MySQLMayFail
    /\ \A c \in Client : kick[c] = "none"

\* One session at a time, all on one node: the messages of such a user to
\* another take one way, and cannot overtake each other.
Steady(v) ==
    /\ v \in Exclusive
    /\ \A c, d \in Client : Owner[c] = v /\ Owner[d] = v => Home[c] = Home[d]

\* The receiver of message i wrote back later, which marks i as read
\* (client.go:235), seen or not.
AnsweredAfter(i) ==
    \E j \in i + 1 .. Len(rows) : rows[j] = [from |-> rows[i].to, to |-> rows[i].from]

\* The messages that must not be lost.
Promised(i) == Steady(rows[i].from) /\ rows[i].to \in Exclusive /\ ~AnsweredAfter(i)

\* No message falls between the tables and the live path: when nothing is
\* under way, a listening session has got every message written to its user.
\* Register comes before the tables are read (handler/user.go:40-43), so a
\* sender that does not find the session has stored its message in time.
NoGap ==
    \A c \in Client :
        Undisturbed /\ Settled(c) /\ NothingFor(Owner[c]) /\ send[c] = <<>> =>
            \A i \in 1 .. Len(rows) :
                rows[i].to = Owner[c] /\ Promised(i) => i \in SeenBy(Owner[c])

\* A message below the mark of its receiver was seen by the receiver: the
\* mark, a single number, never passes over a message that is still to come
\* (conversationMember.go:62, 157).
NoUnreadSkipped ==
    Undisturbed =>
        \A i \in 1 .. Len(rows) :
            Promised(i) /\ lastRead[rows[i].to][rows[i].from] >= i
            => i \in SeenBy(rows[i].to)

\* The connections of users somebody may write to.
Receiving == {c \in Client : \E v \in User : <<v, Owner[c]>> \in Talk}

\* A stored message reaches a session that stays, at last.
StoredIsDelivered ==
    \A i \in Id, c \in Receiving :
        LET Awaited == /\ i <= Len(rows) /\ rows[i].to = Owner[c] /\ Promised(i)
                       /\ Settled(c) /\ Undisturbed
        IN Awaited ~> i \in SeenBy(Owner[c]) \/ ~Awaited

\* Whatever way the live path loses a message, a full channel, a writer that
\* gave up, a lost publish, a dead node, the next session that stays is sent
\* it at last, unless the mark has passed it (handler/user.go:40-43,
\* client.go:393-436).  It needs MySQL to answer.
NextSessionBrings ==
    \A i \in Id, c \in Receiving :
        LET Missed == /\ i <= Len(rows) /\ rows[i].to = Owner[c] /\ i \notin SeenBy(Owner[c])
                      /\ lastRead[Owner[c]][rows[i].from] < i
        IN ~MySQLMayFail /\ phase[c] = "upgraded" /\ Missed ~> ~Missed \/ c \in gone

-----------------------------------------------------------------------------
(* What a comment promises and the code does not keep.                     *)

\* resume.md:12 leaves every undelivered message to "ACK + reconnect".  A
\* message is beyond that when its receiver has not seen it, nothing brings it
\* any more, and the mark has passed it, so that no reconnect loads it.
ReconnectRecovers ==
    \A i \in 1 .. Len(rows) :
        LET u == rows[i].to IN
        /\ i \notin SeenBy(u) /\ NothingFor(u)
        /\ \A c \in Client : Owner[c] = u => send[c] = <<>> /\ unread[c] = {}
        => lastRead[u][rows[i].from] < i

\* client.go:319-320: the only send that cannot happen is one to a full
\* buffer.  A send on the channel its ListenMsg has closed meanwhile panics.
SendsOnlyToOpenChannels == panicked = {}

=============================================================================
