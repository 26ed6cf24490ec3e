----------------------------- MODULE Conversation -----------------------------
(***************************************************************************)
(* The first half of handleChatMsg (internal/ws/client.go): the receiver   *)
(* is looked up (Accounts), the conversation of the two users is found or  *)
(* created, and the message is stored in it.                               *)
(*                                                                         *)
(* Nothing makes finding and creating atomic: the row of the conversation, *)
(* its entry in Redis and its two rows of conversation_members are written *)
(* one after the other, every write may fail, and the process may die      *)
(* between any two.  What happens to a stored message is the subject of    *)
(* Delivery and ConvUpdate.                                                *)
(***************************************************************************)
EXTENDS Accounts

CONSTANTS
    Who,        \* Who[h]: the user of the session of handler h
    MaxChats    \* bound on the chat messages that come in

ASSUME ConversationAssumption == Who \in [Handler -> UserId] /\ MaxChats \in Nat

VARIABLES
    chat,       \* chat[h]: where handleChatMsg of h stands, past the lookup
    chats,      \* chat messages that came in
    convs,      \* table conversations in the order of the ids
    members,    \* table conversation_members: <<conversation, user>>
    convCache,  \* convCache[p]: the id under conv:exist of the pair, or 0
    messages,   \* table messages
    orphans     \* history: conversations whose creator failed or died early

conversationVars == <<chat, chats, convs, members, convCache, messages, orphans>>
allVars == <<users, reg, userCache, ttl, lookup, chat, chats, convs, members,
             convCache, messages, orphans>>

ConvId == 1 .. MaxChats

\* The key of two users does not depend on who asks.
Pair(u, v) == {u, v}
Pairs == {Pair(u, v) : u \in UserId, v \in UserId}

\* search: to read MySQL.  cachefound: to write Redis.  create: to insert the
\* conversation.  cachenew, join, jointarget: what follows it.  store: to
\* insert the message.  known: the complete conversations of the pair when
\* the search for one began (history).
Chat == [step : {"idle"}]
        \cup [step : {"search", "create"}, to : UserId, known : SUBSET ConvId]
        \cup [step : {"cachefound", "cachenew", "join", "jointarget", "store"},
              to : UserId, known : SUBSET ConvId, conv : ConvId]

ConversationTypeOK ==
    /\ AccountsTypeOK
    /\ chat \in [Handler -> Chat]
    /\ chats \in 0 .. MaxChats
    /\ convs \in Seq([pair : Pairs, known : SUBSET ConvId]) /\ Len(convs) <= MaxChats
    /\ members \subseteq ConvId \X UserId
    /\ convCache \in [Pairs -> 0 .. MaxChats]
    /\ messages \subseteq [from : UserId, to : UserId, conv : ConvId]
    /\ orphans \subseteq ConvId

ConversationInit ==
    /\ AccountsInit
    /\ chat = [h \in Handler |-> Idle]
    /\ chats = 0
    /\ convs = <<>> /\ members = {} /\ messages = {} /\ orphans = {}
    /\ convCache = [p \in Pairs |-> 0]

PairOf(h) == Pair(Who[h], chat[h].to)

\* GROUP BY conversation_id HAVING COUNT(DISTINCT user_id) = 2: what a search
\* for the pair finds.  No conversation of a user with itself is among them.
Complete(p) ==
    {c \in 1 .. Len(convs) : Cardinality({u \in p : <<c, u>> \in members}) = 2}

-----------------------------------------------------------------------------
\* A chat message comes in on the session of a user who has logged in.
Begin(h, v) ==
    /\ CanLogin(Who[h]) /\ chat[h] = Idle /\ chats < MaxChats
    /\ BeginLookup(h, v)
    /\ chats' = chats + 1
    /\ UNCHANGED <<chat, convs, members, convCache, messages, orphans>>

\* CheckConversationExist reads Redis.  Slip: to take a missing id for 0.
CheckCacheBlindly(h) ==
    /\ lookup[h].step = "known"
    /\ LET v == lookup[h].id
           p == Pair(Who[h], v)
       IN chat' = [chat EXCEPT ![h] = [step |-> "store", to |-> v, known |-> Complete(p), conv |-> convCache[p]]]
    /\ lookup' = [lookup EXCEPT ![h] = Idle]
    /\ UNCHANGED <<users, reg, userCache, ttl, chats, convs, members, convCache, messages, orphans>>
CheckCache(h) ==
    /\ lookup[h].step = "known"
    /\ LET v == lookup[h].id
           p == Pair(Who[h], v)
           k == Complete(p)
       IN \/ /\ convCache[p] # 0
             /\ chat' = [chat EXCEPT ![h] = [step |-> "store", to |-> v, known |-> k, conv |-> convCache[p]]]
          \/ /\ convCache[p] = 0 \/ RedisMayFail
             /\ chat' = [chat EXCEPT ![h] = [step |-> "search", to |-> v, known |-> k]]
    /\ lookup' = [lookup EXCEPT ![h] = Idle]
    /\ UNCHANGED <<users, reg, userCache, ttl, chats, convs, members, convCache, messages, orphans>>

\* It reads MySQL: any of the complete conversations, or none.  Slip: to take
\* a miss in Redis for the absence of a conversation.
At(h, s, c) == [step |-> s, to |-> chat[h].to, known |-> chat[h].known, conv |-> c]
SearchNot(h) ==
    /\ chat[h].step = "search"
    /\ chat' = [chat EXCEPT ![h].step = "create"]
    /\ UNCHANGED <<accountVars, chats, convs, members, convCache, messages, orphans>>
Search(h) ==
    /\ chat[h].step = "search"
    /\ \/ \E c \in Complete(PairOf(h)) : chat' = [chat EXCEPT ![h] = At(h, "cachefound", c)]
       \/ Complete(PairOf(h)) = {} /\ chat' = [chat EXCEPT ![h].step = "create"]
       \/ MySQLMayFail /\ chat' = [chat EXCEPT ![h] = Idle]
    /\ UNCHANGED <<accountVars, chats, convs, members, convCache, messages, orphans>>

\* CreateConversation.
CreateConversation(h) ==
    /\ chat[h].step = "create"
    /\ \/ /\ convs' = Append(convs, [pair |-> PairOf(h), known |-> chat[h].known])
          /\ chat' = [chat EXCEPT ![h] = At(h, "cachenew", Len(convs) + 1)]
       \/ MySQLMayFail /\ chat' = [chat EXCEPT ![h] = Idle] /\ UNCHANGED convs
    /\ UNCHANGED <<accountVars, chats, members, convCache, messages, orphans>>

\* SET conv:exist, for an hour or, in CacheConversationID, for five minutes;
\* an error is only logged.
CacheConversation(h) ==
    /\ chat[h].step \in {"cachefound", "cachenew"}
    /\ \/ convCache' = [convCache EXCEPT ![PairOf(h)] = chat[h].conv]
       \/ RedisMayFail /\ UNCHANGED convCache
    /\ chat' = [chat EXCEPT ![h].step = IF @ = "cachefound" THEN "store" ELSE "join"]
    /\ UNCHANGED <<accountVars, chats, convs, members, messages, orphans>>

ConversationExpires(p) ==
    /\ convCache[p] # 0
    /\ convCache' = [convCache EXCEPT ![p] = 0]
    /\ UNCHANGED <<accountVars, chat, chats, convs, members, messages, orphans>>

\* AddMember, for the sender and then for the receiver; after an error the
\* message is given up, and the conversation stays as it is.  Slip: to go on
\* after the error of the second.
AddMemberGoesOn(h) ==
    /\ chat[h].step \in {"join", "jointarget"}
    /\ LET u == IF chat[h].step = "join" THEN Who[h] ELSE chat[h].to IN
       \/ members' = members \cup {<<chat[h].conv, u>>}
       \/ MySQLMayFail /\ UNCHANGED members
    /\ chat' = [chat EXCEPT ![h].step = IF @ = "join" THEN "jointarget" ELSE "store"]
    /\ UNCHANGED <<accountVars, chats, convs, convCache, messages, orphans>>
AddMember(h) ==
    /\ chat[h].step \in {"join", "jointarget"}
    /\ LET u == IF chat[h].step = "join" THEN Who[h] ELSE chat[h].to IN
       \/ /\ members' = members \cup {<<chat[h].conv, u>>}
          /\ chat' = [chat EXCEPT ![h].step = IF @ = "join" THEN "jointarget" ELSE "store"]
          /\ UNCHANGED orphans
       \/ /\ MySQLMayFail
          /\ chat' = [chat EXCEPT ![h] = Idle]
          /\ orphans' = orphans \cup {chat[h].conv}
          /\ UNCHANGED members
    /\ UNCHANGED <<accountVars, chats, convs, convCache, messages>>

\* CreateMessage.
CreateMessage(h) ==
    /\ chat[h].step = "store"
    /\ \/ messages' = messages \cup {[from |-> Who[h], to |-> chat[h].to, conv |-> chat[h].conv]}
       \/ MySQLMayFail /\ UNCHANGED messages
    /\ chat' = [chat EXCEPT ![h] = Idle]
    /\ UNCHANGED <<accountVars, chats, convs, members, convCache, orphans>>

\* The process dies in the middle of a message.
Dies(h) ==
    /\ lookup[h] # Idle \/ chat[h] # Idle
    /\ IF lookup[h].step \in {"expireknown", "expireabsent"}
       THEN LoseLifetime(lookup[h].id) ELSE UNCHANGED ttl
    /\ lookup' = [lookup EXCEPT ![h] = Idle]
    /\ chat' = [chat EXCEPT ![h] = Idle]
    /\ orphans' = IF chat[h].step \in {"cachenew", "join", "jointarget"}
                  THEN orphans \cup {chat[h].conv} ELSE orphans
    /\ UNCHANGED <<users, reg, userCache, chats, convs, members, convCache, messages>>

-----------------------------------------------------------------------------
ChatStep(h) ==
    \/ LookupStep(h) /\ UNCHANGED conversationVars
    \/ CheckCache(h) \/ Search(h) \/ CreateConversation(h)
    \/ CacheConversation(h) \/ AddMember(h) \/ CreateMessage(h)

Expiry ==
    \/ \E u \in UserId : UserExpires(u) /\ UNCHANGED conversationVars
    \/ \E p \in Pairs : ConversationExpires(p)

ConversationNext ==
    \/ \E r \in Call : RegisterStep(r) /\ UNCHANGED conversationVars
    \/ \E h \in Handler : ChatStep(h) \/ Dies(h) \/ \E v \in UserId : Begin(h, v)
    \/ Expiry

ConversationSpec == ConversationInit /\ [][ConversationNext]_allVars

\* Handlers are goroutines that are always scheduled, and Redis expires what
\* is written with a lifetime.
ConversationFairness ==
    /\ \A h \in Handler : WF_allVars(ChatStep(h))
    /\ \A u \in UserId : WF_allVars(UserExpires(u) /\ UNCHANGED conversationVars)

FairConversationSpec == ConversationSpec /\ ConversationFairness

-----------------------------------------------------------------------------
(* What finding and creating guarantees.                                   *)

\* Two users may get several conversations, since finding and creating are
\* not atomic and a creation may stop half way, but a search that begins when
\* they have a complete one never leads to another (client.go:167-208,
\* conversationMember.go:105-128).
CreatedOnlyIfNone ==
    \A c \in 1 .. Len(convs) : convs[c].known = {}

\* Somebody is still creating conversation c.
BeingCreated(c) ==
    \E h \in Handler : chat[h].step \in {"cachenew", "join", "jointarget"} /\ chat[h].conv = c

\* A stored message can be loaded by both its users after a reconnect, since
\* both are members of its conversation; only those sent through Redis into a
\* conversation that is still being created, or whose creation failed, are
\* not there yet, or never (client.go:189-207).
MessagesHaveMembers ==
    \A m \in messages :
        \/ {<<m.conv, m.from>>, <<m.conv, m.to>>} \subseteq members
        \/ BeingCreated(m.conv) \/ m.conv \in orphans

\* A message is stored only for a receiver that is registered, and only in a
\* conversation of its two users, whatever absence or id Redis holds
\* (client.go:147-163, conversationMember.go:85-98).
MessageBetweenUsers ==
    \A m \in messages :
        m.to <= Len(users) /\ m.conv <= Len(convs) /\ convs[m.conv].pair = Pair(m.from, m.to)

=============================================================================
