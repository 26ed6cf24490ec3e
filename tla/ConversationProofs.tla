--------------------------- MODULE ConversationProofs ---------------------------
(***************************************************************************)
(* Proofs about Accounts and Conversation, for any users, names, handlers  *)
(* and chats.                                                              *)
(***************************************************************************)
EXTENDS Conversation, SequenceTheorems, FiniteSetTheorems, TLAPS

-----------------------------------------------------------------------------
(* Twins.                                                                  *)

\* TwinsOverlapped is not inductive alone: it speaks of rows, and CreateUser
\* adds one on the word of a check that is over.  TwinInv keeps what the
\* check has seen: no row among the first seen ones has the name.
TwinInv ==
    /\ users \in Seq([name : Name, call : Call])
    /\ reg \in [Call -> [step : {"new", "ended"}]
                        \cup [step : {"checked", "inserted"}, name : Name, seen : Nat]]
    /\ \A j \in 1 .. Len(users) :
          reg[users[j].call].step = "inserted" /\ reg[users[j].call].name = users[j].name
    /\ \A r \in Call : reg[r].step \in {"checked", "inserted"} =>
          /\ reg[r].seen <= Len(users)
          /\ \A i \in 1 .. reg[r].seen : users[i].name # reg[r].name

LEMMA TwinStepLemma == TwinInv /\ [ConversationNext]_allVars => TwinInv'
<1> SUFFICES ASSUME TwinInv, [ConversationNext]_allVars PROVE TwinInv'
  OBVIOUS
<1>1. CASE UNCHANGED <<users, reg>>
  BY <1>1 DEF TwinInv
<1>2. ASSUME NEW r \in Call, NEW name \in Name, CheckName(r, name) PROVE TwinInv'
  <2>1. Len(users) \in Nat
    BY DEF TwinInv
  <2>2. reg' = [reg EXCEPT ![r] = [step |-> "checked", name |-> name, seen |-> Len(users)]]
        /\ users' = users /\ reg[r].step = "new"
        /\ \A i \in 1 .. Len(users) : users[i].name # name
    BY <1>2 DEF CheckName
  <2> QED
    BY <2>1, <2>2 DEF TwinInv
<1>3. ASSUME NEW r \in Call, Refuse(r) PROVE TwinInv'
  BY <1>3 DEF Refuse, TwinInv
<1>4. ASSUME NEW r \in Call, CreateUser(r) PROVE TwinInv'
  <2> DEFINE u == [name |-> reg[r].name, call |-> r]
  <2>1. /\ reg[r] \in [step : {"checked", "inserted"}, name : Name, seen : Nat]
        /\ reg[r].step = "checked" /\ users' = Append(users, u)
    BY <1>4 DEF CreateUser, TwinInv
  <2>2. reg'[r] = [reg[r] EXCEPT !.step = "inserted"] /\ \A q \in Call : q # r => reg'[q] = reg[q]
    BY <1>4 DEF CreateUser, TwinInv
  <2>3. /\ reg'[r].step = "inserted" /\ reg'[r].name = reg[r].name /\ reg'[r].seen = reg[r].seen
        /\ reg'[r] \in [step : {"checked", "inserted"}, name : Name, seen : Nat]
    BY <2>1, <2>2
  <2>4. reg' \in [Call -> [step : {"new", "ended"}]
                     \cup [step : {"checked", "inserted"}, name : Name, seen : Nat]]
    BY <1>4, <2>2, <2>3 DEF CreateUser, TwinInv
  <2>5. /\ u \in [name : Name, call : Call]
        /\ users' \in Seq([name : Name, call : Call]) /\ Len(users') = Len(users) + 1
        /\ Len(users) \in Nat /\ users'[Len(users) + 1] = u
        /\ \A j \in 1 .. Len(users) : users'[j] = users[j]
    BY <2>1, AppendProperties, LenProperties DEF TwinInv
  <2>6. \A j \in 1 .. Len(users') :
            reg'[users'[j].call].step = "inserted" /\ reg'[users'[j].call].name = users'[j].name
    <3> SUFFICES ASSUME NEW j \in 1 .. Len(users')
                 PROVE  /\ reg'[users'[j].call].step = "inserted"
                        /\ reg'[users'[j].call].name = users'[j].name
      OBVIOUS
    <3>1. CASE j = Len(users) + 1
      BY <2>3, <2>5, <3>1
    <3>2. CASE j # Len(users) + 1
      <4>1. j \in 1 .. Len(users) /\ users'[j] = users[j]
        BY <2>5, <3>2
      <4>2. users[j] \in [name : Name, call : Call]
        BY <4>1, ElementOfSeq DEF TwinInv
      <4>3. users[j].call \in Call /\ users[j].call # r
        BY <2>1, <4>1, <4>2 DEF TwinInv
      <4> QED
        BY <2>2, <4>1, <4>3 DEF TwinInv
    <3> QED
      BY <3>1, <3>2
  <2>7. \A q \in Call : reg'[q].step \in {"checked", "inserted"} =>
            /\ reg'[q].seen <= Len(users')
            /\ \A i \in 1 .. reg'[q].seen : users'[i].name # reg'[q].name
    <3> SUFFICES ASSUME NEW q \in Call, reg'[q].step \in {"checked", "inserted"}
                 PROVE  /\ reg'[q].seen <= Len(users')
                        /\ \A i \in 1 .. reg'[q].seen : users'[i].name # reg'[q].name
      OBVIOUS
    <3>1. /\ reg[q].step \in {"checked", "inserted"}
          /\ reg'[q].seen = reg[q].seen /\ reg'[q].name = reg[q].name
      BY <2>1, <2>2, <2>3
    <3>2. /\ reg[q].seen \in Nat /\ reg[q].seen <= Len(users)
          /\ \A i \in 1 .. reg[q].seen : users[i].name # reg[q].name
      BY <3>1 DEF TwinInv
    <3>3. \A i \in 1 .. reg[q].seen : i \in 1 .. Len(users) /\ users'[i] = users[i]
      BY <2>5, <3>2
    <3>4. reg[q].seen <= Len(users')
      BY <2>5, <3>2
    <3> QED
      BY <3>1, <3>2, <3>3, <3>4
  <2> QED
    BY <2>4, <2>5, <2>6, <2>7 DEF TwinInv
<1> QED
  BY <1>1, <1>2, <1>3, <1>4 DEF ConversationNext, allVars, RegisterStep, ChatStep, LookupStep,
     ReadCache, ReadUser, FillUser, ExpireUser, UserExpires, CheckCache, Search, CreateConversation,
     CacheConversation, AddMember, CreateMessage, Dies, Begin, BeginLookup, Expiry,
     ConversationExpires, accountVars

\* Two users of one name only come from registrations that overlapped
\* (service/user.go:14-36).
THEOREM TwinsOnlyFromOverlap == ConversationSpec => []TwinsOverlapped
<1>1. ConversationInit => TwinInv
  BY EmptySeq DEF ConversationInit, AccountsInit, TwinInv
<1>2. TwinInv => TwinsOverlapped
  <2> SUFFICES ASSUME TwinInv, NEW j \in 1 .. Len(users), NEW i \in 1 .. j - 1,
                      users[i].name = users[j].name
               PROVE  reg[users[j].call].seen < i
    BY DEF TwinsOverlapped
  <2>1. users[j] \in [name : Name, call : Call] /\ users[j].call \in Call /\ Len(users) \in Nat
    <3>1. users \in Seq([name : Name, call : Call]) /\ Len(users) \in Nat
      BY LenProperties DEF TwinInv
    <3>2. users[j] \in [name : Name, call : Call]
      BY <3>1, ElementOfSeq
    <3> QED
      BY <3>1, <3>2
  <2>2. /\ reg[users[j].call].step = "inserted" /\ reg[users[j].call].name = users[j].name
        /\ reg[users[j].call].seen \in Nat
    BY <2>1 DEF TwinInv
  <2> QED
    BY <2>1, <2>2 DEF TwinInv
<1> QED
  BY <1>1, <1>2, TwinStepLemma, PTL DEF ConversationSpec

-----------------------------------------------------------------------------
(* Conversations.                                                          *)

\* The records of chat, without the bounds that TLC needs.
Searching == [step : {"search", "create"}, to : UserId, known : SUBSET Nat]
Holding == [step : {"cachefound", "cachenew", "join", "jointarget", "store"},
            to : UserId, known : SUBSET Nat, conv : Nat]
ChatRec == [step : {"idle"}] \cup Searching \cup Holding

ShapeInv ==
    /\ chat \in [Handler -> ChatRec]
    /\ lookup \in [Handler -> Lookup]
    /\ userCache \in [UserId -> {"miss", "known", "absent"}]
    /\ ttl \in [UserId -> Lifetime]
    /\ convs \in Seq([pair : Pairs, known : SUBSET Nat])
    /\ convCache \in [Pairs -> Nat]
    /\ messages \subseteq [from : UserId, to : UserId, conv : Nat]
    /\ members \subseteq Nat \X UserId

\* Only two different users who are both members count as two.
LEMMA CountLemma ==
    ASSUME NEW u, NEW v, NEW c, NEW M
    PROVE  Cardinality({x \in {u, v} : <<c, x>> \in M}) = 2 <=>
              u # v /\ <<c, u>> \in M /\ <<c, v>> \in M
<1> DEFINE T == {x \in {u, v} : <<c, x>> \in M}
<1>1. CASE u # v /\ <<c, u>> \in M /\ <<c, v>> \in M
  <2>1. T = {u} \cup {v}
    BY <1>1
  <2>2. IsFiniteSet({u}) /\ Cardinality({u}) = 1
    BY FS_Singleton
  <2>3. Cardinality({u} \cup {v}) = 2
    BY <1>1, <2>2, FS_AddElement
  <2> QED
    BY <1>1, <2>1, <2>3
<1>2. CASE ~(u # v /\ <<c, u>> \in M /\ <<c, v>> \in M)
  <2>1. T = {} \/ T = {u} \/ T = {v}
    BY <1>2
  <2>2. Cardinality({}) = 0 /\ Cardinality({u}) = 1 /\ Cardinality({v}) = 1
    BY FS_EmptySet, FS_Singleton
  <2>3. Cardinality(T) = 0 \/ Cardinality(T) = 1
    <3>1. CASE T = {}
      BY <2>2, <3>1
    <3>2. CASE T = {u}
      BY <2>2, <3>2
    <3>3. CASE T = {v}
      BY <2>2, <3>3
    <3> QED
      BY <2>1, <3>1, <3>2, <3>3
  <2> QED
    BY <1>2, <2>3
<1> QED
  BY <1>1, <1>2

\* A handler is in the lookup or past it.
TurnInv == \A h \in Handler : lookup[h] = Idle \/ chat[h] = Idle

LEMMA TurnStepLemma == ShapeInv /\ TurnInv /\ [ConversationNext]_allVars => TurnInv'
<1> SUFFICES ASSUME ShapeInv, TurnInv, [ConversationNext]_allVars PROVE TurnInv'
  OBVIOUS
<1>1. CASE UNCHANGED <<chat, lookup>>
  BY <1>1 DEF TurnInv, Idle
<1>2. ASSUME NEW h \in Handler, LookupStep(h), chat' = chat PROVE TurnInv'
  <2>1. lookup[h] # Idle /\ \A g \in Handler : g # h => lookup'[g] = lookup[g]
    BY <1>2 DEF LookupStep, ReadCache, ReadUser, FillUser, ExpireUser, CachedAnswer, ShapeInv, Idle
  <2> QED
    BY <1>2, <2>1 DEF TurnInv, Idle
<1>3. ASSUME NEW h \in Handler, CheckCache(h) \/ Dies(h) PROVE TurnInv'
  BY <1>3 DEF CheckCache, Dies, TurnInv, ShapeInv, Idle
<1>4. ASSUME NEW h \in Handler, NEW v \in UserId, Begin(h, v) PROVE TurnInv'
  BY <1>4 DEF Begin, BeginLookup, TurnInv, ShapeInv, Idle
<1>5. ASSUME NEW h \in Handler, lookup' = lookup, chat[h] # Idle,
             \A g \in Handler : g # h => chat'[g] = chat[g]
      PROVE  TurnInv'
  BY <1>5 DEF TurnInv, Idle
<1>6. ASSUME NEW h \in Handler,
             \/ Search(h) \/ CreateConversation(h) \/ CacheConversation(h)
             \/ AddMember(h) \/ CreateMessage(h)
      PROVE  TurnInv'
  <2>1. lookup' = lookup /\ chat[h] # Idle
    BY <1>6 DEF Search, CreateConversation, CacheConversation, AddMember, CreateMessage,
       accountVars, Idle
  <2>2. \A g \in Handler : g # h => chat'[g] = chat[g]
    BY <1>6 DEF Search, CreateConversation, CacheConversation, AddMember, CreateMessage, ShapeInv
  <2> QED
    BY <1>5, <2>1, <2>2
<1> QED
  BY <1>1, <1>2, <1>3, <1>4, <1>6 DEF ConversationNext, allVars, ChatStep, Expiry, RegisterStep,
     CheckName, Refuse, CreateUser, UserExpires, ConversationExpires, accountVars, conversationVars

\* What the search relies on: the complete conversations it began with are
\* still there, and none of them led to a creation.
SearchInv ==
    /\ \A h \in Handler :
        /\ chat[h].step = "search" => chat[h].known \subseteq Complete(PairOf(h))
        /\ chat[h].step = "create" => chat[h].known = {}
    /\ CreatedOnlyIfNone

\* c is the id of a conversation of pair p.
IsId(c, p) == c \in 1 .. Len(convs) /\ convs[c].pair = p
WillBeId(c, p) == c \in 1 .. Len(convs') /\ convs'[c].pair = p

\* Whoever holds an id, a handler, Redis, a member row or a message, holds the
\* id of a conversation of the right pair.
IdInv ==
    /\ \A h \in Handler :
        /\ chat[h].step \in {"cachefound", "cachenew", "join", "jointarget", "store"} =>
              IsId(chat[h].conv, PairOf(h))
        /\ chat[h].step = "jointarget" => <<chat[h].conv, Who[h]>> \in members
    /\ \A p \in Pairs : convCache[p] # 0 => IsId(convCache[p], p)
    /\ \A m \in messages : IsId(m.conv, Pair(m.from, m.to))
    /\ \A m \in members : m[1] \in 1 .. Len(convs) /\ m[2] \in convs[m[1]].pair

\* A conversation has its members, or is still getting them, or never will.
Backed(c) ==
    \/ \A u \in convs[c].pair : <<c, u>> \in members
    \/ BeingCreated(c) \/ c \in orphans

BackedInv == \A c \in 1 .. Len(convs) : Backed(c)

LEMMA AtLemma ==
    ASSUME ShapeInv, NEW h \in Handler, chat[h].step # "idle", NEW c \in Nat,
           NEW s \in {"cachefound", "cachenew", "join", "jointarget", "store"}
    PROVE  /\ chat[h].to \in UserId /\ chat[h].known \in SUBSET Nat
           /\ PairOf(h) \in Pairs
           /\ At(h, s, c) \in Holding
           /\ At(h, s, c).step = s /\ At(h, s, c).to = chat[h].to
           /\ At(h, s, c).known = chat[h].known /\ At(h, s, c).conv = c
<1>1. chat[h].to \in UserId /\ chat[h].known \in SUBSET Nat
  BY DEF ShapeInv, ChatRec, Searching, Holding
<1>2. Who[h] \in UserId
  BY ConversationAssumption
<1> QED
  BY <1>1, <1>2 DEF At, Holding, PairOf, Pairs, Pair

\* What a handler's step makes of its own record.
LEMMA StepRecordLemma ==
    ASSUME ShapeInv, NEW h \in Handler, chat[h].step \notin {"idle", "search", "create"},
           NEW s \in {"cachefound", "cachenew", "join", "jointarget", "store"}
    PROVE  [chat[h] EXCEPT !.step = s] = At(h, s, chat[h].conv) /\ chat[h].conv \in Nat
<1>1. chat[h] \in Holding
  BY DEF ShapeInv, ChatRec, Searching
<1> QED
  BY <1>1 DEF Holding, At

LEMMA ChangeStepLemma ==
    ASSUME ShapeInv, NEW h \in Handler, chat[h].step \notin {"idle", "search", "create"},
           NEW s \in {"cachefound", "cachenew", "join", "jointarget", "store"}
    PROVE  /\ [chat[h] EXCEPT !.step = s] \in Holding
           /\ [chat[h] EXCEPT !.step = s].step = s
           /\ [chat[h] EXCEPT !.step = s].to = chat[h].to
           /\ [chat[h] EXCEPT !.step = s].conv = chat[h].conv
           /\ [chat[h] EXCEPT !.step = s].known = chat[h].known
<1>1. chat[h].step # "idle" /\ chat[h].conv \in Nat
  BY StepRecordLemma
<1>2. [chat[h] EXCEPT !.step = s] = At(h, s, chat[h].conv)
  BY StepRecordLemma
<1> QED
  BY <1>1, <1>2, AtLemma

LEMMA CreateRecordLemma ==
    ASSUME ShapeInv, NEW h \in Handler, chat[h].step = "search"
    PROVE  [chat[h] EXCEPT !.step = "create"]
             = [step |-> "create", to |-> chat[h].to, known |-> chat[h].known]
<1>1. chat[h] \in Searching
  BY DEF ShapeInv, ChatRec, Holding
<1> QED
  BY <1>1 DEF Searching

LEMMA ChatTypeLemma ==
    ASSUME ShapeInv, NEW h \in Handler, NEW x \in ChatRec, chat' = [chat EXCEPT ![h] = x]
    PROVE  chat' \in [Handler -> ChatRec]
  BY DEF ShapeInv

LEMMA ShapeStepLemma == ShapeInv /\ [ConversationNext]_allVars => ShapeInv'
<1> SUFFICES ASSUME ShapeInv, [ConversationNext]_allVars PROVE ShapeInv'
  OBVIOUS
<1> USE ConversationAssumption
<1>0. /\ \A c \in 1 .. Len(convs) : c \in Nat
      /\ Len(convs) \in Nat
      /\ \A p : Complete(p) \subseteq Nat
      /\ Idle \in ChatRec /\ Searching \cup Holding \subseteq ChatRec
  BY LenProperties DEF ShapeInv, Complete, ChatRec, Idle
<1>1. CASE UNCHANGED <<chat, lookup, userCache, ttl, convs, convCache, messages, members>>
  BY <1>1 DEF ShapeInv
<1>2. ASSUME NEW h \in Handler, NEW v \in UserId, Begin(h, v) PROVE ShapeInv'
  BY <1>2 DEF Begin, BeginLookup, ShapeInv, Lookup, LookupStepName
<1>3. ASSUME NEW h \in Handler, LookupStep(h), UNCHANGED conversationVars PROVE ShapeInv'
  <2>1. lookup[h] \in Lookup /\ lookup[h].step # "idle"
    BY <1>3 DEF LookupStep, ReadCache, ReadUser, FillUser, ExpireUser, ShapeInv
  <2>2. /\ Idle \in Lookup
        /\ \A s \in LookupStepName :
              [lookup[h] EXCEPT !.step = s] \in Lookup
    BY <2>1 DEF Lookup, Idle
  <2>3. CASE ReadUser(h)
    BY <1>3, <2>2, <2>3 DEF ReadUser, ShapeInv, LookupStepName, conversationVars
  <2>4. CASE FillUser(h)
    <3>1. lookup' \in [Handler -> Lookup]
      BY <2>2, <2>4 DEF FillUser, ShapeInv, LookupStepName
    <3>2. userCache' \in [UserId -> {"miss", "known", "absent"}]
      BY <2>4 DEF FillUser, ShapeInv
    <3>3. ttl' \in [UserId -> Lifetime]
      BY <2>4 DEF FillUser, ShapeInv, Lifetime
    <3> QED
      BY <1>3, <3>1, <3>2, <3>3 DEF ShapeInv, conversationVars
  <2>5. CASE ReadCache(h)
    <3>1. userCache[lookup[h].id] \in {"miss", "known", "absent"}
      BY <2>1, <2>5 DEF ReadCache, ShapeInv, Lookup
    <3>2. ASSUME NEW answer \in {"known", "absent", "userdb"}, CachedAnswer(h, answer)
          PROVE  lookup' \in [Handler -> Lookup]
      <4>1. lookup' = [lookup EXCEPT ![h] = IF answer = "absent" THEN Idle
                                            ELSE [lookup[h] EXCEPT !.step = answer]]
        BY <2>1, <3>2 DEF CachedAnswer, ShapeInv
      <4>2. (IF answer = "absent" THEN Idle ELSE [lookup[h] EXCEPT !.step = answer]) \in Lookup
        BY <2>2, <3>2 DEF LookupStepName
      <4> QED
        BY <4>1, <4>2 DEF ShapeInv
    <3>3. lookup' \in [Handler -> Lookup]
      BY <2>5, <3>1, <3>2 DEF ReadCache
    <3> QED
      BY <1>3, <2>5, <3>3 DEF ReadCache, ShapeInv, conversationVars
  <2>6. CASE ExpireUser(h)
    <3>1. lookup' \in [Handler -> Lookup]
      BY <2>2, <2>6 DEF ExpireUser, CachedAnswer, ShapeInv, LookupStepName
    <3>2. ttl' \in [UserId -> Lifetime]
      BY <2>6 DEF ExpireUser, LoseLifetime, ShapeInv, Lifetime
    <3> QED
      BY <1>3, <2>6, <3>1, <3>2 DEF ExpireUser, ShapeInv, conversationVars
  <2> QED
    BY <1>3, <2>3, <2>4, <2>5, <2>6 DEF LookupStep
<1>4. ASSUME NEW h \in Handler, CheckCache(h) PROVE ShapeInv'
  <2>1. lookup[h].id \in UserId /\ Idle \in Lookup
    BY <1>4 DEF CheckCache, ShapeInv, Lookup, Idle
  <2>2. Pair(Who[h], lookup[h].id) \in Pairs
    BY <2>1 DEF Pairs
  <2>3. chat'[h] \in Searching \cup Holding
    BY <1>0, <1>4, <2>1, <2>2 DEF CheckCache, ShapeInv, Searching, Holding
  <2> QED
    BY <1>0, <1>4, <2>1, <2>3 DEF CheckCache, ShapeInv
<1>5. ASSUME NEW h \in Handler, Search(h) PROVE ShapeInv'
  <2>1. chat[h].step = "search" /\ chat[h].to \in UserId /\ chat[h].known \in SUBSET Nat
    BY <1>5 DEF Search, ShapeInv, ChatRec, Searching, Holding
  <2>2. [chat[h] EXCEPT !.step = "create"] \in Searching
    BY <2>1, CreateRecordLemma DEF Searching
  <2>3. \A c \in Complete(PairOf(h)) : At(h, "cachefound", c) \in Holding
    BY <1>0, <2>1, AtLemma
  <2>4. \E x \in ChatRec : chat' = [chat EXCEPT ![h] = x]
    <3>1. CASE chat' = [chat EXCEPT ![h].step = "create"]
      BY <1>0, <2>2, <3>1
    <3>2. CASE chat' = [chat EXCEPT ![h] = Idle]
      BY <1>0, <3>2
    <3>3. CASE \E c \in Complete(PairOf(h)) : chat' = [chat EXCEPT ![h] = At(h, "cachefound", c)]
      BY <1>0, <2>3, <3>3
    <3> QED
      BY <1>5, <3>1, <3>2, <3>3 DEF Search
  <2>5. chat' \in [Handler -> ChatRec]
    BY <2>4, ChatTypeLemma
  <2> QED
    BY <1>5, <2>5 DEF Search, ShapeInv, accountVars
<1>6. ASSUME NEW h \in Handler, CreateConversation(h) PROVE ShapeInv'
  <2>1. /\ chat[h].step = "create" /\ PairOf(h) \in Pairs /\ chat[h].known \in SUBSET Nat
        /\ At(h, "cachenew", Len(convs) + 1) \in Holding
    BY <1>0, <1>6, AtLemma DEF CreateConversation
  <2>2. [pair |-> PairOf(h), known |-> chat[h].known] \in [pair : Pairs, known : SUBSET Nat]
    BY <2>1
  <2>3. convs' \in Seq([pair : Pairs, known : SUBSET Nat])
    <3>1. convs \in Seq([pair : Pairs, known : SUBSET Nat])
      BY DEF ShapeInv
    <3>2. convs' = convs \/ convs' = Append(convs, [pair |-> PairOf(h), known |-> chat[h].known])
      BY <1>6 DEF CreateConversation
    <3>3. Append(convs, [pair |-> PairOf(h), known |-> chat[h].known])
            \in Seq([pair : Pairs, known : SUBSET Nat])
      <4> DEFINE S == [pair : Pairs, known : SUBSET Nat]
                 x == [pair |-> PairOf(h), known |-> chat[h].known]
      <4>1. convs \in Seq(S) /\ x \in S
        BY <2>2, <3>1
      <4> HIDE DEF S, x
      <4>2. Append(convs, x) \in Seq(S)
        BY <4>1, AppendProperties
      <4> QED
        BY <4>2 DEF S, x
    <3> QED
      BY <3>1, <3>2, <3>3
  <2>4. \E x \in ChatRec : chat' = [chat EXCEPT ![h] = x]
    BY <1>0, <1>6, <2>1 DEF CreateConversation
  <2>5. chat' \in [Handler -> ChatRec]
    BY <2>4, ChatTypeLemma
  <2> QED
    BY <1>6, <2>3, <2>5 DEF CreateConversation, ShapeInv, accountVars
<1>7. ASSUME NEW h \in Handler, CacheConversation(h) PROVE ShapeInv'
  <2>1. chat[h].step \in {"cachefound", "cachenew"} /\ chat[h].conv \in Nat
    BY <1>7, StepRecordLemma DEF CacheConversation
  <2>2. \A s \in {"store", "join"} : [chat[h] EXCEPT !.step = s] \in ChatRec
    BY <1>0, <2>1, ChangeStepLemma
  <2>3. chat' \in [Handler -> ChatRec]
    BY <1>7, <2>2 DEF CacheConversation, ShapeInv
  <2>4. convCache' \in [Pairs -> Nat]
    BY <1>7, <2>1 DEF CacheConversation, ShapeInv
  <2> QED
    BY <1>7, <2>3, <2>4 DEF CacheConversation, ShapeInv, accountVars
<1>8. ASSUME NEW h \in Handler, AddMember(h) PROVE ShapeInv'
  <2>1. chat[h].step \in {"join", "jointarget"} /\ chat[h].conv \in Nat /\ chat[h].to \in UserId
    BY <1>8, AtLemma, StepRecordLemma DEF AddMember
  <2>2. \A s \in {"store", "jointarget"} : [chat[h] EXCEPT !.step = s] \in ChatRec
    BY <1>0, <2>1, ChangeStepLemma
  <2>3. members' \subseteq Nat \X UserId
    BY <1>8, <2>1 DEF AddMember, ShapeInv
  <2>4. chat' \in [Handler -> ChatRec]
    BY <1>0, <1>8, <2>2 DEF AddMember, ShapeInv
  <2> QED
    BY <1>8, <2>3, <2>4 DEF AddMember, ShapeInv, accountVars
<1>9. ASSUME NEW h \in Handler, CreateMessage(h) PROVE ShapeInv'
  <2>1. chat[h].conv \in Nat /\ chat[h].to \in UserId
    BY <1>9, AtLemma, StepRecordLemma DEF CreateMessage
  <2>2. messages' \subseteq [from : UserId, to : UserId, conv : Nat]
    BY <1>9, <2>1 DEF CreateMessage, ShapeInv
  <2> QED
    BY <1>0, <1>9, <2>2 DEF CreateMessage, ShapeInv, accountVars
<1>10. ASSUME NEW h \in Handler, Dies(h) PROVE ShapeInv'
  <2>1. ttl' \in [UserId -> Lifetime]
    BY <1>10 DEF Dies, LoseLifetime, ShapeInv, Lifetime
  <2> QED
    BY <1>10, <2>1 DEF Dies, ShapeInv, ChatRec, Lookup, Idle
<1>11. ASSUME NEW p \in Pairs, ConversationExpires(p) PROVE ShapeInv'
  BY <1>11 DEF ConversationExpires, ShapeInv, accountVars
<1>12. ASSUME NEW u \in UserId, UserExpires(u), UNCHANGED conversationVars PROVE ShapeInv'
  BY <1>12 DEF UserExpires, ShapeInv, conversationVars
<1>13. ASSUME NEW r \in Call, RegisterStep(r), UNCHANGED conversationVars PROVE ShapeInv'
  BY <1>1, <1>13 DEF RegisterStep, CheckName, Refuse, CreateUser, conversationVars
<1> QED
  BY <1>1, <1>2, <1>3, <1>4, <1>5, <1>6, <1>7, <1>8, <1>9, <1>10, <1>11, <1>12, <1>13
  DEF ConversationNext, allVars, ChatStep, Expiry

\* What a step does to the record of handler g.
Stays(g) == chat'[g] = chat[g]
Stops(g) ==
    /\ chat'[g].step = "idle"
    /\ chat[g].step \in {"cachenew", "join", "jointarget"} => chat[g].conv \in orphans'
Starts(g) ==
    /\ chat'[g].step \in {"search", "store"} /\ chat'[g].to \in UserId
    /\ chat'[g].known = Complete(Pair(Who[g], chat'[g].to))
    /\ chat'[g].step = "store" =>
          /\ chat'[g].conv = convCache[Pair(Who[g], chat'[g].to)]
          /\ chat'[g].conv # 0
    /\ chat[g].step = "idle"
    /\ lookup[g].step = "known" /\ lookup[g].id = chat'[g].to
Finds(g) ==
    /\ chat[g].step = "search" /\ chat'[g].step = "cachefound"
    /\ chat'[g].to = chat[g].to /\ chat'[g].conv \in Complete(PairOf(g))
    /\ chat'[g].known = chat[g].known
Misses(g) ==
    /\ chat[g].step = "search" /\ chat'[g].step = "create"
    /\ chat'[g].known = chat[g].known /\ chat'[g].to = chat[g].to
    /\ Complete(PairOf(g)) = {}
Creates(g) ==
    /\ chat[g].step = "create" /\ chat'[g].step = "cachenew"
    /\ chat'[g].to = chat[g].to /\ chat'[g].conv = Len(convs) + 1
    /\ chat'[g].known = chat[g].known
    /\ convs' = Append(convs, [pair |-> PairOf(g), known |-> chat[g].known])
Advances(g) ==
    /\ <<chat[g].step, chat'[g].step>> \in
          {<<"cachefound", "store">>, <<"cachenew", "join">>,
           <<"join", "jointarget">>, <<"jointarget", "store">>}
    /\ chat'[g].to = chat[g].to /\ chat'[g].conv = chat[g].conv
    /\ chat'[g].known = chat[g].known
    /\ chat[g].step = "join" => <<chat[g].conv, Who[g]>> \in members'
    /\ chat[g].step = "jointarget" => <<chat[g].conv, chat[g].to>> \in members'

Moves(g) ==
    Stays(g) \/ Stops(g) \/ Starts(g) \/ Finds(g) \/ Misses(g) \/ Creates(g) \/ Advances(g)

\* What it does to the tables and to Redis.
Tables ==
    /\ members \subseteq members' /\ orphans \subseteq orphans'
    /\ \A c \in orphans' \ orphans : \E h \in Handler :
          chat[h].step \in {"cachenew", "join", "jointarget"} /\ c = chat[h].conv
    /\ convs' = convs \/ \E h \in Handler : Creates(h)
    /\ \A m \in members' \ members : \E h \in Handler :
          /\ chat[h].step \in {"join", "jointarget"} /\ m[1] = chat[h].conv
          /\ m[2] \in {Who[h], chat[h].to}
    /\ \A m \in messages' \ messages : \E h \in Handler :
          /\ chat[h].step = "store"
          /\ m.from = Who[h] /\ m.to = chat[h].to /\ m.conv = chat[h].conv
    /\ \A p \in Pairs : convCache'[p] \notin {0, convCache[p]} => \E h \in Handler :
          /\ chat[h].step \in {"cachefound", "cachenew"}
          /\ p = PairOf(h) /\ convCache'[p] = chat[h].conv

\* Every step is of that form; the actions are not needed after this.
LEMMA EffectLemma ==
    ShapeInv /\ TurnInv /\ [ConversationNext]_allVars => Tables /\ \A g \in Handler : Moves(g)
<1> SUFFICES ASSUME ShapeInv, TurnInv, [ConversationNext]_allVars
             PROVE  Tables /\ \A g \in Handler : Moves(g)
  OBVIOUS
<1> USE ConversationAssumption
<1>1. CASE UNCHANGED <<chat, convs, members, convCache, messages, orphans>>
  BY <1>1 DEF Tables, Moves, Stays
<1>2. ASSUME NEW h \in Handler, CheckCache(h) PROVE Tables /\ \A g \in Handler : Moves(g)
  <2>1. lookup[h].id \in UserId /\ chat[h].step = "idle"
    BY <1>2 DEF CheckCache, ShapeInv, TurnInv, Lookup, Idle
  <2>2. Starts(h)
    BY <1>2, <2>1 DEF CheckCache, ShapeInv, Starts
  <2>3. \A g \in Handler : g # h => Stays(g)
    BY <1>2 DEF CheckCache, ShapeInv, Stays
  <2> QED
    BY <1>2, <2>2, <2>3 DEF CheckCache, Tables, Moves
<1>3. ASSUME NEW h \in Handler, Search(h) PROVE Tables /\ \A g \in Handler : Moves(g)
  <2>1. chat[h].step = "search"
    BY <1>3 DEF Search
  <2>2. \A c \in Complete(PairOf(h)) : c \in Nat
    BY LenProperties DEF Complete, ShapeInv
  <2>3. Stops(h) \/ Finds(h) \/ Misses(h)
    <3>1. CASE chat' = [chat EXCEPT ![h].step = "create"] /\ Complete(PairOf(h)) = {}
      BY <2>1, <3>1, CreateRecordLemma DEF Misses, ShapeInv
    <3>2. CASE chat' = [chat EXCEPT ![h] = Idle]
      BY <2>1, <3>2 DEF Stops, ShapeInv, Idle
    <3>3. ASSUME NEW c \in Complete(PairOf(h)), chat' = [chat EXCEPT ![h] = At(h, "cachefound", c)]
          PROVE  Finds(h)
      <4>1. chat[h].step # "idle" /\ c \in Nat
        BY <2>1, <2>2
      <4>2. chat'[h] = At(h, "cachefound", c)
        BY <3>3 DEF ShapeInv
      <4>3. /\ At(h, "cachefound", c).step = "cachefound" /\ At(h, "cachefound", c).to = chat[h].to
            /\ At(h, "cachefound", c).known = chat[h].known /\ At(h, "cachefound", c).conv = c
        BY <4>1, AtLemma
      <4> QED
        BY <2>1, <4>2, <4>3 DEF Finds
    <3> QED
      BY <1>3, <3>1, <3>2, <3>3 DEF Search
  <2>4. \A g \in Handler : g # h => Stays(g)
    BY <1>3 DEF Search, ShapeInv, Stays
  <2> QED
    BY <1>3, <2>3, <2>4 DEF Search, Tables, Moves
<1>4. ASSUME NEW h \in Handler, CreateConversation(h) PROVE Tables /\ \A g \in Handler : Moves(g)
  <2>1. chat[h].step = "create" /\ Len(convs) + 1 \in Nat
    BY <1>4, LenProperties DEF CreateConversation, ShapeInv
  <2>2. CASE chat' = [chat EXCEPT ![h] = Idle] /\ UNCHANGED convs
    <3>1. Stops(h)
      BY <2>1, <2>2 DEF Stops, ShapeInv, Idle
    <3>2. \A g \in Handler : g # h => Stays(g)
      BY <2>2 DEF ShapeInv, Stays
    <3> QED
      BY <1>4, <2>2, <3>1, <3>2 DEF CreateConversation, Tables, Moves
  <2>3. CASE /\ convs' = Append(convs, [pair |-> PairOf(h), known |-> chat[h].known])
             /\ chat' = [chat EXCEPT ![h] = At(h, "cachenew", Len(convs) + 1)]
    <3>1. Creates(h)
      <4> DEFINE x == At(h, "cachenew", Len(convs) + 1)
      <4>1. x.step = "cachenew" /\ x.to = chat[h].to /\ x.known = chat[h].known
            /\ x.conv = Len(convs) + 1
        <5>1. chat[h].step # "idle"
          BY <2>1
        <5> QED
          BY <2>1, <5>1, AtLemma
      <4> HIDE DEF x
      <4>2. chat'[h] = x
        BY <2>3 DEF x, ShapeInv
      <4> QED
        BY <2>1, <2>3, <4>1, <4>2 DEF Creates
    <3>2. \A g \in Handler : g # h => Stays(g)
      BY <2>3 DEF ShapeInv, Stays
    <3> QED
      BY <1>4, <3>1, <3>2 DEF CreateConversation, Tables, Moves
  <2> QED
    BY <1>4, <2>2, <2>3 DEF CreateConversation
<1>5. ASSUME NEW h \in Handler, CacheConversation(h) PROVE Tables /\ \A g \in Handler : Moves(g)
  <2>1. chat[h].step \in {"cachefound", "cachenew"}
    BY <1>5 DEF CacheConversation
  <2>2. Advances(h)
    <3> DEFINE s == IF chat[h].step = "cachefound" THEN "store" ELSE "join"
    <3>1. chat'[h] = [chat[h] EXCEPT !.step = s]
      BY <1>5 DEF CacheConversation, ShapeInv
    <3>2. s \in {"store", "join"}
      OBVIOUS
    <3>3. /\ chat'[h].step = s /\ chat'[h].to = chat[h].to
          /\ chat'[h].conv = chat[h].conv /\ chat'[h].known = chat[h].known
      <4> HIDE DEF s
      <4>1. /\ [chat[h] EXCEPT !.step = s].step = s
            /\ [chat[h] EXCEPT !.step = s].to = chat[h].to
            /\ [chat[h] EXCEPT !.step = s].conv = chat[h].conv
            /\ [chat[h] EXCEPT !.step = s].known = chat[h].known
        BY <2>1, <3>2, ChangeStepLemma
      <4> QED
        BY <3>1, <4>1
    <3> QED
      BY <2>1, <3>3 DEF Advances
  <2>3. \A g \in Handler : g # h => Stays(g)
    BY <1>5 DEF CacheConversation, ShapeInv, Stays
  <2>4. \A p \in Pairs : convCache'[p] \notin {0, convCache[p]} =>
            p = PairOf(h) /\ convCache'[p] = chat[h].conv
    BY <1>5 DEF CacheConversation, ShapeInv
  <2> QED
    BY <1>5, <2>1, <2>2, <2>3, <2>4 DEF CacheConversation, Tables, Moves
<1>6. ASSUME NEW h \in Handler, AddMember(h) PROVE Tables /\ \A g \in Handler : Moves(g)
  <2>1. chat[h].step \in {"join", "jointarget"}
    BY <1>6 DEF AddMember
  <2>2. CASE chat' = [chat EXCEPT ![h] = Idle] /\ orphans' = orphans \cup {chat[h].conv}
             /\ UNCHANGED members
    <3>1. Stops(h)
      BY <2>1, <2>2 DEF Stops, ShapeInv, Idle
    <3>2. \A g \in Handler : g # h => Stays(g)
      BY <2>2 DEF ShapeInv, Stays
    <3> QED
      BY <1>6, <2>2, <3>1, <3>2 DEF AddMember, Tables, Moves
  <2>3. CASE /\ members' = members \cup {<<chat[h].conv, IF chat[h].step = "join" THEN Who[h] ELSE chat[h].to>>}
             /\ chat' = [chat EXCEPT ![h].step = IF @ = "join" THEN "jointarget" ELSE "store"]
             /\ UNCHANGED orphans
    <3>1. Advances(h)
      <4> DEFINE s == IF chat[h].step = "join" THEN "jointarget" ELSE "store"
      <4>1. chat'[h] = [chat[h] EXCEPT !.step = s]
        BY <2>3 DEF ShapeInv
      <4>2. s \in {"jointarget", "store"}
        OBVIOUS
      <4>3. /\ chat'[h].step = s /\ chat'[h].to = chat[h].to
            /\ chat'[h].conv = chat[h].conv /\ chat'[h].known = chat[h].known
        <5> HIDE DEF s
        <5>1. /\ [chat[h] EXCEPT !.step = s].step = s
              /\ [chat[h] EXCEPT !.step = s].to = chat[h].to
              /\ [chat[h] EXCEPT !.step = s].conv = chat[h].conv
              /\ [chat[h] EXCEPT !.step = s].known = chat[h].known
          BY <2>1, <4>2, ChangeStepLemma
        <5> QED
          BY <4>1, <5>1
      <4> QED
        BY <2>1, <2>3, <4>3 DEF Advances
    <3>2. \A g \in Handler : g # h => Stays(g)
      BY <2>3 DEF ShapeInv, Stays
    <3> QED
      BY <1>6, <2>1, <2>3, <3>1, <3>2 DEF AddMember, Tables, Moves
  <2> QED
    BY <1>6, <2>2, <2>3 DEF AddMember
<1>7. ASSUME NEW h \in Handler, CreateMessage(h) PROVE Tables /\ \A g \in Handler : Moves(g)
  <2>1. Stops(h)
    BY <1>7 DEF CreateMessage, Stops, ShapeInv, Idle
  <2>2. \A g \in Handler : g # h => Stays(g)
    BY <1>7 DEF CreateMessage, ShapeInv, Stays
  <2> QED
    BY <1>7, <2>1, <2>2 DEF CreateMessage, Tables, Moves
<1>8. ASSUME NEW h \in Handler, Dies(h) PROVE Tables /\ \A g \in Handler : Moves(g)
  <2>1. Stops(h)
    BY <1>8 DEF Dies, Stops, ShapeInv, Idle
  <2>2. \A g \in Handler : g # h => Stays(g)
    BY <1>8 DEF Dies, ShapeInv, Stays
  <2> QED
    BY <1>8, <2>1, <2>2 DEF Dies, Tables, Moves
<1>9. ASSUME NEW p \in Pairs, ConversationExpires(p) PROVE Tables /\ \A g \in Handler : Moves(g)
  BY <1>9 DEF ConversationExpires, ShapeInv, Tables, Moves, Stays
<1> QED
  BY <1>1, <1>2, <1>3, <1>4, <1>5, <1>6, <1>7, <1>8, <1>9
  DEF ConversationNext, allVars, ChatStep, Expiry, Begin, UserExpires, RegisterStep, conversationVars

LEMMA ShapeInitLemma == ConversationInit => ShapeInv /\ TurnInv
<1> SUFFICES ASSUME ConversationInit PROVE ShapeInv /\ TurnInv
  OBVIOUS
<1>1. convs \in Seq([pair : Pairs, known : SUBSET Nat])
  <2> DEFINE S == [pair : Pairs, known : SUBSET Nat]
  <2> HIDE DEF S
  <2>1. <<>> \in Seq(S)
    BY EmptySeq
  <2> QED
    BY <2>1 DEF ConversationInit, S
<1> QED
  BY <1>1 DEF ConversationInit, AccountsInit, ShapeInv, TurnInv, ChatRec, Lookup, Lifetime, Idle

\* The shape holds throughout, so the later proofs may assume it.
LEMMA ShapeLemma == ConversationSpec => [](ShapeInv /\ TurnInv)
<1> QED
  BY ShapeInitLemma, ShapeStepLemma, TurnStepLemma, PTL DEF ConversationSpec

\* Tables only grow.
LEMMA GrowLemma ==
    ASSUME ShapeInv, ShapeInv', Tables
    PROVE  /\ Len(convs) \in Nat /\ Len(convs') \in Nat /\ Len(convs) <= Len(convs')
           /\ \A c \in 1 .. Len(convs) : c \in 1 .. Len(convs') /\ convs'[c] = convs[c]
<1>1. convs \in Seq([pair : Pairs, known : SUBSET Nat]) /\ Len(convs) \in Nat
  BY LenProperties DEF ShapeInv
<1>2. CASE convs' = convs
  BY <1>1, <1>2
<1>3. ASSUME NEW h \in Handler, Creates(h) PROVE
           /\ Len(convs') = Len(convs) + 1
           /\ \A c \in 1 .. Len(convs) : convs'[c] = convs[c]
  <2> DEFINE S == [pair : Pairs, known : SUBSET Nat]
             x == [pair |-> PairOf(h), known |-> chat[h].known]
  <2>1. convs' = Append(convs, x)
    BY <1>3 DEF Creates
  <2>2. chat[h].step = "create" /\ PairOf(h) \in Pairs /\ chat[h].known \in SUBSET Nat
    BY <1>3, AtLemma DEF Creates
  <2>3. x \in S /\ convs \in Seq(S)
    BY <1>1, <2>2
  <2> HIDE DEF S, x
  <2> QED
    BY <2>1, <2>3, AppendProperties
<1> QED
  BY <1>1, <1>2, <1>3 DEF Tables

\* So a complete conversation stays complete.
LEMMA CompleteGrowsLemma ==
    ASSUME ShapeInv, ShapeInv', Tables, NEW u \in UserId, NEW v \in UserId
    PROVE  Complete(Pair(u, v)) \subseteq Complete(Pair(u, v))'
<1>1. SUFFICES ASSUME NEW c \in Complete(Pair(u, v)) PROVE c \in Complete(Pair(u, v))'
  OBVIOUS
<1>2. c \in 1 .. Len(convs) /\ u # v /\ <<c, u>> \in members /\ <<c, v>> \in members
  BY <1>1, CountLemma DEF Complete, Pair
<1>3. c \in 1 .. Len(convs') /\ <<c, u>> \in members' /\ <<c, v>> \in members'
  BY <1>2, GrowLemma DEF Tables
<1>4. Cardinality({x \in {u, v} : <<c, x>> \in members'}) = 2
  BY <1>2, <1>3, CountLemma
<1> QED
  BY <1>3, <1>4 DEF Complete, Pair

LEMMA SearchStepLemma ==
    ASSUME ShapeInv, ShapeInv', Tables, \A g \in Handler : Moves(g), SearchInv
    PROVE  SearchInv'
<1> USE ConversationAssumption
<1>1. ASSUME NEW g \in Handler, chat'[g].step = "search"
      PROVE  chat'[g].known \subseteq Complete(PairOf(g))'
  <2>1. Stays(g) \/ Starts(g)
    BY <1>1 DEF Moves, Stops, Finds, Misses, Creates, Advances
  <2>2. chat'[g].known \subseteq Complete(Pair(Who[g], chat'[g].to)) /\ chat'[g].to \in UserId
    <3>1. CASE Stays(g)
      <4>1. chat[g].step = "search" /\ chat'[g].known = chat[g].known /\ chat'[g].to = chat[g].to
        BY <1>1, <3>1 DEF Stays
      <4>2. chat[g].to \in UserId
        BY <4>1, AtLemma
      <4> QED
        BY <4>1, <4>2 DEF SearchInv, PairOf
    <3>2. CASE Starts(g)
      BY <1>1, <3>2 DEF Starts
    <3> QED
      BY <2>1, <3>1, <3>2
  <2>3. \A u, v \in UserId : Complete(Pair(u, v)) \subseteq Complete(Pair(u, v))'
    BY CompleteGrowsLemma
  <2>4. PICK v \in UserId : v = chat'[g].to
    BY <2>2
  <2>5. chat'[g].known \subseteq Complete(Pair(Who[g], v)) /\ Who[g] \in UserId
    BY <2>2, <2>4
  <2>6. Complete(PairOf(g))' = Complete(Pair(Who[g], v))'
    BY <2>4 DEF PairOf, Complete, Pair
  <2> QED
    BY <2>3, <2>5, <2>6
<1>2. ASSUME NEW g \in Handler, chat'[g].step = "create" PROVE chat'[g].known = {}
  <2>1. Stays(g) \/ Misses(g)
    BY <1>2 DEF Moves, Stops, Starts, Finds, Creates, Advances
  <2> QED
    BY <1>2, <2>1 DEF Stays, Misses, SearchInv
<1>3. ASSUME NEW c \in 1 .. Len(convs') PROVE convs'[c].known = {}
  <2>1. CASE convs' = convs
    BY <1>3, <2>1 DEF SearchInv, CreatedOnlyIfNone
  <2>2. ASSUME NEW h \in Handler, Creates(h) PROVE convs'[c].known = {}
    <3> DEFINE S == [pair : Pairs, known : SUBSET Nat]
               x == [pair |-> PairOf(h), known |-> chat[h].known]
    <3>1. convs' = Append(convs, x) /\ chat[h].step = "create"
      BY <2>2 DEF Creates
    <3>2. x \in S /\ convs \in Seq(S) /\ x.known = {}
      BY <3>1, AtLemma DEF SearchInv, ShapeInv
    <3>3. \A d \in 1 .. Len(convs) : convs[d].known = {}
      BY DEF SearchInv, CreatedOnlyIfNone
    <3> HIDE DEF S, x
    <3>4. /\ Len(convs') = Len(convs) + 1 /\ convs'[Len(convs) + 1] = x
          /\ \A d \in 1 .. Len(convs) : convs'[d] = convs[d]
          /\ Len(convs) \in Nat
      BY <3>1, <3>2, AppendProperties, LenProperties
    <3> QED
      BY <1>3, <3>2, <3>3, <3>4
  <2> QED
    BY <2>1, <2>2 DEF Tables
<1> QED
  BY <1>1, <1>2, <1>3 DEF SearchInv, CreatedOnlyIfNone

\* A search that begins when the pair has a complete conversation never leads
\* to another (client.go:167-208, conversationMember.go:105-128).
THEOREM NeverASecondOne == ConversationSpec => []CreatedOnlyIfNone
<1>1. ConversationInit => SearchInv
  BY DEF ConversationInit, SearchInv, CreatedOnlyIfNone, Idle
<1>2. ShapeInv /\ TurnInv /\ ShapeInv' /\ SearchInv /\ [ConversationNext]_allVars => SearchInv'
  BY EffectLemma, SearchStepLemma
<1>3. SearchInv => CreatedOnlyIfNone
  BY DEF SearchInv
<1> QED
  BY <1>1, <1>2, <1>3, ShapeLemma, PTL DEF ConversationSpec

-----------------------------------------------------------------------------
(* Ids and members.                                                        *)

LEMMA IdGrowsLemma ==
    ASSUME ShapeInv, ShapeInv', Tables, NEW c, NEW p, IsId(c, p)
    PROVE  WillBeId(c, p)
  BY GrowLemma DEF IsId, WillBeId

\* The conversation that is added.
LEMMA AddedLemma ==
    ASSUME ShapeInv, NEW h \in Handler, Creates(h)
    PROVE  Len(convs') = Len(convs) + 1 /\ WillBeId(Len(convs) + 1, PairOf(h))
<1> DEFINE S == [pair : Pairs, known : SUBSET Nat]
           x == [pair |-> PairOf(h), known |-> chat[h].known]
<1>1. convs' = Append(convs, x)
  BY DEF Creates
<1>2. x \in S /\ convs \in Seq(S) /\ x.pair = PairOf(h)
  BY AtLemma DEF Creates, ShapeInv
<1> HIDE DEF S, x
<1>3. /\ Len(convs') = Len(convs) + 1 /\ convs'[Len(convs) + 1] = x
      /\ Len(convs) \in Nat
  BY <1>1, <1>2, AppendProperties, LenProperties
<1> QED
  BY <1>2, <1>3 DEF WillBeId

\* A search finds a conversation of the pair and no other.
LEMMA FoundLemma ==
    ASSUME ShapeInv, IdInv, NEW u \in UserId, NEW v \in UserId, NEW c \in Complete(Pair(u, v))
    PROVE  IsId(c, Pair(u, v))
<1>1. c \in 1 .. Len(convs) /\ u # v /\ <<c, u>> \in members /\ <<c, v>> \in members
  BY CountLemma DEF Complete, Pair
<1>2. u \in convs[c].pair /\ v \in convs[c].pair
  BY <1>1 DEF IdInv
<1>3. convs[c].pair \in Pairs
  <2> DEFINE S == [pair : Pairs, known : SUBSET Nat]
  <2>1. convs \in Seq(S)
    BY DEF ShapeInv
  <2>2. convs[c] \in S
    <3> HIDE DEF S
    <3> QED
      BY <1>1, <2>1, ElementOfSeq
  <2> QED
    BY <2>2
<1>4. PICK x \in UserId, y \in UserId : convs[c].pair = {x, y}
  BY <1>3 DEF Pairs, Pair
<1> QED
  BY <1>1, <1>2, <1>4 DEF IsId, Pair

LEMMA IdStepLemma ==
    ASSUME ShapeInv, ShapeInv', Tables, \A g \in Handler : Moves(g), IdInv
    PROVE  IdInv'
<1> USE ConversationAssumption
<1>0. \A c, p : IsId(c, p) => WillBeId(c, p)
  BY IdGrowsLemma
<1>1. ASSUME NEW g \in Handler,
             chat'[g].step \in {"cachefound", "cachenew", "join", "jointarget", "store"}
      PROVE  WillBeId(chat'[g].conv, Pair(Who[g], chat'[g].to))
  <2>1. CASE Stays(g)
    BY <1>0, <1>1, <2>1 DEF Stays, IdInv, PairOf
  <2>2. CASE Starts(g)
    <3>1. Pair(Who[g], chat'[g].to) \in Pairs
      BY <2>2 DEF Starts, Pairs
    <3>2. IsId(chat'[g].conv, Pair(Who[g], chat'[g].to))
      BY <1>1, <2>2, <3>1 DEF Starts, IdInv
    <3> QED
      BY <1>0, <3>2
  <2>3. CASE Finds(g)
    <3>1. chat[g].to \in UserId
      BY <2>3, AtLemma DEF Finds
    <3>2. IsId(chat'[g].conv, Pair(Who[g], chat[g].to))
      BY <2>3, <3>1, FoundLemma DEF Finds, PairOf
    <3> QED
      BY <1>0, <2>3, <3>2 DEF Finds
  <2>4. CASE Creates(g)
    BY <2>4, AddedLemma DEF Creates, PairOf
  <2>5. CASE Advances(g)
    <3>1. IsId(chat[g].conv, PairOf(g))
      BY <2>5 DEF Advances, IdInv
    <3> QED
      BY <1>0, <2>5, <3>1 DEF Advances, PairOf
  <2> QED
    BY <1>1, <2>1, <2>2, <2>3, <2>4, <2>5 DEF Moves, Stops, Misses
<1>2. ASSUME NEW g \in Handler, chat'[g].step = "jointarget"
      PROVE  <<chat'[g].conv, Who[g]>> \in members'
  <2>1. Stays(g) \/ Advances(g)
    BY <1>2 DEF Moves, Stops, Starts, Finds, Misses, Creates
  <2> QED
    BY <1>2, <2>1 DEF Stays, Advances, IdInv, Tables
<1>3. ASSUME NEW p \in Pairs, convCache'[p] # 0 PROVE WillBeId(convCache'[p], p)
  <2>1. IsId(convCache'[p], p)
    <3>1. CASE convCache'[p] = convCache[p]
      BY <1>3, <3>1 DEF IdInv
    <3>2. CASE convCache'[p] # convCache[p]
      BY <1>3, <3>2 DEF Tables, IdInv
    <3> QED
      BY <3>1, <3>2
  <2> QED
    BY <1>0, <2>1
<1>4. ASSUME NEW m \in messages' PROVE WillBeId(m.conv, Pair(m.from, m.to))
  <2>1. IsId(m.conv, Pair(m.from, m.to))
    <3>1. CASE m \in messages
      BY <3>1 DEF IdInv
    <3>2. CASE m \notin messages
      <4>1. PICK h \in Handler :
                /\ chat[h].step = "store"
                /\ m.from = Who[h] /\ m.to = chat[h].to /\ m.conv = chat[h].conv
        BY <1>4, <3>2 DEF Tables
      <4> QED
        BY <4>1 DEF IdInv, PairOf
    <3> QED
      BY <3>1, <3>2
  <2> QED
    BY <1>0, <2>1
<1>5. ASSUME NEW m \in members' PROVE m[1] \in 1 .. Len(convs') /\ m[2] \in convs'[m[1]].pair
  <2>1. m[1] \in 1 .. Len(convs) /\ m[2] \in convs[m[1]].pair
    <3>1. CASE m \in members
      BY <3>1 DEF IdInv
    <3>2. CASE m \notin members
      <4>1. PICK h \in Handler :
                /\ chat[h].step \in {"join", "jointarget"} /\ m[1] = chat[h].conv
                /\ m[2] \in {Who[h], chat[h].to}
        BY <1>5, <3>2 DEF Tables
      <4>2. IsId(chat[h].conv, PairOf(h))
        BY <4>1 DEF IdInv
      <4> QED
        BY <4>1, <4>2 DEF IsId, PairOf, Pair
    <3> QED
      BY <3>1, <3>2
  <2> QED
    BY <2>1, GrowLemma
<1> QED
  BY <1>1, <1>2, <1>3, <1>4, <1>5 DEF IdInv, IsId, WillBeId, PairOf

LEMMA BackedStepLemma ==
    ASSUME ShapeInv, ShapeInv', Tables, \A g \in Handler : Moves(g), IdInv, BackedInv
    PROVE  BackedInv'
<1>1. ASSUME NEW c \in 1 .. Len(convs) PROVE Backed(c)'
  <2>1. convs'[c] = convs[c]
    BY GrowLemma
  <2>2. CASE \A u \in convs[c].pair : <<c, u>> \in members
    BY <2>1, <2>2 DEF Backed, Tables
  <2>3. CASE c \in orphans
    BY <2>3 DEF Backed, Tables
  <2>4. ASSUME NEW h \in Handler, chat[h].step \in {"cachenew", "join", "jointarget"},
               chat[h].conv = c
        PROVE  Backed(c)'
    <3>1. Stays(h) \/ Stops(h) \/ Advances(h)
      BY <2>4 DEF Moves, Starts, Finds, Misses, Creates
    <3>2. CASE Stays(h)
      BY <2>4, <3>2 DEF Stays, Backed, BeingCreated
    <3>3. CASE Stops(h)
      BY <2>4, <3>3 DEF Stops, Backed
    <3>4. CASE Advances(h) /\ chat[h].step # "jointarget"
      BY <2>4, <3>4 DEF Advances, Backed, BeingCreated
    <3>5. CASE Advances(h) /\ chat[h].step = "jointarget"
      <4>1. <<c, Who[h]>> \in members' /\ <<c, chat[h].to>> \in members'
        BY <2>4, <3>5 DEF Advances, IdInv, Tables
      <4>2. convs[c].pair = {Who[h], chat[h].to}
        BY <2>4 DEF IdInv, IsId, PairOf, Pair
      <4> QED
        BY <2>1, <4>1, <4>2 DEF Backed
    <3> QED
      BY <3>1, <3>2, <3>3, <3>4, <3>5
  <2> QED
    BY <2>2, <2>3, <2>4 DEF BackedInv, Backed, BeingCreated
<1>2. ASSUME NEW h \in Handler, Creates(h) PROVE
          Len(convs') = Len(convs) + 1 /\ \A c : c = Len(convs) + 1 => Backed(c)'
  BY <1>2, AddedLemma DEF Creates, Backed, BeingCreated
<1>3. ASSUME NEW c \in 1 .. Len(convs') PROVE Backed(c)'
  <2>1. CASE convs' = convs
    BY <1>1, <1>3, <2>1
  <2>2. ASSUME NEW h \in Handler, Creates(h) PROVE Backed(c)'
    <3>1. c \in 1 .. Len(convs) \/ c = Len(convs) + 1
      BY <1>2, <1>3, <2>2, GrowLemma
    <3>2. CASE c = Len(convs) + 1
      BY <1>2, <2>2, <3>2
    <3> QED
      BY <1>1, <3>1, <3>2
  <2> QED
    BY <2>1, <2>2 DEF Tables
<1> QED
  BY <1>3 DEF BackedInv

LEMMA IdLemma == ConversationSpec => [](ShapeInv /\ IdInv /\ BackedInv)
<1>1. ConversationInit => IdInv /\ BackedInv
  BY DEF ConversationInit, IdInv, BackedInv, Idle
<1>2. ShapeInv /\ TurnInv /\ ShapeInv' /\ IdInv /\ BackedInv /\ [ConversationNext]_allVars
        => IdInv' /\ BackedInv'
  BY EffectLemma, IdStepLemma, BackedStepLemma
<1> QED
  BY <1>1, <1>2, ShapeLemma, PTL DEF ConversationSpec

\* A stored message is in a conversation that has both its users as members,
\* unless that is still being created or its creation failed
\* (client.go:189-207).
THEOREM MembersBehindMessages == ConversationSpec => []MessagesHaveMembers
<1>1. ShapeInv /\ IdInv /\ BackedInv => MessagesHaveMembers
  <2> SUFFICES ASSUME IdInv, BackedInv, NEW m \in messages
               PROVE  \/ {<<m.conv, m.from>>, <<m.conv, m.to>>} \subseteq members
                      \/ BeingCreated(m.conv) \/ m.conv \in orphans
    BY DEF MessagesHaveMembers
  <2>1. m.conv \in 1 .. Len(convs) /\ convs[m.conv].pair = {m.from, m.to}
    BY DEF IdInv, IsId, Pair
  <2> QED
    BY <2>1 DEF BackedInv, Backed
<1> QED
  BY <1>1, IdLemma, PTL

-----------------------------------------------------------------------------
(* Receivers.                                                              *)

\* Whoever is taken for registered is: in Redis, by a lookup, by a handler and
\* in a message.
Registered(u) == u <= Len(users)

\* The lookup has met the row of the user, or an entry that says so.
Positive == {"fillknown", "expireknown", "known"}

LookedUpInv ==
    /\ \A u \in UserId : userCache[u] = "known" => Registered(u)
    /\ \A h \in Handler : lookup[h].step \in Positive => Registered(lookup[h].id)

ReceiverInv ==
    /\ \A h \in Handler : chat[h].step # "idle" => Registered(chat[h].to)
    /\ \A m \in messages : Registered(m.to)

LEMMA UsersGrowLemma ==
    ASSUME TwinInv, [ConversationNext]_allVars
    PROVE  \A u \in UserId : Registered(u) => Registered(u)'
<1>1. Len(users) \in Nat
  BY LenProperties DEF TwinInv
<1>2. users' = users \/ \E r \in Call : CreateUser(r)
  BY DEF ConversationNext, allVars, RegisterStep, CheckName, Refuse, ChatStep, LookupStep,
     ReadCache, ReadUser, FillUser, ExpireUser, UserExpires, CheckCache, Search, CreateConversation,
     CacheConversation, AddMember, CreateMessage, Dies, Begin, BeginLookup, Expiry,
     ConversationExpires, accountVars
<1>3. ASSUME NEW r \in Call, CreateUser(r) PROVE Len(users') = Len(users) + 1
  <2> DEFINE S == [name : Name, call : Call]
             u == [name |-> reg[r].name, call |-> r]
  <2>1. users' = Append(users, u) /\ users \in Seq(S) /\ u \in S
    BY <1>3 DEF CreateUser, TwinInv
  <2> HIDE DEF S, u
  <2> QED
    BY <2>1, AppendProperties
<1>4. CASE users' = users
  BY <1>4 DEF Registered
<1>5. CASE \E r \in Call : CreateUser(r)
  BY <1>1, <1>3, <1>5 DEF Registered, UserId
<1> QED
  BY <1>2, <1>4, <1>5

LEMMA LookedUpStepLemma ==
    ASSUME TwinInv, ShapeInv, LookedUpInv, [ConversationNext]_allVars
    PROVE  LookedUpInv'
<1>0. \A u \in UserId : Registered(u) => Registered(u)'
  BY UsersGrowLemma
<1>1. \A h \in Handler : lookup[h].step # "idle" => lookup[h].id \in UserId
  BY DEF ShapeInv, Lookup
<1>2. CASE UNCHANGED <<userCache, lookup>>
  BY <1>0, <1>1, <1>2 DEF LookedUpInv, Registered, Positive
<1>3. ASSUME NEW h \in Handler, userCache' = userCache,
             \A g \in Handler : g # h => lookup'[g] = lookup[g],
             \/ lookup'[h].step \notin Positive
             \/ lookup'[h].id \in UserId /\ Registered(lookup'[h].id)
      PROVE  LookedUpInv'
  BY <1>0, <1>1, <1>3 DEF LookedUpInv, Registered, Positive
<1>4. ASSUME NEW h \in Handler, CheckCache(h) \/ Dies(h) PROVE LookedUpInv'
  <2>1. userCache' = userCache /\ lookup' = [lookup EXCEPT ![h] = Idle]
    BY <1>4 DEF CheckCache, Dies
  <2>2. lookup'[h] = Idle /\ \A g \in Handler : g # h => lookup'[g] = lookup[g]
    BY <2>1 DEF ShapeInv
  <2>3. lookup'[h].step \notin Positive
    BY <2>2 DEF Idle, Positive
  <2> QED
    BY <1>3, <2>1, <2>2, <2>3
<1>5. ASSUME NEW h \in Handler, NEW v \in UserId, Begin(h, v) PROVE LookedUpInv'
  BY <1>3, <1>5 DEF Begin, BeginLookup, ShapeInv, Idle, Positive
<1>6. ASSUME NEW h \in Handler, ReadCache(h) PROVE LookedUpInv'
  <2>1. lookup[h].step = "user" /\ lookup[h].id \in UserId
    BY <1>1, <1>6 DEF ReadCache
  <2>2. userCache[lookup[h].id] = "known" => Registered(lookup[h].id)
    BY <2>1 DEF LookedUpInv
  <2>3. \/ lookup'[h].step \notin Positive
        \/ userCache[lookup[h].id] = "known" /\ lookup'[h].id = lookup[h].id
    <3>1. userCache[lookup[h].id] \in {"miss", "known", "absent"}
      BY <2>1 DEF ShapeInv
    <3>2. lookup[h] \in [step : LookupStepName, id : UserId]
      BY <2>1 DEF ShapeInv, Lookup
    <3>3. ASSUME NEW answer \in {"known", "absent", "userdb"}, CachedAnswer(h, answer)
          PROVE  lookup'[h] = IF answer = "absent" THEN Idle ELSE [lookup[h] EXCEPT !.step = answer]
      BY <3>3 DEF CachedAnswer, ShapeInv
    <3>4. \E answer \in {"known", "absent", "userdb"} :
             /\ CachedAnswer(h, answer)
             /\ answer = "known" => userCache[lookup[h].id] = "known"
      BY <1>6, <3>1 DEF ReadCache
    <3>5. PICK answer \in {"known", "absent", "userdb"} :
             /\ CachedAnswer(h, answer)
             /\ answer = "known" => userCache[lookup[h].id] = "known"
      BY <3>4
    <3>6. CASE answer = "known"
      BY <3>2, <3>3, <3>5, <3>6
    <3>7. CASE answer # "known"
      BY <3>2, <3>3, <3>5, <3>7 DEF Idle, Positive
    <3> QED
      BY <3>6, <3>7
  <2>4. userCache' = userCache /\ \A g \in Handler : g # h => lookup'[g] = lookup[g]
    BY <1>6 DEF ReadCache, CachedAnswer, ShapeInv
  <2> QED
    BY <1>3, <2>1, <2>2, <2>3, <2>4
<1>7. ASSUME NEW h \in Handler, ReadUser(h) PROVE LookedUpInv'
  <2>1. lookup[h].step = "userdb" /\ lookup[h].id \in UserId
    BY <1>1, <1>7 DEF ReadUser
  <2>2. lookup[h] \in [step : LookupStepName, id : UserId]
    BY <2>1 DEF ShapeInv, Lookup
  <2>3. /\ userCache' = userCache /\ \A g \in Handler : g # h => lookup'[g] = lookup[g]
        /\ \/ lookup'[h] = [lookup[h] EXCEPT !.step = "fillknown"] /\ Registered(lookup[h].id)
           \/ lookup'[h] = [lookup[h] EXCEPT !.step = "fillabsent"]
           \/ lookup'[h] = Idle
    BY <1>7 DEF ReadUser, ShapeInv, Registered
  <2> QED
    BY <1>3, <2>1, <2>2, <2>3 DEF Idle, Positive
<1>8. ASSUME NEW h \in Handler, FillUser(h) PROVE LookedUpInv'
  <2>1. lookup[h].step \in {"fillknown", "fillabsent"} /\ lookup[h].id \in UserId
    BY <1>1, <1>8 DEF FillUser
  <2>2. lookup[h] \in [step : LookupStepName, id : UserId]
    BY <2>1 DEF ShapeInv, Lookup
  <2>3. /\ \A g \in Handler : g # h => lookup'[g] = lookup[g]
        /\ lookup'[h].id = lookup[h].id
        /\ lookup'[h].step = IF lookup[h].step = "fillknown" THEN "expireknown" ELSE "expireabsent"
    BY <1>8, <2>1, <2>2 DEF FillUser, ShapeInv
  <2>4. \A u \in UserId : userCache'[u] = "known" =>
            userCache[u] = "known" \/ (u = lookup[h].id /\ lookup[h].step = "fillknown")
    <3> DEFINE answer == IF lookup[h].step = "fillknown" THEN "known" ELSE "absent"
    <3>1. userCache' = userCache \/ userCache' = [userCache EXCEPT ![lookup[h].id] = answer]
      BY <1>8 DEF FillUser
    <3>2. userCache \in [UserId -> {"miss", "known", "absent"}]
      BY DEF ShapeInv
    <3>3. answer = "known" => lookup[h].step = "fillknown"
      OBVIOUS
    <3> HIDE DEF answer
    <3> QED
      BY <2>1, <3>1, <3>2, <3>3
  <2>5. lookup[h].step = "fillknown" => Registered(lookup[h].id)
    BY DEF LookedUpInv, Positive
  <2>6. \A u \in UserId : userCache'[u] = "known" => Registered(u)'
    BY <1>0, <2>4, <2>5 DEF LookedUpInv
  <2>7. ASSUME NEW g \in Handler, lookup'[g].step \in Positive
        PROVE  lookup'[g].id \in UserId /\ Registered(lookup'[g].id)
    BY <1>1, <2>1, <2>3, <2>5, <2>7 DEF LookedUpInv, Positive
  <2> QED
    BY <1>0, <2>6, <2>7 DEF LookedUpInv, Registered
<1>10. ASSUME NEW h \in Handler, ExpireUser(h) PROVE LookedUpInv'
  <2>1. lookup[h].step \in {"expireknown", "expireabsent"} /\ lookup[h].id \in UserId
    BY <1>1, <1>10 DEF ExpireUser
  <2>2. lookup[h] \in [step : LookupStepName, id : UserId]
    BY <2>1 DEF ShapeInv, Lookup
  <2>3. lookup'[h] = IF lookup[h].step = "expireknown"
                     THEN [lookup[h] EXCEPT !.step = "known"] ELSE Idle
    BY <1>10, <2>1 DEF ExpireUser, CachedAnswer, ShapeInv
  <2>4. lookup[h].step = "expireknown" => Registered(lookup[h].id)
    BY DEF LookedUpInv, Positive
  <2>5. \/ lookup'[h].step \notin Positive
        \/ lookup'[h].id \in UserId /\ Registered(lookup'[h].id)
    BY <2>1, <2>2, <2>3, <2>4 DEF Idle, Positive
  <2>6. userCache' = userCache /\ \A g \in Handler : g # h => lookup'[g] = lookup[g]
    BY <1>10 DEF ExpireUser, CachedAnswer, ShapeInv
  <2> QED
    BY <1>3, <2>5, <2>6
<1>9. ASSUME NEW u \in UserId, UserExpires(u) PROVE LookedUpInv'
  BY <1>0, <1>1, <1>9 DEF UserExpires, ShapeInv, LookedUpInv, Registered
<1> QED
  BY <1>2, <1>4, <1>5, <1>6, <1>7, <1>8, <1>9, <1>10
  DEF ConversationNext, allVars, RegisterStep, CheckName, Refuse, CreateUser, ChatStep, LookupStep,
      Search, CreateConversation, CacheConversation, AddMember, CreateMessage, Expiry,
      ConversationExpires, accountVars

LEMMA ReceiverStepLemma ==
    ASSUME TwinInv, ShapeInv, Tables, \A g \in Handler : Moves(g), LookedUpInv, ReceiverInv,
           [ConversationNext]_allVars
    PROVE  ReceiverInv'
<1>0. \A u \in UserId : Registered(u) => Registered(u)'
  BY UsersGrowLemma
<1>1. \A h \in Handler : chat[h].step # "idle" => chat[h].to \in UserId
  BY DEF ShapeInv, ChatRec, Searching, Holding
<1>2. ASSUME NEW g \in Handler, chat'[g].step # "idle"
      PROVE  chat'[g].to \in UserId /\ Registered(chat'[g].to)
  <2>1. CASE Starts(g)
    BY <2>1 DEF Starts, LookedUpInv, Positive
  <2>2. CASE ~Starts(g)
    <3>1. chat[g].step # "idle" /\ chat'[g].to = chat[g].to
      BY <1>2, <2>2 DEF Moves, Stays, Stops, Finds, Misses, Creates, Advances
    <3> QED
      BY <1>1, <3>1 DEF ReceiverInv
  <2> QED
    BY <2>1, <2>2
<1>3. ASSUME NEW m \in messages' PROVE m.to \in UserId /\ Registered(m.to)
  <2>1. CASE m \in messages
    BY <2>1 DEF ReceiverInv, ShapeInv
  <2>2. CASE m \notin messages
    <3>1. PICK h \in Handler : chat[h].step = "store" /\ m.to = chat[h].to
      BY <1>3, <2>2 DEF Tables
    <3> QED
      BY <1>1, <3>1 DEF ReceiverInv
  <2> QED
    BY <2>1, <2>2
<1> QED
  BY <1>0, <1>2, <1>3 DEF ReceiverInv, Registered

\* A message is stored only for a registered receiver and in a conversation of
\* its two users (client.go:147-163, conversationMember.go:85-98).
THEOREM MessagesAreBetweenUsers == ConversationSpec => []MessageBetweenUsers
<1>1. ConversationInit => TwinInv /\ LookedUpInv /\ ReceiverInv
  BY EmptySeq DEF ConversationInit, AccountsInit, TwinInv, LookedUpInv, ReceiverInv, Idle, Positive
<1>2. /\ TwinInv /\ ShapeInv /\ TurnInv /\ LookedUpInv /\ ReceiverInv
      /\ [ConversationNext]_allVars
      => TwinInv' /\ LookedUpInv' /\ ReceiverInv'
  BY TwinStepLemma, EffectLemma, LookedUpStepLemma, ReceiverStepLemma
<1>3. ShapeInv /\ IdInv /\ ReceiverInv => MessageBetweenUsers
  <2> SUFFICES ASSUME ShapeInv, IdInv, ReceiverInv, NEW m \in messages
               PROVE  /\ m.to <= Len(users) /\ m.conv <= Len(convs)
                      /\ convs[m.conv].pair = Pair(m.from, m.to)
    BY DEF MessageBetweenUsers
  <2>1. m.conv \in 1 .. Len(convs) /\ Len(convs) \in Nat
    BY LenProperties DEF IdInv, IsId, ShapeInv
  <2> QED
    BY <2>1 DEF IdInv, IsId, ReceiverInv, Registered
<1> QED
  BY <1>1, <1>2, <1>3, ShapeLemma, IdLemma, PTL DEF ConversationSpec

-----------------------------------------------------------------------------
(* Types and bounds.                                                       *)

\* A call of Register makes one user, so there are no more users than ids.
CallInv == \A i, j \in 1 .. Len(users) : users[i].call = users[j].call => i = j

\* Messages that may still lead to a conversation.  They and the conversations
\* there are never outnumber the messages that came in.
Ahead == {h \in Handler : lookup[h] # Idle \/ chat[h].step \in {"search", "create"}}
CountInv ==
    /\ chats \in 0 .. MaxChats
    /\ IsFiniteSet(Ahead) /\ Len(convs) + Cardinality(Ahead) <= chats

\* What a search has seen, and what a failed creation leaves, is in the table.
SeenInv ==
    /\ \A h \in Handler : chat[h].step # "idle" => chat[h].known \subseteq 1 .. Len(convs)
    /\ orphans \subseteq 1 .. Len(convs)

LEMMA NewUserLemma ==
    ASSUME TwinInv, NEW r \in Call, CreateUser(r)
    PROVE  /\ Len(users) \in Nat /\ Len(users') = Len(users) + 1
           /\ users'[Len(users) + 1].call = r
           /\ \A j \in 1 .. Len(users) : users'[j] = users[j] /\ users[j].call # r
<1> DEFINE S == [name : Name, call : Call]
           u == [name |-> reg[r].name, call |-> r]
<1>1. reg[r] \in [step : {"checked", "inserted"}, name : Name, seen : Nat]
  BY DEF CreateUser, TwinInv
<1>2. users' = Append(users, u) /\ users \in Seq(S) /\ u \in S /\ u.call = r
  BY <1>1 DEF CreateUser, TwinInv
<1>3. \A j \in 1 .. Len(users) : users[j].call # r
  BY DEF CreateUser, TwinInv
<1> HIDE DEF S, u
<1>4. /\ Len(users) \in Nat /\ Len(users') = Len(users) + 1 /\ users'[Len(users) + 1] = u
      /\ \A j \in 1 .. Len(users) : users'[j] = users[j]
  BY <1>2, AppendProperties, LenProperties
<1> QED
  BY <1>2, <1>3, <1>4

LEMMA CallStepLemma == TwinInv /\ CallInv /\ [ConversationNext]_allVars => CallInv'
<1> SUFFICES ASSUME TwinInv, CallInv, [ConversationNext]_allVars PROVE CallInv'
  OBVIOUS
<1>1. CASE UNCHANGED users
  BY <1>1 DEF CallInv
<1>2. ASSUME NEW r \in Call, CreateUser(r) PROVE CallInv'
  <2>1. \A j \in 1 .. Len(users') : j \in 1 .. Len(users) \/ j = Len(users) + 1
    BY <1>2, NewUserLemma
  <2> QED
    BY <1>2, <2>1, NewUserLemma DEF CallInv
<1> QED
  BY <1>1, <1>2 DEF ConversationNext, allVars, RegisterStep, CheckName, Refuse, ChatStep, LookupStep,
     ReadCache, ReadUser, FillUser, ExpireUser, UserExpires, CheckCache, Search, CreateConversation,
     CacheConversation, AddMember, CreateMessage, Dies, Begin, BeginLookup, Expiry,
     ConversationExpires, accountVars

LEMMA UsersBoundLemma ==
    ASSUME TwinInv, CallInv
    PROVE  Len(users) \in Nat /\ Cardinality(Call) \in Nat /\ Len(users) <= Cardinality(Call)
<1> DEFINE f == [j \in 1 .. Len(users) |-> users[j].call]
           S == [name : Name, call : Call]
<1>1. users \in Seq(S) /\ Len(users) \in Nat
  BY LenProperties DEF TwinInv
<1>2. \A j \in 1 .. Len(users) : users[j].call \in Call
  <2>1. \A j \in 1 .. Len(users) : users[j] \in S
    <3> HIDE DEF S
    <3> QED
      BY <1>1, ElementOfSeq
  <2> QED
    BY <2>1
<1>3. f \in Injection(1 .. Len(users), Call)
  BY <1>2 DEF CallInv, Injection, IsInjective
<1>4. IsFiniteSet(Call)
  BY AccountsAssumption
<1> HIDE DEF f
<1>5. Cardinality(1 .. Len(users)) <= Cardinality(Call)
  BY <1>3, <1>4, FS_Injection
<1>6. Cardinality(1 .. Len(users)) = Len(users)
  <2>1. ASSUME NEW k \in Nat PROVE Cardinality(1 .. k) = k
    <3>1. 1 \in Int /\ k \in Int
      OBVIOUS
    <3>2. Cardinality(1 .. k) = IF 1 > k THEN 0 ELSE k - 1 + 1
      BY <3>1, FS_Interval
    <3> QED
      BY <3>2
  <2> QED
    BY <1>1, <2>1
<1> QED
  BY <1>1, <1>4, <1>5, <1>6, FS_CardinalityType

LEMMA AheadShrinksLemma ==
    ASSUME CountInv, UNCHANGED <<convs, chats>>, NEW A, A = Ahead', A \subseteq Ahead
    PROVE  CountInv'
<1> DEFINE B == Ahead
<1>1. IsFiniteSet(B) /\ A \subseteq B
  BY DEF CountInv
<1> HIDE DEF B
<1>2. IsFiniteSet(A) /\ Cardinality(A) <= Cardinality(B)
  BY <1>1, FS_Subset
<1>3. Cardinality(A) \in Nat /\ Cardinality(B) \in Nat
  BY <1>1, <1>2, FS_CardinalityType
<1> QED
  BY <1>2, <1>3 DEF CountInv, B

LEMMA CountStepLemma ==
    ASSUME ShapeInv, TurnInv, CountInv, [ConversationNext]_allVars
    PROVE  CountInv'
<1> USE ConversationAssumption
<1>0. /\ Len(convs) \in Nat /\ IsFiniteSet(Ahead) /\ Cardinality(Ahead) \in Nat
  BY LenProperties, FS_CardinalityType DEF ShapeInv, CountInv
<1>1. CASE UNCHANGED <<lookup, chat, convs, chats>>
  BY <1>1, AheadShrinksLemma DEF Ahead
<1>2. ASSUME NEW h \in Handler, NEW v \in UserId, Begin(h, v) PROVE CountInv'
  <2>1. /\ lookup[h] = Idle /\ chat[h] = Idle /\ lookup'[h] # Idle
        /\ chat' = chat /\ convs' = convs /\ chats' = chats + 1 /\ chats < MaxChats
        /\ \A g \in Handler : g # h => lookup'[g] = lookup[g]
    BY <1>2 DEF Begin, BeginLookup, ShapeInv, Idle
  <2>2. h \notin Ahead /\ Ahead' = Ahead \cup {h}
    BY <2>1 DEF Ahead, Idle
  <2>3. IsFiniteSet(Ahead \cup {h}) /\ Cardinality(Ahead \cup {h}) = Cardinality(Ahead) + 1
    BY <1>0, <2>2, FS_AddElement
  <2> QED
    BY <1>0, <2>1, <2>2, <2>3 DEF CountInv
<1>3. ASSUME NEW h \in Handler, h \in Ahead,
             \A g \in Handler : g # h => lookup'[g] = lookup[g] /\ chat'[g] = chat[g],
             UNCHANGED <<convs, chats>>
      PROVE  CountInv'
  <2>1. Ahead' \subseteq Ahead
    BY <1>3 DEF Ahead
  <2> QED
    BY <1>3, <2>1, AheadShrinksLemma
<1>4. ASSUME NEW h \in Handler, LookupStep(h), UNCHANGED conversationVars PROVE CountInv'
  <2>1. lookup[h] # Idle /\ \A g \in Handler : g # h => lookup'[g] = lookup[g]
    BY <1>4 DEF LookupStep, ReadCache, ReadUser, FillUser, ExpireUser, CachedAnswer, ShapeInv, Idle
  <2> QED
    BY <1>3, <1>4, <2>1 DEF Ahead, conversationVars
<1>5. ASSUME NEW h \in Handler, CheckCache(h) PROVE CountInv'
  <2>1. lookup[h] # Idle
    BY <1>5 DEF CheckCache, Idle
  <2>2. \A g \in Handler : g # h => lookup'[g] = lookup[g] /\ chat'[g] = chat[g]
    BY <1>5 DEF CheckCache, ShapeInv
  <2> QED
    BY <1>3, <1>5, <2>1, <2>2 DEF Ahead, CheckCache
<1>6. ASSUME NEW h \in Handler, Search(h) PROVE CountInv'
  BY <1>3, <1>6 DEF Search, Ahead, accountVars, ShapeInv
<1>7. ASSUME NEW h \in Handler, CreateConversation(h) PROVE CountInv'
  <2>1. /\ chat[h].step = "create" /\ h \in Ahead /\ lookup' = lookup /\ chats' = chats
        /\ \A g \in Handler : g # h => chat'[g] = chat[g]
    BY <1>7 DEF CreateConversation, Ahead, accountVars, ShapeInv
  <2>2. CASE UNCHANGED convs
    BY <1>3, <2>1, <2>2
  <2>3. CASE /\ convs' = Append(convs, [pair |-> PairOf(h), known |-> chat[h].known])
             /\ chat' = [chat EXCEPT ![h] = At(h, "cachenew", Len(convs) + 1)]
    <3>0. Len(convs) + 1 \in Nat /\ chat[h].step # "idle"
      BY <1>0, <2>1
    <3>1. chat'[h].step = "cachenew" /\ Creates(h)
      <4> DEFINE x == At(h, "cachenew", Len(convs) + 1)
      <4>1. x.step = "cachenew" /\ x.to = chat[h].to /\ x.known = chat[h].known
            /\ x.conv = Len(convs) + 1
        BY <3>0, AtLemma
      <4> HIDE DEF x
      <4>2. chat'[h] = x
        BY <2>3 DEF x, ShapeInv
      <4> QED
        BY <2>1, <2>3, <4>1, <4>2 DEF Creates
    <3>2. Len(convs') = Len(convs) + 1
      BY <3>1, AddedLemma
    <3>3. lookup[h] = Idle
      BY <2>1 DEF TurnInv, Idle
    <3>4. Ahead' = Ahead \ {h}
      BY <2>1, <3>1, <3>3 DEF Ahead
    <3>5. IsFiniteSet(Ahead \ {h}) /\ Cardinality(Ahead \ {h}) = Cardinality(Ahead) - 1
      BY <1>0, <2>1, FS_RemoveElement
    <3> QED
      BY <1>0, <2>1, <3>2, <3>4, <3>5 DEF CountInv
  <2> QED
    BY <1>7, <2>2, <2>3 DEF CreateConversation
<1>8. ASSUME NEW h \in Handler, CacheConversation(h) \/ AddMember(h) \/ CreateMessage(h) PROVE CountInv'
  <2>1. /\ lookup' = lookup /\ UNCHANGED <<convs, chats>>
        /\ \A g \in Handler : g # h => chat'[g] = chat[g]
    BY <1>8 DEF CacheConversation, AddMember, CreateMessage, accountVars, ShapeInv
  <2>2. chat'[h].step \notin {"search", "create"}
    <3>1. CASE CacheConversation(h)
      <4>1. chat[h].step \in {"cachefound", "cachenew"}
        BY <3>1 DEF CacheConversation
      <4> QED
        BY <3>1, <4>1, ChangeStepLemma DEF CacheConversation, ShapeInv
    <3>2. CASE AddMember(h)
      <4>1. chat[h].step \in {"join", "jointarget"}
        BY <3>2 DEF AddMember
      <4>2. \A s \in {"jointarget", "store"} : [chat[h] EXCEPT !.step = s].step = s
        BY <4>1, ChangeStepLemma
      <4> QED
        <5>1. CASE chat' = [chat EXCEPT ![h] = Idle]
          BY <5>1 DEF ShapeInv, Idle
        <5>2. CASE chat' = [chat EXCEPT ![h].step = IF @ = "join" THEN "jointarget" ELSE "store"]
          BY <4>2, <5>2 DEF ShapeInv
        <5> QED
          BY <3>2, <5>1, <5>2 DEF AddMember
    <3>3. CASE CreateMessage(h)
      BY <3>3 DEF CreateMessage, ShapeInv, Idle
    <3> QED
      BY <1>8, <3>1, <3>2, <3>3
  <2>3. Ahead' \subseteq Ahead
    BY <2>1, <2>2 DEF Ahead
  <2> QED
    BY <2>1, <2>3, AheadShrinksLemma
<1>9. ASSUME NEW h \in Handler, Dies(h) PROVE CountInv'
  <2>1. /\ UNCHANGED <<convs, chats>> /\ chat'[h] = Idle /\ lookup'[h] = Idle
        /\ \A g \in Handler : g # h => chat'[g] = chat[g] /\ lookup'[g] = lookup[g]
    BY <1>9 DEF Dies, ShapeInv
  <2>2. Ahead' \subseteq Ahead
    BY <2>1 DEF Ahead, Idle
  <2> QED
    BY <2>1, <2>2, AheadShrinksLemma
<1> QED
  BY <1>1, <1>2, <1>4, <1>5, <1>6, <1>7, <1>8, <1>9
  DEF ConversationNext, allVars, ChatStep, Expiry, RegisterStep, CheckName, Refuse, CreateUser,
      UserExpires, ConversationExpires, accountVars, conversationVars

LEMMA SeenStepLemma ==
    ASSUME ShapeInv, ShapeInv', Tables, \A g \in Handler : Moves(g), IdInv, SeenInv
    PROVE  SeenInv'
<1>0. 1 .. Len(convs) \subseteq 1 .. Len(convs')
  BY GrowLemma
<1>1. ASSUME NEW g \in Handler, chat'[g].step # "idle"
      PROVE  chat'[g].known \subseteq 1 .. Len(convs)
  <2>1. CASE Starts(g)
    BY <2>1 DEF Starts, Complete
  <2>2. CASE ~Starts(g)
    <3>1. chat[g].step # "idle" /\ chat'[g].known = chat[g].known
      BY <1>1, <2>2 DEF Moves, Stays, Stops, Finds, Misses, Creates, Advances
    <3> QED
      BY <3>1 DEF SeenInv
  <2> QED
    BY <2>1, <2>2
<1>2. ASSUME NEW c \in orphans' PROVE c \in 1 .. Len(convs)
  <2>1. CASE c \in orphans
    BY <2>1 DEF SeenInv
  <2>2. CASE c \notin orphans
    <3>1. PICK h \in Handler :
              chat[h].step \in {"cachenew", "join", "jointarget"} /\ c = chat[h].conv
      BY <1>2, <2>2 DEF Tables
    <3> QED
      BY <3>1 DEF IdInv, IsId
  <2> QED
    BY <2>1, <2>2
<1> QED
  BY <1>0, <1>1, <1>2 DEF SeenInv

LEMMA SeqOfLemma ==
    ASSUME NEW S, NEW T, NEW s \in Seq(S), \A i \in 1 .. Len(s) : s[i] \in T
    PROVE  s \in Seq(T)
<1>1. Len(s) \in Nat /\ s = [i \in 1 .. Len(s) |-> s[i]]
  BY LenProperties
<1>2. s \in [1 .. Len(s) -> T]
  BY <1>1
<1> QED
  BY <1>1, <1>2, SeqDef

\* Every variable keeps its type and TLC's bounds keep nothing out that the
\* code would do: a user has an id, and there are no more conversations than
\* messages that came in, since a message creates one at most
\* (client.go:147-208).
THEOREM ConversationTypeCorrect == ConversationSpec => []ConversationTypeOK
<1> DEFINE BInv == CallInv /\ CountInv /\ SeenInv
<1>1. ConversationInit => TwinInv /\ BInv
  <2> SUFFICES ASSUME ConversationInit PROVE TwinInv /\ BInv
    OBVIOUS
  <2>1. TwinInv /\ CallInv /\ SeenInv
    BY EmptySeq DEF ConversationInit, AccountsInit, TwinInv, CallInv, SeenInv, Idle
  <2>2. Ahead = {} /\ Len(convs) = 0 /\ chats = 0
    BY DEF ConversationInit, AccountsInit, Ahead, Idle
  <2> QED
    BY <2>1, <2>2, FS_EmptySet, ConversationAssumption DEF CountInv
<1>2. /\ TwinInv /\ ShapeInv /\ ShapeInv' /\ TurnInv /\ IdInv /\ BInv
      /\ [ConversationNext]_allVars
      => TwinInv' /\ BInv'
  BY TwinStepLemma, EffectLemma, CallStepLemma, CountStepLemma, SeenStepLemma
<1>3. TwinInv /\ ShapeInv /\ IdInv /\ CreatedOnlyIfNone /\ BInv => ConversationTypeOK
  <2> SUFFICES ASSUME TwinInv, ShapeInv, IdInv, CreatedOnlyIfNone, BInv PROVE ConversationTypeOK
    OBVIOUS
  <2>1. /\ Len(users) \in Nat /\ Cardinality(Call) \in Nat /\ Len(users) <= Cardinality(Call)
    BY UsersBoundLemma
  <2>2. AccountsTypeOK
    <3>1. ASSUME NEW r \in Call
          PROVE  reg[r] \in [step : {"new", "ended"}]
                     \cup [step : {"checked", "inserted"}, name : Name, seen : 0 .. Cardinality(Call)]
      <4>1. CASE reg[r].step \in {"checked", "inserted"}
        <5>1. reg[r] \in [step : {"checked", "inserted"}, name : Name, seen : Nat]
          BY <4>1 DEF TwinInv
        <5>2. reg[r].seen \in 0 .. Cardinality(Call)
          BY <2>1, <4>1, <5>1 DEF TwinInv
        <5> QED
          BY <5>1, <5>2
      <4>2. CASE reg[r].step \notin {"checked", "inserted"}
        BY <4>2 DEF TwinInv
      <4> QED
        BY <4>1, <4>2
    <3> QED
      BY <2>1, <3>1 DEF AccountsTypeOK, TwinInv, ShapeInv
  <2>3. Len(convs) \in Nat /\ MaxChats \in Nat /\ Len(convs) <= MaxChats
    BY LenProperties, FS_CardinalityType, ConversationAssumption DEF ShapeInv, CountInv
  <2>4. 1 .. Len(convs) \subseteq ConvId /\ \A c \in ConvId : c \in 0 .. MaxChats
    BY <2>3 DEF ConvId
  <2>5. ASSUME NEW h \in Handler PROVE chat[h] \in Chat
    <3>1. CASE chat[h].step = "idle"
      BY <3>1 DEF ShapeInv, ChatRec, Searching, Holding, Chat
    <3>2. CASE chat[h] \in Searching
      <4>1. chat[h].known \in SUBSET ConvId
        BY <2>4, <3>2 DEF SeenInv, Searching
      <4> QED
        BY <3>2, <4>1 DEF Chat, Searching
    <3>3. CASE chat[h] \in Holding
      <4>1. chat[h].known \in SUBSET ConvId /\ chat[h].conv \in ConvId
        BY <2>4, <3>3 DEF SeenInv, IdInv, IsId, Holding
      <4> QED
        BY <3>3, <4>1 DEF Chat, Holding
    <3> QED
      BY <3>1, <3>2, <3>3 DEF ShapeInv, ChatRec
  <2>6. convs \in Seq([pair : Pairs, known : SUBSET ConvId])
    <3> DEFINE S == [pair : Pairs, known : SUBSET Nat]
               T == [pair : Pairs, known : SUBSET ConvId]
    <3>1. convs \in Seq(S) /\ \A x \in S : x.known = {} => x \in T
      BY DEF ShapeInv
    <3> HIDE DEF S, T
    <3>2. \A i \in 1 .. Len(convs) : convs[i] \in T
      BY <3>1, ElementOfSeq DEF CreatedOnlyIfNone
    <3>3. convs \in Seq(T)
      BY <3>1, <3>2, SeqOfLemma
    <3> QED
      BY <3>3 DEF T
  <2>7. members \subseteq ConvId \X UserId
    BY <2>4 DEF ShapeInv, IdInv
  <2>8. convCache \in [Pairs -> 0 .. MaxChats]
    BY <2>3, <2>4 DEF ShapeInv, IdInv, IsId
  <2>9. messages \subseteq [from : UserId, to : UserId, conv : ConvId]
    BY <2>4 DEF ShapeInv, IdInv, IsId
  <2> QED
    BY <2>2, <2>3, <2>4, <2>5, <2>6, <2>7, <2>8, <2>9
    DEF ConversationTypeOK, CountInv, SeenInv, ShapeInv
<1> QED
  BY <1>1, <1>2, <1>3, ShapeLemma, IdLemma, NeverASecondOne, PTL DEF ConversationSpec

=============================================================================
