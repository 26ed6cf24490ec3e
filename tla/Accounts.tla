------------------------------- MODULE Accounts -------------------------------
(***************************************************************************)
(* internal/service/user.go and internal/repository/user.go: registration, *)
(* login, and the lookup of a user by id with its cache in Redis.          *)
(*                                                                         *)
(* Register looks the name up and then inserts the row, each a statement   *)
(* of its own.  Ids are given in the order of the rows.  The lookup reads  *)
(* Redis, then MySQL, then writes back what it found: the user for five    *)
(* hours, or the absence of one for five minutes.  The entry and its       *)
(* lifetime are two commands of a pipeline, not of a transaction: other    *)
(* clients' commands may come between them, either may fail alone, and the *)
(* error is only logged.  Any client may name any id, one that is not      *)
(* registered yet included.                                                *)
(***************************************************************************)
EXTENDS Integers, Sequences, FiniteSets

CONSTANTS
    Name,           \* usernames
    Call,           \* calls of Register
    Handler,        \* ListenMsg goroutines, which look users up
    RedisMayFail,   \* whether a Redis command may return an error
    MySQLMayFail    \* whether a statement may return an error

ASSUME AccountsAssumption ==
    /\ IsFiniteSet(Call)
    /\ RedisMayFail \in BOOLEAN /\ MySQLMayFail \in BOOLEAN

VARIABLES
    users,       \* table users in the order of the ids: the name, and the call
    reg,         \* reg[r]: where call r stands, and the rows it has looked at
    userCache,   \* userCache[u]: what Redis holds under user:u
    ttl,         \* ttl[u]: whether that entry has a lifetime
    lookup       \* lookup[h]: where GetUserByUserID of h stands

accountVars == <<users, reg, userCache, ttl, lookup>>

UserId == 1 .. Cardinality(Call)

\* user: to read Redis.  userdb: to read MySQL.  fillknown, fillabsent: to
\* write the entry.  expireknown, expireabsent: to give it its lifetime.
\* known: the user is found.
LookupStepName == {"user", "userdb", "fillknown", "fillabsent",
                   "expireknown", "expireabsent", "known"}
Lookup == [step : {"idle"}] \cup [step : LookupStepName, id : UserId]
Idle == [step |-> "idle"]

\* kept: there is no entry, or one with a lifetime.  due: the entry has none
\* yet.  lost: an EXPIRE that was due failed; to Redis the same as due.
Lifetime == {"kept", "due", "lost"}

AccountsTypeOK ==
    /\ users \in Seq([name : Name, call : Call]) /\ Len(users) <= Cardinality(Call)
    /\ reg \in [Call -> [step : {"new", "ended"}]
                        \cup [step : {"checked", "inserted"}, name : Name, seen : 0 .. Cardinality(Call)]]
    /\ userCache \in [UserId -> {"miss", "known", "absent"}]
    /\ ttl \in [UserId -> Lifetime]
    /\ lookup \in [Handler -> Lookup]

AccountsInit ==
    /\ users = <<>>
    /\ reg = [r \in Call |-> [step |-> "new"]]
    /\ userCache = [u \in UserId |-> "miss"]
    /\ ttl = [u \in UserId |-> "kept"]
    /\ lookup = [h \in Handler |-> Idle]

-----------------------------------------------------------------------------
(* Register.                                                               *)

\* GetUserByUsername.  Slip: to go on although the name is taken.
CheckNothing(r, name) ==
    /\ reg[r].step = "new"
    /\ reg' = [reg EXCEPT ![r] = [step |-> "checked", name |-> name, seen |-> Len(users)]]
    /\ UNCHANGED <<users, userCache, ttl, lookup>>
CheckName(r, name) ==
    /\ reg[r].step = "new"
    /\ \A u \in 1 .. Len(users) : users[u].name # name
    /\ reg' = [reg EXCEPT ![r] = [step |-> "checked", name |-> name, seen |-> Len(users)]]
    /\ UNCHANGED <<users, userCache, ttl, lookup>>

\* The name is taken, the password too short, or a statement fails.
Refuse(r) ==
    /\ reg[r].step \in {"new", "checked"}
    /\ reg' = [reg EXCEPT ![r] = [step |-> "ended"]]
    /\ UNCHANGED <<users, userCache, ttl, lookup>>

\* CreateUser: no unique index keeps a name from a second row.
CreateUser(r) ==
    /\ reg[r].step = "checked"
    /\ users' = Append(users, [name |-> reg[r].name, call |-> r])
    /\ reg' = [reg EXCEPT ![r].step = "inserted"]
    /\ UNCHANGED <<userCache, ttl, lookup>>

\* Login reads the first row of the name, so its user is the only one of the
\* name who ever gets a token.
CanLogin(u) ==
    /\ u \in 1 .. Len(users)
    /\ \A w \in 1 .. u - 1 : users[w].name # users[u].name

-----------------------------------------------------------------------------
(* GetUserByUserID.                                                        *)

BeginLookup(h, u) ==
    /\ lookup[h] = Idle
    /\ lookup' = [lookup EXCEPT ![h] = [step |-> "user", id |-> u]]
    /\ UNCHANGED <<users, reg, userCache, ttl>>

\* HGETALL.  A known absence ends the lookup; a miss or an error goes on to
\* MySQL.  Slip: not to look for the id 0 that stands for absence.
CachedAnswer(h, answer) ==
    lookup' = [lookup EXCEPT ![h] = IF answer = "absent" THEN Idle
                                    ELSE [@ EXCEPT !.step = answer]]
ReadCacheBlindly(h) ==
    /\ lookup[h].step = "user"
    /\ LET found == userCache[lookup[h].id] # "miss" IN
       lookup' = [lookup EXCEPT ![h].step = IF found THEN "known" ELSE "userdb"]
    /\ UNCHANGED <<users, reg, userCache, ttl>>
ReadCache(h) ==
    /\ lookup[h].step = "user"
    /\ \/ /\ userCache[lookup[h].id] # "miss"
          /\ CachedAnswer(h, userCache[lookup[h].id])
       \/ /\ userCache[lookup[h].id] = "miss" \/ RedisMayFail
          /\ CachedAnswer(h, "userdb")
    /\ UNCHANGED <<users, reg, userCache, ttl>>

\* SELECT by id.
ReadUser(h) ==
    /\ lookup[h].step = "userdb"
    /\ \/ lookup' = [lookup EXCEPT ![h].step =
                        IF lookup[h].id <= Len(users) THEN "fillknown" ELSE "fillabsent"]
       \/ MySQLMayFail /\ lookup' = [lookup EXCEPT ![h] = Idle]
    /\ UNCHANGED <<users, reg, userCache, ttl>>

\* HSET.  An entry that is there keeps the lifetime it has or lacks; a new
\* one has none.  When it fails, EXPIRE is tried nevertheless.
FillUser(h) ==
    /\ lookup[h].step \in {"fillknown", "fillabsent"}
    /\ LET u == lookup[h].id
           known == lookup[h].step = "fillknown"
       IN /\ \/ /\ userCache' = [userCache EXCEPT ![u] = IF known THEN "known" ELSE "absent"]
                /\ ttl' = [ttl EXCEPT ![u] = IF userCache[u] = "miss" THEN "due" ELSE @]
             \/ RedisMayFail /\ UNCHANGED <<userCache, ttl>>
          /\ lookup' = [lookup EXCEPT ![h].step = IF known THEN "expireknown" ELSE "expireabsent"]
    /\ UNCHANGED <<users, reg>>

\* The EXPIRE of u is not executed.
LoseLifetime(u) == ttl' = [ttl EXCEPT ![u] = IF @ = "due" THEN "lost" ELSE @]

\* EXPIRE; an error is only logged.  Slip: to forget it for an absence.
ExpireKnownOnly(h) ==
    /\ lookup[h].step \in {"expireknown", "expireabsent"}
    /\ \/ lookup[h].step = "expireknown" /\ ttl' = [ttl EXCEPT ![lookup[h].id] = "kept"]
       \/ lookup[h].step = "expireabsent" /\ UNCHANGED ttl
       \/ RedisMayFail /\ LoseLifetime(lookup[h].id)
    /\ CachedAnswer(h, IF lookup[h].step = "expireknown" THEN "known" ELSE "absent")
    /\ UNCHANGED <<users, reg, userCache>>
ExpireUser(h) ==
    /\ lookup[h].step \in {"expireknown", "expireabsent"}
    /\ \/ ttl' = [ttl EXCEPT ![lookup[h].id] = "kept"]
       \/ RedisMayFail /\ LoseLifetime(lookup[h].id)
    /\ CachedAnswer(h, IF lookup[h].step = "expireknown" THEN "known" ELSE "absent")
    /\ UNCHANGED <<users, reg, userCache>>

\* Redis drops an entry at the end of its lifetime.
UserExpires(u) ==
    /\ userCache[u] # "miss" /\ ttl[u] = "kept"
    /\ userCache' = [userCache EXCEPT ![u] = "miss"]
    /\ UNCHANGED <<users, reg, ttl, lookup>>

-----------------------------------------------------------------------------
RegisterStep(r) ==
    \/ \E name \in Name : CheckName(r, name)
    \/ Refuse(r) \/ CreateUser(r)

LookupStep(h) == ReadCache(h) \/ ReadUser(h) \/ FillUser(h) \/ ExpireUser(h)

-----------------------------------------------------------------------------
(* What the accounts guarantee.                                            *)

\* Without a unique index two users may share a name, but only when their
\* registrations overlapped: the second had looked the name up before the
\* first was inserted (service/user.go:14-36, pkg/mysql/mysql.go:30).
TwinsOverlapped ==
    \A j \in 1 .. Len(users) : \A i \in 1 .. j - 1 :
        users[i].name = users[j].name => reg[users[j].call].seen < i

\* A user who was looked up before registering is not unknown for ever: from
\* some time on no cached absence stands for a registered user, late writers
\* of one included, except one whose EXPIRE failed or was cut off by the end
\* of its process (repository/user.go:68-79).
EventuallyKnown ==
    \A u \in UserId :
        u <= Len(users) ~> [](userCache[u] = "absent" => ttl[u] = "lost")

=============================================================================
