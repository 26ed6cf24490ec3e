------------------------- MODULE PresenceGaugeProofs -------------------------
(***************************************************************************)
(* Proof about Presence that the gauge OnlineUsers never undercounts, for  *)
(* any number of nodes, users and connections.                             *)
(*                                                                         *)
(* The argument is one of counting.  Every step changes the gauge of a     *)
(* node by at most one, and with it moves at most one client into or out   *)
(* of the clients that are counted, or those that a kick uncounted before  *)
(* Register had counted them.  Nothing bounds the number of connections:   *)
(* that only finitely many have been opened so far is part of the          *)
(* invariant.                                                              *)
(***************************************************************************)
EXTENDS PresenceProofs, FiniteSetTheorems

\* The two sets of GaugeNeverUndercounts.
Counted(n) ==
    {c \in {d \in Client : Home[d] = n} :
        \/ phase[c] \in {"pushing", "listening"} /\ clients[n][Owner[c]] = c
        \/ phase[c] = "clearing"
        \/ kick[c] = "clearing" /\ phase[c] # "registering"}

Early(n) ==
    {c \in {d \in Client : Home[d] = n} : phase[c] = "registering" /\ kick[c] = "cleared"}

Opened == {c \in Client : phase[c] # "new"}

\* Of a session's own Unregister and its kick only one has found the entry.
UncountedOnce == \A c \in Client : phase[c] = "clearing" => kick[c] # "clearing"

GaugeInv == IsFiniteSet(Opened) /\ UncountedOnce /\ GaugeNeverUndercounts

-----------------------------------------------------------------------------
(* Counting.                                                               *)

LEMMA GaugeDef ==
    GaugeNeverUndercounts <=>
        \A n \in Node : gauge[n] >= Cardinality(Counted(n)) - Cardinality(Early(n))
  BY DEF GaugeNeverUndercounts, Counted, Early

\* A counted client has been opened.
LEMMA FiniteLemma ==
    ASSUME IInv, IsFiniteSet(Opened), NEW n
    PROVE  /\ IsFiniteSet(Counted(n)) /\ Cardinality(Counted(n)) \in Nat
           /\ IsFiniteSet(Early(n)) /\ Cardinality(Early(n)) \in Nat
<1>1. Counted(n) \subseteq Opened /\ Early(n) \subseteq Opened
  BY DEF Counted, Early, Opened, IInv, KickAfterEntry
<1>2. IsFiniteSet(Counted(n)) /\ IsFiniteSet(Early(n))
  BY <1>1, FS_Subset
<1> QED BY <1>2, FS_CardinalityType

LEMMA SmallerLemma ==
    ASSUME NEW S, IsFiniteSet(S), NEW T, T \subseteq S
    PROVE  Cardinality(T) <= Cardinality(S) /\ Cardinality(T) \in Nat /\ Cardinality(S) \in Nat
  BY FS_Subset, FS_CardinalityType

LEMMA OneMoreLemma ==
    ASSUME NEW S, IsFiniteSet(S), NEW c, NEW T, T \subseteq S \cup {c}
    PROVE  Cardinality(T) <= Cardinality(S) + 1 /\ Cardinality(T) \in Nat /\ Cardinality(S) \in Nat
<1>1. IsFiniteSet(S \cup {c}) /\ Cardinality(S \cup {c}) <= Cardinality(S) + 1
  <2>1. Cardinality(S) \in Nat
    BY FS_CardinalityType
  <2>2. IsFiniteSet(S \cup {c})
        /\ Cardinality(S \cup {c}) = IF c \in S THEN Cardinality(S) ELSE Cardinality(S) + 1
    BY FS_AddElement
  <2> QED BY <2>1, <2>2
<1> QED BY <1>1, SmallerLemma, FS_CardinalityType

LEMMA OneLessLemma ==
    ASSUME NEW S, IsFiniteSet(S), NEW c \in S, NEW T, T \subseteq S \ {c}
    PROVE  Cardinality(T) <= Cardinality(S) - 1 /\ Cardinality(T) \in Nat /\ Cardinality(S) \in Nat
<1>1. IsFiniteSet(S \ {c}) /\ Cardinality(S \ {c}) = Cardinality(S) - 1
  BY FS_RemoveElement
<1> QED BY <1>1, SmallerLemma, FS_CardinalityType

\* A gauge g that is at least |S| - |E|, and the five ways a step may change
\* it together with the two sets.
LEMMA BalanceLemma ==
    ASSUME NEW g \in Int, NEW h \in Int, NEW S, NEW T, NEW E, NEW F,
           IsFiniteSet(S), IsFiniteSet(T), IsFiniteSet(E), IsFiniteSet(F),
           g >= Cardinality(S) - Cardinality(E),
           \/ h = g /\ T \subseteq S /\ E \subseteq F
           \/ h = g + 1 /\ E \subseteq F /\ \E c : T \subseteq S \cup {c}
           \/ h = g + 1 /\ T \subseteq S /\ \E c : E \subseteq F \cup {c}
           \/ h = g - 1 /\ E \subseteq F /\ \E c \in S : T \subseteq S \ {c}
           \/ h = g - 1 /\ T \subseteq S /\ \E c \in F : E \subseteq F \ {c}
    PROVE  h >= Cardinality(T) - Cardinality(F)
<1>1. /\ Cardinality(S) \in Nat /\ Cardinality(T) \in Nat
      /\ Cardinality(E) \in Nat /\ Cardinality(F) \in Nat
  BY FS_CardinalityType
<1>2. CASE h = g /\ T \subseteq S /\ E \subseteq F
  <2>1. Cardinality(T) <= Cardinality(S) /\ Cardinality(E) <= Cardinality(F)
    BY <1>2, SmallerLemma
  <2> QED BY <1>1, <1>2, <2>1
<1>3. CASE h = g + 1 /\ E \subseteq F /\ \E c : T \subseteq S \cup {c}
  <2>1. Cardinality(T) <= Cardinality(S) + 1 /\ Cardinality(E) <= Cardinality(F)
    BY <1>3, SmallerLemma, OneMoreLemma
  <2> QED BY <1>1, <1>3, <2>1
<1>4. CASE h = g + 1 /\ T \subseteq S /\ \E c : E \subseteq F \cup {c}
  <2>1. Cardinality(T) <= Cardinality(S) /\ Cardinality(E) <= Cardinality(F) + 1
    BY <1>4, SmallerLemma, OneMoreLemma
  <2> QED BY <1>1, <1>4, <2>1
<1>5. CASE h = g - 1 /\ E \subseteq F /\ \E c \in S : T \subseteq S \ {c}
  <2>1. Cardinality(T) <= Cardinality(S) - 1 /\ Cardinality(E) <= Cardinality(F)
    BY <1>5, SmallerLemma, OneLessLemma
  <2> QED BY <1>1, <1>5, <2>1
<1>6. CASE h = g - 1 /\ T \subseteq S /\ \E c \in F : E \subseteq F \ {c}
  <2>1. Cardinality(T) <= Cardinality(S) /\ Cardinality(E) <= Cardinality(F) - 1
    BY <1>6, SmallerLemma, OneLessLemma
  <2> QED BY <1>1, <1>6, <2>1
<1> QED BY <1>2, <1>3, <1>4, <1>5, <1>6

\* A step of client d moves at most d, and on its own node only.
LEMMA FrameLemma ==
    ASSUME IInv, NEW d \in Client, NEW n \in Node,
           \A c \in Client \ {d} :
              /\ phase'[c] = phase[c] /\ kick'[c] = kick[c]
              /\ clients'[Home[c]][Owner[c]] = c => clients[Home[c]][Owner[c]] = c
    PROVE  /\ Counted(n)' \subseteq Counted(n) \cup {d}
           /\ Early(n) \subseteq Early(n)' \cup {d}
           /\ n # Home[d] => d \notin Counted(n)' /\ d \notin Early(n)
  BY DEF Counted, Early

-----------------------------------------------------------------------------
(* The steps.                                                              *)

LEMMA OpenedStepLemma ==
    ASSUME IInv, IsFiniteSet(Opened), PresenceNext
    PROVE  IsFiniteSet(Opened)'
<1> USE DEF IInv, PresenceTypeOK
<1>1. \E c : Opened' \subseteq Opened \cup {c}
  <2>1. ASSUME NEW c \in Client, Accept(c) PROVE Opened' \subseteq Opened \cup {c}
    BY <2>1 DEF Accept, Opened
  <2>2. ASSUME NEW c \in Client, SpawnKick(c) \/ SessionStep(c) PROVE Opened' \subseteq Opened \cup {c}
    BY <2>2 DEF SpawnKick, SessionStep, RegisterEntry, RegisterOnline, StartListening, Leave,
                ClearOnline, Close, KickEntry, KickOnline, Opened
  <2>3. ASSUME NEW n \in Node, NodeStep(n) PROVE Opened' \subseteq Opened
    BY <2>3 DEF NodeStep, BeginShutdown, CloseAllCollect, CloseAllClear, Release, Restart,
                Exit, Crash, Vanish, Opened
  <2>4. ASSUME NEW u \in User, KeyExpires(u) PROVE Opened' \subseteq Opened
    BY <2>4 DEF KeyExpires, Opened
  <2> QED
    BY <2>1, <2>2, <2>3, <2>4 DEF PresenceNext
<1>2. PICK c : Opened' \subseteq Opened \cup {c}
  BY <1>1
<1>3. IsFiniteSet(Opened \cup {c})
  BY FS_AddElement
<1> QED BY <1>2, <1>3, FS_Subset

\* How a step balances the books of node n: the hypothesis of BalanceLemma.
LEMMA BalancedLemma ==
    ASSUME IInv, IInv', GaugeInv, IsFiniteSet(Opened)', NEW n \in Node,
           LET g == gauge[n]  h == gauge'[n]
               S == Counted(n)  T == Counted(n)'
               E == Early(n)  F == Early(n)'
           IN  \/ h = g /\ T \subseteq S /\ E \subseteq F
               \/ h = g + 1 /\ E \subseteq F /\ \E c : T \subseteq S \cup {c}
               \/ h = g + 1 /\ T \subseteq S /\ \E c : E \subseteq F \cup {c}
               \/ h = g - 1 /\ E \subseteq F /\ \E c \in S : T \subseteq S \ {c}
               \/ h = g - 1 /\ T \subseteq S /\ \E c \in F : E \subseteq F \ {c}
    PROVE  gauge'[n] >= Cardinality(Counted(n)') - Cardinality(Early(n)')
<1>1. gauge[n] \in Int /\ gauge'[n] \in Int
  BY DEF IInv, PresenceTypeOK
<1>2. IsFiniteSet(Counted(n)) /\ IsFiniteSet(Early(n))
  BY FiniteLemma DEF GaugeInv
<1>3. IsFiniteSet(Counted(n)') /\ IsFiniteSet(Early(n)')
  <2>1. Counted(n)' \subseteq Opened' /\ Early(n)' \subseteq Opened'
    BY DEF Counted, Early, Opened, IInv, KickAfterEntry
  <2> QED BY <2>1, FS_Subset
<1>4. gauge[n] >= Cardinality(Counted(n)) - Cardinality(Early(n))
  BY GaugeDef DEF GaugeInv
<1> QED BY <1>1, <1>2, <1>3, <1>4, BalanceLemma

\* A step that leaves the gauge alone and counts nobody new.
Calm(n) ==
    gauge'[n] = gauge[n] /\ Counted(n)' \subseteq Counted(n) /\ Early(n) \subseteq Early(n)'

\* Register counts, ClearOnline and KickOnline uncount; the other steps of a
\* connection move it between the sets without changing their sizes.
LEMMA SessionBalanceLemma ==
    ASSUME IInv, IInv', GaugeInv, IsFiniteSet(Opened)', NEW d \in Client, NEW n \in Node,
           Accept(d) \/ SpawnKick(d) \/ SessionStep(d)
    PROVE  gauge'[n] >= Cardinality(Counted(n)') - Cardinality(Early(n)')
<1> USE PresenceAssumption DEF IInv, PresenceTypeOK
<1>1. ASSUME Calm(n) PROVE gauge'[n] >= Cardinality(Counted(n)') - Cardinality(Early(n)')
  BY <1>1, BalancedLemma DEF Calm
<1>2. CASE Accept(d) \/ SpawnKick(d) \/ StartListening(d) \/ Close(d)
  <2>1. /\ \A c \in Client \ {d} : phase'[c] = phase[c] /\ kick'[c] = kick[c]
        /\ clients' = clients /\ gauge' = gauge
    BY <1>2 DEF Accept, SpawnKick, StartListening, Close
  <2>2. d \in Counted(n)' => d \in Counted(n)
    BY <1>2 DEF Accept, SpawnKick, StartListening, Close, Counted, KickAfterEntry
  <2>3. d \notin Early(n)
    BY <1>2 DEF Accept, SpawnKick, StartListening, Close, Early
  <2>4. /\ Counted(n)' \subseteq Counted(n) \cup {d} /\ Early(n) \subseteq Early(n)' \cup {d}
        /\ n # Home[d] => d \notin Counted(n)' /\ d \notin Early(n)
    BY <2>1, FrameLemma
  <2> QED BY <1>1, <2>1, <2>2, <2>3, <2>4 DEF Calm
<1>3. CASE RegisterEntry(d)
  <2>1. /\ \A c \in Client \ {d} : phase'[c] = phase[c] /\ kick'[c] = kick[c]
        /\ gauge' = gauge
    BY <1>3 DEF RegisterEntry
  <2>2. \A c \in Client \ {d} : clients'[Home[c]][Owner[c]] = c => clients[Home[c]][Owner[c]] = c
    BY <1>3 DEF RegisterEntry
  <2>3. d \notin Counted(n)' /\ d \notin Early(n)
    BY <1>3 DEF RegisterEntry, Counted, Early
  <2>4. /\ Counted(n)' \subseteq Counted(n) \cup {d} /\ Early(n) \subseteq Early(n)' \cup {d}
        /\ n # Home[d] => d \notin Counted(n)' /\ d \notin Early(n)
    BY <2>1, <2>2, FrameLemma
  <2> QED BY <1>1, <2>1, <2>3, <2>4 DEF Calm
<1>4. CASE RegisterOnline(d)
  <2>1. /\ \A c \in Client \ {d} : phase'[c] = phase[c] /\ kick'[c] = kick[c]
        /\ clients' = clients /\ kick' = kick /\ phase[d] = "registering" /\ phase'[d] = "pushing"
        /\ gauge' = [gauge EXCEPT ![Home[d]] = @ + 1]
    BY <1>4 DEF RegisterOnline
  <2>2. /\ Counted(n)' \subseteq Counted(n) \cup {d} /\ Early(n) \subseteq Early(n)' \cup {d}
        /\ n # Home[d] => d \notin Counted(n)' /\ d \notin Early(n)
    BY <2>1, FrameLemma
  <2>3. CASE n # Home[d]
    BY <1>1, <2>1, <2>2, <2>3 DEF Calm
  <2>4. CASE n = Home[d] /\ kick[d] = "cleared"
    <3>1. d \notin Counted(n)'
      <4>1. clients[Home[d]][Owner[d]] # d
        <5>1. Home[d] \in Node /\ Owner[d] \in User /\ d # NoClient
          OBVIOUS
        <5>2. clients[Home[d]][Owner[d]] = d => kick[d] \in {"none", "spawned"}
          BY <5>1 DEF EntryIsServed
        <5> QED BY <2>4, <5>2
      <4> QED BY <2>1, <2>4, <4>1 DEF Counted
    <3>2. gauge'[n] = gauge[n] + 1 /\ Counted(n)' \subseteq Counted(n)
      BY <2>1, <2>2, <2>4, <3>1
    <3> QED BY <2>2, <3>2, BalancedLemma
  <2>5. CASE n = Home[d] /\ kick[d] # "cleared"
    <3>1. d \notin Early(n)
      BY <2>5 DEF Early
    <3>2. gauge'[n] = gauge[n] + 1 /\ Early(n) \subseteq Early(n)'
      BY <2>1, <2>2, <2>5, <3>1
    <3> QED BY <2>2, <3>2, BalancedLemma
  <2> QED BY <2>3, <2>4, <2>5
<1>5. CASE Leave(d)
  <2>1. /\ \A c \in Client \ {d} : phase'[c] = phase[c] /\ kick'[c] = kick[c]
        /\ gauge' = gauge /\ clients' = WithoutClient(d) /\ kick' = kick
        /\ phase[d] = "listening" /\ phase'[d] = IF Holds(d) THEN "clearing" ELSE "closing"
    BY <1>5 DEF Leave
  <2>2. \A c \in Client \ {d} : clients'[Home[c]][Owner[c]] = c => clients[Home[c]][Owner[c]] = c
    BY <2>1 DEF WithoutClient
  <2>3. d \in Counted(n)' => d \in Counted(n)
    BY <2>1 DEF Counted, Holds
  <2>4. d \notin Early(n)
    BY <2>1 DEF Early
  <2>5. /\ Counted(n)' \subseteq Counted(n) \cup {d} /\ Early(n) \subseteq Early(n)' \cup {d}
        /\ n # Home[d] => d \notin Counted(n)' /\ d \notin Early(n)
    BY <2>1, <2>2, FrameLemma
  <2> QED BY <1>1, <2>1, <2>3, <2>4, <2>5 DEF Calm
<1>6. CASE KickEntry(d)
  <2>1. /\ \A c \in Client \ {d} : phase'[c] = phase[c] /\ kick'[c] = kick[c]
        /\ gauge' = gauge /\ clients' = WithoutClient(d) /\ phase' = phase
        /\ kick[d] = "spawned" /\ kick'[d] = IF Holds(d) THEN "clearing" ELSE "void"
    BY <1>6 DEF KickEntry
  <2>2. \A c \in Client \ {d} : clients'[Home[c]][Owner[c]] = c => clients[Home[c]][Owner[c]] = c
    BY <2>1 DEF WithoutClient
  <2>3. Holds(d) => phase[d] \in {"registering", "pushing", "listening"}
    BY DEF Holds, EntryIsServed
  <2>4. d \in Counted(n)' => d \in Counted(n)
    <3>1. CASE Holds(d)
      BY <2>1, <2>3, <3>1 DEF Counted, Holds
    <3>2. CASE ~Holds(d)
      BY <2>1, <3>2 DEF Counted, Holds, WithoutClient
    <3> QED BY <3>1, <3>2
  <2>5. d \notin Early(n)
    BY <2>1 DEF Early
  <2>6. /\ Counted(n)' \subseteq Counted(n) \cup {d} /\ Early(n) \subseteq Early(n)' \cup {d}
        /\ n # Home[d] => d \notin Counted(n)' /\ d \notin Early(n)
    BY <2>1, <2>2, FrameLemma
  <2> QED BY <1>1, <2>1, <2>4, <2>5, <2>6 DEF Calm
<1>7. CASE ClearOnline(d)
  <2>1. /\ \A c \in Client \ {d} : phase'[c] = phase[c] /\ kick'[c] = kick[c]
        /\ clients' = clients /\ kick' = kick /\ phase[d] = "clearing" /\ phase'[d] = "closing"
        /\ gauge' = [gauge EXCEPT ![Home[d]] = @ - 1]
    BY <1>7 DEF ClearOnline
  <2>2. /\ Counted(n)' \subseteq Counted(n) \cup {d} /\ Early(n) \subseteq Early(n)' \cup {d}
        /\ n # Home[d] => d \notin Counted(n)' /\ d \notin Early(n)
    BY <2>1, FrameLemma
  <2>3. d \notin Early(n) /\ d \notin Counted(n)'
    BY <2>1 DEF Early, Counted, GaugeInv, UncountedOnce
  <2>4. CASE n # Home[d]
    BY <1>1, <2>1, <2>2, <2>4 DEF Calm
  <2>5. CASE n = Home[d]
    <3>1. gauge'[n] = gauge[n] - 1 /\ d \in Counted(n)
      BY <2>1, <2>5 DEF Counted
    <3>2. Counted(n)' \subseteq Counted(n) \ {d} /\ Early(n) \subseteq Early(n)'
      BY <2>2, <2>3
    <3> QED BY <3>1, <3>2, BalancedLemma
  <2> QED BY <2>4, <2>5
<1>8. CASE KickOnline(d)
  <2>1. /\ \A c \in Client \ {d} : phase'[c] = phase[c] /\ kick'[c] = kick[c]
        /\ clients' = clients /\ phase' = phase /\ kick[d] = "clearing" /\ kick'[d] = "cleared"
        /\ gauge' = [gauge EXCEPT ![Home[d]] = @ - 1]
    BY <1>8 DEF KickOnline
  <2>2. /\ Counted(n)' \subseteq Counted(n) \cup {d} /\ Early(n) \subseteq Early(n)' \cup {d}
        /\ n # Home[d] => d \notin Counted(n)' /\ d \notin Early(n)
    BY <2>1, FrameLemma
  <2>3. d \notin Early(n) /\ d \notin Counted(n)'
    BY <2>1 DEF Early, Counted, GaugeInv, UncountedOnce, EntryIsServed
  <2>4. CASE n # Home[d]
    BY <1>1, <2>1, <2>2, <2>4 DEF Calm
  <2>5. CASE n = Home[d] /\ phase[d] = "registering"
    <3>1. gauge'[n] = gauge[n] - 1 /\ d \in Early(n)'
      BY <2>1, <2>5 DEF Early
    <3>2. Counted(n)' \subseteq Counted(n) /\ Early(n) \subseteq Early(n)' \ {d}
      BY <2>2, <2>3
    <3> QED BY <3>1, <3>2, BalancedLemma
  <2>6. CASE n = Home[d] /\ phase[d] # "registering"
    <3>1. gauge'[n] = gauge[n] - 1 /\ d \in Counted(n)
      BY <2>1, <2>6 DEF Counted
    <3>2. Counted(n)' \subseteq Counted(n) \ {d} /\ Early(n) \subseteq Early(n)'
      BY <2>2, <2>3
    <3> QED BY <3>1, <3>2, BalancedLemma
  <2> QED BY <2>4, <2>5, <2>6
<1> QED BY <1>2, <1>3, <1>4, <1>5, <1>6, <1>7, <1>8 DEF SessionStep

LEMMA UncountedOnceStepLemma ==
    ASSUME IInv, UncountedOnce, PresenceNext
    PROVE  UncountedOnce'
<1> USE PresenceAssumption DEF IInv, PresenceTypeOK, UncountedOnce
<1>1. ASSUME NEW d \in Client, Accept(d) \/ SpawnKick(d) PROVE UncountedOnce'
  BY <1>1 DEF Accept, SpawnKick
<1>2. ASSUME NEW d \in Client, SessionStep(d) PROVE UncountedOnce'
  <2>1. CASE RegisterEntry(d) \/ RegisterOnline(d) \/ StartListening(d) \/ ClearOnline(d) \/ Close(d)
    BY <2>1 DEF RegisterEntry, RegisterOnline, StartListening, ClearOnline, Close
  <2>2. CASE Leave(d)
    <3>1. /\ phase' = [phase EXCEPT ![d] = IF Holds(d) THEN "clearing" ELSE "closing"]
          /\ kick' = kick
      BY <2>2 DEF Leave
    <3>2. Holds(d) => kick[d] \in {"none", "spawned"}
      BY DEF Holds, EntryIsServed
    <3> QED BY <3>1, <3>2
  <2>3. CASE KickEntry(d)
    <3>1. /\ kick' = [kick EXCEPT ![d] = IF Holds(d) THEN "clearing" ELSE "void"]
          /\ phase' = phase
      BY <2>3 DEF KickEntry
    <3>2. Holds(d) => phase[d] \in {"registering", "pushing", "listening"}
      BY DEF Holds, EntryIsServed
    <3> QED BY <3>1, <3>2
  <2>4. CASE KickOnline(d)
    BY <2>4 DEF KickOnline
  <2> QED BY <1>2, <2>1, <2>2, <2>3, <2>4 DEF SessionStep
<1>3. ASSUME NEW n \in Node, NodeStep(n) PROVE UncountedOnce'
  BY <1>3 DEF NodeStep, BeginShutdown, CloseAllCollect, CloseAllClear, Release, Restart,
              Exit, Crash, Vanish
<1>4. ASSUME NEW u \in User, KeyExpires(u) PROVE UncountedOnce'
  BY <1>4 DEF KeyExpires
<1> QED BY <1>1, <1>2, <1>3, <1>4 DEF PresenceNext

LEMMA NodeBalanceLemma ==
    ASSUME IInv, IInv', GaugeInv, IsFiniteSet(Opened)', NEW m \in Node, NEW n \in Node,
           NodeStep(m)
    PROVE  gauge'[n] >= Cardinality(Counted(n)') - Cardinality(Early(n)')
<1> USE PresenceAssumption DEF IInv, PresenceTypeOK
<1>1. CASE \/ BeginShutdown(m) \/ CloseAllCollect(m) \/ CloseAllClear(m)
           \/ Release(m) \/ Restart(m)
  <2>1. UNCHANGED <<clients, gauge, phase, kick>>
    BY <1>1 DEF BeginShutdown, CloseAllCollect, CloseAllClear, Release, Restart
  <2>2. Calm(n)
    BY <2>1 DEF Calm, Counted, Early
  <2> QED BY <2>2, BalancedLemma DEF Calm
<1>2. CASE Exit(m) \/ Crash(m)
  <2>1. Vanish(m)
    BY <1>2 DEF Exit, Crash
  <2>2. CASE n = m
    <3>1. gauge'[n] = 0
      BY <2>1, <2>2 DEF Vanish
    <3>2. Counted(n)' = {} /\ Early(n)' = {}
      BY <2>1, <2>2 DEF Vanish, Counted, Early, KickAfterEntry
    <3> QED BY <3>1, <3>2, FS_EmptySet
  <2>3. CASE n # m
    <3>1. gauge'[n] = gauge[n] /\ clients'[n] = clients[n]
          /\ \A c \in Client : Home[c] = n => phase'[c] = phase[c] /\ kick'[c] = kick[c]
      BY <2>1, <2>3 DEF Vanish
    <3>2. Calm(n)
      BY <3>1 DEF Calm, Counted, Early
    <3> QED BY <3>2, BalancedLemma DEF Calm
  <2> QED BY <2>2, <2>3
<1> QED BY <1>1, <1>2 DEF NodeStep

LEMMA GaugeStepLemma ==
    IInv /\ GaugeInv /\ [PresenceNext]_presenceVars => GaugeInv'
<1> SUFFICES ASSUME IInv, GaugeInv, [PresenceNext]_presenceVars PROVE GaugeInv'
  OBVIOUS
<1>1. CASE UNCHANGED presenceVars
  BY <1>1 DEF presenceVars, GaugeInv, Opened, UncountedOnce, GaugeNeverUndercounts
<1>2. CASE PresenceNext
  <2>1. IInv'
    BY StepLemma
  <2>2. IsFiniteSet(Opened)' /\ UncountedOnce'
    BY <1>2, OpenedStepLemma, UncountedOnceStepLemma DEF GaugeInv
  <2>3. ASSUME NEW n \in Node
        PROVE  gauge'[n] >= Cardinality(Counted(n)') - Cardinality(Early(n)')
    <3>1. ASSUME NEW u \in User, KeyExpires(u) PROVE Calm(n)
      BY <3>1 DEF KeyExpires, Calm, Counted, Early
    <3>2. Calm(n) => gauge'[n] >= Cardinality(Counted(n)') - Cardinality(Early(n)')
      BY <2>1, <2>2, BalancedLemma DEF Calm
    <3> QED
      BY <1>2, <2>1, <2>2, <3>1, <3>2, SessionBalanceLemma, NodeBalanceLemma DEF PresenceNext
  <2>4. GaugeNeverUndercounts'
    BY <2>3 DEF GaugeNeverUndercounts, Counted, Early
  <2> QED BY <2>2, <2>4 DEF GaugeInv
<1> QED BY <1>1, <1>2

\* OnlineUsers of a node is at least the number of users it serves or is about
\* to uncount, less the sessions a kick uncounted before Register counted them
\* (manager.go:63, 76, 88): no session is uncounted twice.
THEOREM GaugeUndercountsNobody == PresenceSpec => []GaugeNeverUndercounts
<1>1. PresenceInit => GaugeInv
  <2> SUFFICES ASSUME PresenceInit PROVE GaugeInv
    OBVIOUS
  <2>1. Opened = {} /\ UncountedOnce
    BY DEF PresenceInit, Opened, UncountedOnce
  <2>2. \A n \in Node : Counted(n) = {} /\ Early(n) = {} /\ gauge[n] = 0
    BY DEF PresenceInit, Counted, Early
  <2>3. GaugeNeverUndercounts
    BY <2>2, GaugeDef, FS_EmptySet
  <2> QED BY <2>1, <2>3, FS_EmptySet DEF GaugeInv
<1>2. GaugeInv => GaugeNeverUndercounts
  BY DEF GaugeInv
<1> QED BY <1>1, <1>2, InitLemma, StepLemma, GaugeStepLemma, PTL DEF PresenceSpec

=============================================================================
