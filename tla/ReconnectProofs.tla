---------------------------- MODULE ReconnectProofs ----------------------------
(***************************************************************************)
(* Proofs about Reconnect, for any nodes, handlers, attempts and faults:   *)
(* it implements ConvUpdate, so that what is proved of the pipeline holds  *)
(* through every recovery, and the state outside a recovery is sound.      *)
(***************************************************************************)
EXTENDS Reconnect, ConvUpdateProofs

-----------------------------------------------------------------------------
(* The pipeline goes on underneath.                                        *)

\* Closing takes an open link down as Breaks does, and nothing else touches
\* the pipeline's state but Reconnects (reconnect.go:14-83).
THEOREM ImplementsPipeline == ReconnectSpec => RefinesPipeline
<1>1. ReconnectInit => ConvInit
  BY DEF ReconnectInit
<1>2. ASSUME [ReconnectNext]_reconnectVars PROVE [ConvNext]_convVars
  <2>1. CASE UNCHANGED reconnectVars
    BY <2>1 DEF reconnectVars, convVars
  <2>2. ASSUME NEW h \in Handler, Publishing(h) \/ StoreMessage(h) PROVE [ConvNext]_convVars
    BY <2>2 DEF Publishing, PublishPanics, ConvNext
  <2>3. ASSUME NEW n \in Node, Brokering(n) \/ BrokerRefuses(n) \/ ConsumerStep(n)
        PROVE  [ConvNext]_convVars
    BY <2>3 DEF Brokering, BrokerStep, ConvNext
  <2>4. ASSUME NEW n \in Node, WatcherStep(n) \/ ConnDies(n) PROVE [ConvNext]_convVars
    <3>1. Breaks(n) \/ Reconnects(n) \/ UNCHANGED convVars
      BY <2>4 DEF WatcherStep, ConnDies, Closes, Register, Notice, CloseOld, Dial,
         DeclareTopology, OpenChannel, ConfirmMode, Consume, RequestFails
    <3> QED
      BY <3>1 DEF ConvNext
  <2> QED
    BY <1>2, <2>1, <2>2, <2>3, <2>4 DEF ReconnectNext
<1> QED
  BY <1>1, <1>2, PTL DEF ReconnectSpec, RefinesPipeline, ConvSpec

\* No message is forgotten, recoveries that fail half way, watchers that stop
\* and publishers that meet a replaced channel included (publisher.go:77-105).
THEOREM RecoveriesForgetNothing == ReconnectSpec => []NothingForgotten
  BY ImplementsPipeline, NoMessageForgotten, PTL DEF RefinesPipeline

\* And what MySQL refuses to a consumer or a fallback was applied, whichever
\* connection it came by (conversation.go:71-73, consumer.go:41-47).
THEOREM RecoveriesRefuseDuplicates == ReconnectSpec => []RefusedWereApplied
  BY ImplementsPipeline, RefusedAreDuplicates, PTL DEF RefinesPipeline

-----------------------------------------------------------------------------
(* Outside a recovery.                                                     *)

\* SteadyState is not inductive alone: it says nothing of the steps of a
\* recovery, and the last of them must hand over a node that has everything.
RecoveryInv ==
    /\ at \in [Node -> At0]
    /\ channel \in [Node -> {"nil", "plain", "confirm", "closed"}]
    /\ SteadyState
    /\ \A n \in Node :
        at[n] = "consuming" => channel[n] = IF n \in alive THEN "confirm" ELSE "closed"

LEMMA ClosesLemma ==
    ASSUME RecoveryInv, NEW n \in Node, Closes(n), UNCHANGED <<at>>,
           at[n] # "stopped" PROVE RecoveryInv'
  BY DEF Closes, RecoveryInv, SteadyState

LEMMA RecoveryStepLemma ==
    ASSUME RecoveryInv, [ReconnectNext]_reconnectVars PROVE RecoveryInv'
<1>1. CASE UNCHANGED <<at, alive, channel, consuming>>
  BY <1>1 DEF RecoveryInv, SteadyState
<1>2. ASSUME NEW n \in Node, ConnDies(n) \/ CloseOld(n) PROVE RecoveryInv'
  <2>1. Closes(n) /\ UNCHANGED at /\ at[n] # "stopped"
    BY <1>2 DEF ConnDies, CloseOld, RecoveryInv, SteadyState
  <2> QED
    BY <2>1, ClosesLemma
<1>3. ASSUME NEW n \in Node, Register(n) \/ Notice(n) PROVE RecoveryInv'
  BY <1>3 DEF Register, Notice, Goto, RecoveryInv, SteadyState, At0, Rebuilding
<1>4. ASSUME NEW n \in Node, Dial(n) PROVE RecoveryInv'
  BY <1>4 DEF Dial, Goto, NextTry, RecoveryInv, SteadyState, At0, Rebuilding
<1>5. ASSUME NEW n \in Node, DeclareTopology(n) PROVE RecoveryInv'
  BY <1>5 DEF DeclareTopology, RequestFails, Goto, NextTry, RecoveryInv, SteadyState, At0, Rebuilding
<1>6. ASSUME NEW n \in Node, OpenChannel(n) PROVE RecoveryInv'
  BY <1>6 DEF OpenChannel, RequestFails, Goto, NextTry, RecoveryInv, SteadyState, At0, Rebuilding
<1>7. ASSUME NEW n \in Node, ConfirmMode(n) PROVE RecoveryInv'
  BY <1>7 DEF ConfirmMode, RequestFails, Goto, NextTry, RecoveryInv, SteadyState, At0, Rebuilding
<1>8. ASSUME NEW n \in Node, Consume(n) PROVE RecoveryInv'
  BY <1>8 DEF Consume, RequestFails, Goto, NextTry, RecoveryInv, SteadyState, At0, Rebuilding
<1> QED
  BY <1>1, <1>2, <1>3, <1>4, <1>5, <1>6, <1>7, <1>8
  DEF ReconnectNext, reconnectVars, watchVars, Publishing, PublishPanics, Brokering, WatcherStep

\* While a connection is open and no recovery runs, publishers have a channel in
\* confirm mode and the consumer runs; while it is closed, publishers get an
\* error and never a nil pointer (reconnect.go:53-66, publisher.go:27-38).
THEOREM SteadyOutsideRecovery == ReconnectSpec => []SteadyState
<1>1. ReconnectInit => RecoveryInv
  BY DEF ReconnectInit, RecoveryInv, SteadyState, At0, Rebuilding
<1>2. RecoveryInv /\ [ReconnectNext]_reconnectVars => RecoveryInv'
  BY RecoveryStepLemma
<1>3. RecoveryInv => SteadyState
  BY DEF RecoveryInv
<1> QED
  BY <1>1, <1>2, <1>3, PTL DEF ReconnectSpec

-----------------------------------------------------------------------------
(* The types, and what they say of the link.                               *)

\* That the pipeline's link is an open connection with a channel in confirm
\* mode is not inductive: a recovery replaces the channel, and must not find
\* one in confirm mode when it does.
ChannelInv ==
    /\ ReconnectTypeOK
    /\ link \in [Node -> BOOLEAN]
    /\ \A n \in Node : channel[n] = "confirm" =>
          n \in alive /\ at[n] \notin {"topology", "opening", "confirming"}

LEMMA GotoTypeLemma ==
    ASSUME ReconnectTypeOK, NEW n \in Node
    PROVE  /\ \A step \in At0 : Goto(n, step) => at' \in [Node -> At0] /\ tries' = tries
           /\ NextTry(n) => /\ at' \in [Node -> At0] /\ tries' \in [Node -> 0 .. MaxAttempts]
                            /\ at'[n] \in {"dialing", "killed"}
                            /\ \A m \in Node : m # n => at'[m] = at[m]
  BY ReconnectAssumption DEF ReconnectTypeOK, Goto, NextTry, At0, Rebuilding

LEMMA ChannelClosesLemma ==
    ASSUME ChannelInv, NEW n \in Node, Closes(n), UNCHANGED <<at, tries, panicked>>,
           faults' \in 0 .. MaxFaults
    PROVE  ChannelInv'
<1> USE DEF ChannelInv, ReconnectTypeOK
<1>1. /\ alive' = alive \ {n} /\ consuming' = consuming \ {n}
      /\ channel' = [channel EXCEPT ![n] = IF @ = "nil" THEN @ ELSE "closed"]
  BY DEF Closes
<1>2. link' \in [Node -> BOOLEAN] /\ ~link'[n] /\ \A m \in Node : m # n => link'[m] = link[m]
  BY DEF Closes, Breaks, convVars
<1> QED BY <1>1, <1>2

\* A request on a connection fails: the watcher moves on, the connection and
\* the pipeline stay as they are, and the channel is not one in confirm mode.
LEMMA ChannelRequestLemma ==
    ASSUME ChannelInv, NEW n \in Node, RequestFails(n),
           \/ channel' = channel
           \/ /\ at[n] \in {"topology", "opening", "confirming"}
              /\ \E s \in {"nil", "closed"} : channel' = [channel EXCEPT ![n] = s]
    PROVE  ChannelInv'
<1> USE DEF ChannelInv, ReconnectTypeOK
<1>1. /\ at' \in [Node -> At0] /\ tries' \in [Node -> 0 .. MaxAttempts]
      /\ at'[n] \in {"dialing", "killed"} /\ \A m \in Node : m # n => at'[m] = at[m]
  BY GotoTypeLemma DEF RequestFails
<1>2. UNCHANGED <<alive, consuming, panicked, link>> /\ faults' \in 0 .. MaxFaults
  BY ReconnectAssumption DEF RequestFails, convVars
<1> QED BY <1>1, <1>2

LEMMA ChannelStepLemma ==
    ASSUME ChannelInv, [ReconnectNext]_reconnectVars PROVE ChannelInv'
<1> USE DEF ChannelInv, ReconnectTypeOK
<1>1. ASSUME NEW n \in Node, ConnDies(n) \/ CloseOld(n) PROVE ChannelInv'
  <2>1. Closes(n) /\ UNCHANGED <<at, tries, panicked>> /\ faults' \in 0 .. MaxFaults
    BY <1>1, ReconnectAssumption DEF ConnDies, CloseOld
  <2> QED BY <2>1, ChannelClosesLemma
<1>2. ASSUME NEW n \in Node, Register(n) \/ Notice(n) PROVE ChannelInv'
  <2>1. /\ at' \in [Node -> At0] /\ tries' \in [Node -> 0 .. MaxAttempts]
        /\ at'[n] \in {"watching", "stopped", "dialing"} /\ \A m \in Node : m # n => at'[m] = at[m]
    BY <1>2, ReconnectAssumption DEF Register, Notice, Goto, At0, Rebuilding
  <2>2. UNCHANGED <<alive, consuming, panicked, faults, channel, link>>
    BY <1>2 DEF Register, Notice, Goto, convVars
  <2> QED BY <2>1, <2>2
<1>3. ASSUME NEW n \in Node, Dial(n) PROVE ChannelInv'
  <2>1. n \notin alive /\ UNCHANGED <<channel, consuming, faults, panicked, link>>
    BY <1>3 DEF Dial, Goto, convVars
  <2>2. alive' \subseteq alive \cup {n} /\ alive \subseteq alive'
    BY <1>3 DEF Dial
  <2>3. /\ at' \in [Node -> At0] /\ tries' \in [Node -> 0 .. MaxAttempts]
        /\ \A m \in Node : m # n => at'[m] = at[m]
    BY <1>3, GotoTypeLemma DEF Dial, Goto, At0, Rebuilding
  <2> QED BY <2>1, <2>2, <2>3
<1>4. ASSUME NEW n \in Node, DeclareTopology(n) PROVE ChannelInv'
  <2>1. CASE /\ n \in alive /\ Goto(n, "opening")
             /\ UNCHANGED <<convVars, alive, consuming, faults>>
    BY <1>4, <2>1 DEF DeclareTopology, Goto, At0, Rebuilding, convVars
  <2>2. CASE RequestFails(n)
    BY <1>4, <2>2, ChannelRequestLemma DEF DeclareTopology
  <2> QED BY <1>4, <2>1, <2>2 DEF DeclareTopology
<1>5. ASSUME NEW n \in Node, OpenChannel(n) PROVE ChannelInv'
  <2>1. CASE /\ n \in alive /\ Goto(n, "confirming")
             /\ channel' = [channel EXCEPT ![n] = "plain"]
             /\ UNCHANGED <<convVars, alive, consuming, faults>>
    BY <1>5, <2>1 DEF OpenChannel, Goto, At0, Rebuilding, convVars
  <2>2. CASE RequestFails(n) /\ channel' = [channel EXCEPT ![n] = "nil"]
    BY <1>5, <2>2, ChannelRequestLemma DEF OpenChannel
  <2> QED BY <1>5, <2>1, <2>2 DEF OpenChannel
<1>6. ASSUME NEW n \in Node, ConfirmMode(n) PROVE ChannelInv'
  <2>1. CASE /\ n \in alive /\ Goto(n, "consuming")
             /\ channel' = [channel EXCEPT ![n] = "confirm"]
             /\ Reconnects(n)
             /\ UNCHANGED <<alive, consuming, faults>>
    BY <1>6, <2>1 DEF Goto, Reconnects, At0, Rebuilding
  <2>2. CASE RequestFails(n) /\ channel' = [channel EXCEPT ![n] = "closed"]
    BY <1>6, <2>2, ChannelRequestLemma DEF ConfirmMode
  <2> QED BY <1>6, <2>1, <2>2 DEF ConfirmMode
<1>7. ASSUME NEW n \in Node, Consume(n) PROVE ChannelInv'
  <2>1. CASE /\ n \in alive /\ Goto(n, "registering")
             /\ consuming' = consuming \cup {n}
             /\ UNCHANGED <<convVars, alive, faults>>
    BY <1>7, <2>1 DEF Consume, Goto, At0, Rebuilding, convVars
  <2>2. CASE RequestFails(n)
    BY <1>7, <2>2, ChannelRequestLemma DEF Consume
  <2> QED BY <1>7, <2>1, <2>2 DEF Consume
<1>8. CASE UNCHANGED reconnectVars
  BY <1>8 DEF reconnectVars
<1>9. ASSUME NEW h \in Handler, Publishing(h) \/ (StoreMessage(h) /\ UNCHANGED watchVars)
      PROVE  ChannelInv'
  BY <1>9 DEF Publishing, PublishPanics, StoreMessage, PublisherStep, Publish, AttemptFails,
              Confirmed, Fallback, watchVars, convVars
<1>10. ASSUME NEW n \in Node,
              Brokering(n) \/ ((BrokerRefuses(n) \/ ConsumerStep(n)) /\ UNCHANGED watchVars)
       PROVE  ChannelInv'
  BY <1>10 DEF Brokering, BrokerAccepts, BrokerPushes, BrokerRefuses, ConsumerStep, Take, Apply,
               Settle, ApplyLate, watchVars
<1> QED
  BY <1>1, <1>2, <1>3, <1>4, <1>5, <1>6, <1>7, <1>8, <1>9, <1>10 DEF ReconnectNext, WatcherStep

\* The pipeline's link is up exactly while the node has an open connection and
\* its publisher a channel in confirm mode, however often recoveries fail half
\* way (reconnect.go:51-68, publisher.go:17-38), and every variable has its
\* type.
THEOREM ReconnectTypeCorrect == ReconnectSpec => []ReconnectTypeOK
<1>1. ASSUME ReconnectInit PROVE ChannelInv
  <2>1. link = [n \in Node |-> TRUE]
    BY <1>1 DEF ReconnectInit, ConvInit
  <2>2. link \in [Node -> BOOLEAN] /\ \A n \in Node : link[n] = TRUE
    BY <2>1
  <2>3. \A n \in Node : n \in alive /\ channel[n] = "confirm" /\ at[n] = "registering"
    BY <1>1 DEF ReconnectInit
  <2>4. \A n \in Node : link[n] <=> n \in alive /\ channel[n] = "confirm"
    BY <2>2, <2>3
  <2>5. /\ at \in [Node -> At0] /\ tries \in [Node -> 0 .. MaxAttempts]
        /\ channel \in [Node -> {"nil", "plain", "confirm", "closed"}]
        /\ alive \subseteq Node /\ consuming \subseteq alive
        /\ faults \in 0 .. MaxFaults
    BY <1>1, ReconnectAssumption DEF ReconnectInit, At0, Rebuilding
  <2>6. panicked \in BOOLEAN
    BY <1>1, Zenon DEF ReconnectInit
  <2> QED
    BY <2>2, <2>3, <2>4, <2>5, <2>6 DEF ChannelInv, ReconnectTypeOK
<1>2. ChannelInv /\ [ReconnectNext]_reconnectVars => ChannelInv'
  BY ChannelStepLemma
<1>3. ChannelInv => ReconnectTypeOK
  BY DEF ChannelInv
<1> QED
  BY <1>1, <1>2, <1>3, PTL DEF ReconnectSpec

=============================================================================
