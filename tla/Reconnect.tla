------------------------------- MODULE Reconnect -------------------------------
(***************************************************************************)
(* internal/mq/reconnect.go and pkg/rabbitmq: how a node that has lost its *)
(* connection to the broker gets a new one, under the publishers and the   *)
(* consumer of ConvUpdate, which go on meanwhile.                          *)
(*                                                                         *)
(* WatchAndReconnect waits for the connection to close, then dials,        *)
(* declares the topology, opens the publisher's channel, puts it into      *)
(* confirm mode and starts a consumer, from the beginning after any error. *)
(* Each of these talks to the broker and is a step; the connection may     *)
(* die between any two, the new one included.  publishCh is replaced       *)
(* without publishMu, so a publisher may find it nil, or not in confirm    *)
(* mode: either is a nil pointer, and the process panics.  What follows a  *)
(* panic is not modelled, nor is the exit after SIGTERM.                   *)
(***************************************************************************)
EXTENDS ConvUpdate

CONSTANTS
    MaxAttempts,   \* len(backoffs), 6 in the code
    MaxFaults      \* bound on connections that die and requests refused

ASSUME ReconnectAssumption ==
    MaxAttempts \in Nat \ {0} /\ MaxFaults \in Nat /\ MaxFaults <= MaxBreaks

VARIABLES
    at,          \* at[n]: where WatchAndReconnect of n stands
    tries,       \* tries[n]: the attempt of reconnectWithBackoff, from 1
    alive,       \* nodes whose rabbitmq.Conn is open
    channel,     \* channel[n]: publishCh
    consuming,   \* nodes with a consumer on an open channel
    faults,      \* faults so far
    panicked     \* whether a process has panicked

reconnectVars == <<stored, pub, wire, queue, prefetch, work, late, dlq, link,
                   breaks, row, applied, failed,
                   at, tries, alive, channel, consuming, faults, panicked>>

Rebuilding == {"dialing", "topology", "opening", "confirming", "consuming"}
At0 == {"registering", "watching", "stopped", "killed"} \cup Rebuilding

ReconnectTypeOK ==
    /\ at \in [Node -> At0]
    /\ tries \in [Node -> 0 .. MaxAttempts]
    /\ alive \subseteq Node /\ consuming \subseteq alive
    /\ channel \in [Node -> {"nil", "plain", "confirm", "closed"}]
    /\ faults \in 0 .. MaxFaults /\ panicked \in BOOLEAN
    /\ \A n \in Node : link[n] <=> n \in alive /\ channel[n] = "confirm"

\* mq.Start has done it all once.
ReconnectInit ==
    /\ ConvInit
    /\ at = [n \in Node |-> "registering"] /\ tries = [n \in Node |-> 0]
    /\ alive = Node /\ consuming = Node
    /\ channel = [n \in Node |-> "confirm"]
    /\ faults = 0 /\ panicked = FALSE

-----------------------------------------------------------------------------
(* Connections.                                                            *)

\* The connection of n is closed, by either side, and its channels with it.
\* Slip: to consume with autoAck, so that nothing is requeued.
ClosesAutoAck(n) ==
    /\ alive' = alive \ {n} /\ consuming' = consuming \ {n}
    /\ channel' = [channel EXCEPT ![n] = IF @ = "nil" THEN @ ELSE "closed"]
    /\ IF link[n] THEN BreaksAutoAck(n) ELSE UNCHANGED convVars
Closes(n) ==
    /\ alive' = alive \ {n} /\ consuming' = consuming \ {n}
    /\ channel' = [channel EXCEPT ![n] = IF @ = "nil" THEN @ ELSE "closed"]
    /\ IF link[n] THEN Breaks(n) ELSE UNCHANGED convVars

ConnDies(n) ==
    /\ n \in alive /\ faults < MaxFaults
    /\ Closes(n)
    /\ faults' = faults + 1
    /\ UNCHANGED <<at, tries, panicked>>

-----------------------------------------------------------------------------
(* WatchAndReconnect.                                                      *)

Goto(n, step) == at' = [at EXCEPT ![n] = step] /\ UNCHANGED <<tries, panicked>>

\* NotifyClose.  On a connection that is closed already the library closes
\* the new channel at once, and the watcher takes that for a shutdown.
Register(n) ==
    /\ at[n] = "registering"
    /\ Goto(n, IF n \in alive THEN "watching" ELSE "stopped")
    /\ UNCHANGED <<convVars, alive, channel, consuming, faults>>

\* The error arrives: the first attempt begins.
Notice(n) ==
    /\ at[n] = "watching" /\ n \notin alive
    /\ at' = [at EXCEPT ![n] = "dialing"] /\ tries' = [tries EXCEPT ![n] = 1]
    /\ UNCHANGED <<convVars, alive, channel, consuming, faults, panicked>>

\* An attempt fails: sleep, and begin the next, or give up with SIGTERM.
NextTry(n) ==
    /\ at' = [at EXCEPT ![n] = IF tries[n] < MaxAttempts THEN "dialing" ELSE "killed"]
    /\ tries' = [tries EXCEPT ![n] = IF @ < MaxAttempts THEN @ + 1 ELSE @]

\* rabbitmq.Reconnect: an attempt that failed half way has left a connection
\* open, which is closed first.  Slip: it is forgotten, its channels with it.
ForgetOld(n) ==
    /\ at[n] = "dialing" /\ n \in alive
    /\ alive' = alive \ {n}
    /\ UNCHANGED <<convVars, at, tries, channel, consuming, faults, panicked>>
CloseOld(n) ==
    /\ at[n] = "dialing" /\ n \in alive
    /\ Closes(n)
    /\ UNCHANGED <<at, tries, faults, panicked>>

Dial(n) ==
    /\ at[n] = "dialing" /\ n \notin alive
    /\ \/ alive' = alive \cup {n} /\ Goto(n, "topology")
       \/ NextTry(n) /\ UNCHANGED <<alive, panicked>>
    /\ UNCHANGED <<convVars, channel, consuming, faults>>

\* A request on the connection fails when it is dead, or the broker refuses.
\* Slip: on a dead connection it waits for an answer for ever.
RequestHangs(n) ==
    /\ n \in alive /\ faults < MaxFaults /\ faults' = faults + 1
    /\ NextTry(n)
    /\ UNCHANGED <<convVars, alive, consuming, panicked>>
RequestFails(n) ==
    /\ \/ n \notin alive /\ UNCHANGED faults
       \/ n \in alive /\ faults < MaxFaults /\ faults' = faults + 1
    /\ NextTry(n)
    /\ UNCHANGED <<convVars, alive, consuming, panicked>>

DeclareTopology(n) ==
    /\ at[n] = "topology"
    /\ \/ /\ n \in alive /\ Goto(n, "opening")
          /\ UNCHANGED <<convVars, alive, consuming, faults>>
       \/ RequestFails(n)
    /\ UNCHANGED channel

\* InitPublisher assigns what GetChannel returns, nil with an error.
OpenChannel(n) ==
    /\ at[n] = "opening"
    /\ \/ /\ n \in alive /\ Goto(n, "confirming")
          /\ channel' = [channel EXCEPT ![n] = "plain"]
          /\ UNCHANGED <<convVars, alive, consuming, faults>>
       \/ /\ RequestFails(n)
          /\ channel' = [channel EXCEPT ![n] = "nil"]

\* Confirm; a refusal closes the channel.
ConfirmMode(n) ==
    /\ at[n] = "confirming"
    /\ \/ /\ n \in alive /\ Goto(n, "consuming")
          /\ channel' = [channel EXCEPT ![n] = "confirm"]
          /\ Reconnects(n)
          /\ UNCHANGED <<alive, consuming, faults>>
       \/ /\ RequestFails(n)
          /\ channel' = [channel EXCEPT ![n] = "closed"]

\* StartConversationUpdateConsumer.  Slip: its error is dropped.
ConsumeAnyway(n) ==
    /\ at[n] = "consuming"
    /\ Goto(n, "registering")
    /\ consuming' \in {consuming, consuming \cup ({n} \cap alive)}
    /\ UNCHANGED <<convVars, alive, channel, faults>>
Consume(n) ==
    /\ at[n] = "consuming"
    /\ \/ /\ n \in alive /\ Goto(n, "registering")
          /\ consuming' = consuming \cup {n}
          /\ UNCHANGED <<convVars, alive, faults>>
       \/ RequestFails(n)
    /\ UNCHANGED channel

WatcherStep(n) ==
    \/ Register(n) \/ Notice(n) \/ CloseOld(n) \/ Dial(n) \/ DeclareTopology(n)
    \/ OpenChannel(n) \/ ConfirmMode(n) \/ Consume(n)

-----------------------------------------------------------------------------
(* The pipeline, on the channels there are.                                *)

\* The publisher calls a method of a nil channel, or waits on the nil confirm
\* of a channel without confirm mode.
PublishPanics(h) ==
    /\ pub[h].step = "waiting" /\ MutexFree(At[h])
    /\ channel[At[h]] \in {"nil", "plain"}
    /\ panicked' = TRUE
    /\ UNCHANGED <<convVars, at, tries, alive, channel, consuming, faults>>

watchVars == <<at, tries, alive, channel, consuming, faults, panicked>>

Publishing(h) ==
    \/ PublishPanics(h)
    \/ /\ PublisherStep(h)
       /\ pub[h].step = "waiting" => channel[At[h]] \in {"confirm", "closed"}
       /\ UNCHANGED watchVars

Brokering(n) ==
    /\ BrokerAccepts(n) \/ (n \in consuming /\ BrokerPushes(n))
    /\ UNCHANGED watchVars

ReconnectNext ==
    /\ ~panicked
    /\ \/ \E h \in Handler : Publishing(h) \/ (StoreMessage(h) /\ UNCHANGED watchVars)
       \/ \E n \in Node :
            \/ Brokering(n) \/ WatcherStep(n) \/ ConnDies(n)
            \/ (BrokerRefuses(n) \/ ConsumerStep(n)) /\ UNCHANGED watchVars

ReconnectSpec == ReconnectInit /\ [][ReconnectNext]_reconnectVars

\* Handlers, consumers and watchers are goroutines that are always scheduled,
\* and the broker works off its wires and its queue.
ReconnectFairness ==
    /\ \A h \in Handler : WF_reconnectVars(~panicked /\ Publishing(h))
    /\ \A n \in Node :
        /\ WF_reconnectVars(~panicked /\ WatcherStep(n))
        /\ WF_reconnectVars(~panicked /\ Brokering(n))
        /\ WF_reconnectVars(~panicked /\ ConsumerStep(n) /\ UNCHANGED watchVars)

FairReconnectSpec == ReconnectSpec /\ ReconnectFairness

-----------------------------------------------------------------------------
(* What reconnecting guarantees.                                           *)

\* Outside a recovery the node has everything or has noticed nothing yet:
\* while the connection is open publishers confirm and the consumer runs, and
\* when it is not, publishers get an error, never a nil pointer
\* (reconnect.go:53-66, publisher.go:27-38).
SteadyState ==
    \A n \in Node :
        /\ at[n] \in {"registering", "watching"} =>
              IF n \in alive THEN channel[n] = "confirm" /\ n \in consuming
                             ELSE channel[n] = "closed"
        /\ at[n] = "stopped" => n \notin alive /\ channel[n] = "closed"

\* A recovery comes to an end, whatever the broker does: the node watches
\* again, or its watcher has stopped or given up (reconnect.go:29-37, 51-68).
RecoveryEnds ==
    \A n \in Node :
        at[n] \in Rebuilding ~> at[n] \in {"watching", "stopped", "killed"} \/ panicked

\* To the pipeline all of this is no more than a link that breaks and comes
\* back: every step is one of ConvUpdate's, or leaves its state alone, the
\* recoveries that fail half way included (reconnect.go, consumer.go:24-50).
RefinesPipeline == ConvSpec

\* No watcher is left to bring any node back, or a process is about to exit.
CutOff == (\A n \in Node : at[n] = "stopped") \/ (\E n \in Node : at[n] = "killed")

\* As long as MySQL works every stored message is written to its conversation
\* at last, whatever the broker and the connections do, as long as one node
\* still looks after its connection and no process dies (reconnect.go:14-39,
\* publisher.go:77-105, consumer.go:28-51).
AppliedUnlessCutOff ==
    ~DBMayFail => \A i \in Id : i <= stored ~> i \in applied \/ CutOff \/ panicked

-----------------------------------------------------------------------------
(* What a comment says and the code does not keep.                         *)

\* reconnect.go:23 takes a closed channel for a shutdown, of which there is
\* none here: only then should the watcher stop.
WatcherStopsOnlyOnExit == \A n \in Node : at[n] # "stopped"

=============================================================================
