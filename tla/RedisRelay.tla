------------------------------- MODULE RedisRelay -------------------------------
(***************************************************************************)
(* The signal relay under STORE_BACKEND=redis (server/main.go), seen by    *)
(* one client.  Several server processes share the client's Redis list and *)
(* one Pub/Sub channel.  The process that receives a signal offers it to   *)
(* its own stream of the client, appends it to the list if that stream did *)
(* not take it, and publishes it for the streams of the other processes.   *)
(*                                                                         *)
(* The copying of the channel set, modelled step by step in SignalRelay,   *)
(* is one step here; what is split is what crosses Redis: the append, the  *)
(* publication, the subscription, which Redis knows of only some time      *)
(* after SubscribeSignals returned, and the snapshot, which lists the      *)
(* queue keys first and executes its MULTI later.                          *)
(***************************************************************************)
EXTENDS Naturals, FiniteSets, SequencesExt

CONSTANTS Instances,     \* server processes
          Events,        \* signals to this client
          ChannelSize,   \* capacity of a stream's channels (64)
          Hydrated,      \* hydrate keeps the client's list: a mobile, or a v1 device
          MaxSnapshots,  \* bound on the writes of a process between restarts
          MaxRestarts    \* bound on the restarts of a process

ASSUME RedisRelayAssumption ==
    /\ ChannelSize \in Nat \ {0}
    /\ Hydrated \in BOOLEAN
    /\ MaxSnapshots \in Nat
    /\ MaxRestarts \in Nat

VARIABLES at,         \* event |-> how far its handler is
          origin,     \* event |-> the process that handles it
          list,       \* the client's Redis list
          memory,     \* process |-> the list it hydrated into the v1 store
          running,    \* process |-> is it up?
          restarts,   \* process |-> number of restarts
          snapshots,  \* process |-> number of snapshots begun since
          persist,    \* process |-> "idle", or the snapshot sees the list "empty" or "filled"
          stage,      \* process |-> its stream of the client
          heard,      \* process |-> does Redis know its subscription?
          local,      \* process |-> channel of its stream for its own signals
          external,   \* process |-> channel of its stream for published ones
          live,       \* <<process, event>> |-> times a stream wrote it from a channel
          pulled,     \* events taken from the list for the client
          wiped,      \* events a snapshot removed from the list
          lost        \* events lost with a process, a stream or a Redis call

eventVars == <<at, origin>>
processVars == <<memory, running, restarts, snapshots, persist>>
streamVars == <<stage, heard, local, external, live>>
historyVars == <<pulled, wiped, lost>>
vars == <<at, origin, list, memory, running, restarts, snapshots, persist,
          stage, heard, local, external, live, pulled, wiped, lost>>

Init ==
    /\ at = [e \in Events |-> "new"]
    /\ origin \in [Events -> Instances]
    /\ list = <<>>
    /\ memory = [i \in Instances |-> <<>>]
    /\ running = [i \in Instances |-> TRUE]
    /\ restarts = [i \in Instances |-> 0]
    /\ snapshots = [i \in Instances |-> 0]
    /\ persist = [i \in Instances |-> "idle"]
    /\ stage = [i \in Instances |-> "closed"]
    /\ heard = [i \in Instances |-> FALSE]
    /\ local = [i \in Instances |-> <<>>]
    /\ external = [i \in Instances |-> <<>>]
    /\ live = [ie \in Instances \X Events |-> 0]
    /\ pulled = {}
    /\ wiped = {}
    /\ lost = {}

HasRoom(channel) == Len(channel) < ChannelSize

-----------------------------------------------------------------------------
(* emitV2Signal: deliverSignalEvent, then PushSignal.                      *)

\* deliverSignalEvent: the stream of this process takes the signal, or not.
Offer(e) ==
    /\ at[e] = "new"
    /\ LET i == origin[e]
       IN /\ running[i]
          /\ IF stage[i] # "closed" /\ HasRoom(local[i])
             THEN /\ at' = [at EXCEPT ![e] = "taken"]
                  /\ local' = [local EXCEPT ![i] = Append(@, e)]
             ELSE /\ at' = [at EXCEPT ![e] = "refused"]
                  /\ UNCHANGED local
    /\ UNCHANGED <<origin, list, processVars, stage, heard, external, live, historyVars>>

\* Faulty: a signal that its stream refused is left to Pub/Sub alone.
PushesIfAlone(e) == at[e] = "refused" /\ stage[origin[e]] = "closed"

\* deliveredLocal is false.
Pushes(e) == at[e] = "refused"

Push(e) ==
    /\ Pushes(e)
    /\ running[origin[e]]
    /\ at' = [at EXCEPT ![e] = "queued"]
    /\ list' = Append(list, e)
    /\ UNCHANGED <<origin, processVars, streamVars, historyVars>>

\* "failed to enqueue redis signal event"
PushFails(e) ==
    /\ Pushes(e)
    /\ running[origin[e]]
    /\ at' = [at EXCEPT ![e] = "queued"]
    /\ lost' = lost \cup {e}
    /\ UNCHANGED <<origin, list, processVars, streamVars, pulled, wiped>>

\* Faulty: the streams of the sending process hear its envelopes too.
HearsOwn(i, e) == heard[i] /\ HasRoom(external[i])

\* The subscriber drops envelopes of its own process, and any when it is full.
Hears(i, e) == i # origin[e] /\ heard[i] /\ HasRoom(external[i])

Publish(e) ==
    /\ at[e] \notin {"new", "sent"} /\ ~Pushes(e)
    /\ running[origin[e]]
    /\ at' = [at EXCEPT ![e] = "sent"]
    /\ external' = [i \in Instances |->
                       IF Hears(i, e) THEN Append(external[i], e) ELSE external[i]]
    /\ UNCHANGED <<origin, list, processVars, stage, heard, local, live, historyVars>>

-----------------------------------------------------------------------------
(* A stream of the client at process i.                                    *)

Open(i) ==
    /\ running[i]
    /\ stage[i] = "closed"
    /\ stage' = [stage EXCEPT ![i] = "registered"]
    /\ UNCHANGED <<eventVars, list, processVars, heard, local, external, live, historyVars>>

\* Redis processes the SUBSCRIBE.
Heard(i) ==
    /\ stage[i] # "closed"
    /\ ~heard[i]
    /\ heard' = [heard EXCEPT ![i] = TRUE]
    /\ UNCHANGED <<eventVars, list, processVars, stage, local, external, live, historyVars>>

\* The script takes the list at once; what could not be written is lost.
TakeList(unwritten) ==
    /\ list' = <<>>
    /\ pulled' = pulled \cup ToSet(list)
    /\ lost' = lost \cup unwritten
    /\ UNCHANGED wiped

\* The stream pulls once, and stays or fails.
Pull(i) ==
    /\ stage[i] = "registered"
    /\ TakeList({})
    /\ stage' = [stage EXCEPT ![i] = "pumping"]
    /\ UNCHANGED <<eventVars, processVars, heard, local, external, live>>

\* The client's side of the connection is gone: what is buffered goes with it.
Cut(i) ==
    /\ stage' = [stage EXCEPT ![i] = "closed"]
    /\ heard' = [heard EXCEPT ![i] = FALSE]
    /\ local' = [local EXCEPT ![i] = <<>>]
    /\ external' = [external EXCEPT ![i] = <<>>]
    /\ UNCHANGED live

Buffered(i) == ToSet(local[i]) \cup ToSet(external[i])

PullFails(i) ==
    /\ stage[i] = "registered"
    /\ TakeList(ToSet(list) \cup Buffered(i))
    /\ Cut(i)
    /\ UNCHANGED <<eventVars, processVars>>

\* GET /v1/signal/inbox at any process.
Inbox(i) ==
    /\ running[i]
    /\ list # <<>>
    /\ TakeList({}) \/ TakeList(ToSet(list))
    /\ UNCHANGED <<eventVars, processVars, streamVars>>

\* The pump writes what is at the head of one of the two channels.
Pump(i) ==
    /\ stage[i] = "pumping"
    /\ \/ /\ local[i] # <<>>
          /\ live' = [live EXCEPT ![<<i, Head(local[i])>>] = @ + 1]
          /\ local' = [local EXCEPT ![i] = Tail(@)]
          /\ UNCHANGED external
       \/ /\ external[i] # <<>>
          /\ live' = [live EXCEPT ![<<i, Head(external[i])>>] = @ + 1]
          /\ external' = [external EXCEPT ![i] = Tail(@)]
          /\ UNCHANGED local
    /\ UNCHANGED <<eventVars, list, processVars, stage, heard, historyVars>>

\* The request ends or a write fails.
Close(i) ==
    /\ stage[i] = "pumping"
    /\ Cut(i)
    /\ lost' = lost \cup Buffered(i)
    /\ UNCHANGED <<eventVars, list, processVars, pulled, wiped>>

-----------------------------------------------------------------------------
(* Snapshots, crashes and restarts.                                        *)

\* persistWithTimeout reads the store and lists the queue keys.
Snapshot(i) ==
    /\ running[i]
    /\ persist[i] = "idle"
    /\ snapshots[i] < MaxSnapshots
    /\ snapshots' = [snapshots EXCEPT ![i] = @ + 1]
    /\ persist' = [persist EXCEPT ![i] = IF list = <<>> THEN "empty" ELSE "filled"]
    /\ UNCHANGED <<eventVars, list, memory, running, restarts, streamVars, historyVars>>

\* The MULTI deletes the keys it listed and appends the queues of the v1 store.
Exec(i) ==
    /\ running[i]
    /\ persist[i] # "idle"
    /\ persist' = [persist EXCEPT ![i] = "idle"]
    /\ list' = (IF persist[i] = "filled" THEN <<>> ELSE list) \o memory[i]
    /\ wiped' = wiped \cup (ToSet(list) \ ToSet(list'))
    /\ UNCHANGED <<eventVars, memory, running, restarts, snapshots, streamVars,
                   pulled, lost>>

\* A process that stops on SIGTERM takes a Snapshot and an Exec first.
Crash(i) ==
    /\ running[i]
    /\ restarts[i] < MaxRestarts
    /\ running' = [running EXCEPT ![i] = FALSE]
    /\ persist' = [persist EXCEPT ![i] = "idle"]
    /\ memory' = [memory EXCEPT ![i] = <<>>]
    /\ Cut(i)
    /\ lost' = lost \cup Buffered(i)
                    \cup {e \in Events : origin[e] = i /\ at[e] = "refused"}
    /\ at' = [e \in Events |-> IF origin[e] = i /\ at[e] # "new" THEN "sent" ELSE at[e]]
    /\ UNCHANGED <<origin, list, restarts, snapshots, pulled, wiped>>

\* hydrateFromRedis
Restart(i) ==
    /\ ~running[i]
    /\ restarts' = [restarts EXCEPT ![i] = @ + 1]
    /\ running' = [running EXCEPT ![i] = TRUE]
    /\ snapshots' = [snapshots EXCEPT ![i] = 0]
    /\ memory' = [memory EXCEPT ![i] = IF Hydrated THEN list ELSE <<>>]
    /\ UNCHANGED <<eventVars, list, persist, streamVars, historyVars>>

Next ==
    \/ \E e \in Events : Offer(e) \/ Push(e) \/ PushFails(e) \/ Publish(e)
    \/ \E i \in Instances :
          \/ Open(i) \/ Heard(i) \/ Pull(i) \/ PullFails(i) \/ Inbox(i) \/ Pump(i) \/ Close(i)
          \/ Snapshot(i) \/ Exec(i) \/ Crash(i) \/ Restart(i)

Spec == Init /\ [][Next]_vars

-----------------------------------------------------------------------------
(* A stream writes a live signal at most once: from its own process's      *)
(* channel or, for a signal of another process, from Pub/Sub, never from   *)
(* both (main.go:1931).                                                    *)
LiveOnce == \A ie \in Instances \X Events : live[ie] <= 1

(* A signal whose handler is done is somewhere: with the client, on its    *)
(* way, or lost for one of the reasons the model names, of which a         *)
(* snapshot is one (main.go:1764).                                         *)
NoOtherLoss ==
    \A e \in Events : at[e] = "sent" =>
        \/ e \in ToSet(list)
        \/ e \in pulled \cup wiped \cup lost
        \/ \E i \in Instances : e \in Buffered(i) \/ live[<<i, e>>] > 0

(* A signal in the list leaves it only when the client pulls it            *)
(* (server/README.md:94, "restart recovery", "inbox consistency").         *)
QueueSurvivesSnapshot == wiped = {}

=============================================================================
