------------------------------ MODULE SignalRelay ------------------------------
(***************************************************************************)
(* The in-memory signal relay of the v2 server (server/v2_store.go,        *)
(* server/v2_routes.go), seen by one client.  POST /v2/signal/send and the *)
(* pair.* events emit an event to the client: the emitter copies the set   *)
(* of the client's SSE streams under the lock, then tries each stream's    *)
(* channel without blocking, and only if none took the event takes the     *)
(* lock again and appends it to the client's queue.  A stream registers    *)
(* its channel, pulls the queue once, writes what it pulled, then writes   *)
(* what arrives on the channel until a write fails or the request ends.    *)
(*                                                                         *)
(* A stream id is used again after it closes.  An emitter that still holds *)
(* the closed channel holds Gone instead: what it sends there is garbage.  *)
(***************************************************************************)
EXTENDS Naturals, FiniteSets, SequencesExt

CONSTANTS Senders,      \* clients and handlers that emit to this client
          Streams,      \* SSE connections of this client
          BufferSize,   \* capacity of a subscriber channel (64)
          PullLimit,    \* maxSignalQueuePull
          MaxEvents,    \* bound on the events of one sender
          Gone          \* the channel of a stream that has been removed

ASSUME RelayAssumption ==
    /\ BufferSize \in Nat \ {0}
    /\ PullLimit \in Nat \ {0}
    /\ MaxEvents \in Nat
    /\ Gone \notin Streams

VARIABLES sent,         \* sender |-> number of events it has started to emit
          phase,        \* sender |-> "idle" or "sending"
          targets,      \* sender |-> channels it still has to try
          taken,        \* sender |-> did a channel take the event?
          queue,        \* signalQueues[client]
          subs,         \* streams registered in subscribers[client]
          stage,        \* stream |-> where its handler is
          buffer,       \* stream |-> its channel
          inbox,        \* stream |-> events it pulled and has not written
          link,         \* stream |-> does the client still read it?
          written,      \* stream |-> events the client got on this connection
          overflowed,   \* stream |-> was its channel ever full?
          received,     \* events the client got, on any connection
          dropped       \* events lost with a stream or with the entity

senderVars == <<sent, phase, targets, taken>>
streamVars == <<stage, inbox, link, written>>
historyVars == <<received, dropped>>
vars == <<sent, phase, targets, taken, queue, subs, stage, buffer, inbox, link,
          written, overflowed, received, dropped>>

Events == Senders \X (1..MaxEvents)

\* The event sender x is emitting, or emitted last.
Current(x) == <<x, sent[x]>>

Init ==
    /\ sent = [x \in Senders |-> 0]
    /\ phase = [x \in Senders |-> "idle"]
    /\ targets = [x \in Senders |-> {}]
    /\ taken = [x \in Senders |-> FALSE]
    /\ queue = <<>>
    /\ subs = {}
    /\ stage = [s \in Streams |-> "closed"]
    /\ buffer = [s \in Streams |-> <<>>]
    /\ inbox = [s \in Streams |-> <<>>]
    /\ link = [s \in Streams |-> FALSE]
    /\ written = [s \in Streams |-> <<>>]
    /\ overflowed = [s \in Streams |-> FALSE]
    /\ received = {}
    /\ dropped = {}

-----------------------------------------------------------------------------
(* enqueueSignalEvent: three critical sections and sends in between.       *)

\* The channels are copied under the read lock.
Emit(x) ==
    /\ phase[x] = "idle"
    /\ sent[x] < MaxEvents
    /\ sent' = [sent EXCEPT ![x] = @ + 1]
    /\ phase' = [phase EXCEPT ![x] = "sending"]
    /\ targets' = [targets EXCEPT ![x] = subs]
    /\ taken' = [taken EXCEPT ![x] = FALSE]
    /\ UNCHANGED <<queue, subs, buffer, overflowed, streamVars, historyVars>>

HasRoom(s) == Len(buffer[s]) < BufferSize

\* A send that finds room.
Offer(x, s) ==
    /\ s \in targets[x]
    /\ HasRoom(s)
    /\ buffer' = [buffer EXCEPT ![s] = Append(@, Current(x))]
    /\ taken' = [taken EXCEPT ![x] = TRUE]
    /\ targets' = [targets EXCEPT ![x] = @ \ {s}]
    /\ UNCHANGED <<sent, phase, queue, subs, overflowed, streamVars, historyVars>>

\* A send that finds the channel full goes on without blocking.
Refuse(x, s) ==
    /\ s \in targets[x]
    /\ ~HasRoom(s)
    /\ overflowed' = [overflowed EXCEPT ![s] = TRUE]
    /\ targets' = [targets EXCEPT ![x] = @ \ {s}]
    /\ UNCHANGED <<sent, phase, taken, queue, subs, buffer, streamVars, historyVars>>

\* The stream went away after the copy: its channel takes the event, unless it
\* was full, and nobody will read it.
OfferGone(x, full) ==
    /\ Gone \in targets[x]
    /\ targets' = [targets EXCEPT ![x] = @ \ {Gone}]
    /\ taken' = [taken EXCEPT ![x] = @ \/ ~full]
    /\ dropped' = IF full THEN dropped ELSE dropped \cup {Current(x)}
    /\ UNCHANGED <<sent, phase, queue, subs, buffer, overflowed, streamVars, received>>

\* Some channel took the event: the handler answers deliveredRealtime.
Settle(x) ==
    /\ phase[x] = "sending"
    /\ targets[x] = {}
    /\ taken[x]
    /\ phase' = [phase EXCEPT ![x] = "idle"]
    /\ UNCHANGED <<sent, targets, taken, queue, subs, buffer, overflowed,
                   streamVars, historyVars>>

\* None did: enqueueSignalToQueue.
Enqueue(x) ==
    /\ phase[x] = "sending"
    /\ targets[x] = {}
    /\ ~taken[x]
    /\ queue' = Append(queue, Current(x))
    /\ phase' = [phase EXCEPT ![x] = "idle"]
    /\ UNCHANGED <<sent, targets, taken, subs, buffer, overflowed,
                   streamVars, historyVars>>

-----------------------------------------------------------------------------
(* GET /v2/signal/stream.                                                  *)

\* The client has no working connection and opens one; addSubscriber.
Open(s) ==
    /\ stage[s] = "closed"
    /\ \A r \in Streams : ~link[r]
    /\ stage' = [stage EXCEPT ![s] = "opened"]
    /\ link' = [link EXCEPT ![s] = TRUE]
    /\ subs' = subs \cup {s}
    /\ written' = [written EXCEPT ![s] = <<>>]
    /\ overflowed' = [overflowed EXCEPT ![s] = FALSE]
    /\ UNCHANGED <<senderVars, queue, buffer, inbox, historyVars>>

\* Faulty: the queue is deleted although only its head was taken.
RestForgotten(n) == <<>>

\* Faulty: the events are copied but stay in the queue.
RestKept(n) == queue

\* What the queue keeps when its first n events are taken.
Rest(n) == SubSeq(queue, n + 1, Len(queue))

Least(m, n) == IF m < n THEN m ELSE n

\* stream.opened is written, then pullSignalInbox takes the queue's head.
Pull(s) ==
    /\ stage[s] = "opened"
    /\ LET take == Least(PullLimit, Len(queue))
       IN /\ inbox' = [inbox EXCEPT ![s] = SubSeq(queue, 1, take)]
          /\ queue' = Rest(take)
    /\ stage' = [stage EXCEPT ![s] = "writing"]
    /\ UNCHANGED <<senderVars, subs, buffer, overflowed, link, written, historyVars>>

\* Event ev is written to stream s: the client gets it if it still reads, and a
\* write to a dead connection may look as if it had worked.
Written(s, ev) ==
    /\ written' = IF link[s] THEN [written EXCEPT ![s] = Append(@, ev)] ELSE written
    /\ received' = IF link[s] THEN received \cup {ev} ELSE received
    /\ dropped' = IF link[s] THEN dropped ELSE dropped \cup {ev}

WriteInbox(s) ==
    /\ stage[s] = "writing"
    /\ inbox[s] # <<>>
    /\ Written(s, Head(inbox[s]))
    /\ inbox' = [inbox EXCEPT ![s] = Tail(@)]
    /\ UNCHANGED <<senderVars, queue, subs, stage, buffer, link, overflowed>>

StartPump(s) ==
    /\ stage[s] = "writing"
    /\ inbox[s] = <<>>
    /\ stage' = [stage EXCEPT ![s] = "pumping"]
    /\ UNCHANGED <<senderVars, queue, subs, buffer, inbox, link, written,
                   overflowed, historyVars>>

\* Faulty: the channel is drained while the pulled events are written.
DrainsEarly(s) == stage[s] \in {"writing", "pumping"}

Drains(s) == stage[s] = "pumping"

Pump(s) ==
    /\ Drains(s)
    /\ buffer[s] # <<>>
    /\ Written(s, Head(buffer[s]))
    /\ buffer' = [buffer EXCEPT ![s] = Tail(@)]
    /\ UNCHANGED <<senderVars, queue, subs, stage, inbox, link, overflowed>>

\* The client goes away or loses the network; the server may not know yet.
LinkDown(s) ==
    /\ link[s]
    /\ link' = [link EXCEPT ![s] = FALSE]
    /\ UNCHANGED <<senderVars, queue, subs, stage, buffer, inbox, written,
                   overflowed, historyVars>>

\* A write fails, or the request's context ends: the handler returns.
Fail(s) ==
    /\ stage[s] \in {"opened", "writing", "pumping"}
    /\ ~link[s]
    /\ stage' = [stage EXCEPT ![s] = "failed"]
    /\ UNCHANGED <<senderVars, queue, subs, buffer, inbox, link, written,
                   overflowed, historyVars>>

\* Faulty: the channel of a closed stream stays registered.
LeakedSubs(s) == subs

SubsWithout(s) == subs \ {s}

\* The deferred removeSubscriber: channel and pulled events are forgotten.
Close(s) ==
    /\ stage[s] = "failed"
    /\ stage' = [stage EXCEPT ![s] = "closed"]
    /\ subs' = SubsWithout(s)
    /\ dropped' = dropped \cup ToSet(buffer[s]) \cup ToSet(inbox[s])
    /\ buffer' = [buffer EXCEPT ![s] = <<>>]
    /\ inbox' = [inbox EXCEPT ![s] = <<>>]
    /\ targets' = [x \in Senders |-> IF s \in targets[x]
                                     THEN (targets[x] \ {s}) \cup {Gone}
                                     ELSE targets[x]]
    /\ UNCHANGED <<sent, phase, taken, queue, link, written, overflowed, received>>

\* pruneExpiredLocked drops the client as inactive, and its queue with it.
PruneEntity ==
    /\ queue # <<>>
    /\ dropped' = dropped \cup ToSet(queue)
    /\ queue' = <<>>
    /\ UNCHANGED <<senderVars, subs, buffer, overflowed, streamVars, received>>

EmitterStep(x) ==
    \/ \E s \in Streams : Offer(x, s) \/ Refuse(x, s)
    \/ \E full \in BOOLEAN : OfferGone(x, full)
    \/ Settle(x)
    \/ Enqueue(x)

StreamStep(s) ==
    \/ Pull(s)
    \/ WriteInbox(s)
    \/ StartPump(s)
    \/ Pump(s)
    \/ Close(s)

Next ==
    \/ \E x \in Senders : Emit(x) \/ EmitterStep(x)
    \/ \E s \in Streams : Open(s) \/ StreamStep(s) \/ LinkDown(s) \/ Fail(s)
    \/ PruneEntity

Spec == Init /\ [][Next]_vars

\* The Go scheduler runs every handler; the client's reconnect loop opens a
\* stream whenever it has none; the 20 s ping makes a dead connection fail; and
\* of endlessly many streams one lives long enough to pull the queue.
Fairness ==
    /\ \A x \in Senders : WF_vars(EmitterStep(x))
    /\ \A s \in Streams : WF_vars(StreamStep(s)) /\ WF_vars(Fail(s)) /\ SF_vars(Pull(s))
    /\ WF_vars(\E s \in Streams : Open(s))

FairSpec == Spec /\ Fairness

-----------------------------------------------------------------------------
Emitted(e) == e[2] <= sent[e[1]]

InHand(e) ==
    /\ phase[e[1]] = "sending"
    /\ e = Current(e[1])
    /\ ~taken[e[1]]

OnStream(e, s) == e \in ToSet(inbox[s]) \cup ToSet(buffer[s])

(* An accepted event is never lost silently: until the client has it, it   *)
(* is in its emitter's hand, in the queue or on a stream, unless it went   *)
(* down with a stream that had taken it or with the pruned entity.  A full *)
(* channel does not count as delivery (v2_store.go:1141-1149, 1160-1164).  *)
NoSilentLoss ==
    \A e \in Events : Emitted(e) =>
        \/ InHand(e)
        \/ e \in ToSet(queue)
        \/ \E s \in Streams : OnStream(e, s)
        \/ e \in received \cup dropped

(* The client gets an event at most once: an event is queued only if no    *)
(* channel took it, pulling removes it from the queue, and of two streams  *)
(* that both took it only the newer one still reaches the client           *)
(* (v2_store.go:1087-1093, 1160-1164; v2_routes.go:365-397).               *)
AtMostOnce ==
    [][\A s \in Streams :
          Len(written'[s]) > Len(written[s]) => Last(written'[s]) \notin received]_vars

\* Everything that went, or will go, over the present connection of s.
Trail(s) == written[s] \o inbox[s] \o buffer[s]

(* On one connection the client sees a sender's events in the order they   *)
(* were emitted, the queued ones first, as long as the channel of that     *)
(* connection never filled up: the channel is registered before the queue  *)
(* is pulled and drained only after the pulled events are written          *)
(* (v2_routes.go:365-413).                                                 *)
StreamFifo ==
    \A s \in Streams : ~overflowed[s] =>
        \A i, j \in 1..Len(Trail(s)) :
            (i < j /\ Trail(s)[i][1] = Trail(s)[j][1]) => Trail(s)[i][2] < Trail(s)[j][2]

(* Every emitted event reaches the client or is dropped, with one way out: *)
(* it stays in the queue behind a stream that pulled before the event was  *)
(* queued and that never ends, since a stream pulls only once              *)
(* (v2_store.go:1160-1164, v2_routes.go:394).                              *)
DeliveredOrStranded ==
    \A e \in Events :
        <>Emitted(e) =>
            \/ <>(e \in received \cup dropped)
            \/ <>[](e \in ToSet(queue) /\ \E s \in Streams : stage[s] = "pumping")
=============================================================================
