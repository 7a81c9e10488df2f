--------------------------- MODULE SignalRelayProofs ---------------------------
(***************************************************************************)
(* Proofs about SignalRelay, for any senders, streams, channel sizes and   *)
(* pull limits: no accepted event disappears without a reason, the client  *)
(* sees none twice, and on one connection it sees them in order.           *)
(*                                                                         *)
(* The second needs to know where copies of an event may be.  An event in  *)
(* the queue has no other copy; copies on streams are one per stream; and  *)
(* since a stream opens only when no other is read, of the streams that    *)
(* hold a copy at most one still reaches the client.                       *)
(***************************************************************************)
EXTENDS SignalRelay, SequenceSets, TLAPS

Stages == {"closed", "opened", "writing", "pumping", "failed"}
AllEvents == Senders \X Nat

TypeOK ==
    /\ sent \in [Senders -> Nat]
    /\ phase \in [Senders -> {"idle", "sending"}]
    /\ targets \in [Senders -> SUBSET (Streams \cup {Gone})]
    /\ taken \in [Senders -> BOOLEAN]
    /\ queue \in Seq(AllEvents)
    /\ subs \subseteq Streams
    /\ stage \in [Streams -> Stages]
    /\ buffer \in [Streams -> Seq(AllEvents)]
    /\ inbox \in [Streams -> Seq(AllEvents)]
    /\ link \in [Streams -> BOOLEAN]
    /\ written \in [Streams -> Seq(AllEvents)]
    /\ overflowed \in [Streams -> BOOLEAN]
    /\ received \subseteq AllEvents
    /\ dropped \subseteq AllEvents

-----------------------------------------------------------------------------
(* Types.                                                                  *)

(* The types hold initially and are kept by every step.                    *)
LEMMA TypeStep == TypeOK /\ [Next]_vars => TypeOK'
<1>. SUFFICES ASSUME TypeOK, [Next]_vars  PROVE TypeOK'
  OBVIOUS
<1>. USE RelayAssumption DEF TypeOK, senderVars, streamVars, historyVars
<1>1. ASSUME NEW x \in Senders, Emit(x)  PROVE TypeOK'
  BY <1>1 DEF Emit
<1>2. \A x \in Senders : Current(x) \in AllEvents
  BY DEF Current, AllEvents
<1>3. ASSUME NEW x \in Senders, EmitterStep(x)  PROVE TypeOK'
  <2>1. ASSUME NEW s \in Streams, Offer(x, s)  PROVE TypeOK'
    BY <1>2, <2>1, AppendSet DEF Offer
  <2>2. ASSUME NEW s \in Streams, Refuse(x, s)  PROVE TypeOK'
    BY <2>2 DEF Refuse
  <2>3. ASSUME NEW full \in BOOLEAN, OfferGone(x, full)  PROVE TypeOK'
    BY <1>2, <2>3 DEF OfferGone
  <2>4. CASE Settle(x)
    BY <2>4 DEF Settle
  <2>5. CASE Enqueue(x)
    BY <1>2, <2>5, AppendSet DEF Enqueue
  <2>. QED
    BY <1>3, <2>1, <2>2, <2>3, <2>4, <2>5 DEF EmitterStep
<1>4. ASSUME NEW s \in Streams, Open(s)  PROVE TypeOK'
  BY <1>4, EmptySet DEF Open, Stages
<1>5. ASSUME NEW s \in Streams, NEW e \in AllEvents, Written(s, e)
      PROVE  /\ written' \in [Streams -> Seq(AllEvents)]
             /\ received' \subseteq AllEvents
             /\ dropped' \subseteq AllEvents
  BY <1>5, AppendSet DEF Written
<1>6. ASSUME NEW s \in Streams, StreamStep(s)  PROVE TypeOK'
  <2>1. CASE Pull(s)
    <3>. DEFINE take == Least(PullLimit, Len(queue))
    <3>1. take \in 0..Len(queue)
      BY DEF Least
    <3>2. /\ SubSeq(queue, 1, take) \in Seq(AllEvents)
          /\ Rest(take) \in Seq(AllEvents)
      BY <3>1, CutSet DEF Rest
    <3>. QED
      BY <2>1, <3>2 DEF Pull, Stages
  <2>2. CASE WriteInbox(s)
    <3>1. inbox[s] \in Seq(AllEvents) /\ inbox[s] # <<>>
      BY <2>2 DEF WriteInbox
    <3>2. Head(inbox[s]) \in AllEvents /\ Tail(inbox[s]) \in Seq(AllEvents)
      BY <3>1, TailSet
    <3>. QED
      BY <1>5, <2>2, <3>2 DEF WriteInbox
  <2>3. CASE StartPump(s)
    BY <2>3 DEF StartPump, Stages
  <2>4. CASE Pump(s)
    <3>1. buffer[s] \in Seq(AllEvents) /\ buffer[s] # <<>>
      BY <2>4 DEF Pump
    <3>2. Head(buffer[s]) \in AllEvents /\ Tail(buffer[s]) \in Seq(AllEvents)
      BY <3>1, TailSet
    <3>. QED
      BY <1>5, <2>4, <3>2 DEF Pump
  <2>5. CASE Close(s)
    <3>1. ToSet(buffer[s]) \subseteq AllEvents /\ ToSet(inbox[s]) \subseteq AllEvents
      BY DEF ToSet
    <3>. QED
      BY <2>5, <3>1, EmptySet DEF Close, Stages, SubsWithout
  <2>. QED
    BY <1>6, <2>1, <2>2, <2>3, <2>4, <2>5 DEF StreamStep
<1>7. ASSUME NEW s \in Streams, LinkDown(s) \/ Fail(s)  PROVE TypeOK'
  BY <1>7 DEF LinkDown, Fail, Stages
<1>8. CASE PruneEntity
  <2>1. ToSet(queue) \subseteq AllEvents
    BY DEF ToSet
  <2>. QED
    BY <1>8, <2>1, EmptySet DEF PruneEntity
<1>9. CASE UNCHANGED vars
  BY <1>9 DEF vars
<1>. QED
  BY <1>1, <1>3, <1>4, <1>6, <1>7, <1>8, <1>9 DEF Next
-----------------------------------------------------------------------------
(* Streams.                                                                *)

\* The registered streams are the open ones; emitters hold channels of these
\* or of streams that have gone; a stream that has not pulled has nothing to
\* write, and one that is closed has nothing at all.
Registered ==
    /\ subs = {s \in Streams : stage[s] # "closed"}
    /\ \A x \in Senders : targets[x] \subseteq subs \cup {Gone}
    /\ \A x \in Senders : phase[x] = "idle" => targets[x] = {}
    /\ \A s \in Streams : stage[s] \in {"closed", "opened"} => inbox[s] = <<>>
    /\ \A s \in Streams : stage[s] = "closed" => buffer[s] = <<>>

\* The client reads one stream at a time.
OneReader ==
    /\ \A s \in Streams : link[s] => stage[s] \in {"opened", "writing", "pumping"}
    /\ \A r, s \in Streams : link[r] /\ link[s] => r = s

(* Every step keeps the streams registered.                                *)
LEMMA RegisteredStep ==
    ASSUME TypeOK, Registered, [Next]_vars
    PROVE  Registered'
<1>. USE RelayAssumption DEF TypeOK, Registered, senderVars, streamVars, historyVars
<1>1. ASSUME NEW x \in Senders, Emit(x)  PROVE Registered'
  BY <1>1 DEF Emit
<1>2. ASSUME NEW x \in Senders, EmitterStep(x)  PROVE Registered'
  <2>1. ASSUME NEW s \in Streams, Offer(x, s)  PROVE Registered'
    BY <2>1 DEF Offer
  <2>2. ASSUME NEW s \in Streams, Refuse(x, s)  PROVE Registered'
    BY <2>2 DEF Refuse
  <2>3. ASSUME NEW full \in BOOLEAN, OfferGone(x, full)  PROVE Registered'
    BY <2>3 DEF OfferGone
  <2>4. CASE Settle(x)
    BY <2>4 DEF Settle
  <2>5. CASE Enqueue(x)
    BY <2>5 DEF Enqueue
  <2>. QED
    BY <1>2, <2>1, <2>2, <2>3, <2>4, <2>5 DEF EmitterStep
<1>3. ASSUME NEW s \in Streams, Open(s)  PROVE Registered'
  BY <1>3 DEF Open
<1>4. ASSUME NEW s \in Streams, StreamStep(s)  PROVE Registered'
  <2>1. CASE Pull(s)
    BY <2>1 DEF Pull
  <2>2. CASE WriteInbox(s)
    BY <2>2 DEF WriteInbox
  <2>3. CASE StartPump(s)
    BY <2>3 DEF StartPump
  <2>4. CASE Pump(s)
    BY <2>4 DEF Pump, Drains
  <2>5. CASE Close(s)
    BY <2>5 DEF Close, SubsWithout
  <2>. QED
    BY <1>4, <2>1, <2>2, <2>3, <2>4, <2>5 DEF StreamStep
<1>5. ASSUME NEW s \in Streams, LinkDown(s) \/ Fail(s)  PROVE Registered'
  BY <1>5 DEF LinkDown, Fail
<1>6. CASE PruneEntity
  BY <1>6 DEF PruneEntity
<1>7. CASE UNCHANGED vars
  BY <1>7 DEF vars
<1>. QED
  BY <1>1, <1>2, <1>3, <1>4, <1>5, <1>6, <1>7 DEF Next

(* Every step leaves the client one stream to read.                        *)
LEMMA OneReaderStep ==
    ASSUME TypeOK, OneReader, [Next]_vars
    PROVE  OneReader'
<1>. USE DEF TypeOK, OneReader, senderVars, streamVars, historyVars
<1>1. ASSUME NEW x \in Senders, Emit(x) \/ EmitterStep(x)  PROVE OneReader'
  BY <1>1 DEF Emit, EmitterStep, Offer, Refuse, OfferGone, Settle, Enqueue
<1>2. ASSUME NEW s \in Streams, Open(s)  PROVE OneReader'
  BY <1>2 DEF Open
<1>3. ASSUME NEW s \in Streams, StreamStep(s)  PROVE OneReader'
  <2>1. CASE Pull(s)
    BY <2>1 DEF Pull
  <2>2. CASE WriteInbox(s) \/ Pump(s)
    BY <2>2 DEF WriteInbox, Pump
  <2>3. CASE StartPump(s)
    BY <2>3 DEF StartPump
  <2>4. CASE Close(s)
    BY <2>4 DEF Close
  <2>. QED
    BY <1>3, <2>1, <2>2, <2>3, <2>4 DEF StreamStep
<1>4. ASSUME NEW s \in Streams, LinkDown(s) \/ Fail(s)  PROVE OneReader'
  BY <1>4 DEF LinkDown, Fail
<1>5. CASE PruneEntity \/ UNCHANGED vars
  BY <1>5 DEF PruneEntity, vars
<1>. QED
  BY <1>1, <1>2, <1>3, <1>4, <1>5 DEF Next

-----------------------------------------------------------------------------
(* Losses.                                                                 *)

\* Where an emitted event is.
Somewhere(e) ==
    \/ InHand(e)
    \/ e \in ToSet(queue)
    \/ \E s \in Streams : OnStream(e, s)
    \/ e \in received \cup dropped

(* What a handler writes is received or dropped.                           *)
LEMMA WrittenSomewhere ==
    ASSUME TypeOK, NEW s \in Streams, NEW e, Written(s, e)
    PROVE  /\ e \in received' \cup dropped'
           /\ received \subseteq received'
           /\ dropped \subseteq dropped'
BY DEF Written, TypeOK

(* Every step leaves every emitted event somewhere.                        *)
LEMMA LossStep ==
    ASSUME TypeOK, Registered, NoSilentLoss, [Next]_vars
    PROVE  NoSilentLoss'
<1>. SUFFICES ASSUME NEW e \in Events, Emitted(e)'
              PROVE  Somewhere(e)'
  BY DEF NoSilentLoss, Somewhere
<1>0. Emitted(e) => Somewhere(e)
  BY DEF NoSilentLoss, Somewhere
<1>. e \in AllEvents /\ e[1] \in Senders /\ e[2] \in Nat /\ e = <<e[1], e[2]>>
  BY RelayAssumption DEF Events, AllEvents
<1>. USE DEF TypeOK, senderVars, streamVars, historyVars
<1>1. ASSUME NEW x \in Senders, Emit(x)  PROVE Somewhere(e)'
  <2>1. CASE e[1] = x /\ e[2] = sent[x] + 1
    <3>1. InHand(e)'
      BY <1>1, <2>1 DEF Emit, InHand, Current
    <3>. QED
      BY <3>1 DEF Somewhere
  <2>2. CASE ~(e[1] = x /\ e[2] = sent[x] + 1)
    <3>1. Emitted(e)
      BY <1>1, <2>2 DEF Emit, Emitted
    <3>2. InHand(e) => InHand(e)'
      BY <1>1 DEF Emit, InHand, Current
    <3>. QED
      BY <1>0, <1>1, <3>1, <3>2 DEF Emit, Somewhere, OnStream
  <2>. QED
    BY <2>1, <2>2
<1>2. ASSUME NEW x \in Senders, EmitterStep(x)  PROVE Somewhere(e)'
  <2>0. Somewhere(e) /\ UNCHANGED sent
    BY <1>0, <1>2 DEF EmitterStep, Offer, Refuse, OfferGone, Settle, Enqueue, Emitted
  <2>1. ASSUME NEW s \in Streams, Offer(x, s)  PROVE Somewhere(e)'
    <3>1. ToSet(buffer'[s]) = ToSet(buffer[s]) \cup {Current(x)}
      <4>1. buffer[s] \in Seq(AllEvents) /\ Current(x) \in AllEvents
        BY DEF Current, AllEvents
      <4>2. ToSet(Append(buffer[s], Current(x))) = ToSet(buffer[s]) \cup {Current(x)}
        BY <4>1, AppendSet
      <4>. QED
        BY <2>1, <4>2 DEF Offer
    <3>2. \A r \in Streams : OnStream(e, r) => OnStream(e, r)'
      BY <2>1, <3>1 DEF Offer, OnStream
    <3>3. InHand(e) => InHand(e)' \/ OnStream(e, s)'
      BY <2>1, <3>1 DEF Offer, InHand, Current, OnStream
    <3>. QED
      BY <2>0, <2>1, <3>2, <3>3 DEF Offer, Somewhere
  <2>2. ASSUME NEW s \in Streams, Refuse(x, s)  PROVE Somewhere(e)'
    BY <2>0, <2>2 DEF Refuse, Somewhere, OnStream, InHand, Current
  <2>3. ASSUME NEW full \in BOOLEAN, OfferGone(x, full)  PROVE Somewhere(e)'
    <3>1. InHand(e) => InHand(e)' \/ e \in dropped'
      BY <2>3 DEF OfferGone, InHand, Current
    <3>. QED
      BY <2>0, <2>3, <3>1 DEF OfferGone, Somewhere, OnStream
  <2>4. CASE Settle(x)
    <3>1. InHand(e) => InHand(e)'
      BY <2>4 DEF Settle, InHand, Current
    <3>. QED
      BY <2>0, <2>4, <3>1 DEF Settle, Somewhere, OnStream
  <2>5. CASE Enqueue(x)
    <3>1. ToSet(queue') = ToSet(queue) \cup {Current(x)}
      <4>1. queue \in Seq(AllEvents) /\ Current(x) \in AllEvents
        BY DEF Current, AllEvents
      <4>. QED
        BY <2>5, <4>1, AppendSet DEF Enqueue
    <3>2. InHand(e) => InHand(e)' \/ e \in ToSet(queue')
      BY <2>5, <3>1 DEF Enqueue, InHand, Current
    <3>. QED
      BY <2>0, <2>5, <3>1, <3>2 DEF Enqueue, Somewhere, OnStream
  <2>. QED
    BY <1>2, <2>1, <2>2, <2>3, <2>4, <2>5 DEF EmitterStep
<1>3. ASSUME UNCHANGED senderVars  PROVE Somewhere(e) /\ (InHand(e) => InHand(e)')
  BY <1>0, <1>3 DEF Emitted, InHand, Current
<1>4. ASSUME NEW s \in Streams, Open(s) \/ LinkDown(s) \/ Fail(s)  PROVE Somewhere(e)'
  BY <1>3, <1>4 DEF Open, LinkDown, Fail, Somewhere, OnStream
<1>5. ASSUME NEW s \in Streams, StreamStep(s)  PROVE Somewhere(e)'
  <2>1. CASE Pull(s)
    <3>. DEFINE take == Least(PullLimit, Len(queue))
    <3>1. take \in 0..Len(queue)
      BY RelayAssumption DEF Least
    <3>2. ToSet(queue) = ToSet(SubSeq(queue, 1, take)) \cup ToSet(Rest(take))
      BY <3>1, CutSet DEF Rest
    <3>3. inbox'[s] = SubSeq(queue, 1, take) /\ queue' = Rest(take)
      BY <2>1 DEF Pull
    <3>. HIDE DEF take
    <3>4. CASE e \in ToSet(queue)
      BY <3>2, <3>3, <3>4 DEF Somewhere, OnStream
    <3>5. ASSUME NEW r \in Streams, OnStream(e, r)  PROVE Somewhere(e)'
      <4>1. e \in ToSet(inbox[r]) => r # s
        BY <2>1, EmptySet DEF Pull, Registered
      <4>. QED
        BY <2>1, <3>5, <4>1 DEF Pull, Somewhere, OnStream
    <3>. QED
      BY <1>3, <2>1, <3>4, <3>5 DEF Pull, Somewhere
  <2>2. CASE WriteInbox(s)
    <3>1. ToSet(inbox[s]) = ToSet(Tail(inbox[s])) \cup {Head(inbox[s])}
      BY <2>2, TailSet DEF WriteInbox
    <3>2. /\ Head(inbox[s]) \in received' \cup dropped'
          /\ received \subseteq received' /\ dropped \subseteq dropped'
      BY <2>2, WrittenSomewhere DEF WriteInbox
    <3>3. ASSUME NEW r \in Streams, OnStream(e, r)  PROVE Somewhere(e)'
      BY <2>2, <3>1, <3>2, <3>3 DEF WriteInbox, Somewhere, OnStream
    <3>. QED
      BY <1>3, <2>2, <3>2, <3>3 DEF WriteInbox, Somewhere
  <2>3. CASE StartPump(s)
    BY <1>3, <2>3 DEF StartPump, Somewhere, OnStream
  <2>4. CASE Pump(s)
    <3>1. ToSet(buffer[s]) = ToSet(Tail(buffer[s])) \cup {Head(buffer[s])}
      BY <2>4, TailSet DEF Pump
    <3>2. /\ Head(buffer[s]) \in received' \cup dropped'
          /\ received \subseteq received' /\ dropped \subseteq dropped'
      BY <2>4, WrittenSomewhere DEF Pump
    <3>3. ASSUME NEW r \in Streams, OnStream(e, r)  PROVE Somewhere(e)'
      BY <2>4, <3>1, <3>2, <3>3 DEF Pump, Somewhere, OnStream
    <3>. QED
      BY <1>3, <2>4, <3>2, <3>3 DEF Pump, Somewhere
  <2>5. CASE Close(s)
    <3>1. Somewhere(e) /\ (InHand(e) => InHand(e)')
      BY <1>0, <2>5 DEF Close, Emitted, InHand, Current
    <3>2. ASSUME NEW r \in Streams, OnStream(e, r)  PROVE Somewhere(e)'
      BY <2>5, <3>2 DEF Close, Somewhere, OnStream
    <3>. QED
      BY <2>5, <3>1, <3>2 DEF Close, Somewhere
  <2>. QED
    BY <1>5, <2>1, <2>2, <2>3, <2>4, <2>5 DEF StreamStep
<1>6. CASE PruneEntity
  BY <1>3, <1>6 DEF PruneEntity, Somewhere, OnStream
<1>7. CASE UNCHANGED vars
  BY <1>3, <1>7 DEF vars, Somewhere, OnStream
<1>. QED
  BY <1>1, <1>2, <1>4, <1>5, <1>6, <1>7 DEF Next

-----------------------------------------------------------------------------
(* Copies.                                                                 *)

\* Only events that were emitted are anywhere.
Born(e) == e[2] <= sent[e[1]]
AllBorn ==
    /\ \A e \in ToSet(queue) : Born(e)
    /\ \A e \in received : Born(e)
    /\ \A s \in Streams : \A e \in ToSet(inbox[s]) \cup ToSet(buffer[s]) : Born(e)

\* The queue holds an event once, and so does a stream.
Single ==
    /\ Distinct(queue)
    /\ \A s \in Streams : /\ Distinct(inbox[s]) /\ Distinct(buffer[s])
                          /\ \A e \in ToSet(inbox[s]) : e \notin ToSet(buffer[s])

\* A queued event has no other copy.
QueueAlone ==
    \A e \in ToSet(queue) :
        e \notin received /\ \A s \in Streams : ~OnStream(e, s)

\* The event an emitter works on is not yet where it may still put it.
Pending ==
    \A x \in Senders : phase[x] = "sending" =>
        /\ Current(x) \notin ToSet(queue)
        /\ \A s \in Streams : Current(x) \notin ToSet(inbox[s])
        /\ \A s \in Streams : s \in targets[x] =>
              /\ Current(x) \notin ToSet(buffer[s])
              /\ link[s] => Current(x) \notin received
        /\ ~taken[x] => /\ Current(x) \notin received
                        /\ \A s \in Streams : Current(x) \notin ToSet(buffer[s])

\* The stream the client reads holds nothing the client has.
Unread ==
    \A s \in Streams : link[s] =>
        \A e \in ToSet(inbox[s]) \cup ToSet(buffer[s]) : e \notin received

Copies == AllBorn /\ Single /\ QueueAlone /\ Pending /\ Unread

(* Emitters work on different events, and a new event is nowhere.          *)
LEMMA CurrentDiffers ==
    ASSUME TypeOK
    PROVE  /\ \A x, y \in Senders : x # y => Current(x) # Current(y)
           /\ \A x \in Senders : Current(x) \in AllEvents
BY DEF Current, AllEvents, TypeOK

(* Emitters keep the copies apart.                                         *)
LEMMA EmitCopies ==
    ASSUME TypeOK, Registered, Copies, NEW x \in Senders, Emit(x)
    PROVE  Copies'
<1>. USE DEF TypeOK, streamVars, historyVars
<1>1. sent[x] + 1 = sent'[x] /\ sent[x] \in Nat
      /\ \A y \in Senders : y # x => sent'[y] = sent[y]
  BY DEF Emit
<1>2. UNCHANGED <<queue, buffer, inbox, link, received>>
  BY DEF Emit
<1>3. /\ ToSet(queue) \subseteq AllEvents
      /\ \A s \in Streams : ToSet(inbox[s]) \subseteq AllEvents /\ ToSet(buffer[s]) \subseteq AllEvents
  BY DEF ToSet
<1>4. \A e \in AllEvents : Born(e) => Born(e)'
  <2>1. ASSUME NEW e \in AllEvents, Born(e)  PROVE Born(e)'
    <3>1. e[1] \in Senders /\ e[2] \in Nat
      BY DEF AllEvents
    <3>2. sent[e[1]] \in Nat /\ sent'[e[1]] \in Nat /\ sent'[e[1]] >= sent[e[1]]
      <4>1. CASE e[1] = x
        BY <1>1, <4>1
      <4>2. CASE e[1] # x
        BY <1>1, <3>1, <4>2
      <4>. QED
        BY <4>1, <4>2
    <3>. QED
      BY <2>1, <3>1, <3>2 DEF Born
  <2>. QED
    BY <2>1
<1>5. AllBorn'
  BY <1>2, <1>3, <1>4 DEF Copies, AllBorn
<1>6. Single' /\ QueueAlone' /\ Unread'
  BY <1>2 DEF Copies, Single, QueueAlone, OnStream, Unread
<1>7. ~Born(Current(x)')
  BY <1>1 DEF Born, Current
<1>8. \A y \in Senders : y # x => Current(y)' = Current(y)
  BY <1>1 DEF Current
<1>9. Pending'
  <2>. SUFFICES ASSUME NEW y \in Senders, phase'[y] = "sending"
                PROVE  /\ Current(y)' \notin ToSet(queue')
                       /\ \A s \in Streams : Current(y)' \notin ToSet(inbox'[s])
                       /\ \A s \in Streams : s \in targets'[y] =>
                             /\ Current(y)' \notin ToSet(buffer'[s])
                             /\ link'[s] => Current(y)' \notin received'
                       /\ ~taken'[y] =>
                             /\ Current(y)' \notin received'
                             /\ \A s \in Streams : Current(y)' \notin ToSet(buffer'[s])
    BY DEF Pending
  <2>1. CASE y = x
    <3>1. /\ Current(x)' \notin ToSet(queue) /\ Current(x)' \notin received
          /\ \A s \in Streams : /\ Current(x)' \notin ToSet(inbox[s])
                                /\ Current(x)' \notin ToSet(buffer[s])
      BY <1>7 DEF Copies, AllBorn
    <3>. QED
      BY <1>2, <2>1, <3>1
  <2>2. CASE y # x
    <3>1. phase[y] = "sending" /\ targets'[y] = targets[y] /\ taken'[y] = taken[y]
      BY <2>2 DEF Emit
    <3>. QED
      BY <1>2, <1>8, <2>2, <3>1 DEF Copies, Pending
  <2>. QED
    BY <2>1, <2>2
<1>. QED
  BY <1>5, <1>6, <1>9 DEF Copies

(* A send to a channel puts a first copy there.                            *)
LEMMA OfferCopies ==
    ASSUME TypeOK, Registered, Copies, NEW x \in Senders, NEW s \in Streams, Offer(x, s)
    PROVE  Copies'
<1>. USE DEF TypeOK, streamVars, historyVars
<1>. DEFINE c == Current(x)
<1>1. /\ phase[x] = "sending" /\ s \in targets[x]
      /\ c \notin ToSet(queue) /\ c \notin ToSet(inbox[s]) /\ c \notin ToSet(buffer[s])
      /\ link[s] => c \notin received
      /\ Born(c)
  <2>1. phase[x] = "sending" /\ s \in targets[x]
    BY DEF Offer, Registered
  <2>2. Born(c)
    BY DEF Born, Current
  <2>. QED
    BY <2>1, <2>2 DEF Copies, Pending
<1>2. /\ ToSet(buffer'[s]) = ToSet(buffer[s]) \cup {c}
      /\ Distinct(buffer[s]) => Distinct(buffer'[s])
      /\ \A r \in Streams : r # s => buffer'[r] = buffer[r]
  <2>1. buffer[s] \in Seq(AllEvents) /\ c \in AllEvents
    BY CurrentDiffers
  <2>2. buffer'[s] = Append(buffer[s], c) /\ \A r \in Streams : r # s => buffer'[r] = buffer[r]
    BY DEF Offer
  <2>. QED
    BY <1>1, <2>1, <2>2, AppendSet
<1>3. /\ UNCHANGED <<sent, phase, queue, inbox, link, received>>
      /\ taken' = [taken EXCEPT ![x] = TRUE]
      /\ targets' = [targets EXCEPT ![x] = @ \ {s}]
      /\ \A y : Current(y)' = Current(y)
      /\ \A e : Born(e)' = Born(e)
  BY DEF Offer, Current, Born
<1>4. \A y \in Senders : y # x => Current(y) # c
  BY CurrentDiffers
<1>. HIDE DEF c
<1>5. AllBorn'
  BY <1>1, <1>2, <1>3 DEF Copies, AllBorn
<1>6. Single'
  BY <1>1, <1>2, <1>3 DEF Copies, Single
<1>7. QueueAlone'
  BY <1>1, <1>2, <1>3 DEF Copies, QueueAlone, OnStream
<1>8. Unread'
  BY <1>1, <1>2, <1>3 DEF Copies, Unread
<1>9. Pending'
  <2>1. ASSUME NEW y \in Senders, phase'[y] = "sending", y # x
        PROVE  /\ Current(y) \notin ToSet(queue')
               /\ \A r \in Streams : Current(y) \notin ToSet(inbox'[r])
               /\ \A r \in Streams : r \in targets'[y] =>
                     /\ Current(y) \notin ToSet(buffer'[r])
                     /\ link'[r] => Current(y) \notin received'
               /\ ~taken'[y] => /\ Current(y) \notin received'
                                /\ \A r \in Streams : Current(y) \notin ToSet(buffer'[r])
    BY <1>2, <1>3, <1>4, <2>1 DEF Copies, Pending
  <2>2. /\ c \notin ToSet(queue')
        /\ \A r \in Streams : c \notin ToSet(inbox'[r])
        /\ \A r \in Streams : r \in targets'[x] =>
              /\ c \notin ToSet(buffer'[r])
              /\ link'[r] => c \notin received'
        /\ taken'[x]
    BY <1>1, <1>2, <1>3 DEF Copies, Pending, c
  <2>. QED
    BY <1>3, <2>1, <2>2 DEF Pending, c
<1>. QED
  BY <1>5, <1>6, <1>7, <1>8, <1>9 DEF Copies

\* What relates an emitter's event to the copies of others depends on these.
PendingOf(x) ==
    phase[x] = "sending" =>
        /\ Current(x) \notin ToSet(queue)
        /\ \A s \in Streams : Current(x) \notin ToSet(inbox[s])
        /\ \A s \in Streams : s \in targets[x] =>
              /\ Current(x) \notin ToSet(buffer[s])
              /\ link[s] => Current(x) \notin received
        /\ ~taken[x] => /\ Current(x) \notin received
                        /\ \A s \in Streams : Current(x) \notin ToSet(buffer[s])

(* An emitter that puts nothing anywhere, or gives up a channel.           *)
LEMMA RefuseCopies ==
    ASSUME TypeOK, Registered, Copies, NEW x \in Senders,
           \/ \E s \in Streams : Refuse(x, s)
           \/ \E full \in BOOLEAN : OfferGone(x, full)
           \/ Settle(x)
    PROVE  Copies'
<1>. USE DEF TypeOK, streamVars, historyVars
<1>. DEFINE GivesUp ==
              /\ UNCHANGED <<sent, queue, buffer, inbox, link, received>>
              /\ taken' \in [Senders -> BOOLEAN]
              /\ \A y \in Senders : /\ targets'[y] \subseteq targets[y]
                                    /\ taken[y] => taken'[y]
                                    /\ phase'[y] = "sending" => phase[y] = "sending"
<1>1. GivesUp
  <2>1. ASSUME NEW s \in Streams, Refuse(x, s)  PROVE GivesUp
    BY <2>1 DEF Refuse
  <2>2. ASSUME NEW full \in BOOLEAN, OfferGone(x, full)  PROVE GivesUp
    BY <2>2 DEF OfferGone
  <2>3. ASSUME Settle(x)  PROVE GivesUp
    BY <2>3 DEF Settle
  <2>. QED
    BY <2>1, <2>2, <2>3
<1>3. (\A y : Current(y)' = Current(y)) /\ (\A e : Born(e)' = Born(e))
  BY <1>1 DEF Current, Born
<1>4. AllBorn' /\ Single' /\ QueueAlone' /\ Unread'
  BY <1>1, <1>3 DEF Copies, AllBorn, Single, QueueAlone, OnStream, Unread
<1>5. ASSUME NEW y \in Senders  PROVE PendingOf(y)'
  BY <1>1, <1>3 DEF Copies, Pending, PendingOf
<1>. QED
  BY <1>4, <1>5 DEF Copies, Pending, PendingOf

(* What no channel took is queued, and is nowhere else.                    *)
LEMMA EnqueueCopies ==
    ASSUME TypeOK, Registered, Copies, NEW x \in Senders, Enqueue(x)
    PROVE  Copies'
<1>. USE DEF TypeOK, streamVars, historyVars
<1>. DEFINE c == Current(x)
<1>1. /\ c \notin ToSet(queue) /\ c \notin received /\ Born(c)
      /\ \A s \in Streams : c \notin ToSet(inbox[s]) /\ c \notin ToSet(buffer[s])
  <2>1. phase[x] = "sending" /\ ~taken[x] /\ Born(c)
    BY DEF Enqueue, Born, Current
  <2>. QED
    BY <2>1 DEF Copies, Pending
<1>2. /\ ToSet(queue') = ToSet(queue) \cup {c}
      /\ Distinct(queue) => Distinct(queue')
  <2>1. queue \in Seq(AllEvents) /\ c \in AllEvents
    BY CurrentDiffers
  <2>2. queue' = Append(queue, c)
    BY DEF Enqueue
  <2>. QED
    BY <1>1, <2>1, <2>2, AppendSet
<1>3. /\ UNCHANGED <<sent, taken, targets, buffer, inbox, link, received>>
      /\ phase' = [phase EXCEPT ![x] = "idle"]
      /\ \A y : Current(y)' = Current(y)
      /\ \A e : Born(e)' = Born(e)
  BY DEF Enqueue, Current, Born
<1>4. \A y \in Senders : y # x => Current(y) # c
  BY CurrentDiffers
<1>. HIDE DEF c
<1>5. AllBorn' /\ Single' /\ Unread'
  BY <1>1, <1>2, <1>3 DEF Copies, AllBorn, Single, Unread
<1>6. QueueAlone'
  BY <1>1, <1>2, <1>3 DEF Copies, QueueAlone, OnStream
<1>7. ASSUME NEW y \in Senders  PROVE PendingOf(y)'
  <2>1. CASE y = x
    BY <1>3, <2>1 DEF PendingOf
  <2>2. CASE y # x
    BY <1>2, <1>3, <1>4, <2>2 DEF Copies, Pending, PendingOf
  <2>. QED
    BY <2>1, <2>2
<1>. QED
  BY <1>5, <1>6, <1>7 DEF Copies, Pending, PendingOf

(* A stream that opens holds nothing yet.                                  *)
LEMMA OpenCopies ==
    ASSUME TypeOK, Registered, Copies, NEW s \in Streams, Open(s)
    PROVE  Copies'
<1>. USE DEF TypeOK, senderVars, historyVars
<1>1. /\ UNCHANGED <<sent, phase, targets, taken, queue, buffer, inbox, received>>
      /\ \A r \in Streams : link'[r] => link[r] \/ r = s
  BY DEF Open
<1>2. /\ ToSet(inbox[s]) = {} /\ ToSet(buffer[s]) = {}
      /\ \A x \in Senders : s \notin targets[x]
  <2>1. inbox[s] = <<>> /\ buffer[s] = <<>> /\ s \notin subs /\ s # Gone
    BY RelayAssumption DEF Open, Registered
  <2>. QED
    BY <2>1, EmptySet DEF Registered
<1>3. (\A y : Current(y)' = Current(y)) /\ (\A e : Born(e)' = Born(e))
  BY <1>1 DEF Current, Born
<1>4. AllBorn' /\ Single' /\ QueueAlone'
  BY <1>1, <1>3 DEF Copies, AllBorn, Single, QueueAlone, OnStream
<1>5. Unread'
  BY <1>1, <1>2 DEF Copies, Unread
<1>6. ASSUME NEW y \in Senders  PROVE PendingOf(y)'
  BY <1>1, <1>2, <1>3 DEF Copies, Pending, PendingOf
<1>. QED
  BY <1>4, <1>5, <1>6 DEF Copies, Pending, PendingOf

(* The pull moves the head of the queue.                                   *)
LEMMA PullCopies ==
    ASSUME TypeOK, Registered, Copies, NEW s \in Streams, Pull(s)
    PROVE  Copies'
<1>. USE DEF TypeOK, senderVars, historyVars
<1>1. /\ UNCHANGED <<sent, phase, targets, taken, buffer, link, received>>
      /\ \A r \in Streams : r # s => inbox'[r] = inbox[r]
  BY DEF Pull
<1>2. /\ ToSet(queue) = ToSet(inbox'[s]) \cup ToSet(queue')
      /\ Distinct(queue) => /\ Distinct(inbox'[s]) /\ Distinct(queue')
                            /\ \A e \in ToSet(inbox'[s]) : e \notin ToSet(queue')
  <2>. DEFINE take == Least(PullLimit, Len(queue))
  <2>1. take \in 0..Len(queue) /\ queue \in Seq(AllEvents)
    BY RelayAssumption DEF Least
  <2>2. inbox'[s] = SubSeq(queue, 1, take) /\ queue' = SubSeq(queue, take + 1, Len(queue))
    BY DEF Pull, Rest
  <2>. HIDE DEF take
  <2>. DEFINE a == SubSeq(queue, 1, take)
              b == SubSeq(queue, take + 1, Len(queue))
  <2>3. /\ ToSet(queue) = ToSet(a) \cup ToSet(b)
        /\ Distinct(queue) => /\ Distinct(a) /\ Distinct(b)
                              /\ \A e \in ToSet(a) : e \notin ToSet(b)
    BY <2>1, CutSet
  <2>. HIDE DEF a, b
  <2>4. inbox'[s] = a /\ queue' = b
    BY <2>2 DEF a, b
  <2>. QED
    BY <2>3, <2>4
<1>3. (\A y : Current(y)' = Current(y)) /\ (\A e : Born(e)' = Born(e))
  BY <1>1 DEF Current, Born
<1>4. AllBorn'
  BY <1>1, <1>2, <1>3 DEF Copies, AllBorn
<1>5. Single'
  BY <1>1, <1>2 DEF Copies, Single, QueueAlone, OnStream
<1>6. QueueAlone'
  BY <1>1, <1>2 DEF Copies, Single, QueueAlone, OnStream
<1>7. Unread'
  BY <1>1, <1>2 DEF Copies, Unread, QueueAlone, OnStream
<1>8. ASSUME NEW y \in Senders  PROVE PendingOf(y)'
  BY <1>1, <1>2, <1>3 DEF Copies, Pending, PendingOf
<1>. QED
  BY <1>4, <1>5, <1>6, <1>7, <1>8 DEF Copies, Pending, PendingOf

(* A write from the inbox takes the copy off the stream.                   *)
LEMMA InboxCopies ==
    ASSUME TypeOK, OneReader, Copies, NEW s \in Streams, WriteInbox(s)
    PROVE  Copies'
<1>. USE DEF TypeOK, senderVars
<1>. DEFINE h == Head(inbox[s])
<1>1. /\ UNCHANGED <<sent, phase, targets, taken, queue, buffer, link>>
      /\ \A r \in Streams : r # s => inbox'[r] = inbox[r]
      /\ received' = IF link[s] THEN received \cup {h} ELSE received
  BY DEF WriteInbox, Written
<1>2. /\ ToSet(inbox[s]) = ToSet(inbox'[s]) \cup {h}
      /\ Distinct(inbox[s]) => Distinct(inbox'[s]) /\ h \notin ToSet(inbox'[s])
  <2>1. inbox[s] \in Seq(AllEvents) /\ inbox[s] # <<>> /\ inbox'[s] = Tail(inbox[s])
    BY DEF WriteInbox
  <2>. QED
    BY <2>1, TailSet
<1>3. (\A y : Current(y)' = Current(y)) /\ (\A e : Born(e)' = Born(e))
  BY <1>1 DEF Current, Born
<1>. HIDE DEF h
<1>4. AllBorn' /\ Single'
  BY <1>1, <1>2, <1>3 DEF Copies, AllBorn, Single
<1>5. QueueAlone'
  BY <1>1, <1>2 DEF Copies, QueueAlone, OnStream
<1>6. Unread'
  BY <1>1, <1>2 DEF Copies, Unread, Single, OneReader
<1>7. ASSUME NEW y \in Senders  PROVE PendingOf(y)'
  BY <1>1, <1>2, <1>3 DEF Copies, Pending, PendingOf
<1>. QED
  BY <1>4, <1>5, <1>6, <1>7 DEF Copies, Pending, PendingOf

(* So does a write from the channel.                                       *)
LEMMA PumpCopies ==
    ASSUME TypeOK, OneReader, Copies, NEW s \in Streams, Pump(s)
    PROVE  Copies'
<1>. USE DEF TypeOK, senderVars
<1>. DEFINE h == Head(buffer[s])
<1>1. /\ UNCHANGED <<sent, phase, targets, taken, queue, inbox, link>>
      /\ \A r \in Streams : r # s => buffer'[r] = buffer[r]
      /\ received' = IF link[s] THEN received \cup {h} ELSE received
  BY DEF Pump, Written
<1>2. /\ ToSet(buffer[s]) = ToSet(buffer'[s]) \cup {h}
      /\ Distinct(buffer[s]) => Distinct(buffer'[s]) /\ h \notin ToSet(buffer'[s])
  <2>1. buffer[s] \in Seq(AllEvents) /\ buffer[s] # <<>> /\ buffer'[s] = Tail(buffer[s])
    BY DEF Pump
  <2>. QED
    BY <2>1, TailSet
<1>3. (\A y : Current(y)' = Current(y)) /\ (\A e : Born(e)' = Born(e))
  BY <1>1 DEF Current, Born
<1>. HIDE DEF h
<1>4. AllBorn' /\ Single'
  BY <1>1, <1>2, <1>3 DEF Copies, AllBorn, Single
<1>5. QueueAlone'
  BY <1>1, <1>2 DEF Copies, QueueAlone, OnStream
<1>6. Unread'
  BY <1>1, <1>2 DEF Copies, Unread, Single, OneReader
<1>7. ASSUME NEW y \in Senders  PROVE PendingOf(y)'
  BY <1>1, <1>2, <1>3 DEF Copies, Pending, PendingOf, OneReader
<1>. QED
  BY <1>4, <1>5, <1>6, <1>7 DEF Copies, Pending, PendingOf

(* Steps that only take away: a closed stream, a lost link, a pruned queue.*)
LEMMA LessCopies ==
    ASSUME TypeOK, Registered, Copies,
           \/ \E s \in Streams : StartPump(s) \/ Close(s) \/ LinkDown(s) \/ Fail(s)
           \/ PruneEntity
           \/ UNCHANGED vars
    PROVE  Copies'
<1>. USE DEF TypeOK, senderVars, streamVars, historyVars
<1>. DEFINE Loses ==
              /\ UNCHANGED <<sent, phase, taken, received>>
              /\ \A x \in Senders : targets'[x] \subseteq targets[x] \cup {Gone}
              /\ \A r \in Streams : /\ link'[r] => link[r]
                                    /\ inbox'[r] \in {inbox[r], <<>>}
                                    /\ buffer'[r] \in {buffer[r], <<>>}
              /\ queue' \in {queue, <<>>}
<1>1. Loses
  <2>1. ASSUME NEW s \in Streams, StartPump(s) \/ LinkDown(s) \/ Fail(s)  PROVE Loses
    BY <2>1 DEF StartPump, LinkDown, Fail
  <2>2. ASSUME NEW s \in Streams, Close(s)  PROVE Loses
    BY <2>2 DEF Close
  <2>3. CASE PruneEntity \/ UNCHANGED vars
    BY <2>3 DEF PruneEntity, vars
  <2>. QED
    BY <2>1, <2>2, <2>3
<1>2. /\ ToSet(queue') \subseteq ToSet(queue)
      /\ Distinct(queue) => Distinct(queue')
      /\ \A r \in Streams : /\ ToSet(inbox'[r]) \subseteq ToSet(inbox[r])
                            /\ Distinct(inbox[r]) => Distinct(inbox'[r])
                            /\ ToSet(buffer'[r]) \subseteq ToSet(buffer[r])
                            /\ Distinct(buffer[r]) => Distinct(buffer'[r])
  BY <1>1, EmptySet
<1>3. (\A y : Current(y)' = Current(y)) /\ (\A e : Born(e)' = Born(e))
  BY <1>1 DEF Current, Born
<1>4. AllBorn' /\ Single' /\ QueueAlone' /\ Unread'
  BY <1>1, <1>2, <1>3 DEF Copies, AllBorn, Single, QueueAlone, OnStream, Unread
<1>5. ASSUME NEW y \in Senders  PROVE PendingOf(y)'
  BY <1>1, <1>2, <1>3, RelayAssumption DEF Copies, Pending, PendingOf
<1>. QED
  BY <1>4, <1>5 DEF Copies, Pending, PendingOf

(* Every step keeps the copies apart.                                      *)
LEMMA CopiesStep ==
    ASSUME TypeOK, Registered, OneReader, Copies, [Next]_vars
    PROVE  Copies'
BY EmitCopies, OfferCopies, RefuseCopies, EnqueueCopies, OpenCopies, PullCopies,
   InboxCopies, PumpCopies, LessCopies
   DEF Next, EmitterStep, StreamStep

-----------------------------------------------------------------------------
(* Order.                                                                  *)

\* What the client got on a connection was sent, and is not to be sent again.
Past ==
    \A s \in Streams :
        /\ stage[s] = "opened" => written[s] = <<>>
        /\ stage[s] = "pumping" => inbox[s] = <<>>
        /\ \A e \in ToSet(written[s]) : Born(e)
        /\ \A x \in Senders : phase[x] = "sending" /\ s \in targets[x] =>
              Current(x) \notin ToSet(written[s])

\* The trail of a stream rises.
InOrder(s) ==
    /\ Rising(written[s]) /\ Rising(inbox[s]) /\ Rising(buffer[s])
    /\ Below(ToSet(written[s]), ToSet(inbox[s]))
    /\ Below(ToSet(written[s]), ToSet(buffer[s]))
    /\ Below(ToSet(inbox[s]), ToSet(buffer[s]))

\* An event that was not offered to stream s is older than all that were: its
\* emitter has put none there yet.
NoneYet(s) ==
    \A x \in Senders : phase[x] = "sending" /\ s \notin targets[x] /\ ~taken[x] =>
        \A e \in ToSet(buffer[s]) : e[1] # x

\* Until it has pulled the queue, the channel holds only younger events.
PullsFirst(s) == Below(ToSet(queue), ToSet(buffer[s])) /\ NoneYet(s)

LinedUp(s) == ~overflowed[s] => InOrder(s) /\ (stage[s] = "opened" => PullsFirst(s))

Lined == Rising(queue) /\ \A s \in Streams : LinedUp(s)

(* An emitter works on its youngest event.                                 *)
LEMMA Youngest ==
    ASSUME TypeOK, NEW x \in Senders, NEW A, A \subseteq AllEvents,
           \A e \in A : Born(e), Current(x) \notin A
    PROVE  Below(A, {Current(x)})
<1>1. ASSUME NEW e \in A, e[1] = x  PROVE e[2] < sent[x]
  <2>1. e = <<x, e[2]>> /\ e[2] \in Nat /\ sent[x] \in Nat
    BY <1>1 DEF AllEvents, TypeOK
  <2>2. e[2] <= sent[x]
    BY <1>1 DEF Born
  <2>3. e[2] # sent[x]
    BY <2>1 DEF Current
  <2>. QED
    BY <2>1, <2>2, <2>3
<1>2. Current(x)[1] = x /\ Current(x)[2] = sent[x]
  BY DEF Current
<1>. QED
  BY <1>1, <1>2 DEF Below

(* What a write does to what the client got.                               *)
LEMMA WrittenSet ==
    ASSUME TypeOK, NEW s \in Streams, NEW e \in AllEvents, Written(s, e)
    PROVE  /\ \A r \in Streams : r # s => written'[r] = written[r]
           /\ written'[s] = written[s] \/ written'[s] = Append(written[s], e)
           /\ ToSet(written'[s]) \subseteq ToSet(written[s]) \cup {e}
<1>1. /\ \A r \in Streams : r # s => written'[r] = written[r]
      /\ written'[s] = written[s] \/ written'[s] = Append(written[s], e)
  BY DEF Written, TypeOK
<1>2. ToSet(Append(written[s], e)) = ToSet(written[s]) \cup {e}
  BY AppendSet DEF TypeOK
<1>. QED
  BY <1>1, <1>2

(* Every step keeps what was written in the past.                          *)
LEMMA PastStep ==
    ASSUME TypeOK, Registered, Copies, Past, [Next]_vars
    PROVE  Past'
<1>. USE DEF TypeOK, senderVars, streamVars, historyVars
<1>1. ASSUME NEW x \in Senders, Emit(x)  PROVE Past'
  <2>1. /\ sent' = [sent EXCEPT ![x] = @ + 1] /\ UNCHANGED <<stage, written, inbox>>
        /\ \A y \in Senders : y # x => phase'[y] = phase[y] /\ targets'[y] = targets[y]
    BY <1>1 DEF Emit
  <2>2. ASSUME NEW s \in Streams, NEW e \in ToSet(written[s])
        PROVE  Born(e)' /\ e # Current(x)'
    <3>1. e \in AllEvents /\ Born(e)
      <4>1. ToSet(written[s]) \subseteq AllEvents
        BY Places
      <4>. QED
        BY <4>1 DEF Past
    <3>2. e[2] <= sent[e[1]] /\ e[1] \in Senders /\ e[2] \in Nat
      BY <3>1 DEF Born, AllEvents
    <3>. QED
      BY <2>1, <3>2 DEF Born, Current
  <2>3. \A y \in Senders : y # x => Current(y)' = Current(y)
    BY <2>1 DEF Current
  <2>4. ASSUME NEW s \in Streams, NEW y \in Senders, phase'[y] = "sending", s \in targets'[y]
        PROVE  Current(y)' \notin ToSet(written'[s])
    <3>1. CASE y = x
      BY <2>1, <2>2, <3>1
    <3>2. CASE y # x
      BY <2>1, <2>3, <2>4, <3>2 DEF Past
    <3>. QED
      BY <3>1, <3>2
  <2>5. ASSUME NEW s \in Streams
        PROVE  /\ stage'[s] = "opened" => written'[s] = <<>>
               /\ stage'[s] = "pumping" => inbox'[s] = <<>>
               /\ \A e \in ToSet(written'[s]) : Born(e)'
    BY <2>1, <2>2 DEF Past
  <2>. QED
    BY <2>4, <2>5 DEF Past
<1>2. ASSUME UNCHANGED <<sent, stage, written, inbox>>,
             \A x \in Senders : phase'[x] = "sending" =>
                phase[x] = "sending" /\ targets'[x] \subseteq targets[x] \cup {Gone}
      PROVE  Past'
  BY <1>2, RelayAssumption DEF Past, Born, Current
<1>3. ASSUME NEW x \in Senders, EmitterStep(x)  PROVE Past'
  BY <1>2, <1>3 DEF EmitterStep, Offer, Refuse, OfferGone, Settle, Enqueue
<1>4. ASSUME NEW s \in Streams, Open(s)  PROVE Past'
  <2>1. /\ UNCHANGED <<sent, phase, targets, inbox>>
        /\ stage' = [stage EXCEPT ![s] = "opened"]
        /\ written' = [written EXCEPT ![s] = <<>>]
    BY <1>4 DEF Open
  <2>2. ToSet(<<>>) = {}
    BY EmptySet
  <2>. QED
    BY <2>1, <2>2 DEF Past, Born, Current
<1>5. ASSUME NEW s \in Streams, NEW e \in AllEvents, Written(s, e), Born(e),
             UNCHANGED <<sent, phase, targets, stage>>, stage[s] # "opened",
             stage[s] = "pumping" => inbox'[s] = <<>>,
             \A r \in Streams : r # s => inbox'[r] = inbox[r],
             \A x \in Senders : phase[x] = "sending" /\ s \in targets[x] => Current(x) # e
      PROVE  Past'
  <2>1. \A x \in Senders : Current(x)' = Current(x)
    BY <1>5 DEF Current
  <2>2. \A f : Born(f)' = Born(f)
    BY <1>5 DEF Born
  <2>3. /\ \A r \in Streams : r # s => written'[r] = written[r]
        /\ ToSet(written'[s]) \subseteq ToSet(written[s]) \cup {e}
    BY <1>5, WrittenSet
  <2>4. \A r \in Streams : /\ stage'[r] = "opened" => written'[r] = <<>>
                           /\ stage'[r] = "pumping" => inbox'[r] = <<>>
    BY <1>5, <2>3 DEF Past
  <2>5. ASSUME NEW r \in Streams, NEW f \in ToSet(written'[r])
        PROVE  Born(f)
    <3>1. f \in ToSet(written[r]) \/ (r = s /\ f = e)
      <4>1. CASE r = s
        BY <2>3, <2>5, <4>1
      <4>2. CASE r # s
        BY <2>3, <2>5, <4>2
      <4>. QED
        BY <4>1, <4>2
    <3>. QED
      BY <1>5, <3>1 DEF Past
  <2>6. ASSUME NEW r \in Streams, NEW x \in Senders, phase[x] = "sending", r \in targets[x]
        PROVE  Current(x) \notin ToSet(written'[r])
    <3>1. Current(x) \notin ToSet(written[r])
      BY <2>6 DEF Past
    <3>2. CASE r = s
      BY <1>5, <2>3, <2>6, <3>1, <3>2
    <3>3. CASE r # s
      BY <2>3, <3>1, <3>3
    <3>. QED
      BY <3>2, <3>3
  <2>. QED
    BY <1>5, <2>1, <2>2, <2>4, <2>5, <2>6 DEF Past
<1>6. ASSUME NEW s \in Streams, WriteInbox(s)  PROVE Past'
  <2>1. inbox[s] \in Seq(AllEvents) /\ inbox[s] # <<>> /\ Written(s, Head(inbox[s]))
    BY <1>6 DEF WriteInbox
  <2>2. Head(inbox[s]) \in AllEvents /\ Head(inbox[s]) \in ToSet(inbox[s])
    BY <2>1, TailSet
  <2>3. /\ Born(Head(inbox[s]))
        /\ \A x \in Senders : phase[x] = "sending" => Current(x) # Head(inbox[s])
    BY <2>2 DEF Copies, AllBorn, Pending
  <2>4. /\ UNCHANGED <<sent, phase, targets, stage>> /\ stage[s] = "writing"
        /\ \A r \in Streams : r # s => inbox'[r] = inbox[r]
    BY <1>6 DEF WriteInbox
  <2>. QED
    BY <1>5, <2>1, <2>2, <2>3, <2>4
<1>7. ASSUME NEW s \in Streams, Pump(s)  PROVE Past'
  <2>1. buffer[s] \in Seq(AllEvents) /\ buffer[s] # <<>> /\ Written(s, Head(buffer[s]))
    BY <1>7 DEF Pump
  <2>2. Head(buffer[s]) \in AllEvents /\ Head(buffer[s]) \in ToSet(buffer[s])
    BY <2>1, TailSet
  <2>3. /\ Born(Head(buffer[s]))
        /\ \A x \in Senders : phase[x] = "sending" /\ s \in targets[x] =>
              Current(x) # Head(buffer[s])
    BY <2>2 DEF Copies, AllBorn, Pending
  <2>4. /\ UNCHANGED <<sent, phase, targets, stage, inbox>> /\ stage[s] = "pumping"
        /\ inbox[s] = <<>>
    BY <1>7 DEF Pump, Drains, Past
  <2>. QED
    BY <1>5, <2>1, <2>2, <2>3, <2>4
<1>8. ASSUME NEW s \in Streams, Pull(s) \/ StartPump(s) \/ Fail(s) \/ LinkDown(s)  PROVE Past'
  <2>1. UNCHANGED <<sent, phase, targets, written>>
    BY <1>8 DEF Pull, StartPump, Fail, LinkDown
  <2>2. /\ \A r \in Streams : stage'[r] = "opened" => stage[r] = "opened"
        /\ \A r \in Streams : stage'[r] = "pumping" => inbox'[r] = <<>>
    BY <1>8 DEF Pull, StartPump, Fail, LinkDown, Past
  <2>. QED
    BY <2>1, <2>2 DEF Past, Born, Current
<1>9. ASSUME NEW s \in Streams, Close(s)  PROVE Past'
  <2>1. /\ UNCHANGED <<sent, phase, written>>
        /\ stage' = [stage EXCEPT ![s] = "closed"] /\ inbox' = [inbox EXCEPT ![s] = <<>>]
        /\ \A x \in Senders : targets'[x] \subseteq targets[x] \cup {Gone}
    BY <1>9 DEF Close
  <2>. QED
    BY <2>1, RelayAssumption DEF Past, Born, Current
<1>10. CASE PruneEntity \/ UNCHANGED vars
  BY <1>2, <1>10 DEF PruneEntity, vars
<1>. QED
  BY <1>1, <1>3, <1>4, <1>6, <1>7, <1>8, <1>9, <1>10 DEF Next, StreamStep

(* A stream that no step touches stays in line, unless an emitter that has *)
(* not offered its event enters the queue, or is new.                      *)
LEMMA LinedFrame ==
    ASSUME NEW s \in Streams, LinedUp(s),
           written'[s] = written[s], inbox'[s] = inbox[s], buffer'[s] = buffer[s],
           overflowed'[s] = overflowed[s], stage'[s] = "opened" => stage[s] = "opened",
           ToSet(queue') \subseteq ToSet(queue),
           stage'[s] = "opened" => \A x \in Senders :
              phase'[x] = "sending" /\ s \notin targets'[x] /\ ~taken'[x] =>
                  phase[x] = "sending" /\ s \notin targets[x] /\ ~taken[x]
    PROVE  LinedUp(s)'
<1>1. InOrder(s) => InOrder(s)'
  BY DEF InOrder
<1>2. PullsFirst(s) /\ stage'[s] = "opened" => PullsFirst(s)'
  BY DEF PullsFirst, NoneYet, Below
<1>. QED
  BY <1>1, <1>2 DEF LinedUp

(* An event offered to a stream is younger than what the stream has.       *)
LEMMA OfferLined ==
    ASSUME TypeOK, Registered, Copies, Past, Lined,
           NEW x \in Senders, NEW s \in Streams, Offer(x, s)
    PROVE  Lined'
<1>. DEFINE c == Current(x)
<1>1. /\ s \in targets[x] /\ phase[x] = "sending"
      /\ buffer' = [buffer EXCEPT ![s] = Append(@, c)]
      /\ taken' = [taken EXCEPT ![x] = TRUE]
      /\ targets' = [targets EXCEPT ![x] = @ \ {s}]
      /\ UNCHANGED <<phase, queue, overflowed, stage, inbox, written>>
  BY DEF Offer, Registered, TypeOK, streamVars
<1>2. c \in AllEvents /\ c[1] = x
  BY DEF Current, AllEvents, TypeOK
<1>3. /\ buffer[s] \in Seq(AllEvents) /\ ToSet(buffer[s]) \subseteq AllEvents
      /\ ToSet(inbox[s]) \subseteq AllEvents /\ ToSet(written[s]) \subseteq AllEvents
      /\ ToSet(queue) \subseteq AllEvents
  BY Places DEF TypeOK
<1>4. /\ Below(ToSet(buffer[s]), {c}) /\ Below(ToSet(inbox[s]), {c})
      /\ Below(ToSet(written[s]), {c}) /\ Below(ToSet(queue), {c})
  <2>1. /\ c \notin ToSet(buffer[s]) /\ c \notin ToSet(inbox[s]) /\ c \notin ToSet(queue)
        /\ c \notin ToSet(written[s])
    BY <1>1 DEF Copies, Pending, Past
  <2>2. /\ \A e \in ToSet(buffer[s]) : Born(e)
        /\ \A e \in ToSet(inbox[s]) : Born(e)
        /\ \A e \in ToSet(queue) : Born(e)
        /\ \A e \in ToSet(written[s]) : Born(e)
    BY DEF Copies, AllBorn, Past
  <2>. QED
    BY <1>3, <2>1, <2>2, Youngest
<1>. HIDE DEF c
<1>5. buffer'[s] = Append(buffer[s], c)
  BY <1>1 DEF TypeOK
<1>6. ToSet(buffer'[s]) = ToSet(buffer[s]) \cup {c}
  BY <1>2, <1>3, <1>5, AppendSet
<1>7. LinedUp(s)'
  <2>. SUFFICES ASSUME ~overflowed[s]
                PROVE  InOrder(s)' /\ (stage[s] = "opened" => PullsFirst(s)')
    BY <1>1 DEF LinedUp
  <2>1. InOrder(s)
    BY DEF Lined, LinedUp
  <2>2. Rising(buffer'[s])
    BY <1>2, <1>3, <1>4, <1>5, <2>1, RisingAppend DEF InOrder
  <2>3. InOrder(s)'
    BY <1>1, <1>4, <1>6, <2>1, <2>2 DEF InOrder, Below
  <2>4. ASSUME stage[s] = "opened"  PROVE PullsFirst(s)'
    <3>1. PullsFirst(s)
      BY <2>4 DEF Lined, LinedUp
    <3>2. Below(ToSet(queue), ToSet(buffer'[s]))
      BY <1>4, <1>6, <3>1 DEF PullsFirst, Below
    <3>3. ASSUME NEW y \in Senders, phase[y] = "sending", s \notin targets'[y], ~taken'[y],
                 NEW e \in ToSet(buffer'[s])
          PROVE  e[1] # y
      <4>1. y # x
        BY <1>1, <3>3 DEF TypeOK
      <4>2. s \notin targets[y] /\ ~taken[y]
        BY <1>1, <3>3, <4>1 DEF TypeOK
      <4>. QED
        BY <1>2, <1>6, <3>1, <3>3, <4>1, <4>2 DEF PullsFirst, NoneYet
    <3>. QED
      BY <1>1, <3>2, <3>3 DEF PullsFirst, NoneYet
  <2>. QED
    BY <2>3, <2>4
<1>8. ASSUME NEW r \in Streams, r # s  PROVE LinedUp(r)'
  <2>1. /\ buffer'[r] = buffer[r]
        /\ \A y \in Senders : r \notin targets'[y] /\ ~taken'[y] => r \notin targets[y] /\ ~taken[y]
    BY <1>1, <1>8 DEF TypeOK
  <2>. QED
    BY <1>1, <2>1, LinedFrame DEF Lined
<1>. QED
  BY <1>1, <1>7, <1>8 DEF Lined

(* Nor is a queued event older than what is queued, or younger than what a *)
(* stream that has not pulled was offered.                                 *)
LEMMA EnqueueLined ==
    ASSUME TypeOK, Registered, Copies, Lined, NEW x \in Senders, Enqueue(x)
    PROVE  Lined'
<1>. DEFINE c == Current(x)
<1>1. /\ phase[x] = "sending" /\ targets[x] = {} /\ ~taken[x]
      /\ queue' = Append(queue, c)
      /\ phase' = [phase EXCEPT ![x] = "idle"]
      /\ UNCHANGED <<targets, taken, buffer, overflowed, stage, inbox, written>>
  BY DEF Enqueue, streamVars
<1>2. c \in AllEvents /\ c[1] = x
  BY DEF Current, AllEvents, TypeOK
<1>3. queue \in Seq(AllEvents) /\ ToSet(queue) \subseteq AllEvents
  BY Places DEF TypeOK
<1>4. Below(ToSet(queue), {c})
  <2>1. c \notin ToSet(queue) /\ \A e \in ToSet(queue) : Born(e)
    BY <1>1 DEF Copies, Pending, AllBorn
  <2>. QED
    BY <1>3, <2>1, Youngest
<1>. HIDE DEF c
<1>5. Rising(queue')
  BY <1>1, <1>2, <1>3, <1>4, RisingAppend DEF Lined
<1>6. ToSet(queue') = ToSet(queue) \cup {c}
  BY <1>1, <1>2, <1>3, AppendSet
<1>7. ASSUME NEW s \in Streams  PROVE LinedUp(s)'
  <2>1. LinedUp(s)
    BY DEF Lined
  <2>2. InOrder(s) => InOrder(s)'
    BY <1>1 DEF InOrder
  <2>3. ASSUME PullsFirst(s)  PROVE PullsFirst(s)'
    <3>1. \A e \in ToSet(buffer[s]) : e[1] # x
      BY <1>1, <2>3 DEF PullsFirst, NoneYet
    <3>2. Below(ToSet(queue'), ToSet(buffer'[s]))
      BY <1>1, <1>2, <1>6, <2>3, <3>1 DEF PullsFirst, Below
    <3>3. NoneYet(s)'
      BY <1>1, <2>3 DEF PullsFirst, NoneYet, TypeOK
    <3>. QED
      BY <3>2, <3>3 DEF PullsFirst
  <2>. QED
    BY <1>1, <2>1, <2>2, <2>3 DEF LinedUp
<1>. QED
  BY <1>5, <1>7 DEF Lined

(* A pull puts the head of the queue in front of the channel.              *)
LEMMA PullLined ==
    ASSUME TypeOK, Past, Lined, NEW s \in Streams, Pull(s)
    PROVE  Lined'
<1>. DEFINE take == Least(PullLimit, Len(queue))
            a == SubSeq(queue, 1, take)
            b == SubSeq(queue, take + 1, Len(queue))
<1>1. /\ stage[s] = "opened" /\ stage' = [stage EXCEPT ![s] = "writing"]
      /\ inbox' = [inbox EXCEPT ![s] = a] /\ queue' = b
      /\ UNCHANGED <<phase, targets, taken, buffer, overflowed, written>>
  BY DEF Pull, Rest, senderVars
<1>2. take \in 0..Len(queue)
  BY RelayAssumption DEF Least, TypeOK
<1>3. queue \in Seq(AllEvents) /\ Rising(queue)
  BY DEF TypeOK, Lined
<1>. HIDE DEF take
<1>4. /\ Rising(a) /\ Rising(b)
      /\ ToSet(queue) = ToSet(a) \cup ToSet(b)
  BY <1>2, <1>3, RisingCut, CutSet
<1>. HIDE DEF a, b
<1>5. ASSUME ~overflowed[s]  PROVE InOrder(s)'
  <2>1. InOrder(s) /\ Below(ToSet(queue), ToSet(buffer[s]))
    BY <1>1, <1>5 DEF Lined, LinedUp, PullsFirst
  <2>2. written[s] = <<>> /\ inbox'[s] = a
    BY <1>1 DEF Past, TypeOK
  <2>3. ToSet(written[s]) = {}
    BY <2>2, EmptySet
  <2>. QED
    BY <1>1, <1>4, <2>1, <2>2, <2>3 DEF InOrder, Below
<1>6. LinedUp(s)'
  BY <1>1, <1>5 DEF LinedUp, TypeOK
<1>7. ASSUME NEW r \in Streams, r # s  PROVE LinedUp(r)'
  <2>1. inbox'[r] = inbox[r] /\ stage'[r] = stage[r] /\ ToSet(queue') \subseteq ToSet(queue)
    BY <1>1, <1>4, <1>7 DEF TypeOK
  <2>. QED
    BY <1>1, <2>1, LinedFrame DEF Lined
<1>. QED
  BY <1>1, <1>4, <1>6, <1>7 DEF Lined

(* What is written comes after what was, and before what is left.          *)
LEMMA WriteLined ==
    ASSUME TypeOK, Past, Lined, NEW s \in Streams, WriteInbox(s) \/ Pump(s)
    PROVE  Lined'
<1>1. /\ UNCHANGED <<phase, targets, taken, queue, stage, overflowed>>
      /\ stage[s] # "opened"
  BY DEF WriteInbox, Pump, Drains, senderVars
<1>2. ASSUME NEW e \in AllEvents, Written(s, e), InOrder(s), Below(ToSet(written[s]), {e})
      PROVE  Rising(written'[s]) /\ ToSet(written'[s]) \subseteq ToSet(written[s]) \cup {e}
  <2>1. written[s] \in Seq(AllEvents) /\ Rising(written[s])
    BY <1>2 DEF TypeOK, InOrder
  <2>2. Rising(Append(written[s], e))
    BY <1>2, <2>1, RisingAppend
  <2>. QED
    BY <1>2, <2>1, <2>2, WrittenSet
<1>3. ASSUME WriteInbox(s), InOrder(s)  PROVE InOrder(s)'
  <2>. DEFINE h == Head(inbox[s])
              t == Tail(inbox[s])
  <2>1. /\ inbox[s] \in Seq(AllEvents) /\ inbox[s] # <<>> /\ Written(s, h)
        /\ inbox'[s] = t /\ buffer'[s] = buffer[s]
    BY <1>3 DEF WriteInbox, TypeOK
  <2>2. h \in AllEvents /\ ToSet(inbox[s]) = ToSet(t) \cup {h}
    BY <2>1, TailSet
  <2>3. Rising(t) /\ Below({h}, ToSet(t))
    BY <1>3, <2>1, RisingTail DEF InOrder
  <2>. HIDE DEF h, t
  <2>4. Below(ToSet(written[s]), {h})
    BY <1>3, <2>2 DEF InOrder, Below
  <2>5. Rising(written'[s]) /\ ToSet(written'[s]) \subseteq ToSet(written[s]) \cup {h}
    BY <1>2, <1>3, <2>1, <2>2, <2>4
  <2>6. /\ Below(ToSet(written'[s]), ToSet(t))
        /\ Below(ToSet(written'[s]), ToSet(buffer[s]))
        /\ Below(ToSet(t), ToSet(buffer[s]))
    BY <1>3, <2>2, <2>3, <2>5 DEF InOrder, Below
  <2>. QED
    BY <1>3, <2>1, <2>3, <2>5, <2>6 DEF InOrder
<1>4. ASSUME Pump(s), InOrder(s)  PROVE InOrder(s)'
  <2>. DEFINE h == Head(buffer[s])
              t == Tail(buffer[s])
  <2>1. /\ buffer[s] \in Seq(AllEvents) /\ buffer[s] # <<>> /\ Written(s, h)
        /\ buffer'[s] = t /\ inbox'[s] = inbox[s] /\ inbox[s] = <<>>
    BY <1>4 DEF Pump, Drains, TypeOK, Past
  <2>2. h \in AllEvents /\ ToSet(buffer[s]) = ToSet(t) \cup {h}
    BY <2>1, TailSet
  <2>3. Rising(t) /\ Below({h}, ToSet(t))
    BY <1>4, <2>1, RisingTail DEF InOrder
  <2>. HIDE DEF h, t
  <2>4. Below(ToSet(written[s]), {h})
    BY <1>4, <2>2 DEF InOrder, Below
  <2>5. Rising(written'[s]) /\ ToSet(written'[s]) \subseteq ToSet(written[s]) \cup {h}
    BY <1>2, <1>4, <2>1, <2>2, <2>4
  <2>6. ToSet(inbox[s]) = {}
    BY <2>1, EmptySet
  <2>7. /\ Below(ToSet(written'[s]), ToSet(t))
        /\ Below(ToSet(written'[s]), ToSet(inbox[s]))
        /\ Below(ToSet(inbox[s]), ToSet(t))
    BY <1>4, <2>2, <2>3, <2>5, <2>6 DEF InOrder, Below
  <2>. QED
    BY <1>4, <2>1, <2>3, <2>5, <2>7 DEF InOrder
<1>5. LinedUp(s)'
  BY <1>1, <1>3, <1>4 DEF Lined, LinedUp
<1>6. ASSUME NEW r \in Streams, r # s  PROVE LinedUp(r)'
  <2>1. inbox'[r] = inbox[r] /\ buffer'[r] = buffer[r] /\ written'[r] = written[r]
    BY <1>6 DEF WriteInbox, Pump, Written, TypeOK
  <2>. QED
    BY <1>1, <2>1, LinedFrame DEF Lined
<1>. QED
  BY <1>1, <1>5, <1>6 DEF Lined

(* A stream opens with nothing, and closes with what it wrote.             *)
LEMMA OpenLined ==
    ASSUME TypeOK, Registered, Lined, NEW s \in Streams, Open(s) \/ Close(s)
    PROVE  Lined'
<1>1. ASSUME NEW q  PROVE Below({}, q) /\ Below(q, {})
  BY DEF Below
<1>2. Rising(<<>>) /\ ToSet(<<>>) = {}
  BY EmptySet DEF Rising
<1>3. CASE Open(s)
  <2>1. /\ UNCHANGED <<phase, targets, taken, queue, buffer, inbox>>
        /\ stage[s] = "closed" /\ stage' = [stage EXCEPT ![s] = "opened"]
        /\ written' = [written EXCEPT ![s] = <<>>]
        /\ overflowed' = [overflowed EXCEPT ![s] = FALSE]
    BY <1>3 DEF Open, senderVars
  <2>2. inbox'[s] = <<>> /\ buffer'[s] = <<>> /\ written'[s] = <<>>
    BY <2>1 DEF Registered, TypeOK
  <2>3. LinedUp(s)'
    BY <1>1, <1>2, <2>2 DEF LinedUp, InOrder, PullsFirst, NoneYet
  <2>4. ASSUME NEW r \in Streams, r # s  PROVE LinedUp(r)'
    <3>1. stage'[r] = stage[r] /\ written'[r] = written[r] /\ overflowed'[r] = overflowed[r]
      BY <2>1, <2>4 DEF TypeOK
    <3>. QED
      BY <2>1, <3>1, LinedFrame DEF Lined
  <2>. QED
    BY <2>1, <2>3, <2>4 DEF Lined
<1>4. CASE Close(s)
  <2>1. /\ UNCHANGED <<phase, taken, queue, written, overflowed>>
        /\ stage' = [stage EXCEPT ![s] = "closed"]
        /\ buffer' = [buffer EXCEPT ![s] = <<>>] /\ inbox' = [inbox EXCEPT ![s] = <<>>]
        /\ targets' = [x \in Senders |-> IF s \in targets[x]
                                         THEN (targets[x] \ {s}) \cup {Gone} ELSE targets[x]]
    BY <1>4 DEF Close
  <2>2. LinedUp(s)'
    <3>1. inbox'[s] = <<>> /\ buffer'[s] = <<>> /\ stage'[s] = "closed"
      BY <2>1 DEF TypeOK
    <3>2. InOrder(s) => InOrder(s)'
      BY <1>1, <1>2, <2>1, <3>1 DEF InOrder
    <3>. QED
      BY <2>1, <3>1, <3>2 DEF Lined, LinedUp
  <2>3. ASSUME NEW r \in Streams, r # s  PROVE LinedUp(r)'
    <3>1. /\ stage'[r] = stage[r] /\ buffer'[r] = buffer[r] /\ inbox'[r] = inbox[r]
          /\ \A x \in Senders : r \notin targets'[x] => r \notin targets[x]
      BY <2>1, <2>3 DEF TypeOK
    <3>. QED
      BY <2>1, <3>1, LinedFrame DEF Lined
  <2>. QED
    BY <2>1, <2>2, <2>3 DEF Lined
<1>. QED
  BY <1>3, <1>4

(* Every step keeps the streams in line.                                   *)
LEMMA LinedStep ==
    ASSUME TypeOK, Registered, Copies, Past, Lined, [Next]_vars
    PROVE  Lined'
<1>. USE DEF TypeOK, senderVars, streamVars, historyVars
<1>1. ASSUME UNCHANGED <<written, inbox, buffer, overflowed>>, Rising(queue'),
             ToSet(queue') \subseteq ToSet(queue),
             \A s \in Streams : stage'[s] = "opened" =>
                /\ stage[s] = "opened"
                /\ \A x \in Senders :
                      phase'[x] = "sending" /\ s \notin targets'[x] /\ ~taken'[x] =>
                          phase[x] = "sending" /\ s \notin targets[x] /\ ~taken[x]
      PROVE  Lined'
  BY <1>1, LinedFrame DEF Lined
<1>2. ASSUME NEW x \in Senders, Emit(x)  PROVE Lined'
  BY <1>1, <1>2 DEF Emit, Registered, Lined
<1>3. ASSUME NEW x \in Senders, NEW s \in Streams, Refuse(x, s)  PROVE Lined'
  <2>1. /\ UNCHANGED <<phase, taken, queue, stage, buffer, inbox, written>>
        /\ overflowed' = [overflowed EXCEPT ![s] = TRUE]
        /\ targets' = [targets EXCEPT ![x] = @ \ {s}]
    BY <1>3 DEF Refuse
  <2>2. LinedUp(s)'
    BY <2>1 DEF LinedUp
  <2>3. ASSUME NEW r \in Streams, r # s  PROVE LinedUp(r)'
    <3>1. /\ overflowed'[r] = overflowed[r]
          /\ \A y \in Senders : r \notin targets'[y] => r \notin targets[y]
      BY <2>1, <2>3
    <3>. QED
      BY <2>1, <3>1, LinedFrame DEF Lined
  <2>. QED
    BY <2>1, <2>2, <2>3 DEF Lined
<1>4. ASSUME NEW x \in Senders, NEW full \in BOOLEAN, OfferGone(x, full)  PROVE Lined'
  <2>1. /\ UNCHANGED <<written, inbox, buffer, overflowed, queue, stage, phase>>
        /\ \A y \in Senders : ~taken'[y] => ~taken[y]
        /\ \A s \in Streams, y \in Senders : s \notin targets'[y] => s \notin targets[y]
    BY <1>4, RelayAssumption DEF OfferGone
  <2>. QED
    BY <1>1, <2>1 DEF Lined
<1>5. ASSUME NEW x \in Senders, Settle(x)  PROVE Lined'
  BY <1>1, <1>5 DEF Settle, Lined
<1>6. ASSUME NEW s \in Streams, StartPump(s) \/ LinkDown(s) \/ Fail(s)  PROVE Lined'
  BY <1>1, <1>6 DEF StartPump, LinkDown, Fail, Lined
<1>7. CASE PruneEntity
  <2>1. queue' = <<>> /\ UNCHANGED <<phase, targets, taken, stage, written, inbox, buffer, overflowed>>
    BY <1>7 DEF PruneEntity
  <2>2. Rising(queue') /\ ToSet(queue') = {}
    BY <2>1, EmptySet DEF Rising
  <2>. QED
    BY <1>1, <2>1, <2>2
<1>8. CASE UNCHANGED vars
  BY <1>1, <1>8 DEF vars, Lined
<1>. QED
  BY <1>2, <1>3, <1>4, <1>5, <1>6, <1>7, <1>8, OfferLined, EnqueueLined, PullLined,
     WriteLined, OpenLined
     DEF Next, EmitterStep, StreamStep

-----------------------------------------------------------------------------
(* The theorems.                                                           *)

IInv == TypeOK /\ Registered /\ OneReader /\ NoSilentLoss /\ Copies

(* The invariant holds before anything is sent.                            *)
LEMMA InitInv == Init => IInv
<1>. SUFFICES ASSUME Init  PROVE IInv
  OBVIOUS
<1>. USE EmptySet DEF Init
<1>1. TypeOK
  BY DEF TypeOK, Stages
<1>2. Registered /\ OneReader
  BY DEF Registered, OneReader
<1>3. NoSilentLoss
  BY DEF NoSilentLoss, Events, Emitted
<1>4. Copies
  BY DEF Copies, AllBorn, Single, QueueAlone, Pending, Unread
<1>. QED
  BY <1>1, <1>2, <1>3, <1>4 DEF IInv

(* Types, registered streams, the one stream the client reads, and where   *)
(* the copies of an event may be, in every reachable state.                *)
THEOREM RelayInvariance == Spec => []IInv
<1>1. IInv /\ [Next]_vars => IInv'
  BY TypeStep, RegisteredStep, OneReaderStep, LossStep, CopiesStep DEF IInv
<1>. QED
  BY InitInv, <1>1, PTL DEF Spec

(* The relay loses no accepted event silently (v2_store.go:1141-1164).     *)
THEOREM NothingVanishes == Spec => []NoSilentLoss
BY RelayInvariance, PTL DEF IInv

(* While its channel never filled up, a connection carries the events of   *)
(* each sender in order, the queued ones first (v2_routes.go:365-413).     *)
THEOREM OrderOnOneConnection == Spec => []StreamFifo
<1>1. Init => Past /\ Lined
  <2>. SUFFICES ASSUME Init  PROVE Past /\ Lined
    OBVIOUS
  <2>. USE EmptySet DEF Init
  <2>1. Past
    BY DEF Past
  <2>2. Rising(<<>>) /\ Below({}, {})
    BY DEF Rising, Below
  <2>3. Lined
    BY <2>2 DEF Lined, LinedUp, InOrder
  <2>. QED
    BY <2>1, <2>3
<1>2. IInv /\ Past /\ Lined /\ [Next]_vars => Past' /\ Lined'
  BY PastStep, LinedStep DEF IInv
<1>3. IInv /\ Lined => StreamFifo
  <2>. SUFFICES ASSUME IInv, Lined, NEW s \in Streams, ~overflowed[s]  PROVE Rising(Trail(s))
    BY DEF StreamFifo, Rising
  <2>1. /\ written[s] \in Seq(AllEvents) /\ inbox[s] \in Seq(AllEvents)
        /\ buffer[s] \in Seq(AllEvents)
    BY DEF IInv, TypeOK
  <2>2. InOrder(s)
    BY DEF Lined, LinedUp
  <2>. DEFINE pre == written[s] \o inbox[s]
  <2>3. /\ pre \in Seq(AllEvents) /\ Rising(pre)
        /\ ToSet(pre) \subseteq ToSet(written[s]) \cup ToSet(inbox[s])
    BY <2>1, <2>2, RisingConcat DEF InOrder
  <2>. HIDE DEF pre
  <2>4. Below(ToSet(pre), ToSet(buffer[s]))
    BY <2>2, <2>3 DEF InOrder, Below
  <2>5. Rising(pre \o buffer[s])
    BY <2>1, <2>2, <2>3, <2>4, RisingConcat DEF InOrder
  <2>. QED
    BY <2>5 DEF Trail, pre
<1>. QED
  BY RelayInvariance, <1>1, <1>2, <1>3, PTL DEF Spec

(* The client gets no event twice (v2_store.go:1087, v2_routes.go:365).    *)
THEOREM DeliveredOnce == Spec => AtMostOnce
<1>. DEFINE Fresh == \A s \in Streams :
              Len(written'[s]) > Len(written[s]) => Last(written'[s]) \notin received
<1>1. IInv /\ [Next]_vars => [Fresh]_vars
  <2>. SUFFICES ASSUME IInv, Next, NEW s \in Streams, Len(written'[s]) > Len(written[s])
                PROVE  Last(written'[s]) \notin received
    BY DEF Fresh
  <2>. USE DEF IInv, TypeOK, senderVars, streamVars, historyVars
  <2>1. ASSUME NEW r \in Streams, NEW e \in AllEvents, Written(r, e), OnStream(e, r)
        PROVE  Last(written'[s]) \notin received
    <3>1. r = s /\ link[s] /\ written'[s] = Append(written[s], e)
      BY <2>1 DEF Written
    <3>2. Last(written'[s]) = e
      BY <3>1 DEF Last
    <3>. QED
      BY <2>1, <3>1, <3>2 DEF Copies, Unread, OnStream
  <2>2. ASSUME NEW r \in Streams, WriteInbox(r)  PROVE Last(written'[s]) \notin received
    <3>1. inbox[r] \in Seq(AllEvents) /\ inbox[r] # <<>> /\ Written(r, Head(inbox[r]))
      BY <2>2 DEF WriteInbox
    <3>2. Head(inbox[r]) \in AllEvents /\ OnStream(Head(inbox[r]), r)
      BY <3>1, TailSet DEF OnStream
    <3>. QED
      BY <2>1, <3>1, <3>2
  <2>3. ASSUME NEW r \in Streams, Pump(r)  PROVE Last(written'[s]) \notin received
    <3>1. buffer[r] \in Seq(AllEvents) /\ buffer[r] # <<>> /\ Written(r, Head(buffer[r]))
      BY <2>3 DEF Pump
    <3>2. Head(buffer[r]) \in AllEvents /\ OnStream(Head(buffer[r]), r)
      BY <3>1, TailSet DEF OnStream
    <3>. QED
      BY <2>1, <3>1, <3>2
  <2>4. ASSUME NEW r \in Streams, Open(r)  PROVE FALSE
    <3>1. Len(written'[s]) <= Len(written[s])
      BY <2>4 DEF Open
    <3>. QED
      BY <3>1
  <2>5. CASE UNCHANGED written
    BY <2>5
  <2>6. ASSUME NEW x \in Senders, Emit(x) \/ EmitterStep(x)  PROVE UNCHANGED written
    BY <2>6 DEF Emit, EmitterStep, Offer, Refuse, OfferGone, Settle, Enqueue
  <2>7. ASSUME NEW r \in Streams, Pull(r) \/ StartPump(r) \/ Close(r) \/ LinkDown(r) \/ Fail(r)
        PROVE  UNCHANGED written
    BY <2>7 DEF Pull, StartPump, Close, LinkDown, Fail
  <2>8. PruneEntity => UNCHANGED written
    BY DEF PruneEntity
  <2>. QED
    BY <2>2, <2>3, <2>4, <2>5, <2>6, <2>7, <2>8 DEF Next, StreamStep
<1>2. Spec => [][Fresh]_vars
  BY RelayInvariance, <1>1, PTL DEF Spec
<1>. QED
  BY <1>2 DEF AtMostOnce, Fresh

================================================================================
