--------------------------- MODULE RedisRelayProofs ---------------------------
(***************************************************************************)
(* Proofs about RedisRelay, for any processes, signals, channel sizes,     *)
(* snapshots and restarts: no stream writes a live signal twice, and the   *)
(* snapshot is the only loss that no stream, crash or failed call explains.*)
(*                                                                         *)
(* A stream of the process that handles a signal gets it from the channel  *)
(* for its own signals, once; the other streams get it from Pub/Sub, once; *)
(* and the first is told from the others by the origin of the envelope.    *)
(***************************************************************************)
EXTENDS RedisRelay, SequenceSets, TLAPS

TypeOK ==
    /\ at \in [Events -> {"new", "taken", "refused", "queued", "sent"}]
    /\ origin \in [Events -> Instances]
    /\ list \in Seq(Events)
    /\ memory \in [Instances -> Seq(Events)]
    /\ running \in [Instances -> BOOLEAN]
    /\ local \in [Instances -> Seq(Events)]
    /\ external \in [Instances -> Seq(Events)]
    /\ live \in [Instances \X Events -> Nat]

(* The types hold in every step.                                           *)
LEMMA TypeStep ==
    ASSUME TypeOK, [Next]_vars
    PROVE  TypeOK'
<1>. USE DEF TypeOK, eventVars, processVars, streamVars, historyVars
<1>1. ASSUME NEW e \in Events, Offer(e)  PROVE TypeOK'
  <2>1. local[origin[e]] \in Seq(Events)
    OBVIOUS
  <2>2. Append(local[origin[e]], e) \in Seq(Events)
    BY <2>1
  <2>3. /\ at' \in [Events -> {"new", "taken", "refused", "queued", "sent"}]
        /\ local' \in [Instances -> Seq(Events)]
    BY <1>1, <2>2 DEF Offer
  <2>. QED
    BY <1>1, <2>3 DEF Offer
<1>2. ASSUME NEW e \in Events, Push(e) \/ PushFails(e)  PROVE TypeOK'
  <2>1. Append(list, e) \in Seq(Events)
    OBVIOUS
  <2>. QED
    BY <1>2, <2>1 DEF Push, PushFails
<1>3. ASSUME NEW e \in Events, Publish(e)  PROVE TypeOK'
  <2>1. \A i \in Instances : Append(external[i], e) \in Seq(Events)
    OBVIOUS
  <2>. QED
    BY <1>3, <2>1 DEF Publish
<1>4. <<>> \in Seq(Events)
  BY EmptySet
<1>5. ASSUME NEW i \in Instances, Open(i) \/ Heard(i) \/ Pull(i) \/ Inbox(i)  PROVE TypeOK'
  BY <1>4, <1>5 DEF Open, Heard, Pull, Inbox, TakeList
<1>6. ASSUME NEW i \in Instances, PullFails(i)  PROVE TypeOK'
  BY <1>4, <1>6 DEF PullFails, TakeList, Cut
<1>7. ASSUME NEW i \in Instances, Close(i)  PROVE TypeOK'
  BY <1>4, <1>7 DEF Close, Cut
<1>8. ASSUME NEW i \in Instances, Pump(i)  PROVE TypeOK'
  <2>1. /\ local[i] \in Seq(Events) /\ external[i] \in Seq(Events)
        /\ local[i] # <<>> => Head(local[i]) \in Events /\ Tail(local[i]) \in Seq(Events)
        /\ external[i] # <<>> => Head(external[i]) \in Events /\ Tail(external[i]) \in Seq(Events)
    BY TailSet
  <2>2. ASSUME NEW e \in Events
        PROVE  [live EXCEPT ![<<i, e>>] = @ + 1] \in [Instances \X Events -> Nat]
    OBVIOUS
  <2>3. CASE /\ local[i] # <<>>
             /\ live' = [live EXCEPT ![<<i, Head(local[i])>>] = @ + 1]
             /\ local' = [local EXCEPT ![i] = Tail(@)]
             /\ UNCHANGED external
    BY <1>8, <2>1, <2>2, <2>3 DEF Pump
  <2>4. CASE /\ external[i] # <<>>
             /\ live' = [live EXCEPT ![<<i, Head(external[i])>>] = @ + 1]
             /\ external' = [external EXCEPT ![i] = Tail(@)]
             /\ UNCHANGED local
    BY <1>8, <2>1, <2>2, <2>4 DEF Pump
  <2>. QED
    BY <1>8, <2>3, <2>4 DEF Pump
<1>9. ASSUME NEW i \in Instances, Snapshot(i)  PROVE TypeOK'
  BY <1>9 DEF Snapshot
<1>10. ASSUME NEW i \in Instances, Exec(i)  PROVE TypeOK'
  <2>1. /\ memory[i] \in Seq(Events)
        /\ list \o memory[i] \in Seq(Events) /\ <<>> \o memory[i] \in Seq(Events)
    BY <1>4
  <2>. QED
    BY <1>10, <2>1 DEF Exec
<1>11. ASSUME NEW i \in Instances, Crash(i)  PROVE TypeOK'
  BY <1>4, <1>11 DEF Crash, Cut
<1>12. ASSUME NEW i \in Instances, Restart(i)  PROVE TypeOK'
  BY <1>4, <1>12 DEF Restart
<1>13. CASE UNCHANGED vars
  BY <1>13 DEF vars
<1>. QED
  BY <1>1, <1>2, <1>3, <1>5, <1>6, <1>7, <1>8, <1>9, <1>10, <1>11, <1>12, <1>13 DEF Next

-----------------------------------------------------------------------------
(* Copies on the streams.                                                  *)

\* The stream of the handling process has a signal from that process alone,
\* the others have it from Pub/Sub, and whoever wrote it holds it no more.
OneCopy(i, e) ==
    /\ e \in ToSet(local[i]) => i = origin[e] /\ at[e] # "new" /\ live[<<i, e>>] = 0
    /\ e \in ToSet(external[i]) => i # origin[e] /\ at[e] = "sent" /\ live[<<i, e>>] = 0
    /\ live[<<i, e>>] # 0 => at[e] # "new" /\ (i # origin[e] => at[e] = "sent")
    /\ live[<<i, e>>] <= 1

Once == \A i \in Instances, e \in Events : OneCopy(i, e)

\* No channel holds a signal twice.
Single == \A i \in Instances : Distinct(local[i]) /\ Distinct(external[i])

\* How far a handler is only moves forward.
Forward ==
    \A e \in Events : /\ at[e] # "new" => at'[e] # "new"
                      /\ at[e] = "sent" => at'[e] = "sent"

(* A step that leaves the channels alone, or empties those of a stream,    *)
(* keeps their copies single.                                              *)
LEMMA OnceKept ==
    ASSUME TypeOK, Once, Single, Forward, UNCHANGED <<origin, live>>,
           \A j \in Instances : /\ local'[j] \in {local[j], <<>>}
                                /\ external'[j] \in {external[j], <<>>}
    PROVE  Once' /\ Single'
<1>1. ToSet(<<>>) = {} /\ Distinct(<<>>)
  BY EmptySet
<1>2. Single'
  BY <1>1 DEF Single
<1>3. ASSUME NEW j \in Instances
      PROVE  /\ ToSet(local'[j]) \subseteq ToSet(local[j])
             /\ ToSet(external'[j]) \subseteq ToSet(external[j])
  BY <1>1
<1>. QED
  BY <1>2, <1>3 DEF Once, OneCopy, Forward

(* The head of a channel is written and is the only copy that goes.        *)
LEMMA OncePumped ==
    ASSUME TypeOK, Once, Single, NEW i \in Instances, Pump(i)
    PROVE  Once' /\ Single'
<1>. USE DEF TypeOK
<1>0. local[i] \in Seq(Events) /\ external[i] \in Seq(Events) /\ UNCHANGED <<at, origin>>
  BY DEF Pump, eventVars
<1>1. CASE /\ local[i] # <<>>
           /\ live' = [live EXCEPT ![<<i, Head(local[i])>>] = @ + 1]
           /\ local' = [local EXCEPT ![i] = Tail(@)]
           /\ UNCHANGED external
  <2>1. /\ Head(local[i]) \in Events
        /\ ToSet(local[i]) = ToSet(Tail(local[i])) \cup {Head(local[i])}
        /\ Distinct(Tail(local[i])) /\ Head(local[i]) \notin ToSet(Tail(local[i]))
    BY <1>0, <1>1, TailSet DEF Single
  <2>2. \A j \in Instances : ToSet(local'[j]) = IF j = i THEN ToSet(Tail(local[i])) ELSE ToSet(local[j])
    BY <1>1
  <2>3. \A j \in Instances, e \in Events :
           live'[<<j, e>>] = IF j = i /\ e = Head(local[i]) THEN live[<<j, e>>] + 1 ELSE live[<<j, e>>]
    BY <1>1, <2>1
  <2>4. ASSUME NEW j \in Instances, NEW f \in Events  PROVE OneCopy(j, f)'
    <3>1. OneCopy(j, f) /\ live[<<j, f>>] \in Nat /\ Head(local[i]) \in ToSet(local[i])
      BY <2>1 DEF Once
    <3>2. CASE j = i /\ f = Head(local[i])
      BY <1>0, <1>1, <2>1, <2>2, <2>3, <3>1, <3>2 DEF OneCopy
    <3>3. CASE ~(j = i /\ f = Head(local[i]))
      BY <1>0, <1>1, <2>1, <2>2, <2>3, <3>1, <3>3 DEF OneCopy
    <3>. QED
      BY <3>2, <3>3
  <2>5. Single'
    BY <1>1, <2>1 DEF Single
  <2>. QED
    BY <2>4, <2>5 DEF Once
<1>2. CASE /\ external[i] # <<>>
           /\ live' = [live EXCEPT ![<<i, Head(external[i])>>] = @ + 1]
           /\ external' = [external EXCEPT ![i] = Tail(@)]
           /\ UNCHANGED local
  <2>1. /\ Head(external[i]) \in Events
        /\ ToSet(external[i]) = ToSet(Tail(external[i])) \cup {Head(external[i])}
        /\ Distinct(Tail(external[i])) /\ Head(external[i]) \notin ToSet(Tail(external[i]))
    BY <1>0, <1>2, TailSet DEF Single
  <2>2. \A j \in Instances : ToSet(external'[j]) = IF j = i THEN ToSet(Tail(external[i])) ELSE ToSet(external[j])
    BY <1>2
  <2>3. \A j \in Instances, e \in Events :
           live'[<<j, e>>] = IF j = i /\ e = Head(external[i]) THEN live[<<j, e>>] + 1 ELSE live[<<j, e>>]
    BY <1>2, <2>1
  <2>4. ASSUME NEW j \in Instances, NEW f \in Events  PROVE OneCopy(j, f)'
    <3>1. OneCopy(j, f) /\ live[<<j, f>>] \in Nat /\ Head(external[i]) \in ToSet(external[i])
      BY <2>1 DEF Once
    <3>2. CASE j = i /\ f = Head(external[i])
      <4>1. /\ j # origin[f] /\ at[f] = "sent" /\ live[<<j, f>>] = 0
            /\ f \notin ToSet(local[j])
        BY <3>1, <3>2 DEF OneCopy
      <4>2. live'[<<j, f>>] = 1
        BY <2>3, <3>2, <4>1
      <4>3. f \notin ToSet(external'[j])
        BY <2>1, <2>2, <3>2
      <4>4. f \notin ToSet(local'[j]) /\ j # origin'[f] /\ at'[f] = "sent"
        BY <1>0, <1>2, <4>1
      <4>. QED
        BY <4>2, <4>3, <4>4 DEF OneCopy
    <3>3. CASE ~(j = i /\ f = Head(external[i]))
      BY <1>0, <1>2, <2>1, <2>2, <2>3, <3>1, <3>3 DEF OneCopy
    <3>. QED
      BY <3>2, <3>3
  <2>5. Single'
    BY <1>2, <2>1 DEF Single
  <2>. QED
    BY <2>4, <2>5 DEF Once
<1>. QED
  BY <1>1, <1>2 DEF Pump

(* Every step keeps the copies of a signal single.                         *)
LEMMA OnceStep ==
    ASSUME TypeOK, Once, Single, [Next]_vars
    PROVE  Once' /\ Single'
<1>. USE DEF TypeOK, eventVars, processVars, streamVars, historyVars
<1>1. ASSUME NEW e \in Events, Offer(e)  PROVE Once' /\ Single'
  <2>. DEFINE i == origin[e]
  <2>1. CASE UNCHANGED local
    <3>1. Forward /\ UNCHANGED <<origin, live, external>>
      BY <1>1 DEF Offer, Forward
    <3>. QED
      BY <2>1, <3>1, OnceKept
  <2>2. CASE /\ at' = [at EXCEPT ![e] = "taken"]
             /\ local' = [local EXCEPT ![i] = Append(@, e)]
    <3>0. at[e] = "new" /\ UNCHANGED <<origin, live, external>>
      BY <1>1 DEF Offer
    <3>1. local[i] \in Seq(Events) /\ e \notin ToSet(local[i]) /\ i \in Instances
      BY <3>0 DEF Once, OneCopy
    <3>2. /\ ToSet(Append(local[i], e)) = ToSet(local[i]) \cup {e}
          /\ Distinct(Append(local[i], e))
      BY <3>1, AppendSet DEF Single
    <3>3. \A j \in Instances : ToSet(local'[j]) = IF j = i THEN ToSet(local[i]) \cup {e} ELSE ToSet(local[j])
      BY <2>2, <3>2
    <3>4. ASSUME NEW j \in Instances, NEW f \in Events  PROVE OneCopy(j, f)'
      <4>1. OneCopy(j, f) /\ live[<<j, f>>] \in Nat
        BY DEF Once
      <4>2. ToSet(external'[j]) = ToSet(external[j]) /\ live'[<<j, f>>] = live[<<j, f>>]
        BY <3>0
      <4>3. at'[f] = IF f = e THEN "taken" ELSE at[f]
        BY <2>2
      <4>. QED
        BY <3>0, <3>3, <4>1, <4>2, <4>3 DEF OneCopy
    <3>5. Single'
      BY <2>2, <3>0, <3>2 DEF Single
    <3>. QED
      BY <3>4, <3>5 DEF Once
  <2>. QED
    BY <1>1, <2>1, <2>2 DEF Offer
<1>2. ASSUME NEW e \in Events, Push(e) \/ PushFails(e)  PROVE Once' /\ Single'
  <2>1. Forward /\ UNCHANGED <<origin, live, local, external>>
    BY <1>2 DEF Push, PushFails, Pushes, Forward
  <2>. QED
    BY <2>1, OnceKept
<1>3. ASSUME NEW e \in Events, Publish(e)  PROVE Once' /\ Single'
  <2>0. /\ at[e] \notin {"new", "sent"} /\ at' = [at EXCEPT ![e] = "sent"]
        /\ UNCHANGED <<origin, live, local>>
    BY <1>3 DEF Publish
  <2>1. ASSUME NEW j \in Instances
        PROVE  /\ Distinct(external'[j])
               /\ ToSet(external'[j]) = IF Hears(j, e) THEN ToSet(external[j]) \cup {e}
                                                       ELSE ToSet(external[j])
    <3>1. external[j] \in Seq(Events) /\ e \notin ToSet(external[j]) /\ Distinct(external[j])
      BY <2>0 DEF Once, OneCopy, Single
    <3>2. /\ ToSet(Append(external[j], e)) = ToSet(external[j]) \cup {e}
          /\ Distinct(Append(external[j], e))
      BY <3>1, AppendSet
    <3>. QED
      BY <1>3, <3>1, <3>2 DEF Publish
  <2>2. \A j \in Instances : Hears(j, e) => j # origin[e]
    BY DEF Hears
  <2>3. ASSUME NEW j \in Instances, NEW f \in Events  PROVE OneCopy(j, f)'
    <3>1. OneCopy(j, f) /\ live[<<j, f>>] \in Nat
      BY DEF Once
    <3>2. ToSet(local'[j]) = ToSet(local[j]) /\ live'[<<j, f>>] = live[<<j, f>>]
      BY <2>0
    <3>3. at'[f] = IF f = e THEN "sent" ELSE at[f]
      BY <2>0
    <3>4. CASE f = e
      <4>1. at[f] \notin {"new", "sent"} /\ at'[f] = "sent" /\ origin'[f] = origin[f]
        BY <2>0, <3>3, <3>4
      <4>2. j # origin[f] => live[<<j, f>>] = 0
        BY <3>1, <4>1 DEF OneCopy
      <4>3. f \notin ToSet(external[j])
        BY <3>1, <4>1 DEF OneCopy
      <4>4. f \in ToSet(external'[j]) => j # origin[f]
        BY <2>1, <2>2, <3>4, <4>3
      <4>. QED
        BY <3>1, <3>2, <4>1, <4>2, <4>4 DEF OneCopy
    <3>5. CASE f # e
      <4>1. at'[f] = at[f] /\ origin'[f] = origin[f]
        BY <2>0, <3>3, <3>5
      <4>2. f \in ToSet(external'[j]) => f \in ToSet(external[j])
        BY <2>1, <3>5
      <4>. QED
        BY <3>1, <3>2, <4>1, <4>2 DEF OneCopy
    <3>. QED
      BY <3>4, <3>5
  <2>4. Single'
    BY <2>0, <2>1 DEF Single
  <2>. QED
    BY <2>3, <2>4 DEF Once
<1>4. ASSUME NEW i \in Instances, Open(i) \/ Heard(i) \/ Pull(i) \/ Inbox(i)  PROVE Once' /\ Single'
  <2>1. Forward /\ UNCHANGED <<origin, live, local, external>>
    BY <1>4 DEF Open, Heard, Pull, Inbox, Forward
  <2>. QED
    BY <2>1, OnceKept
<1>5. ASSUME NEW i \in Instances, PullFails(i) \/ Close(i) \/ Crash(i)  PROVE Once' /\ Single'
  <2>1. UNCHANGED <<origin, live>> /\ Cut(i)
    BY <1>5 DEF PullFails, Close, Crash, Cut
  <2>2. Forward
    BY <1>5 DEF PullFails, Close, Crash, Forward
  <2>. QED
    BY <2>1, <2>2, OnceKept DEF Cut
<1>6. ASSUME NEW i \in Instances, Pump(i)  PROVE Once' /\ Single'
  BY <1>6, OncePumped
<1>7. ASSUME NEW i \in Instances, Snapshot(i) \/ Exec(i) \/ Restart(i)  PROVE Once' /\ Single'
  <2>1. Forward /\ UNCHANGED <<origin, live, local, external>>
    BY <1>7 DEF Snapshot, Exec, Restart, Forward
  <2>. QED
    BY <2>1, OnceKept
<1>8. CASE UNCHANGED vars
  <2>1. Forward /\ UNCHANGED <<origin, live, local, external>>
    BY <1>8 DEF vars, Forward
  <2>. QED
    BY <2>1, OnceKept
<1>. QED
  BY <1>1, <1>2, <1>3, <1>4, <1>5, <1>6, <1>7, <1>8 DEF Next

-----------------------------------------------------------------------------
(* Losses.                                                                 *)

\* Where a signal is, once its own stream took it or it was appended.
OnStream(i, e) == e \in Buffered(i) \/ live[<<i, e>>] > 0

Traced(e) ==
    \/ e \in ToSet(list)
    \/ e \in pulled \cup wiped \cup lost
    \/ \E i \in Instances : OnStream(i, e)

Given == \A e \in Events : at[e] \notin {"new", "refused"} => Traced(e)

(* A step that takes nothing away keeps the signals traced.                *)
LEMMA TracedKept ==
    ASSUME NEW e, Traced(e),
           pulled \subseteq pulled', wiped \subseteq wiped', lost \subseteq lost',
           e \in ToSet(list) => e \in ToSet(list') \cup pulled' \cup wiped',
           \A i \in Instances : OnStream(i, e) => OnStream(i, e)' \/ e \in lost'
    PROVE  Traced(e)'
BY DEF Traced

(* Closing a stream loses what it buffers, and nothing it wrote.           *)
LEMMA CutLoses ==
    ASSUME TypeOK, NEW i \in Instances, Cut(i), Buffered(i) \subseteq lost',
           NEW j \in Instances, NEW e, OnStream(j, e)
    PROVE  OnStream(j, e)' \/ e \in lost'
<1>1. CASE j = i
  BY <1>1 DEF OnStream, Cut
<1>2. CASE j # i
  BY <1>2 DEF OnStream, Cut, Buffered, TypeOK
<1>. QED
  BY <1>1, <1>2

(* Every step keeps the signals traced.                                    *)
LEMMA GivenStep ==
    ASSUME TypeOK, Given, [Next]_vars
    PROVE  Given'
<1>. SUFFICES ASSUME NEW e \in Events, at'[e] \notin {"new", "refused"}
              PROVE  Traced(e)'
  BY DEF Given
<1>0. at[e] \notin {"new", "refused"} => Traced(e)
  BY DEF Given
<1>. USE DEF TypeOK, eventVars, processVars, streamVars, historyVars
<1>1. ASSUME NEW f \in Events, Offer(f)  PROVE Traced(e)'
  <2>. DEFINE i == origin[f]
  <2>0. UNCHANGED <<list, external, live, pulled, wiped, lost>>
    BY <1>1 DEF Offer
  <2>1. CASE UNCHANGED local
    <3>1. at[e] \notin {"new", "refused"}
      BY <1>1, <2>1 DEF Offer, HasRoom
    <3>2. \A j \in Instances : OnStream(j, e) => OnStream(j, e)'
      BY <2>0, <2>1 DEF OnStream, Buffered
    <3>. QED
      BY <1>0, <2>0, <3>1, <3>2, TracedKept
  <2>2. CASE /\ at' = [at EXCEPT ![f] = "taken"]
             /\ local' = [local EXCEPT ![i] = Append(@, f)]
    <3>1. local[i] \in Seq(Events) /\ i \in Instances
      OBVIOUS
    <3>2. ToSet(Append(local[i], f)) = ToSet(local[i]) \cup {f}
      BY <3>1, AppendSet
    <3>3. \A j \in Instances : ToSet(local'[j]) = IF j = i THEN ToSet(local[i]) \cup {f} ELSE ToSet(local[j])
      BY <2>2, <3>2
    <3>. HIDE DEF i
    <3>4. CASE e = f
      BY <3>1, <3>3, <3>4 DEF Traced, OnStream, Buffered
    <3>5. CASE e # f
      <4>1. Traced(e)
        BY <1>0, <2>2, <3>5
      <4>2. \A j \in Instances : OnStream(j, e) => OnStream(j, e)'
        BY <2>0, <3>3 DEF OnStream, Buffered
      <4>. QED
        BY <2>0, <4>1, <4>2, TracedKept
    <3>. QED
      BY <3>4, <3>5
  <2>. QED
    BY <1>1, <2>1, <2>2 DEF Offer
<1>2. ASSUME NEW f \in Events, Push(f) \/ PushFails(f)  PROVE Traced(e)'
  <2>1. ToSet(Append(list, f)) = ToSet(list) \cup {f}
    BY AppendSet
  <2>2. CASE e = f
    BY <1>2, <2>1, <2>2 DEF Push, PushFails, Traced
  <2>3. CASE e # f
    <3>1. Traced(e)
      BY <1>0, <1>2, <2>3 DEF Push, PushFails
    <3>2. \A j \in Instances : OnStream(j, e) => OnStream(j, e)'
      BY <1>2 DEF Push, PushFails, OnStream, Buffered
    <3>. QED
      BY <1>2, <2>1, <3>1, <3>2, TracedKept DEF Push, PushFails
  <2>. QED
    BY <2>2, <2>3
<1>3. ASSUME NEW f \in Events, Publish(f)  PROVE Traced(e)'
  <2>1. Traced(e)
    BY <1>0, <1>3 DEF Publish, Pushes
  <2>2. ASSUME NEW j \in Instances  PROVE ToSet(external[j]) \subseteq ToSet(external'[j])
    <3>1. external[j] \in Seq(Events)
      OBVIOUS
    <3>2. ToSet(Append(external[j], f)) = ToSet(external[j]) \cup {f}
      BY <3>1, AppendSet
    <3>. QED
      BY <1>3, <3>2 DEF Publish
  <2>3. \A j \in Instances : OnStream(j, e) => OnStream(j, e)'
    BY <1>3, <2>2 DEF Publish, OnStream, Buffered
  <2>. QED
    BY <1>3, <2>1, <2>3, TracedKept DEF Publish
<1>4. ASSUME NEW i \in Instances, Open(i) \/ Heard(i) \/ Snapshot(i) \/ Restart(i)  PROVE Traced(e)'
  <2>1. Traced(e)
    BY <1>0, <1>4 DEF Open, Heard, Snapshot, Restart
  <2>2. UNCHANGED <<list, local, external, live, pulled, wiped, lost>>
    BY <1>4 DEF Open, Heard, Snapshot, Restart
  <2>. QED
    BY <2>1, <2>2 DEF Traced, OnStream, Buffered
<1>5. ASSUME NEW i \in Instances, Pull(i) \/ Inbox(i)  PROVE Traced(e)'
  <2>1. Traced(e)
    BY <1>0, <1>5 DEF Pull, Inbox
  <2>2. /\ pulled' = pulled \cup ToSet(list) /\ wiped' = wiped /\ lost \subseteq lost'
        /\ UNCHANGED <<local, external, live>>
    BY <1>5 DEF Pull, Inbox, TakeList
  <2>3. \A j \in Instances : OnStream(j, e) => OnStream(j, e)'
    BY <2>2 DEF OnStream, Buffered
  <2>. QED
    BY <2>1, <2>2, <2>3, TracedKept
<1>6. ASSUME NEW i \in Instances, PullFails(i)  PROVE Traced(e)'
  <2>1. Traced(e)
    BY <1>0, <1>6 DEF PullFails
  <2>2. /\ pulled' = pulled \cup ToSet(list) /\ wiped' = wiped /\ lost \subseteq lost'
        /\ Buffered(i) \subseteq lost' /\ Cut(i)
    BY <1>6 DEF PullFails, TakeList
  <2>3. \A j \in Instances : OnStream(j, e) => OnStream(j, e)' \/ e \in lost'
    BY <2>2, CutLoses
  <2>. QED
    BY <2>1, <2>2, <2>3, TracedKept
<1>7. ASSUME NEW i \in Instances, Pump(i)  PROVE Traced(e)'
  <2>0. local[i] \in Seq(Events) /\ external[i] \in Seq(Events)
    OBVIOUS
  <2>1. Traced(e) /\ UNCHANGED <<list, pulled, wiped, lost>>
    BY <1>0, <1>7 DEF Pump
  <2>2. ASSUME NEW j \in Instances, OnStream(j, e)  PROVE OnStream(j, e)'
    <3>1. CASE /\ local[i] # <<>>
               /\ live' = [live EXCEPT ![<<i, Head(local[i])>>] = @ + 1]
               /\ local' = [local EXCEPT ![i] = Tail(@)]
               /\ UNCHANGED external
      <4>1. /\ ToSet(local[i]) = ToSet(Tail(local[i])) \cup {Head(local[i])}
            /\ Head(local[i]) \in Events
        BY <2>0, <3>1, TailSet
      <4>2. live[<<j, e>>] \in Nat
        OBVIOUS
      <4>3. CASE j = i /\ e = Head(local[i])
        BY <3>1, <4>2, <4>3 DEF OnStream
      <4>4. CASE ~(j = i /\ e = Head(local[i]))
        BY <2>2, <3>1, <4>1, <4>4 DEF OnStream, Buffered
      <4>. QED
        BY <4>3, <4>4
    <3>2. CASE /\ external[i] # <<>>
               /\ live' = [live EXCEPT ![<<i, Head(external[i])>>] = @ + 1]
               /\ external' = [external EXCEPT ![i] = Tail(@)]
               /\ UNCHANGED local
      <4>1. /\ ToSet(external[i]) = ToSet(Tail(external[i])) \cup {Head(external[i])}
            /\ Head(external[i]) \in Events
        BY <2>0, <3>2, TailSet
      <4>2. live[<<j, e>>] \in Nat
        OBVIOUS
      <4>3. CASE j = i /\ e = Head(external[i])
        BY <3>2, <4>2, <4>3 DEF OnStream
      <4>4. CASE ~(j = i /\ e = Head(external[i]))
        BY <2>2, <3>2, <4>1, <4>4 DEF OnStream, Buffered
      <4>. QED
        BY <4>3, <4>4
    <3>. QED
      BY <1>7, <3>1, <3>2 DEF Pump
  <2>. QED
    BY <2>1, <2>2, TracedKept
<1>8. ASSUME NEW i \in Instances, Close(i)  PROVE Traced(e)'
  <2>1. Traced(e)
    BY <1>0, <1>8 DEF Close
  <2>2. lost' = lost \cup Buffered(i) /\ Cut(i) /\ UNCHANGED <<list, pulled, wiped>>
    BY <1>8 DEF Close
  <2>3. \A j \in Instances : OnStream(j, e) => OnStream(j, e)' \/ e \in lost'
    BY <2>2, CutLoses
  <2>. QED
    BY <2>1, <2>2, <2>3, TracedKept
<1>9. ASSUME NEW i \in Instances, Exec(i)  PROVE Traced(e)'
  <2>1. Traced(e)
    BY <1>0, <1>9 DEF Exec
  <2>2. /\ wiped' = wiped \cup (ToSet(list) \ ToSet(list'))
        /\ UNCHANGED <<pulled, lost, local, external, live>>
    BY <1>9 DEF Exec
  <2>3. \A j \in Instances : OnStream(j, e) => OnStream(j, e)'
    BY <2>2 DEF OnStream, Buffered
  <2>. QED
    BY <2>1, <2>2, <2>3, TracedKept
<1>10. ASSUME NEW i \in Instances, Crash(i)  PROVE Traced(e)'
  <2>1. /\ lost' = lost \cup Buffered(i) \cup {f \in Events : origin[f] = i /\ at[f] = "refused"}
        /\ Cut(i) /\ UNCHANGED <<list, pulled, wiped>>
        /\ at[e] # "new"
    BY <1>10 DEF Crash
  <2>2. CASE at[e] = "refused"
    BY <1>10, <2>1, <2>2 DEF Crash, Traced
  <2>3. CASE at[e] # "refused"
    <3>1. Traced(e)
      BY <1>0, <2>1, <2>3
    <3>2. \A j \in Instances : OnStream(j, e) => OnStream(j, e)' \/ e \in lost'
      BY <2>1, CutLoses
    <3>. QED
      BY <2>1, <3>1, <3>2, TracedKept
  <2>. QED
    BY <2>2, <2>3
<1>11. CASE UNCHANGED vars
  BY <1>0, <1>11 DEF vars, Traced, OnStream, Buffered
<1>. QED
  BY <1>1, <1>2, <1>3, <1>4, <1>5, <1>6, <1>7, <1>8, <1>9, <1>10, <1>11 DEF Next

-----------------------------------------------------------------------------
IInv == TypeOK /\ Once /\ Single /\ Given

(* The types, the single copies and the trace of every signal: every       *)
(* reachable state of the processes over one Redis satisfies them.         *)
THEOREM RedisInvariance == Spec => []IInv
<1>1. Init => IInv
  <2>1. <<>> \in Seq(Events) /\ ToSet(<<>>) = {} /\ Distinct(<<>>)
    BY EmptySet
  <2>. SUFFICES ASSUME Init  PROVE IInv
    OBVIOUS
  <2>2. TypeOK
    BY <2>1 DEF Init, TypeOK
  <2>3. Once /\ Single
    BY <2>1 DEF Init, Once, OneCopy, Single
  <2>4. Given
    BY DEF Init, Given
  <2>. QED
    BY <2>2, <2>3, <2>4 DEF IInv
<1>2. IInv /\ [Next]_vars => IInv'
  BY TypeStep, OnceStep, GivenStep DEF IInv
<1>. QED
  BY <1>1, <1>2, PTL DEF Spec

(* A stream writes a live signal at most once: what forwardRedisSignals    *)
(* drops as its own (main.go:1931) is what deliverSignalEvent gave the     *)
(* streams of the handling process.                                        *)
THEOREM WrittenOnce == Spec => []LiveOnce
<1>1. IInv => LiveOnce
  BY DEF IInv, Once, OneCopy, LiveOnce
<1>. QED
  BY <1>1, RedisInvariance, PTL

(* A signal whose handler is done is with the client, on its way, or lost  *)
(* with a process, a stream, a failed call or a snapshot, for any number   *)
(* of them (main.go:1764).                                                 *)
THEOREM LossExplained == Spec => []NoOtherLoss
<1>1. IInv => NoOtherLoss
  BY DEF IInv, Given, Traced, OnStream, NoOtherLoss
<1>. QED
  BY <1>1, RedisInvariance, PTL

===============================================================================
