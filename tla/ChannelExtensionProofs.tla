----------------------- MODULE ChannelExtensionProofs -----------------------
(***************************************************************************)
(* What the channel plugin keeps for every number of accounts, mobiles,    *)
(* users, events and restarts: a message reaches the agent twice only      *)
(* after MaxSeen others, and the gateway never shows a connection that is  *)
(* not there.                                                              *)
(***************************************************************************)
EXTENDS ChannelExtension, SequenceSets, FiniteSetTheorems

ResolvedAccounts ==
  [enabled : BOOLEAN, server : BaseUrls \cup {None}, device : Devices \cup {None}]
Shown == {None} \cup Parties \cup {Display(n, m) : n \in Names, m \in Parties}
LogEntries == [id : Nat, text : BOOLEAN]
RunRecords ==
  [account : ResolvedAccounts, aborted : BOOLEAN, version : Nat,
   phase : {"parked", "bindings", "socket", "sleep", "thrown", "ended"},
   sock : {"none", "connecting", "open", "closing", "closed"},
   device : Devices \cup {None}, attempt : Nat,
   seen : Seq(Nat), names : [Parties -> Shown], log : Seq(LogEntries)]
Caches == [peers : [Parties -> Names \cup {None}],
           aliases : [Parties \cup Names -> Parties \cup {None}]]
Tasks == [run : Nat, e : Events, device : Devices \cup {None},
          at : {"load", "agent", "mirror", "done"}]

TypeOK ==
  /\ cfg \in Configs
  /\ buckets \in [Accounts -> Caches]
  /\ runs \in Seq(RunRecords)
  /\ status \in [connected : BOOLEAN, busy : BOOLEAN, attempts : Nat, error : BOOLEAN]
  /\ dispatched \in Seq(Tasks) /\ \A k \in 1..Len(dispatched) : dispatched[k].run \in 1..Len(runs)
  /\ paired \in [Users -> Parties \cup {None}]
  /\ left \in [Budgets -> Nat]

---------------------------------------------------------------------------
\* What a run remembers of the events it logged.

\* The other events logged from the i-th to the j-th.
Others(log, i, j) == {log[k].id : k \in i..j} \ {0, log[i].id}

\* The id of the i-th event is still remembered, and what was remembered after
\* it are ids of later events.
Remembered(seen, log, i) ==
  \E p \in 1..Len(seen) :
    /\ seen[p] = log[i].id
    /\ \A q \in 1..Len(seen) : q > p => seen[q] \in {log[k].id : k \in (i + 1)..Len(log)}

\* Enough other events came since.
Outlived(log, i) == Cardinality(Others(log, i, Len(log))) >= MaxSeen

Window(seen, log) ==
  /\ Distinct(seen) /\ Len(seen) <= MaxSeen
  /\ \A p \in 1..Len(seen) : seen[p] # 0
  /\ \A i \in 1..Len(log) :
       log[i].text /\ log[i].id # 0 => Remembered(seen, log, i) \/ Outlived(log, i)

Once(log) ==
  \A i, j \in 1..Len(log) :
    i < j /\ log[i].text /\ log[j].text /\ log[i].id = log[j].id /\ log[i].id # 0
      => Cardinality(Others(log, i, j)) >= MaxSeen

Windows == \A r \in 1..Len(runs) : Window(runs[r].seen, runs[r].log) /\ Once(runs[r].log)

\* A socket is open only while the loop of its run waits for it, and a run
\* that was stopped is out of its loop.
InLoop(run) == /\ run.sock = "open" => run.phase = "socket"
               /\ run.phase \in {"socket", "sleep"} => ~run.aborted
OpenIsAwaited == \A r \in 1..Len(runs) : InLoop(runs[r])

Sockets == OpenIsAwaited /\ ShownIsThere

IInv == TypeOK /\ Windows /\ Sockets

---------------------------------------------------------------------------
(* A sequence without duplicates has as many elements as places.           *)
LEMMA DistinctCardinality ==
    ASSUME NEW S, NEW q \in Seq(S), Distinct(q)
    PROVE  IsFiniteSet(ToSet(q)) /\ Cardinality(ToSet(q)) = Len(q)
<1>1. Len(q) \in Nat /\ DOMAIN q = 1..Len(q) /\ q \in [1..Len(q) -> S]
  OBVIOUS
<1>2. q \in [1..Len(q) -> ToSet(q)]
  BY <1>1, Places
<1>3. q \in Injection(1..Len(q), ToSet(q))
  BY <1>1, <1>2 DEF Distinct, Injection, IsInjective
<1>4. q \in Surjection(1..Len(q), ToSet(q))
  BY <1>2, Places DEF Surjection
<1>5. ExistsBijection(1..Len(q), ToSet(q))
  BY <1>3, <1>4 DEF ExistsBijection, Bijection
<1>. QED
  BY <1>1, <1>5, FS_NatBijection, FS_CountingElements

(* The ids logged between two events are finitely many.                    *)
LEMMA OthersFinite ==
    ASSUME NEW log \in Seq(LogEntries), NEW i \in 1..Len(log), NEW j \in 1..Len(log)
    PROVE  IsFiniteSet(Others(log, i, j)) /\ Cardinality(Others(log, i, j)) \in Nat
<1>. DEFINE ids == {log[k].id : k \in i..j}
            f == [k \in i..j |-> log[k].id]
<1>1. IsFiniteSet(i..j)
  <2>1. i \in Int /\ j \in Int
    OBVIOUS
  <2>. QED
    BY <2>1, FS_Interval
<1>2. f \in Surjection(i..j, ids)
  BY DEF Surjection
<1>3. IsFiniteSet(ids)
  BY <1>1, <1>2, FS_Surjection
<1>4. Others(log, i, j) \in SUBSET ids
  BY DEF Others
<1>. QED
  BY <1>3, <1>4, FS_Subset, FS_CardinalityType

(* A longer stretch has no fewer other events.                             *)
LEMMA OthersGrow ==
    ASSUME NEW log \in Seq(LogEntries), NEW entry \in LogEntries,
           NEW i \in 1..Len(log), NEW j \in 1..Len(log)
    PROVE  LET more == Append(log, entry)
           IN  /\ Others(more, i, j) = Others(log, i, j)
               /\ Cardinality(Others(more, i, Len(more))) >= Cardinality(Others(log, i, j))
<1>. DEFINE more == Append(log, entry)
<1>1. /\ more \in Seq(LogEntries) /\ Len(more) = Len(log) + 1 /\ Len(log) \in Nat
      /\ \A k \in 1..Len(log) : more[k] = log[k]
  OBVIOUS
<1>. HIDE DEF more
<1>2. /\ i \in 1..Len(more) /\ j \in 1..Len(more) /\ Len(more) \in 1..Len(more)
      /\ i..j \subseteq 1..Len(log) /\ i..j \subseteq i..Len(more)
  BY <1>1
<1>3. Others(more, i, j) = Others(log, i, j)
  BY <1>1, <1>2 DEF Others
<1>4. Others(log, i, j) \in SUBSET Others(more, i, Len(more))
  BY <1>1, <1>2 DEF Others
<1>5. IsFiniteSet(Others(more, i, Len(more)))
  BY <1>1, <1>2, OthersFinite
<1>6. Cardinality(Others(log, i, j)) <= Cardinality(Others(more, i, Len(more)))
  BY <1>4, <1>5, FS_Subset
<1>7. Cardinality(Others(log, i, j)) \in Nat /\ Cardinality(Others(more, i, Len(more))) \in Nat
  BY <1>1, <1>2, OthersFinite
<1>. QED
  BY <1>3, <1>6, <1>7 DEF more

(* The first start of an account remembers and logs nothing.               *)
LEMMA EmptyWindow == Window(<<>>, <<>>) /\ Once(<<>>)
<1>1. Len(<<>>) = 0 /\ <<>> \in Seq(Nat)
  OBVIOUS
<1>. QED
  BY <1>1, EmptySet, ChannelAssumption DEF Window, Once, Remembered, Outlived

(* An event that outlived what is remembered before it is of MaxSeen       *)
(* others: the id is pushed out of the window by as many later ones.       *)
LEMMA PushedOut ==
    ASSUME NEW seen \in Seq(Nat), NEW log \in Seq(LogEntries), Distinct(seen),
           Len(seen) = MaxSeen, NEW i \in 1..Len(log),
           \A p \in 1..Len(seen) : /\ seen[p] # 0 /\ seen[p] # log[i].id
                                   /\ seen[p] \in {log[k].id : k \in (i + 1)..Len(log)}
    PROVE  Outlived(log, i)
<1>1. Len(log) \in Nat /\ Len(log) \in 1..Len(log) /\ (i + 1)..Len(log) \subseteq i..Len(log)
  OBVIOUS
<1>2. ToSet(seen) \in SUBSET Others(log, i, Len(log))
  <2>1. ASSUME NEW x \in ToSet(seen)  PROVE x \in Others(log, i, Len(log))
    <3>1. PICK p \in 1..Len(seen) : x = seen[p]
      BY Places
    <3>2. x # 0 /\ x # log[i].id /\ x \in {log[k].id : k \in (i + 1)..Len(log)}
      BY <3>1
    <3>. QED
      BY <1>1, <3>2 DEF Others
  <2>. QED
    BY <2>1
<1>3. Cardinality(ToSet(seen)) = MaxSeen
  BY DistinctCardinality
<1>4. Cardinality(ToSet(seen)) <= Cardinality(Others(log, i, Len(log)))
  BY <1>1, <1>2, OthersFinite, FS_Subset
<1>5. MaxSeen \in Nat /\ Cardinality(Others(log, i, Len(log))) \in Nat
  BY <1>1, OthersFinite, ChannelAssumption
<1>. QED
  BY <1>3, <1>4, <1>5 DEF Outlived

(* What is remembered stays in order; a new id comes last, and the oldest  *)
(* goes once there are MaxSeen.                                             *)
LEMMA RememberedIds ==
    ASSUME NEW seen \in Seq(Nat), NEW id \in Nat,
           Distinct(seen), Len(seen) <= MaxSeen, \A p \in 1..Len(seen) : seen[p] # 0
    PROVE  LET now == RememberEventId(seen, id)
           IN  /\ now \in Seq(Nat) /\ Distinct(now) /\ Len(now) <= MaxSeen
               /\ \A p \in 1..Len(now) : now[p] # 0
<1>. DEFINE now == RememberEventId(seen, id)
<1>0. MaxSeen \in Nat /\ MaxSeen > 0 /\ Len(seen) \in Nat
  BY ChannelAssumption
<1>1. CASE id = 0 \/ Contains(seen, id)
  BY <1>1 DEF RememberEventId
<1>. DEFINE kept == IF Len(seen) < MaxSeen THEN seen ELSE Tail(seen)
<1>. HIDE DEF now, kept
<1>2. ASSUME id # 0, ~Contains(seen, id)
      PROVE  /\ now = Append(kept, id)
             /\ kept \in Seq(Nat) /\ Distinct(kept) /\ Len(kept) < MaxSeen
             /\ \A p \in 1..Len(kept) : kept[p] # 0 /\ kept[p] # id
  <2>1. \A p \in 1..Len(seen) : seen[p] # id
    BY <1>2 DEF Contains
  <2>2. CASE Len(seen) < MaxSeen
    BY <1>2, <2>1, <2>2 DEF RememberEventId, now, kept
  <2>3. CASE ~(Len(seen) < MaxSeen)
    <3>1. seen # <<>> /\ Len(seen) = MaxSeen
      BY <1>0, <2>3
    <3>2. /\ Tail(seen) \in Seq(Nat) /\ Len(Tail(seen)) = Len(seen) - 1
          /\ \A p \in 1..(Len(seen) - 1) : Tail(seen)[p] = seen[p + 1]
      BY <3>1
    <3>3. Distinct(Tail(seen))
      BY <3>1, TailSet
    <3>4. \A p \in 1..Len(Tail(seen)) : Tail(seen)[p] # 0 /\ Tail(seen)[p] # id
      BY <1>0, <2>1, <3>2
    <3>5. now = Append(Tail(seen), id) /\ kept = Tail(seen)
      BY <1>2, <2>3 DEF RememberEventId, now, kept
    <3>. QED
      BY <1>0, <3>1, <3>2, <3>3, <3>4, <3>5
  <2>. QED
    BY <2>2, <2>3
<1>3. CASE id # 0 /\ ~Contains(seen, id)
  <2>0. /\ now = Append(kept, id)
        /\ kept \in Seq(Nat) /\ Distinct(kept) /\ Len(kept) < MaxSeen
        /\ \A p \in 1..Len(kept) : kept[p] # 0 /\ kept[p] # id
    BY <1>2, <1>3
  <2>1. id \notin ToSet(kept)
    BY <2>0, Places
  <2>2. now \in Seq(Nat) /\ Distinct(now)
    BY <2>0, <2>1, AppendSet
  <2>3. /\ Len(now) = Len(kept) + 1 /\ Len(kept) \in Nat
        /\ \A p \in 1..Len(kept) : now[p] = kept[p]
        /\ now[Len(kept) + 1] = id
    BY <2>0
  <2>4. \A p \in 1..Len(now) : now[p] # 0
    BY <1>3, <2>0, <2>3
  <2>. QED
    BY <1>0, <2>0, <2>2, <2>3, <2>4 DEF now
<1>. QED
  BY <1>1, <1>3 DEF now

(* An event still remembered stays so with the next event, or the ids      *)
(* remembered now have outlived it.                                        *)
LEMMA RememberedOrOutlived ==
    ASSUME NEW seen \in Seq(Nat), NEW log \in Seq(LogEntries), NEW entry \in LogEntries,
           Window(seen, log), NEW i \in 1..Len(log), log[i].id # 0, Remembered(seen, log, i)
    PROVE  LET now == RememberEventId(seen, entry.id)
               more == Append(log, entry)
           IN  Remembered(now, more, i) \/ Outlived(more, i)
<1>. DEFINE id == entry.id
            now == RememberEventId(seen, id)
            more == Append(log, entry)
<1>0. MaxSeen \in Nat /\ MaxSeen > 0 /\ Len(seen) \in Nat /\ Len(log) \in Nat /\ id \in Nat
  BY ChannelAssumption DEF LogEntries
<1>1. /\ more \in Seq(LogEntries) /\ Len(more) = Len(log) + 1
      /\ \A k \in 1..Len(log) : more[k] = log[k]
      /\ more[Len(log) + 1] = entry
  OBVIOUS
<1>2. PICK p \in 1..Len(seen) :
        /\ seen[p] = log[i].id
        /\ \A q \in 1..Len(seen) : q > p => seen[q] \in {log[k].id : k \in (i + 1)..Len(log)}
  BY DEF Remembered
<1>3. /\ Distinct(seen) /\ Len(seen) <= MaxSeen /\ \A q \in 1..Len(seen) : seen[q] # 0
      /\ now \in Seq(Nat) /\ Distinct(now) /\ Len(now) <= MaxSeen
      /\ \A q \in 1..Len(now) : now[q] # 0
  BY <1>0, RememberedIds DEF Window
<1>. DEFINE later == {more[k].id : k \in (i + 1)..Len(more)}
<1>4. /\ \A q \in 1..Len(seen) : q > p => seen[q] \in later
      /\ id \in later
  <2>1. ASSUME NEW q \in 1..Len(seen), q > p  PROVE seen[q] \in later
    <3>1. PICK k \in (i + 1)..Len(log) : seen[q] = log[k].id
      BY <1>2, <2>1
    <3>2. k \in (i + 1)..Len(more) /\ more[k] = log[k]
      BY <1>0, <1>1
    <3>. QED
      BY <3>1, <3>2
  <2>2. Len(log) + 1 \in (i + 1)..Len(more)
    BY <1>0, <1>1
  <2>. QED
    BY <1>1, <2>1, <2>2
<1>5. i \in 1..Len(more) /\ more[i] = log[i]
  BY <1>0, <1>1
<1>. HIDE DEF id, now, more, later
<1>6. ASSUME NEW x \in later  PROVE x \in {more[k].id : k \in (i + 1)..Len(more)}
  BY <1>6 DEF later
<1>7. CASE id = 0 \/ Contains(seen, id)
  <2>1. now = seen
    BY <1>7 DEF now, RememberEventId
  <2>. QED
    BY <1>2, <1>4, <1>5, <1>6, <2>1 DEF Remembered, now, more, id
<1>8. CASE id # 0 /\ ~Contains(seen, id) /\ Len(seen) < MaxSeen
  <2>1. now = Append(seen, id)
    BY <1>8 DEF now, RememberEventId
  <2>2. /\ Len(now) = Len(seen) + 1 /\ now[Len(seen) + 1] = id
        /\ \A q \in 1..Len(seen) : now[q] = seen[q]
    BY <1>0, <2>1
  <2>3. p \in 1..Len(now) /\ now[p] = more[i].id
    BY <1>0, <1>2, <1>5, <2>2
  <2>4. ASSUME NEW q \in 1..Len(now), q > p  PROVE now[q] \in later
    <3>1. CASE q \in 1..Len(seen)
      BY <1>4, <2>2, <2>4, <3>1
    <3>2. CASE q \notin 1..Len(seen)
      <4>0. Len(seen) \in Nat /\ Len(now) = Len(seen) + 1 /\ q \in 1..Len(now)
        BY <1>0, <2>2
      <4>1. q = Len(seen) + 1
        BY <3>2, <4>0
      <4>. QED
        BY <1>4, <2>2, <4>1
    <3>. QED
      BY <3>1, <3>2
  <2>5. Remembered(now, more, i)
    BY <1>6, <2>3, <2>4 DEF Remembered
  <2>. QED
    BY <2>5 DEF now, more, id
<1>9. CASE id # 0 /\ ~Contains(seen, id) /\ ~(Len(seen) < MaxSeen)
  <2>1. now = Append(Tail(seen), id) /\ Len(seen) = MaxSeen
    BY <1>0, <1>3, <1>9 DEF now, RememberEventId
  <2>2. /\ seen # <<>> /\ Tail(seen) \in Seq(Nat) /\ Len(Tail(seen)) = Len(seen) - 1
        /\ \A q \in 1..(Len(seen) - 1) : Tail(seen)[q] = seen[q + 1]
    BY <1>0, <2>1
  <2>3. /\ Len(now) = Len(seen) /\ now[Len(seen)] = id
        /\ \A q \in 1..(Len(seen) - 1) : now[q] = seen[q + 1]
    <3>1. /\ Len(Append(Tail(seen), id)) = Len(Tail(seen)) + 1
          /\ Append(Tail(seen), id)[Len(Tail(seen)) + 1] = id
          /\ \A q \in 1..Len(Tail(seen)) : Append(Tail(seen), id)[q] = Tail(seen)[q]
      BY <1>0, <2>2
    <3>. QED
      BY <1>0, <2>1, <2>2, <3>1
  <2>4. ASSUME NEW q \in 1..Len(now), q + 1 > p  PROVE now[q] \in later
    <3>1. CASE q \in 1..(Len(seen) - 1)
      <4>1. q + 1 \in 1..Len(seen) /\ now[q] = seen[q + 1]
        BY <1>0, <2>3, <3>1
      <4>. QED
        BY <1>4, <2>4, <4>1
    <3>2. CASE q \notin 1..(Len(seen) - 1)
      <4>1. q = Len(seen)
        BY <1>0, <2>3, <3>2
      <4>. QED
        BY <1>4, <2>3, <4>1
    <3>. QED
      BY <3>1, <3>2
  <2>5. CASE p > 1
    <3>1. p - 1 \in 1..Len(now) /\ now[p - 1] = more[i].id
      <4>1. p - 1 \in 1..(Len(seen) - 1)
        BY <1>0, <2>5
      <4>2. now[p - 1] = seen[(p - 1) + 1] /\ (p - 1) + 1 = p
        BY <2>3, <4>1
      <4>. QED
        BY <1>0, <1>2, <1>5, <2>3, <4>1, <4>2
    <3>2. \A q \in 1..Len(now) : q > p - 1 => now[q] \in later
      BY <1>0, <2>3, <2>4
    <3>3. Remembered(now, more, i)
      BY <1>6, <3>1, <3>2 DEF Remembered
    <3>. QED
      BY <3>3 DEF now, more, id
  <2>6. CASE ~(p > 1)
    <3>1. p = 1 /\ seen[1] = more[i].id
      BY <1>2, <1>5, <2>6
    <3>2. ASSUME NEW q \in 1..Len(now)
          PROVE  now[q] # 0 /\ now[q] # more[i].id /\ now[q] \in later
      <4>1. now[q] # 0 /\ now[q] \in later
        BY <1>3, <2>4, <3>1
      <4>2. CASE q \in 1..(Len(seen) - 1)
        <5>1. q + 1 \in 1..Len(seen) /\ 1 \in 1..Len(seen) /\ q + 1 # 1 /\ now[q] = seen[q + 1]
          BY <1>0, <2>3, <4>2
        <5>. QED
          BY <1>3, <3>1, <4>1, <5>1 DEF Distinct
      <4>3. CASE q \notin 1..(Len(seen) - 1)
        <5>1. now[q] = id /\ 1 \in 1..Len(seen)
          BY <1>0, <2>3, <4>3
        <5>2. seen[1] # id
          BY <1>9, <5>1 DEF Contains
        <5>. QED
          BY <3>1, <4>1, <5>1, <5>2
      <4>. QED
        BY <4>2, <4>3
    <3>3. Len(now) = MaxSeen
      BY <2>1, <2>3
    <3>4. Outlived(more, i)
      BY <1>1, <1>3, <1>5, <1>6, <3>2, <3>3, PushedOut
    <3>. QED
      BY <3>4 DEF more, now, id
  <2>. QED
    BY <2>5, <2>6
<1>. QED
  BY <1>7, <1>8, <1>9

(* The next event of the socket: the window of remembered ids follows the  *)
(* log, and no text reaches the agent a second time too early.             *)
LEMMA MessageLogged ==
    ASSUME NEW seen \in Seq(Nat), NEW log \in Seq(LogEntries), NEW entry \in LogEntries,
           Window(seen, log), Once(log),
           entry.text /\ entry.id # 0 => ~Contains(seen, entry.id)
    PROVE  LET now == RememberEventId(seen, entry.id)
               more == Append(log, entry)
           IN  now \in Seq(Nat) /\ more \in Seq(LogEntries) /\ Window(now, more) /\ Once(more)
<1>. DEFINE now == RememberEventId(seen, entry.id)
            more == Append(log, entry)
            last == Len(log) + 1
<1>0. /\ MaxSeen \in Nat /\ MaxSeen > 0 /\ Len(seen) \in Nat /\ Len(log) \in Nat
      /\ entry.id \in Nat /\ entry.text \in BOOLEAN
  BY ChannelAssumption DEF LogEntries
<1>1. /\ more \in Seq(LogEntries) /\ Len(more) = last /\ more[last] = entry
      /\ \A k \in 1..Len(log) : more[k] = log[k]
  OBVIOUS
<1>2. /\ Distinct(seen) /\ Len(seen) <= MaxSeen /\ \A q \in 1..Len(seen) : seen[q] # 0
      /\ now \in Seq(Nat) /\ Distinct(now) /\ Len(now) <= MaxSeen
      /\ \A q \in 1..Len(now) : now[q] # 0
  BY <1>0, RememberedIds DEF Window
<1>3. ASSUME NEW i \in 1..Len(log), log[i].text, log[i].id # 0
      PROVE  Remembered(now, more, i) \/ Outlived(more, i)
  <2>1. CASE Remembered(seen, log, i)
    BY <1>3, <2>1, RememberedOrOutlived
  <2>2. CASE Outlived(log, i)
    <3>1. Len(log) \in 1..Len(log)
      BY <1>0
    <3>2. Cardinality(Others(more, i, Len(more))) >= Cardinality(Others(log, i, Len(log)))
      BY <3>1, OthersGrow
    <3>3. /\ Cardinality(Others(log, i, Len(log))) \in Nat
          /\ Cardinality(Others(more, i, Len(more))) \in Nat
      <4>1. i \in 1..Len(more) /\ Len(more) \in 1..Len(more)
        BY <1>0, <1>1
      <4>. QED
        BY <1>1, <3>1, <4>1, OthersFinite
    <3>. QED
      BY <1>0, <2>2, <3>2, <3>3 DEF Outlived
  <2>. QED
    BY <1>3, <2>1, <2>2 DEF Window
<1>4. ASSUME entry.text, entry.id # 0
      PROVE  /\ \A q \in 1..Len(seen) : seen[q] # entry.id
             /\ Remembered(now, more, last)
  <2>1. ~Contains(seen, entry.id) /\ \A q \in 1..Len(seen) : seen[q] # entry.id
    BY <1>4 DEF Contains
  <2>. DEFINE kept == IF Len(seen) < MaxSeen THEN seen ELSE Tail(seen)
  <2>4. kept \in Seq(Nat) /\ now = Append(kept, entry.id)
    <3>1. CASE Len(seen) < MaxSeen
      BY <1>4, <2>1, <3>1 DEF RememberEventId
    <3>2. CASE ~(Len(seen) < MaxSeen)
      <4>1. seen # <<>>
        BY <1>0, <3>2
      <4>2. Tail(seen) \in Seq(Nat)
        BY <4>1
      <4>. QED
        BY <1>4, <2>1, <3>2, <4>2 DEF RememberEventId
    <3>. QED
      BY <3>1, <3>2
  <2>. HIDE DEF now, more, kept
  <2>5. Len(now) = Len(kept) + 1 /\ Len(kept) \in Nat /\ now[Len(kept) + 1] = entry.id
    BY <1>0, <2>4
  <2>6. /\ Len(now) \in 1..Len(now) /\ now[Len(now)] = more[last].id
        /\ \A q \in 1..Len(now) : ~(q > Len(now))
    BY <1>1, <2>5
  <2>7. Remembered(now, more, last)
    BY <2>6 DEF Remembered
  <2>. QED
    BY <2>1, <2>7
<1>5. Window(now, more)
  <2>. HIDE DEF now, more
  <2>1. ASSUME NEW i \in 1..Len(more), more[i].text, more[i].id # 0
        PROVE  Remembered(now, more, i) \/ Outlived(more, i)
    <3>1. CASE i \in 1..Len(log)
      BY <1>1, <1>3, <2>1, <3>1
    <3>2. CASE i \notin 1..Len(log)
      <4>1. i = last
        BY <1>0, <1>1, <3>2
      <4>. QED
        BY <1>1, <1>4, <2>1, <4>1
    <3>. QED
      BY <3>1, <3>2
  <2>. QED
    BY <1>2, <2>1 DEF Window
<1>6. ASSUME NEW i \in 1..Len(more), NEW j \in 1..Len(more), i < j,
             more[i].text, more[j].text, more[i].id = more[j].id, more[i].id # 0
      PROVE  Cardinality(Others(more, i, j)) >= MaxSeen
  <2>. HIDE DEF now, more
  <2>1. i \in 1..Len(log) /\ more[i] = log[i]
    BY <1>0, <1>1, <1>6
  <2>2. CASE j \in 1..Len(log)
    <3>1. Cardinality(Others(log, i, j)) >= MaxSeen
      BY <1>1, <1>6, <2>1, <2>2 DEF Once
    <3>. QED
      BY <2>1, <2>2, <3>1, OthersGrow DEF more
  <2>3. CASE j \notin 1..Len(log)
    <3>1. j = Len(more) /\ more[j] = entry
      BY <1>0, <1>1, <2>3
    <3>2. \A q \in 1..Len(seen) : seen[q] # log[i].id
      BY <1>4, <1>6, <2>1, <3>1
    <3>3. Outlived(log, i)
      BY <1>6, <2>1, <3>2 DEF Window, Remembered
    <3>4. Len(log) \in 1..Len(log)
      BY <1>0, <2>1
    <3>5. /\ Cardinality(Others(more, i, Len(more))) >= Cardinality(Others(log, i, Len(log)))
          /\ Cardinality(Others(more, i, Len(more))) \in Nat
          /\ Cardinality(Others(log, i, Len(log))) \in Nat
      <4>1. Len(more) \in 1..Len(more)
        BY <1>0, <1>1
      <4>. QED
        BY <1>1, <2>1, <3>4, <4>1, OthersGrow, OthersFinite DEF more
    <3>. QED
      BY <1>0, <3>1, <3>3, <3>5 DEF Outlived
  <2>. QED
    BY <2>2, <2>3
<1>7. Once(more)
  BY <1>6 DEF Once
<1>. QED
  BY <1>1, <1>2, <1>5, <1>7

---------------------------------------------------------------------------
(* The caches: remembering a mobile keeps them typed.                       *)
LEMMA RememberTyped ==
    ASSUME NEW bs \in [Accounts -> Caches], NEW a \in Accounts, NEW m \in Parties,
           NEW u \in Names \cup {None}
    PROVE  RememberMobilePeer(bs, a, m, u) \in [Accounts -> Caches]
<1>. DEFINE user == IF u # None THEN u ELSE bs[a].peers[m]
            P == [bs[a].peers EXCEPT ![m] = user]
            A == [n \in Parties \cup Names |->
                    IF n \in {m, user} \ {None} THEN m ELSE bs[a].aliases[n]]
            next == RememberMobilePeer(bs, a, m, u)
<1>1. None \notin Names
  BY ChannelAssumption
<1>2. /\ bs[a].peers \in [Parties -> Names \cup {None}]
      /\ bs[a].aliases \in [Parties \cup Names -> Parties \cup {None}]
      /\ bs[a] \in Caches
  BY DEF Caches
<1>3. user \in Names \cup {None}
  BY <1>1, <1>2
<1>4. P \in [Parties -> Names \cup {None}] /\ A \in [Parties \cup Names -> Parties \cup {None}]
  BY <1>1, <1>2, <1>3
<1>5. next \in [Accounts -> Caches]
  <2>. DEFINE c == [[bs[a] EXCEPT !.peers = P] EXCEPT !.aliases = A]
  <2>1. next = [bs EXCEPT ![a] = c]
    <3>1. DOMAIN bs[a].aliases = Parties \cup Names
      BY <1>2
    <3>. QED
      BY <3>1, <1>2 DEF RememberMobilePeer
  <2>2. c \in Caches
    <3>. HIDE DEF P, A
    <3>. QED
      BY <1>2, <1>4 DEF Caches
  <2>. HIDE DEF P, A, next, c
  <2>. QED
    BY <2>1, <2>2
<1>. QED
  BY <1>5

(* So does remembering the bindings the server lists, whichever user of a  *)
(* mobile comes last.                                                      *)
LEMMA BindingsTyped ==
    ASSUME buckets \in [Accounts -> Caches], paired \in [Users -> Parties \cup {None}],
           NEW a \in Accounts, RememberBindings(a)
    PROVE  /\ buckets' \in [Accounts -> Caches] /\ paired' \in [Users -> Parties \cup {None}]
<1>. DEFINE bound == {b.mobile : b \in Bindings}
            Of(user) == {b.mobile : b \in {c \in Bindings : c.user = user}}
            A == [n \in Parties \cup Names |->
                    IF n \in bound THEN n
                    ELSE IF Of(n) # {} THEN CHOOSE m \in Of(n) : TRUE
                    ELSE buckets[a].aliases[n]]
<1>1. /\ None \notin Names /\ Users \subseteq Names /\ Mobiles \subseteq Parties
  BY ChannelAssumption DEF Parties, Names
<1>2. \A b \in Bindings : b.mobile \in Mobiles /\ b.user \in Users
  BY ChannelAssumption
<1>3. /\ buckets[a] \in Caches /\ buckets[a].peers \in [Parties -> Names \cup {None}]
      /\ buckets[a].aliases \in [Parties \cup Names -> Parties \cup {None}]
  BY DEF Caches
<1>4. PICK last \in [bound -> Bindings] :
        /\ \A m \in bound : last[m].mobile = m
        /\ buckets' = [buckets EXCEPT
             ![a].peers = [m \in Parties |-> IF m \in bound THEN last[m].user
                                             ELSE buckets[a].peers[m]],
             ![a].aliases = A]
  <2>1. DOMAIN buckets[a].peers = Parties /\ DOMAIN buckets[a].aliases = Parties \cup Names
    BY <1>3
  <2>. QED
    BY <2>1, <1>3, Zenon DEF RememberBindings
<1>. DEFINE P == [m \in Parties |-> IF m \in bound THEN last[m].user ELSE buckets[a].peers[m]]
            c == [[buckets[a] EXCEPT !.peers = P] EXCEPT !.aliases = A]
<1>5. paired' \in [Users -> Parties \cup {None}]
  <2>1. paired' = [u \in Users |-> IF Of(u) # {} THEN CHOOSE m \in Of(u) : TRUE ELSE paired[u]]
    BY DEF RememberBindings
  <2>2. ASSUME NEW u \in Users, Of(u) # {}  PROVE (CHOOSE m \in Of(u) : TRUE) \in Parties
    <3>. DEFINE m == CHOOSE x \in Of(u) : TRUE
    <3>1. m \in Of(u)
      BY <2>2
    <3>. HIDE DEF m
    <3>2. m \in Parties
      BY <1>1, <1>2, <3>1
    <3>. QED
      BY <3>2 DEF m
  <2>. HIDE DEF Of
  <2>. QED
    BY <2>1, <2>2
<1>8. A \in [Parties \cup Names -> Parties \cup {None}]
  <2>1. ASSUME NEW n \in Parties \cup Names  PROVE A[n] \in Parties \cup {None}
    <3>1. CASE n \in bound
      BY <1>1, <1>2, <3>1
    <3>2. CASE n \notin bound /\ Of(n) # {}
      <4>1. A[n] = CHOOSE m \in Of(n) : TRUE
        BY <3>2
      <4>2. A[n] \in Of(n)
        BY <3>2, <4>1
      <4>. QED
        BY <1>1, <1>2, <4>2
    <3>3. CASE n \notin bound /\ Of(n) = {}
      BY <1>3, <3>3
    <3>. QED
      BY <3>1, <3>2, <3>3
  <2>. QED
    BY <2>1
<1>9. P \in [Parties -> Names \cup {None}]
  BY <1>1, <1>2, <1>3
<1>10. buckets' \in [Accounts -> Caches]
  <2>. HIDE DEF A
  <2>1. buckets' = [buckets EXCEPT ![a] = c]
    BY <1>4
  <2>. HIDE DEF P
  <2>2. c \in Caches
    BY <1>3, <1>8, <1>9 DEF Caches
  <2>. HIDE DEF c
  <2>. QED
    BY <2>1, <2>2
<1>. QED
  BY <1>5, <1>10

---------------------------------------------------------------------------
(* What an account's configuration resolves to is typed.                   *)
LEMMA ResolveTyped ==
    ASSUME NEW c \in Configs, NEW a \in Accounts
    PROVE  ResolveAccount(c, a) \in ResolvedAccounts
<1>. DEFINE own == AccountSection(c, a)
<1>1. c.top \in Sections /\ own \in Sections
  BY ChannelAssumption DEF Configs, AccountSection, Unset, Section, Sections
<1>. HIDE DEF own
<1>2. /\ MergeConfig(c.top, own).server \in BaseUrls \cup {None}
      /\ MergeConfig(c.top, own).device \in Devices \cup {None}
  BY <1>1 DEF MergeConfig, Sections
<1>. QED
  BY <1>2 DEF ResolveAccount, ResolvedAccounts, own

(* What a run shows of a mobile is no user's name.                         *)
LEMMA PeerNameTyped ==
    ASSUME NEW bs \in [Accounts -> Caches], NEW a \in Accounts, NEW m \in Parties
    PROVE  PeerName(bs, a, m) \in Shown
<1>1. bs[a].peers[m] \in Names \cup {None}
  BY DEF Caches
<1>. QED
  BY <1>1 DEF PeerName, Shown

(* Opening a socket or waiting, a run keeps its window and its log.        *)
LEMMA OpenSocketTyped ==
    ASSUME NEW run \in RunRecords
    PROVE  /\ OpenSocket(run) \in RunRecords
           /\ OpenSocket(run).seen = run.seen /\ OpenSocket(run).log = run.log
           /\ OpenSocket(run).sock \in {run.sock, "connecting"}
           /\ OpenSocket(run).aborted = run.aborted
  BY DEF OpenSocket, RunRecords, ResolvedAccounts

(* A run replaced by one whose window follows its log.                     *)
LEMMA RunReplaced ==
    ASSUME runs \in Seq(RunRecords), Windows, NEW r \in 1..Len(runs), NEW run \in RunRecords,
           Window(run.seen, run.log), Once(run.log), runs' = [runs EXCEPT ![r] = run]
    PROVE  runs' \in Seq(RunRecords) /\ Len(runs') = Len(runs) /\ Windows'
<1>1. /\ runs' \in Seq(RunRecords) /\ Len(runs') = Len(runs)
      /\ runs'[r] = run /\ \A q \in 1..Len(runs) : q # r => runs'[q] = runs[q]
  OBVIOUS
<1>2. ASSUME NEW q \in 1..Len(runs')
      PROVE  Window(runs'[q].seen, runs'[q].log) /\ Once(runs'[q].log)
  BY <1>1, <1>2 DEF Windows
<1>. QED
  BY <1>1, <1>2 DEF Windows

(* A run replaced by one with the same window and log.                     *)
LEMMA RunKept ==
    ASSUME runs \in Seq(RunRecords), Windows, NEW r \in 1..Len(runs), NEW run \in RunRecords,
           run.seen = runs[r].seen, run.log = runs[r].log, runs' = [runs EXCEPT ![r] = run]
    PROVE  runs' \in Seq(RunRecords) /\ Len(runs') = Len(runs) /\ Windows'
<1>1. Window(run.seen, run.log) /\ Once(run.log)
  BY DEF Windows
<1>. QED
  BY <1>1, RunReplaced

(* A sequence with one element replaced.                                   *)
LEMMA Replaced ==
    ASSUME NEW S, NEW q \in Seq(S), NEW i \in 1..Len(q), NEW x \in S
    PROVE  LET now == [q EXCEPT ![i] = x]
           IN  /\ now \in Seq(S) /\ Len(now) = Len(q) /\ now[i] = x
               /\ \A j \in 1..Len(q) : j # i => now[j] = q[j]
  OBVIOUS

(* A task moves on; its event stays.                                       *)
LEMMA TaskMoved ==
    ASSUME dispatched \in Seq(Tasks), NEW n \in Nat, \A k \in 1..Len(dispatched) : dispatched[k].run \in 1..n,
           NEW k \in 1..Len(dispatched), NEW at \in {"load", "agent", "mirror", "done"},
           dispatched' = [dispatched EXCEPT ![k].at = at]
    PROVE  dispatched' \in Seq(Tasks) /\ \A j \in 1..Len(dispatched') : dispatched'[j].run \in 1..n
<1>. DEFINE task == [dispatched[k] EXCEPT !.at = at]
<1>1. dispatched[k] \in Tasks
  OBVIOUS
<1>2. task \in Tasks /\ task.run = dispatched[k].run /\ task.e = dispatched[k].e
  BY <1>1 DEF Tasks
<1>3. dispatched' = [dispatched EXCEPT ![k] = task]
  OBVIOUS
<1>. HIDE DEF task
<1>4. /\ dispatched' \in Seq(Tasks) /\ Len(dispatched') = Len(dispatched)
      /\ dispatched'[k] = task /\ \A j \in 1..Len(dispatched) : j # k => dispatched'[j] = dispatched[j]
  <2>. DEFINE now == [dispatched EXCEPT ![k] = task]
  <2>1. /\ now \in Seq(Tasks) /\ Len(now) = Len(dispatched) /\ now[k] = task
        /\ \A j \in 1..Len(dispatched) : j # k => now[j] = dispatched[j]
    BY <1>2, Replaced
  <2>2. dispatched' = now
    BY <1>3
  <2>. HIDE DEF now
  <2>. QED
    BY <2>1, <2>2
<1>5. ASSUME NEW j \in 1..Len(dispatched')
      PROVE  dispatched'[j].run \in 1..n
  BY <1>2, <1>4, <1>5
<1>. QED
  BY <1>4, <1>5

(* A run whose socket, phase and abort stay, while the status stays too.   *)
LEMMA SocketsKept ==
    ASSUME runs \in Seq(RunRecords), Sockets, NEW r \in 1..Len(runs), NEW run \in RunRecords,
           run.sock = runs[r].sock, run.phase = runs[r].phase, run.aborted = runs[r].aborted,
           runs' = [runs EXCEPT ![r] = run], status' = status
    PROVE  Sockets'
<1>1. /\ Len(runs') = Len(runs) /\ runs'[r] = run
      /\ \A q \in 1..Len(runs) : q # r => runs'[q] = runs[q]
  OBVIOUS
<1>2. ASSUME NEW q \in 1..Len(runs)
      PROVE  /\ runs'[q].sock = runs[q].sock /\ runs'[q].phase = runs[q].phase
             /\ runs'[q].aborted = runs[q].aborted
  BY <1>1
<1>. QED
  BY <1>1, <1>2 DEF Sockets, OpenIsAwaited, InLoop, ShownIsThere

(* A run that is not open leaves the connection shown to another run.      *)
LEMMA SocketsElsewhere ==
    ASSUME runs \in Seq(RunRecords), Sockets, NEW r \in 1..Len(runs), NEW run \in RunRecords,
           InLoop(run), runs' = [runs EXCEPT ![r] = run],
           ~status'.connected \/ (runs[r].sock # "open" /\ status' = status)
    PROVE  Sockets'
<1>1. /\ Len(runs') = Len(runs) /\ runs'[r] = run
      /\ \A q \in 1..Len(runs) : q # r => runs'[q] = runs[q]
  OBVIOUS
<1>2. OpenIsAwaited'
  BY <1>1 DEF Sockets, OpenIsAwaited
<1>3. ShownIsThere'
  <2>1. CASE ~status'.connected
    BY <2>1 DEF ShownIsThere
  <2>2. CASE runs[r].sock # "open" /\ status' = status /\ status'.connected
    <3>1. PICK q \in 1..Len(runs) : runs[q].sock = "open" /\ ~runs[q].aborted
      BY <2>2 DEF Sockets, ShownIsThere
    <3>2. runs'[q] = runs[q] /\ q \in 1..Len(runs')
      BY <1>1, <2>2, <3>1
    <3>. QED
      BY <3>1, <3>2 DEF ShownIsThere
  <2>. QED
    BY <2>1, <2>2
<1>. QED
  BY <1>2, <1>3 DEF Sockets

---------------------------------------------------------------------------
(* The actions, one by one.                                                *)

(* Spending leaves a budget.                                               *)
LEMMA SpendTyped ==
    ASSUME left \in [Budgets -> Nat], NEW f \in Budgets, left' = left \/ Uses(f)
    PROVE  left' \in [Budgets -> Nat]
  BY DEF Uses

(* An edit of the configuration.                                           *)
LEMMA EditingKeeps == ASSUME IInv, Editing  PROVE IInv'
<1>. USE DEF IInv
<1>1. cfg' \in Configs /\ Uses("edits")
  <2>1. ASSUME NEW a \in Accounts, NEW on \in BOOLEAN, Toggle(a, on)  PROVE cfg' \in Configs
    <3>1. cfg' = SetAccountEnabled(cfg, a, on) /\ cfg \in Configs
      BY <2>1 DEF Toggle, TypeOK
    <3>2. CASE a = DefaultAccount
      BY <3>1, <3>2 DEF SetAccountEnabled, Configs, Sections
    <3>3. CASE a # DefaultAccount
      <4>. DEFINE own == IF cfg.accounts[a] = None THEN Unset ELSE cfg.accounts[a]
                  new == [own EXCEPT !.enabled = on]
      <4>1. own \in Sections
        BY <3>1 DEF Configs, Unset, Section, Sections
      <4>2. new \in Sections
        <5>. HIDE DEF own
        <5>. QED
          BY <4>1 DEF Sections
      <4>3. cfg' = [cfg EXCEPT !.accounts[a] = new]
        BY <3>1, <3>3 DEF SetAccountEnabled
      <4>. HIDE DEF new
      <4>. QED
        BY <3>1, <4>2, <4>3 DEF Configs
    <3>. QED
      BY <3>2, <3>3
  <2>2. ASSUME NEW d \in Devices, EditDevice(d)  PROVE cfg' \in Configs
    BY <2>2 DEF EditDevice, TypeOK, Configs, Sections
  <2>. QED
    BY <2>1, <2>2 DEF Editing, Toggle, EditDevice
<1>2. UNCHANGED <<buckets, runs, status, dispatched, out, paired>>
  BY DEF Editing, Toggle, EditDevice
<1>3. left' \in [Budgets -> Nat]
  BY <1>1, SpendTyped DEF TypeOK, Budgets
<1>. QED
  BY <1>1, <1>2, <1>3 DEF TypeOK, Windows, Sockets, OpenIsAwaited, ShownIsThere

(* The gateway starts the account.                                         *)
LEMMA StartAccountKeeps == ASSUME IInv, StartAccount  PROVE IInv'
<1>. USE DEF IInv
<1>. DEFINE account == ResolveAccount(cfg, Account)
<1>1. account \in ResolvedAccounts
  BY ResolveTyped, ChannelAssumption DEF TypeOK
<1>. HIDE DEF account
<1>2. PICK run \in RunRecords : /\ run.seen = <<>> /\ run.log = <<>> /\ run.sock = "none"
                                /\ run.phase \in {"parked", "bindings"}
                                /\ runs' = Append(runs, run)
  <2>. DEFINE start(phase) ==
                [account |-> account, aborted |-> FALSE, version |-> left.edits,
                 phase |-> phase, sock |-> "none", device |-> None, attempt |-> 0,
                 seen |-> <<>>, names |-> [m \in Parties |-> None], log |-> <<>>]
  <2>1. left.edits \in Nat
    BY DEF TypeOK, Budgets
  <2>2. [m \in Parties |-> None] \in [Parties -> Shown]
    BY DEF Shown
  <2>3. <<>> \in Seq(Nat) /\ <<>> \in Seq(LogEntries)
    OBVIOUS
  <2>4. \A phase \in {"parked", "bindings"} : start(phase) \in RunRecords
    BY <1>1, <2>1, <2>2, <2>3 DEF RunRecords
  <2>5. \E phase \in {"parked", "bindings"} : runs' = Append(runs, start(phase))
    <3>1. runs' = Append(runs, start(IF ~account.enabled \/ ~Configured(account)
                                       THEN "parked" ELSE "bindings"))
      BY DEF StartAccount, account
    <3>. HIDE DEF start
    <3>. QED
      BY <3>1
  <2>. QED
    BY <2>4, <2>5
<1>3. runs \in Seq(RunRecords) /\ UNCHANGED <<cfg, buckets, status, dispatched, out, paired, left>>
  BY DEF StartAccount, TypeOK
<1>4. /\ runs' \in Seq(RunRecords) /\ Len(runs') = Len(runs) + 1 /\ Len(runs) \in Nat
      /\ runs'[Len(runs) + 1] = run /\ \A q \in 1..Len(runs) : runs'[q] = runs[q]
  BY <1>2, <1>3
<1>5. ASSUME NEW q \in 1..Len(runs')
      PROVE  Window(runs'[q].seen, runs'[q].log) /\ Once(runs'[q].log)
  <2>1. CASE q \in 1..Len(runs)
    BY <1>4, <2>1 DEF Windows
  <2>2. CASE q \notin 1..Len(runs)
    <3>1. q = Len(runs) + 1
      BY <1>4, <2>2
    <3>. QED
      BY <1>2, <1>4, <3>1, EmptyWindow
  <2>. QED
    BY <2>1, <2>2
<1>6. \A k \in 1..Len(dispatched) : dispatched[k].run \in 1..Len(runs')
  <2>1. \A k \in 1..Len(dispatched) : dispatched[k].run \in 1..Len(runs)
    BY DEF TypeOK
  <2>. QED
    BY <1>4, <2>1
<1>7. Windows'
  BY <1>5 DEF Windows
<1>8. Sockets'
  <2>1. ASSUME NEW q \in 1..Len(runs')  PROVE InLoop(runs'[q])
    <3>1. CASE q \in 1..Len(runs)
      BY <1>4, <3>1 DEF Sockets, OpenIsAwaited
    <3>2. CASE q = Len(runs) + 1
      BY <1>2, <1>4, <3>2 DEF InLoop
    <3>. QED
      BY <1>4, <3>1, <3>2
  <2>2. ASSUME status.connected
        PROVE  \E q \in 1..Len(runs') : runs'[q].sock = "open" /\ ~runs'[q].aborted
    <3>1. PICK q \in 1..Len(runs) : runs[q].sock = "open" /\ ~runs[q].aborted
      BY <2>2 DEF Sockets, ShownIsThere
    <3>. QED
      BY <1>4, <3>1
  <2>. QED
    BY <1>3, <2>1, <2>2 DEF Sockets, OpenIsAwaited, ShownIsThere
<1>. QED
  BY <1>3, <1>4, <1>6, <1>7, <1>8 DEF TypeOK

(* The first fetch of the bindings settles.                                *)
LEMMA BindingsFetchedKeeps ==
    ASSUME IInv, NEW r \in 1..Len(runs), BindingsFetched(r)  PROVE IInv'
<1>. USE DEF IInv
<1>1. /\ runs \in Seq(RunRecords) /\ runs[r] \in RunRecords
      /\ buckets \in [Accounts -> Caches] /\ paired \in [Users -> Parties \cup {None}]
  BY DEF TypeOK
<1>. DEFINE next(names) == IF runs[r].aborted THEN [runs[r] EXCEPT !.phase = "ended", !.names = names]
                           ELSE OpenSocket([runs[r] EXCEPT !.names = names])
            named == [m \in Parties |-> IF \E b \in Bindings : b.mobile = m
                                          THEN PeerName(buckets', Account, m) ELSE None]
<1>2. ASSUME NEW names \in [Parties -> Shown]
      PROVE  /\ next(names) \in RunRecords
             /\ next(names).seen = runs[r].seen /\ next(names).log = runs[r].log
             /\ InLoop(next(names))
  <2>. DEFINE t == [runs[r] EXCEPT !.names = names]
              e == [runs[r] EXCEPT !.phase = "ended", !.names = names]
  <2>0. runs[r].sock # "open"
    BY DEF Sockets, OpenIsAwaited, InLoop, BindingsFetched
  <2>1. /\ t \in RunRecords /\ t.seen = runs[r].seen /\ t.log = runs[r].log
        /\ t.sock = runs[r].sock /\ t.aborted = runs[r].aborted
    BY <1>1 DEF RunRecords
  <2>2. /\ e \in RunRecords /\ e.seen = runs[r].seen /\ e.log = runs[r].log
        /\ e.sock = runs[r].sock /\ e.phase = "ended"
    BY <1>1 DEF RunRecords
  <2>. HIDE DEF t, e
  <2>3. /\ OpenSocket(t) \in RunRecords /\ OpenSocket(t).seen = t.seen
        /\ OpenSocket(t).log = t.log /\ OpenSocket(t).sock # "open"
        /\ OpenSocket(t).aborted = t.aborted
    BY <2>0, <2>1, OpenSocketTyped
  <2>4. next(names) = IF runs[r].aborted THEN e ELSE OpenSocket(t)
    BY DEF t, e
  <2>. QED
    BY <2>0, <2>1, <2>2, <2>3, <2>4 DEF InLoop
<1>3. /\ buckets' \in [Accounts -> Caches] /\ paired' \in [Users -> Parties \cup {None}]
      /\ \E names \in [Parties -> Shown] : runs' = [runs EXCEPT ![r] = next(names)]
  <2>1. CASE RememberBindings(Account) /\ runs' = [runs EXCEPT ![r] = next(named)]
    <3>1. /\ buckets' \in [Accounts -> Caches] /\ paired' \in [Users -> Parties \cup {None}]
      BY <1>1, <2>1, BindingsTyped, ChannelAssumption
    <3>2. \A m \in Parties : PeerName(buckets', Account, m) \in Shown
      BY <3>1, PeerNameTyped, ChannelAssumption
    <3>3. named \in [Parties -> Shown]
      BY <3>2 DEF Shown
    <3>. HIDE DEF named, next
    <3>. QED
      BY <2>1, <3>1, <3>3
  <2>2. CASE runs' = [runs EXCEPT ![r] = next(runs[r].names)] /\ UNCHANGED <<buckets, paired>>
    <3>1. runs[r].names \in [Parties -> Shown]
      BY <1>1 DEF RunRecords
    <3>. HIDE DEF next
    <3>. QED
      BY <1>1, <2>2, <3>1
  <2>. QED
    BY <2>1, <2>2 DEF BindingsFetched
<1>4. runs' \in Seq(RunRecords) /\ Len(runs') = Len(runs) /\ Windows' /\ Sockets'
  <2>1. PICK names \in [Parties -> Shown] : runs' = [runs EXCEPT ![r] = next(names)]
    BY <1>3
  <2>2. ~status'.connected
    BY DEF BindingsFetched, TypeOK, Down
  <2>. HIDE DEF next
  <2>. QED
    BY <1>1, <1>2, <2>1, <2>2, RunKept, SocketsElsewhere
<1>5. UNCHANGED <<cfg, dispatched, out, left>>
  BY DEF BindingsFetched
<1>6. status' \in [connected : BOOLEAN, busy : BOOLEAN, attempts : Nat, error : BOOLEAN]
  BY DEF BindingsFetched, TypeOK, Down
<1>. QED
  BY <1>3, <1>4, <1>5, <1>6 DEF TypeOK

(* The socket: it opens, closes, is waited for and stopped.                *)
LEMMA SocketKeeps ==
    ASSUME IInv, NEW r \in 1..Len(runs),
           SocketOpens(r) \/ SocketCloses(r) \/ Wake(r) \/ Abort(r)
    PROVE  IInv'
<1>. USE DEF IInv
<1>1. runs \in Seq(RunRecords) /\ runs[r] \in RunRecords /\ left \in [Budgets -> Nat]
  BY DEF TypeOK
<1>2. /\ Sockets /\ InLoop(runs[r]) /\ Len(runs) \in Nat
      /\ status \in [connected : BOOLEAN, busy : BOOLEAN, attempts : Nat, error : BOOLEAN]
      /\ ~Down.connected
  BY <1>1 DEF TypeOK, Sockets, OpenIsAwaited, Down
<1>. DEFINE old == runs[r]
            moved == runs' \in Seq(RunRecords) /\ Len(runs') = Len(runs) /\ Windows' /\ Sockets'
<1>3. ASSUME NEW run \in RunRecords, run.seen = old.seen, run.log = old.log, InLoop(run),
             runs' = [runs EXCEPT ![r] = run],
             ~status'.connected \/ (old.sock # "open" /\ status' = status)
      PROVE  moved
  BY <1>1, <1>2, <1>3, RunKept, SocketsElsewhere
<1>7. moved
  <2>1. CASE SocketOpens(r)
    <3>. DEFINE run == [[old EXCEPT !.sock = "open"] EXCEPT !.attempt = 0]
    <3>1. /\ run \in RunRecords /\ run.seen = old.seen /\ run.log = old.log
          /\ run.sock = "open" /\ run.phase = old.phase /\ run.aborted = old.aborted
      BY <1>1 DEF RunRecords
    <3>2. runs' = [runs EXCEPT ![r] = run]
      BY <1>1, <2>1 DEF SocketOpens
    <3>. HIDE DEF run
    <3>3. InLoop(run) /\ ~run.aborted
      BY <1>2, <2>1, <3>1 DEF InLoop, SocketOpens
    <3>4. /\ Len(runs') = Len(runs) /\ runs'[r] = run
          /\ \A q \in 1..Len(runs) : q # r => runs'[q] = runs[q]
      BY <1>1, <3>2
    <3>5. OpenIsAwaited'
      BY <1>2, <3>3, <3>4 DEF Sockets, OpenIsAwaited
    <3>6. ShownIsThere'
      BY <3>1, <3>3, <3>4 DEF ShownIsThere
    <3>. QED
      BY <1>1, <3>1, <3>2, <3>5, <3>6, RunKept DEF Sockets
  <2>2. CASE SocketCloses(r)
    <3>. DEFINE n == old.attempt + 1
                run == [[[old EXCEPT !.sock = "closed"] EXCEPT !.phase = "sleep"] EXCEPT !.attempt = n]
                ended == [old EXCEPT !.sock = "closed"]
    <3>0. n \in Nat
      BY <1>1 DEF RunRecords
    <3>1. /\ run \in RunRecords /\ run.seen = old.seen /\ run.log = old.log
          /\ run.sock = "closed" /\ run.phase = "sleep" /\ run.aborted = old.aborted
      <4>. HIDE DEF n
      <4>. QED
        BY <1>1, <3>0 DEF RunRecords
    <3>2. /\ ended \in RunRecords /\ ended.seen = old.seen /\ ended.log = old.log
          /\ ended.sock = "closed" /\ ended.phase = old.phase /\ ended.aborted = old.aborted
      BY <1>1 DEF RunRecords
    <3>3. \/ runs' = [runs EXCEPT ![r] = run] /\ old.phase = "socket"
          \/ runs' = [runs EXCEPT ![r] = ended]
      BY <1>1, <2>2 DEF SocketCloses
    <3>4. ~status'.connected
      BY <1>2, <2>2 DEF SocketCloses
    <3>. HIDE DEF run, ended, moved, old
    <3>5. InLoop(ended) /\ (old.phase = "socket" => InLoop(run))
      BY <1>2, <3>1, <3>2 DEF InLoop, old
    <3>. QED
      BY <1>3, <3>1, <3>2, <3>3, <3>4, <3>5
  <2>3. CASE Wake(r)
    <3>. DEFINE run == OpenSocket(old)
    <3>1. /\ run \in RunRecords /\ run.seen = old.seen /\ run.log = old.log
          /\ run.sock \in {old.sock, "connecting"} /\ run.aborted = old.aborted
      BY <1>1, OpenSocketTyped
    <3>2. runs' = [runs EXCEPT ![r] = run] /\ old.phase = "sleep"
      BY <2>3 DEF Wake
    <3>3. \/ status' = status
          \/ status' = [status EXCEPT !.connected = FALSE, !.busy = run.attempt > 0]
      BY <2>3 DEF Wake
    <3>. HIDE DEF run
    <3>4. InLoop(run) /\ old.sock # "open"
      BY <1>2, <3>1, <3>2 DEF InLoop
    <3>5. status' = status \/ ~status'.connected
      BY <1>2, <3>3
    <3>. HIDE DEF moved, old
    <3>. QED
      BY <1>3, <3>1, <3>2, <3>4, <3>5
  <2>4. CASE Abort(r)
    <3>. DEFINE run == Stopped(old)
                phase == IF old.phase \in {"bindings", "thrown"} THEN old.phase ELSE "ended"
                sock == IF old.sock \in {"connecting", "open"} THEN "closing" ELSE old.sock
                step == [[[old EXCEPT !.aborted = TRUE] EXCEPT !.phase = phase] EXCEPT !.sock = sock]
    <3>0. /\ phase \in {"bindings", "thrown", "ended"}
          /\ sock \in {"none", "closing", "closed"}
      BY <1>1 DEF RunRecords
    <3>1. run = step
      BY <1>1 DEF Stopped, RunRecords
    <3>2. /\ run \in RunRecords /\ run.seen = old.seen /\ run.log = old.log
          /\ run.sock = sock /\ run.phase = phase
      <4>. HIDE DEF phase, sock, run
      <4>. QED
        BY <1>1, <3>0, <3>1 DEF RunRecords
    <3>3. runs' = [runs EXCEPT ![r] = run]
      BY <2>4 DEF Abort
    <3>. HIDE DEF run, phase, sock
    <3>4. InLoop(run)
      BY <3>0, <3>2 DEF InLoop
    <3>5. ~status'.connected \/ (old.sock # "open" /\ status' = status)
      BY <1>2, <2>4 DEF Abort, InLoop
    <3>. HIDE DEF moved, old
    <3>. QED
      BY <1>3, <3>2, <3>3, <3>4, <3>5
  <2>. QED
    BY <2>1, <2>2, <2>3, <2>4
<1>4. UNCHANGED <<cfg, buckets, dispatched, out, paired>>
  BY DEF SocketOpens, SocketCloses, Wake, Abort
<1>5. left' \in [Budgets -> Nat]
  <2>1. left' = left \/ Uses("faults")
    BY DEF SocketOpens, SocketCloses, Wake, Abort
  <2>. QED
    BY <1>1, <2>1, SpendTyped DEF Budgets
<1>6. status' \in [connected : BOOLEAN, busy : BOOLEAN, attempts : Nat, error : BOOLEAN]
  <2>. DEFINE S == [connected : BOOLEAN, busy : BOOLEAN, attempts : Nat, error : BOOLEAN]
  <2>1. status \in S /\ runs[r].attempt \in Nat
    BY <1>1 DEF TypeOK, RunRecords
  <2>2. ASSUME NEW x \in BOOLEAN, NEW y \in BOOLEAN
        PROVE  [status EXCEPT !.connected = x, !.busy = y] \in S
    BY <2>1
  <2>3. ASSUME NEW x \in BOOLEAN, NEW y \in BOOLEAN, NEW n \in Nat, NEW z \in BOOLEAN
        PROVE  [connected |-> x, busy |-> y, attempts |-> n, error |-> z] \in S
    OBVIOUS
  <2>4. Down \in S
    BY <2>2 DEF Down
  <2>. SUFFICES status' \in S
    OBVIOUS
  <2>. HIDE DEF S
  <2>5. CASE SocketOpens(r)
    BY <2>3, <2>5 DEF SocketOpens
  <2>6. CASE SocketCloses(r)
    <3>1. runs[r].attempt + 1 \in Nat
      BY <2>1
    <3>2. \/ status' = Down
          \/ status' = [connected |-> FALSE, busy |-> TRUE,
                        attempts |-> runs[r].attempt + 1, error |-> TRUE]
      BY <2>6 DEF SocketCloses
    <3>. QED
      BY <2>3, <2>4, <3>1, <3>2
  <2>7. CASE Wake(r)
    <3>. DEFINE busy == OpenSocket(runs[r]).attempt > 0
    <3>1. busy \in BOOLEAN
      OBVIOUS
    <3>2. status' = status \/ status' = [status EXCEPT !.connected = FALSE, !.busy = busy]
      BY <2>7 DEF Wake
    <3>. HIDE DEF busy
    <3>. QED
      BY <2>1, <2>2, <3>1, <3>2
  <2>8. CASE Abort(r)
    BY <2>1, <2>4, <2>8 DEF Abort
  <2>. QED
    BY <2>5, <2>6, <2>7, <2>8
<1>. QED
  BY <1>4, <1>5, <1>6, <1>7 DEF TypeOK

(* An event reaches the socket of a run.                                   *)
LEMMA MessageKeeps ==
    ASSUME IInv, NEW r \in 1..Len(runs), NEW e \in Events, Message(r, e)
    PROVE  IInv'
<1>. USE DEF IInv
<1>. DEFINE run == runs[r]
            fresh == e.id = 0 \/ ~Contains(run.seen, e.id)
            does == fresh /\ Handled(e)
            text == does /\ Dispatchable(e)
            claimed == does /\ e.type = "pair.claimed"
            pinged == does /\ e.type = "channel.ping"
<1>1. /\ runs \in Seq(RunRecords) /\ run \in RunRecords /\ left \in [Budgets -> Nat]
      /\ buckets \in [Accounts -> Caches] /\ paired \in [Users -> Parties \cup {None}]
      /\ dispatched \in Seq(Tasks)
      /\ \A k \in 1..Len(dispatched) : dispatched[k].run \in 1..Len(runs)
  BY DEF TypeOK
<1>2. /\ e.id \in Nat /\ e.user \in Users \cup {None} /\ e.from \in Parties
      /\ e.type = "pair.claimed" => e.from \in Mobiles
      /\ Account \in Accounts /\ None \notin Users /\ Users \subseteq Names
  BY ChannelAssumption DEF Parties, Names
<1>3. /\ text \in BOOLEAN
      /\ text => e.from \in Mobiles /\ e.type = "text" /\ fresh
  BY DEF Dispatchable
<1>4. \/ claimed /\ Claimed(r, e)
      \/ pinged /\ Pinged(r, e)
      \/ text /\ Inbound(r, e)
      \/ UNCHANGED <<buckets, paired, dispatched, out>>
  BY DEF Message
<1>5. /\ buckets' \in [Accounts -> Caches] /\ paired' \in [Users -> Parties \cup {None}]
  <2>1. RememberMobilePeer(buckets, Account, e.from, e.user) \in [Accounts -> Caches]
    BY <1>1, <1>2, RememberTyped
  <2>2. [u \in Users |-> IF u = e.user THEN e.from ELSE paired[u]] \in [Users -> Parties \cup {None}]
    BY <1>1, <1>2
  <2>3. \/ buckets' = RememberMobilePeer(buckets, Account, e.from, e.user)
        \/ buckets' = buckets
    BY <1>4 DEF Claimed, Pinged, Inbound
  <2>4. \/ paired' = [u \in Users |-> IF u = e.user THEN e.from ELSE paired[u]]
        \/ paired' = paired
    BY <1>4 DEF Claimed, Pinged, Inbound
  <2>. QED
    BY <1>1, <2>1, <2>2, <2>3, <2>4
<1>6. PICK next \in RunRecords :
        /\ next.seen = RememberEventId(run.seen, e.id)
        /\ next.log = Append(run.log, [id |-> e.id, text |-> text])
        /\ runs' = [runs EXCEPT ![r] = next]
        /\ Window(next.seen, next.log) /\ Once(next.log)
        /\ next.sock = run.sock /\ next.phase = run.phase /\ next.aborted = run.aborted
  <2>. DEFINE entry == [id |-> e.id, text |-> text]
              now == RememberEventId(run.seen, e.id)
              more == Append(run.log, entry)
              names == IF claimed \/ (text /\ run.names[e.from] = None)
                         THEN [run.names EXCEPT ![e.from] = PeerName(buckets', Account, e.from)]
                         ELSE run.names
              next == [[[run EXCEPT !.seen = now] EXCEPT !.log = more] EXCEPT !.names = names]
  <2>1. /\ run.seen \in Seq(Nat) /\ run.log \in Seq(LogEntries) /\ run.names \in [Parties -> Shown]
        /\ entry \in LogEntries /\ entry.id = e.id /\ entry.text = text
        /\ Window(run.seen, run.log) /\ Once(run.log)
    BY <1>1, <1>2, <1>3 DEF RunRecords, LogEntries, Windows
  <2>2. /\ now \in Seq(Nat) /\ more \in Seq(LogEntries)
        /\ Window(now, more) /\ Once(more)
    <3>1. entry.text /\ entry.id # 0 => ~Contains(run.seen, entry.id)
      BY <1>3, <2>1
    <3>. HIDE DEF entry
    <3>. QED
      BY <2>1, <3>1, MessageLogged
  <2>3. names \in [Parties -> Shown]
    <3>1. PeerName(buckets', Account, e.from) \in Shown
      BY <1>2, <1>5, PeerNameTyped
    <3>. QED
      BY <1>2, <2>1, <3>1
  <2>4. runs' = [runs EXCEPT ![r] = next]
    <3>. HIDE DEF text, does, fresh
    <3>1. runs' = [runs EXCEPT ![r].seen = RememberEventId(@, e.id),
                               ![r].log = Append(@, [id |-> e.id, text |-> text]),
                               ![r].names = IF \/ does /\ e.type = "pair.claimed"
                                               \/ text /\ @[e.from] = None
                                              THEN [@ EXCEPT ![e.from] = PeerName(buckets', Account, e.from)]
                                              ELSE @]
      BY DEF Message, text, does, fresh
    <3>. QED
      BY <1>1, <3>1 DEF RunRecords
  <2>5. /\ next \in RunRecords /\ next.seen = now /\ next.log = more
        /\ next.sock = run.sock /\ next.phase = run.phase /\ next.aborted = run.aborted
    <3>. HIDE DEF now, more, names, entry, run
    <3>. QED
      BY <1>1, <2>2, <2>3 DEF RunRecords
  <2>. HIDE DEF next
  <2>. QED
    BY <2>2, <2>4, <2>5
<1>7. runs' \in Seq(RunRecords) /\ Len(runs') = Len(runs) /\ Windows'
  BY <1>1, <1>6, RunReplaced
<1>8. dispatched' \in Seq(Tasks) /\ \A k \in 1..Len(dispatched') : dispatched'[k].run \in 1..Len(runs)
  <2>1. CASE dispatched' = dispatched
    BY <1>1, <2>1
  <2>2. CASE text /\ Inbound(r, e)
    <3>. DEFINE task == [run |-> r, e |-> e, device |-> run.account.device, at |-> "load"]
    <3>1. run.account.device \in Devices \cup {None}
      BY <1>1 DEF RunRecords, ResolvedAccounts
    <3>2. task \in Tasks /\ task.run = r /\ task.e = e
      BY <3>1 DEF Tasks
    <3>3. dispatched' = Append(dispatched, task)
      BY <2>2 DEF Inbound
    <3>. HIDE DEF task, text, run
    <3>4. /\ dispatched' \in Seq(Tasks) /\ Len(dispatched') = Len(dispatched) + 1 /\ Len(dispatched) \in Nat
          /\ dispatched'[Len(dispatched) + 1] = task /\ \A k \in 1..Len(dispatched) : dispatched'[k] = dispatched[k]
      BY <1>1, <3>2, <3>3
    <3>5. ASSUME NEW k \in 1..Len(dispatched')
          PROVE  dispatched'[k].run \in 1..Len(runs)
      <4>1. CASE k \in 1..Len(dispatched)
        BY <1>1, <3>4, <4>1
      <4>2. CASE k \notin 1..Len(dispatched)
        <5>1. dispatched'[k] = task
          BY <3>4, <4>2
        <5>. QED
          BY <3>2, <5>1
      <4>. QED
        BY <4>1, <4>2
    <3>. QED
      BY <3>4, <3>5
  <2>. QED
    BY <1>4, <2>1, <2>2 DEF Claimed, Pinged
<1>9. Sockets'
  <2>1. status' = status
    BY DEF Message
  <2>. QED
    BY <1>1, <1>6, <2>1, SocketsKept
<1>10. left' \in [Budgets -> Nat] /\ UNCHANGED <<cfg, status>>
  <2>1. Uses("events") /\ UNCHANGED <<cfg, status>>
    BY DEF Message
  <2>. QED
    BY <1>1, <2>1, SpendTyped DEF Budgets
<1>. QED
  BY <1>5, <1>7, <1>8, <1>9, <1>10 DEF TypeOK

(* A dispatched message goes on: to the agent, its reply, the mirror of it. *)
LEMMA WorkingKeeps ==
    ASSUME IInv, NEW k \in 1..Len(dispatched), Working(k)
    PROVE  IInv'
<1>. USE DEF IInv
<1>. DEFINE task == dispatched[k]
<1>1. /\ runs \in Seq(RunRecords) /\ left \in [Budgets -> Nat] /\ cfg \in Configs
      /\ buckets \in [Accounts -> Caches] /\ paired \in [Users -> Parties \cup {None}]
      /\ dispatched \in Seq(Tasks)
      /\ \A j \in 1..Len(dispatched) : dispatched[j].run \in 1..Len(runs)
      /\ Len(runs) \in Nat
  BY DEF TypeOK
<1>2. /\ task \in Tasks /\ task.run \in 1..Len(runs)
      /\ task.e.from \in Parties /\ runs[task.run] \in RunRecords
  <2>1. task \in Tasks /\ task.run \in 1..Len(runs)
    BY <1>1
  <2>2. task.e \in Events
    BY <2>1 DEF Tasks
  <2>. QED
    BY <1>1, <2>1, <2>2 DEF Parties
<1>. DEFINE moved == /\ dispatched' \in Seq(Tasks)
                     /\ \A j \in 1..Len(dispatched') : dispatched'[j].run \in 1..Len(runs)
<1>3. ASSUME NEW at \in {"load", "agent", "mirror", "done"}, dispatched' = [dispatched EXCEPT ![k].at = at]
      PROVE  moved
  BY <1>1, <1>3, TaskMoved
<1>. HIDE DEF moved
<1>4. CASE AgentStarts(k)
  <2>1. UNCHANGED <<cfg, runs, status, out, paired>> /\ Uses("agent")
    BY <1>4 DEF AgentStarts
  <2>. DEFINE shown == runs[task.run].names[task.e.from]
              user == IF shown \in Names THEN shown ELSE None
              next == RememberMobilePeer(buckets, Account, task.e.from, user)
  <2>3. user \in Names \cup {None}
    OBVIOUS
  <2>4. next \in [Accounts -> Caches]
    <3>. HIDE DEF user, task
    <3>. QED
      BY <1>1, <1>2, <2>3, RememberTyped, ChannelAssumption
  <2>5. buckets' \in [Accounts -> Caches] /\ moved
    <3>1. \/ buckets' = next /\ dispatched' = [dispatched EXCEPT ![k].at = "agent"]
          \/ buckets' = buckets /\ dispatched' = [dispatched EXCEPT ![k].at = "done"]
      BY <1>4 DEF AgentStarts
    <3>. HIDE DEF next
    <3>. QED
      BY <1>1, <1>3, <2>1, <2>4, <3>1
  <2>6. left' \in [Budgets -> Nat]
    BY <1>1, <2>1, SpendTyped DEF Budgets
  <2>7. Windows' /\ Sockets'
    BY <2>1 DEF Windows, Sockets, OpenIsAwaited, ShownIsThere
  <2>. QED
    BY <2>1, <2>5, <2>6, <2>7 DEF TypeOK, moved
<1>5. CASE Reply(k)
  <2>. DEFINE account == ResolveAccount(cfg, Account)
              run == [runs[task.run] EXCEPT !.account = account]
  <2>1. UNCHANGED <<cfg, buckets, status, out, paired, left>>
    BY <1>5 DEF Reply
  <2>2. moved
    <3>1. \E at \in {"mirror", "done"} : dispatched' = [dispatched EXCEPT ![k].at = at]
      BY <1>5 DEF Reply
    <3>. QED
      BY <1>3, <3>1
  <2>3. account \in ResolvedAccounts
    BY <1>1, ResolveTyped, ChannelAssumption
  <2>4. /\ run \in RunRecords /\ run.seen = runs[task.run].seen /\ run.log = runs[task.run].log
        /\ run.sock = runs[task.run].sock /\ run.phase = runs[task.run].phase
        /\ run.aborted = runs[task.run].aborted
    <3>. HIDE DEF account, task
    <3>. QED
      BY <1>2, <2>3 DEF RunRecords
  <2>5. runs' \in Seq(RunRecords) /\ Len(runs') = Len(runs) /\ Windows' /\ Sockets'
    <3>1. runs' = [runs EXCEPT ![task.run] = run] \/ runs' = runs
      BY <1>5 DEF Reply
    <3>2. CASE runs' = runs
      BY <1>1, <2>1, <3>2 DEF Windows, Sockets, OpenIsAwaited, ShownIsThere
    <3>3. CASE runs' = [runs EXCEPT ![task.run] = run]
      <4>. HIDE DEF run, task
      <4>. QED
        BY <1>1, <1>2, <2>1, <2>4, <3>3, RunKept, SocketsKept
    <3>. QED
      BY <3>1, <3>2, <3>3
  <2>. QED
    BY <2>1, <2>2, <2>5 DEF TypeOK, moved
<1>6. CASE Mirror(k)
  <2>1. UNCHANGED <<cfg, buckets, runs, status, paired, left>>
    BY <1>6 DEF Mirror
  <2>2. moved
    BY <1>3, <1>6 DEF Mirror
  <2>. QED
    BY <2>1, <2>2 DEF TypeOK, Windows, Sockets, OpenIsAwaited, ShownIsThere, moved
<1>. QED
  BY <1>4, <1>5, <1>6 DEF Working

(* The agent's own operations.                                             *)
LEMMA AskingKeeps == ASSUME IInv, Asking  PROVE IInv'
<1>. USE DEF IInv
<1>1. /\ left \in [Budgets -> Nat] /\ buckets \in [Accounts -> Caches]
      /\ paired \in [Users -> Parties \cup {None}]
  BY DEF TypeOK
<1>2. ASSUME NEW a \in Accounts, ListPeers(a)  PROVE IInv'
  <2>1. UNCHANGED <<cfg, runs, status, dispatched, out>> /\ Uses("sends")
    BY <1>2 DEF ListPeers
  <2>2. /\ buckets' \in [Accounts -> Caches] /\ paired' \in [Users -> Parties \cup {None}]
    <3>1. CASE RememberBindings(a)
      BY <1>1, <3>1, BindingsTyped
    <3>2. CASE UNCHANGED <<buckets, paired>>
      BY <1>1, <3>2
    <3>. QED
      BY <1>2, <3>1, <3>2 DEF ListPeers
  <2>3. left' \in [Budgets -> Nat]
    BY <1>1, <2>1, SpendTyped DEF Budgets
  <2>. QED
    BY <2>1, <2>2, <2>3 DEF TypeOK, Windows, Sockets, OpenIsAwaited, ShownIsThere
<1>3. ASSUME NEW a \in Accounts, NEW to \in Mobiles \cup Users, SendText(a, to)  PROVE IInv'
  <2>1. UNCHANGED <<cfg, buckets, runs, status, dispatched, paired>> /\ Uses("sends")
    BY <1>3 DEF SendText
  <2>2. left' \in [Budgets -> Nat]
    BY <1>1, <2>1, SpendTyped DEF Budgets
  <2>. QED
    BY <2>1, <2>2 DEF TypeOK, Windows, Sockets, OpenIsAwaited, ShownIsThere
<1>. QED
  BY <1>2, <1>3 DEF Asking

---------------------------------------------------------------------------
(* The plugin starts with nothing known, and without any run.              *)
LEMMA InitHolds == ASSUME Init  PROVE IInv
<1>1. cfg \in Configs /\ left \in [Budgets -> Nat]
  BY ChannelAssumption DEF Init
<1>2. /\ buckets \in [Accounts -> Caches]
      /\ \A a \in Accounts : /\ \A m \in Parties : buckets[a].peers[m] = None
                             /\ \A n \in Parties \cup Names : buckets[a].aliases[n] = None
  BY DEF Init, Caches
<1>3. /\ runs \in Seq(RunRecords) /\ Len(runs) = 0 /\ dispatched \in Seq(Tasks) /\ Len(dispatched) = 0
      /\ ~status.connected /\ paired \in [Users -> Parties \cup {None}]
  BY DEF Init
<1>4. status \in [connected : BOOLEAN, busy : BOOLEAN, attempts : Nat, error : BOOLEAN]
  BY DEF Init
<1>5. TypeOK
  BY <1>1, <1>2, <1>3, <1>4 DEF TypeOK
<1>6. Windows /\ Sockets
  BY <1>3 DEF Windows, Sockets, OpenIsAwaited, ShownIsThere
<1>. QED
  BY <1>5, <1>6 DEF IInv

(* The invariant of the plugin: its types, and every part below.           *)
THEOREM ChannelInvariance == Spec => []IInv
<1>1. Init => IInv
  BY InitHolds
<1>2. IInv /\ [Next]_vars => IInv'
  <2>. SUFFICES ASSUME IInv, [Next]_vars  PROVE IInv'
    OBVIOUS
  <2>1. CASE Editing
    BY <2>1, EditingKeeps
  <2>2. CASE StartAccount
    BY <2>2, StartAccountKeeps
  <2>3. CASE Asking
    BY <2>3, AskingKeeps
  <2>4. ASSUME NEW r \in 1..Len(runs), Running(r) \/ SocketCloses(r)  PROVE IInv'
    BY <2>4, BindingsFetchedKeeps, SocketKeeps DEF Running
  <2>5. ASSUME NEW r \in 1..Len(runs), NEW e \in Events, Message(r, e)  PROVE IInv'
    BY <2>5, MessageKeeps
  <2>6. ASSUME NEW k \in 1..Len(dispatched), Working(k)  PROVE IInv'
    BY <2>6, WorkingKeeps
  <2>7. CASE UNCHANGED vars
    BY <2>7 DEF vars, IInv, TypeOK, Windows, Sockets, OpenIsAwaited, ShownIsThere
  <2>. QED
    BY <2>1, <2>2, <2>3, <2>4, <2>5, <2>6, <2>7 DEF Next
<1>. QED
  BY <1>1, <1>2, PTL DEF Spec

(* rememberEventId: an event the relay pushes again reaches the agent a    *)
(* second time only after MaxSeen other events, however long the run.      *)
THEOREM AgentDispatchedOnce == Spec => []DispatchedOnce
<1>1. IInv => DispatchedOnce
  BY Zenon DEF IInv, Windows, Once, Others, DispatchedOnce
<1>. QED
  BY <1>1, ChannelInvariance, PTL

(* The status the gateway shows: however the runs of the account overlap,  *)
(* open, fail and are stopped, it shows no connection that is not there.   *)
THEOREM ConnectionShownIsThere == Spec => []ShownIsThere
<1>1. IInv => ShownIsThere
  BY DEF IInv, Sockets
<1>. QED
  BY <1>1, ChannelInvariance, PTL

=============================================================================
