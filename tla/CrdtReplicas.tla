------------------------------ MODULE CrdtReplicas -----------------------------
(***************************************************************************)
(* Replicas of one conversation built on the CRDT library of               *)
(* packages/protocol (crdt.ts, crdt-graph.ts).  A device stores operations *)
(* by id, names its current leaves as the parents of what it writes, sends *)
(* new operations at best effort and repairs by asking a peer for what its *)
(* version vector lacks.                                                   *)
(*                                                                         *)
(* An operation's id is its author and sequence number: the random part of *)
(* the id is drawn once per number.  The hlc is the author's wall clock    *)
(* (buildCrdtHlc); clocks are not synchronised, so every creation reads an *)
(* arbitrary time.  Payloads are left out: every operation is a message.   *)
(***************************************************************************)
EXTENDS Naturals, FiniteSets, SequencesExt, FiniteSetsExt

CONSTANTS Devices,
          Rank,      \* device |-> position of its id in the order of strings
          MaxSeq,    \* bound on the operations of a device
          MaxOps,    \* bound on the operations of all devices
          MaxTime    \* wall clocks read 0..MaxTime

ASSUME CrdtAssumption ==
    /\ MaxSeq \in Nat \ {0}
    /\ MaxOps \in Nat
    /\ MaxTime \in Nat
    /\ Rank \in [Devices -> Nat]
    /\ \A d, e \in Devices : Rank[d] = Rank[e] => d = e

VARIABLES held,      \* device |-> the operations it stores
          asked,     \* <<device, peer>> |-> wantFrom of a request under way, or {}
          batches    \* <<device, peer>> |-> batches from the peer under way

crdtVars == <<held, asked, batches>>

OpIds == Devices \X (1..MaxSeq)
Ops == [author : Devices, seq : 1..MaxSeq, hlc : 0..MaxTime, parents : SUBSET OpIds]
Vectors == [Devices -> 0..MaxSeq]
Pairs == {dp \in Devices \X Devices : dp[1] # dp[2]}

CrdtInit ==
    /\ held = [d \in Devices |-> {}]
    /\ asked = [dp \in Pairs |-> {}]
    /\ batches = [dp \in Pairs |-> {}]

-----------------------------------------------------------------------------
(* crdt-graph.ts                                                           *)

Id(o) == <<o.author, o.seq>>
KnownIds(S) == {Id(o) : o \in S}

\* compareCrdtOpOrder
Before(o, p) ==
    \/ o.hlc < p.hlc
    \/ o.hlc = p.hlc /\ Rank[o.author] < Rank[p.author]
    \/ o.hlc = p.hlc /\ o.author = p.author /\ o.seq < p.seq

First(S) == CHOOSE o \in S : \A p \in S \ {o} : Before(o, p)

\* Operations of rest whose known parents are all listed already.
Ready(S, rest) == {o \in rest : o.parents \cap KnownIds(S) \cap KnownIds(rest) = {}}

\* Faulty: the order of the clocks, as materializeCrdtMessages has it.
OrderedByClock(S) == SetToSortSeq(S, Before)

\* analyzeCrdtOps: orderedOps.  What is left on a cycle comes last.
Ordered(S) ==
    LET list[rest \in SUBSET S] ==
            IF rest = {} THEN <<>>
            ELSE IF Ready(S, rest) = {} THEN SetToSortSeq(rest, Before)
            ELSE LET o == First(Ready(S, rest)) IN <<o>> \o list[rest \ {o}]
    IN list[S]

\* leafOpIds: operations no known operation names as a parent.
Leaves(S) == KnownIds(S) \ UNION {o.parents : o \in S}

\* Faulty: the highest number seen, whatever is missing below it.
HighestSeen(S) == [d \in Devices |-> Max({0} \cup {o.seq : o \in {p \in S : p.author = d}})]

\* buildContiguousVersionVector
VersionVector(S) ==
    [d \in Devices |-> Max({n \in 0..MaxSeq : \A k \in 1..n : <<d, k>> \in KnownIds(S)})]

\* The operations of list above those that wantFrom counts.
Filtered(list, wantFrom) ==
    LET kept[n \in 0..Len(list)] ==
            IF n = 0 THEN <<>>
            ELSE LET k == kept[n - 1]
                     o == list[n]
                 IN IF o.seq > wantFrom[o.author] THEN Append(k, o) ELSE k
    IN kept[Len(list)]

\* selectCrdtOpsForSync
Selected(S, wantFrom) == Filtered(Ordered(S), wantFrom)

\* The same, when the request carries a limit.
Limited(S, wantFrom, limit) ==
    LET missing == Selected(S, wantFrom)
    IN SubSeq(missing, 1, Min({limit, Len(missing)}))

-----------------------------------------------------------------------------
(* A device.                                                               *)

\* The number of the device's next operation.
NextSeq(d) == Cardinality({o \in held[d] : o.author = d}) + 1

\* createCrdtOpEnvelope under the device's leaves, at wall-clock time t.
Create(d, t) ==
    LET seq == NextSeq(d)
    IN /\ seq <= MaxSeq
       /\ Cardinality(UNION {held[e] : e \in Devices}) < MaxOps
       /\ held' = [held EXCEPT ![d] = @ \cup
                      {[author |-> d, seq |-> seq, hlc |-> t, parents |-> Leaves(held[d])]}]
       /\ UNCHANGED <<asked, batches>>

\* An operation arrives from a peer that holds it: late, again, out of order,
\* or never.
Receive(d, o) ==
    /\ o \notin held[d]
    /\ held' = [held EXCEPT ![d] = @ \cup {o}]
    /\ UNCHANGED <<asked, batches>>

UnderWay(d, p) == asked[<<d, p>>] \cup batches[<<d, p>>] # {}

\* createCrdtSyncRequest with the device's version vector and no limit.
Ask(d, p) ==
    /\ ~UnderWay(d, p)
    /\ asked' = [asked EXCEPT ![<<d, p>>] = {VersionVector(held[d])}]
    /\ UNCHANGED <<held, batches>>

\* createCrdtSyncBatch of what the peer selects.
Answer(d, p) ==
    /\ \E v \in asked[<<d, p>>] :
          batches' = [batches EXCEPT ![<<d, p>>] = {ToSet(Selected(held[p], v))}]
    /\ asked' = [asked EXCEPT ![<<d, p>>] = {}]
    /\ UNCHANGED held

\* parseCrdtSyncBatch, and every operation is stored by its id.
Merge(d, p) ==
    /\ \E b \in batches[<<d, p>>] : held' = [held EXCEPT ![d] = @ \cup b]
    /\ batches' = [batches EXCEPT ![<<d, p>>] = {}]
    /\ UNCHANGED asked

\* A request or a batch is lost.
LoseSync(d, p) ==
    /\ UnderWay(d, p)
    /\ asked' = [asked EXCEPT ![<<d, p>>] = {}]
    /\ batches' = [batches EXCEPT ![<<d, p>>] = {}]
    /\ UNCHANGED held

CrdtNext ==
    \/ \E d \in Devices, t \in 0..MaxTime : Create(d, t)
    \/ \E d, p \in Devices : \E o \in held[p] : Receive(d, o)
    \/ \E dp \in Pairs :
          \/ Ask(dp[1], dp[2]) \/ Answer(dp[1], dp[2]) \/ Merge(dp[1], dp[2])
          \/ LoseSync(dp[1], dp[2])

CrdtSpec == CrdtInit /\ [][CrdtNext]_crdtVars

\* Fairness: a device asks every peer again and again (the timer, reconnect and
\* foreground triggers of the protocol), and requests and batches are not lost
\* for ever.
LiveSpec ==
    /\ CrdtSpec
    /\ \A dp \in Pairs : /\ WF_crdtVars(Ask(dp[1], dp[2]))
                         /\ SF_crdtVars(Answer(dp[1], dp[2]))
                         /\ SF_crdtVars(Merge(dp[1], dp[2]))

-----------------------------------------------------------------------------
(* Properties.                                                             *)

\* p's answer to d's version vector.
Batch(d, p) == ToSet(Selected(held[p], VersionVector(held[d])))

\* An answer to the device's version vector leaves out nothing the device
\* lacks, whatever gaps both sides have: versionVector counts only what is
\* contiguous, so a hole below it is asked for again
\* (buildContiguousVersionVector, selectCrdtOpsForSync without a limit).
BatchComplete ==
    \A dp \in Pairs : held[dp[2]] \ held[dp[1]] \subseteq Batch(dp[1], dp[2])

\* A batch that a limit cuts short is still closed under parents: what the
\* peer knows of the parents of an operation in it is in the batch or with the
\* device already, so merging it never shows a reply without its original
\* (the topological order of analyzeCrdtOps before the slice).
BatchKeepsCausality ==
    \A dp \in Pairs, limit \in 1..MaxOps :
       LET mine == held[dp[1]]  theirs == held[dp[2]]
           batch == ToSet(Limited(theirs, VersionVector(mine), limit))
       IN \A o \in batch : o.parents \cap KnownIds(theirs) \subseteq KnownIds(batch \cup mine)

\* When the devices stop writing they come to hold the same operations, by
\* sync alone and with any operation or sync message lost on the way
\* (docs/remote-pairing-crdt-v3.md: realtime delivery is best effort,
\* correctness comes from repeated state exchange).
ReplicasConverge == <>[](\A d, p \in Devices : held[d] = held[p])
=============================================================================
