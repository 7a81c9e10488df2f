------------------------- MODULE MobileSessionsProofs -------------------------
(***************************************************************************)
(* Proofs about MobileSessions, for any number of desktops: type           *)
(* correctness, approvals that are kept, removals that are kept, and peers *)
(* that stay within reach.                                                 *)
(*                                                                         *)
(* A call in flight carries the list it read.  The invariant follows the   *)
(* session of a desktop through all its copies, the list shown, the stored *)
(* one and those held by refreshes and scans: after an approval or removal *)
(* a copy that disagrees makes the desktop one that raced.                 *)
(***************************************************************************)
EXTENDS MobileSessions, TLAPS

Session == [trust : Trusts, online : BOOLEAN, probing : BOOLEAN,
            peer : {"", "disconnected", "connecting", "connected", "failed"}]
Lists == [Desktops -> Session]
Pings == [Desktops -> [sending : 0..MaxProbes, pending : BOOLEAN]]
Signal == [type : {"approved", "revoked", "revoke", "offer"}, of : Desktops]

ListsOK ==
    /\ sessions \in Lists /\ saved \in [Desktops -> Trusts]
    /\ loaded \in BOOLEAN /\ dirty \in BOOLEAN
    /\ refreshes \in [Slots -> [open : BOOLEAN, base : Lists]]
    /\ scan \in [of : SUBSET Desktops, base : Lists]
LinksOK ==
    /\ peers \in [Handles -> [of : SUBSET Desktops,
                              state : {"unused", "connecting", "connected", "failed", "closed"}]]
    /\ channels \in [Desktops -> 0..MaxPeers]
    /\ making \in [Desktops -> SUBSET {"dial", "signal", "stray"}]
    /\ dial \in [Desktops -> {"none", "making", "waiting"}]
    /\ adrift \subseteq Desktops /\ ping \in Pings
    /\ overlapped \subseteq Desktops
WiresOK ==
    /\ stream \in {"none", "opening", "open"} /\ inbox \in Seq(Signal)
    /\ bound \in [Desktops -> Trusts]
GhostsOK == approved \subseteq Desktops /\ removed \subseteq Desktops /\ raced \subseteq Desktops
TypeOK == ListsOK /\ LinksOK /\ WiresOK /\ GhostsOK /\ left \in [Budgets -> Nat]

\* Until the list is read nothing is shown, and nothing is in flight.  One
\* desktop is scanned at a time.
Started ==
    /\ ~loaded => /\ \A d \in Desktops : sessions[d].trust = "none"
                  /\ stream = "none" /\ scan.of = {} /\ \A r \in Slots : ~refreshes[r].open
    /\ \A r \in Slots, d \in Desktops : ~refreshes[r].open => refreshes[r].base[d].trust = "none"
    /\ \A a, b \in scan.of : a = b

\* What every copy says of a desktop whose approval nothing raced.
Kept(d) ==
    /\ IF loaded THEN sessions[d].trust = "active" ELSE saved[d] = "active"
    /\ \A r \in Slots : refreshes[r].base[d].trust \in {"none", "active"}
    /\ scan.of # {} => d \in scan.of \/ scan.base[d].trust = "active"

\* What every copy says of a desktop whose removal nothing raced.
Gone(d) ==
    /\ sessions[d].trust = "none"
    /\ ~loaded \/ ~dirty => saved[d] = "none"
    /\ \A r \in Slots : refreshes[r].base[d].trust = "none"
    /\ scan.of # {} => scan.base[d].trust = "none"

\* A peer is being made for a desktop that has one only if two calls overlapped.
Alone(d) == /\ channels[d] = 0 \/ making[d] = {}
            /\ \A a, b \in making[d] : a = b
Reach(h) == \E d \in peers[h].of : channels[d] = h \/ d \in overlapped

Copies == /\ \A d \in approved \ raced : Kept(d)
          /\ \A d \in removed \ raced : Gone(d)
Peers == /\ \A d \in Desktops \ overlapped : Alone(d)
         /\ \A h \in Handles : Live(h) => Reach(h)
IInv == TypeOK /\ Started /\ Copies /\ Peers

-----------------------------------------------------------------------------
(* What the operators make of a list.                                      *)

(* Nobody is trusted in an absent session, and its fields are well formed. *)
LEMMA AbsentSession == Absent \in Session /\ Absent.trust = "none"
BY DEF Absent, Session, Trusts

(* No probe is a probe none is sent of.                                    *)
LEMMA NoPingOK == NoPing \in [sending : 0..MaxProbes, pending : BOOLEAN]
BY DEF NoPing, MaxProbes

(* The list read from the storage has the trusts that were stored.         *)
LEMMA StoredList ==
    ASSUME NEW t \in [Desktops -> Trusts]
    PROVE  Stored(t) \in Lists /\ \A d \in Desktops : Stored(t)[d].trust = t[d]
<1>1. ASSUME NEW d \in Desktops
      PROVE  /\ [Absent EXCEPT !.trust = t[d]] \in Session
             /\ [Absent EXCEPT !.trust = t[d]].trust = t[d]
  <2>1. t[d] \in Trusts
    OBVIOUS
  <2>. QED
    BY <2>1 DEF Absent, Session
<1>. QED
  BY <1>1 DEF Stored, Lists

(* Showing peers as disconnected leaves the trust in them.                 *)
LEMMA DisconnectedList ==
    ASSUME NEW S \in Lists, NEW D
    PROVE  /\ Disconnected(S, D) \in Lists
           /\ \A d \in Desktops : Disconnected(S, D)[d].trust = S[d].trust
<1>1. ASSUME NEW d \in Desktops
      PROVE  /\ S[d] \in Session /\ [S[d] EXCEPT !.peer = "disconnected"] \in Session
             /\ [S[d] EXCEPT !.peer = "disconnected"].trust = S[d].trust
  <2>1. S[d] \in Session
    BY DEF Lists
  <2>. QED
    BY <2>1 DEF Session
<1>. QED
  BY <1>1 DEF Disconnected, Lists

(* A refresh takes the trust from the session it was given.                *)
LEMMA RefreshedSession ==
    ASSUME NEW s \in Session, NEW on \in BOOLEAN
    PROVE  Refreshed(s, on) \in Session /\ Refreshed(s, on).trust = s.trust
<1>. DEFINE up == on /\ s.trust = "active"
            still == on /\ s.trust # "revoked"
<1>1. up \in BOOLEAN /\ still \in BOOLEAN /\ s.trust \in Trusts /\ s.probing \in BOOLEAN
  BY DEF Session
<1>2. Refreshed(s, on) = IF s.trust = "none" THEN s
                         ELSE [s EXCEPT !.online = up, !.probing = still /\ @]
  BY DEF Refreshed
<1>. HIDE DEF up, still
<1>. QED
  BY <1>1, <1>2 DEF Session

(* A whole list refreshed.                                                 *)
LEMMA RefreshedList ==
    ASSUME NEW S \in Lists, NEW on
    PROVE  LET new == [d \in Desktops |-> Refreshed(S[d], d \in on)]
           IN  new \in Lists /\ \A d \in Desktops : new[d].trust = S[d].trust
<1>1. ASSUME NEW d \in Desktops
      PROVE  Refreshed(S[d], d \in on) \in Session /\ Refreshed(S[d], d \in on).trust = S[d].trust
  <2>1. S[d] \in Session /\ (d \in on) \in BOOLEAN
    BY DEF Lists
  <2>. QED
    BY <2>1, RefreshedSession
<1>. QED
  BY <1>1 DEF Lists

(* A merge trusts as the refreshed list does, where that has a session.    *)
LEMMA MergedList ==
    ASSUME NEW S \in Lists, NEW new \in Lists
    PROVE  /\ Merge(S, new) \in Lists
           /\ \A d \in Desktops : Merge(S, new)[d].trust =
                 IF new[d].trust # "none" THEN new[d].trust ELSE S[d].trust
BY DEF Merge, Lists

(* The list of a scan: the scanned desktop is pending, the others are as   *)
(* in the list it read.                                                    *)
LEMMA ScannedList ==
    ASSUME scan.base \in Lists, NEW d \in Desktops, NEW on
    PROVE  /\ ScanResult(d, on) \in Lists
           /\ \A e \in Desktops : e # d => ScanResult(d, on)[e].trust = scan.base[e].trust
<1>. DEFINE S == Claimed(scan.base, d)
<1>1. scan.base[d] \in Session
  BY DEF Lists
<1>2. [scan.base[d] EXCEPT !.trust = "pending", !.probing = FALSE] \in Session
  BY <1>1 DEF Session, Trusts
<1>3. S = [scan.base EXCEPT ![d] = [scan.base[d] EXCEPT !.trust = "pending", !.probing = FALSE]]
  BY DEF Claimed, Lists
<1>4. S \in Lists /\ \A e \in Desktops : e # d => S[e] = scan.base[e]
  BY <1>2, <1>3 DEF Lists
<1>5. ScanResult(d, on) = [e \in Desktops |-> Refreshed(S[e], e \in on)]
  BY DEF ScanResult
<1>. HIDE DEF S
<1>. QED
  BY <1>4, <1>5, RefreshedList

(* The trusts of a list can be stored.                                     *)
LEMMA TrustsOfList ==
    ASSUME NEW S \in Lists
    PROVE  TrustOf(S) \in [Desktops -> Trusts] /\ \A d \in Desktops : TrustOf(S)[d] = S[d].trust
BY DEF TrustOf, Lists, Session

(* One session of the list changed in a field other than its trust.        *)
LEMMA ChangedList ==
    ASSUME NEW S \in Lists, NEW d \in Desktops, NEW s \in Session, s.trust = S[d].trust
    PROVE  [S EXCEPT ![d] = s] \in Lists
           /\ \A e \in Desktops : [S EXCEPT ![d] = s][e].trust = S[e].trust
BY DEF Lists

(* A refresh, if one starts, holds the list as it is shown.                *)
LEMMA RefreshHolds ==
    ASSUME ListsOK, sessions' \in Lists, Refresh
    PROVE  /\ refreshes' \in [Slots -> [open : BOOLEAN, base : Lists]]
           /\ \A r \in Slots : \/ refreshes'[r] = refreshes[r]
                               \/ refreshes'[r].open /\ refreshes'[r].base = sessions'
<1>1. CASE UNCHANGED refreshes
  BY <1>1 DEF ListsOK
<1>2. CASE \E r \in Slots : ~refreshes[r].open /\ Refreshing(r)
  <2>1. PICK r \in Slots : Refreshing(r)
    BY <1>2
  <2>2. refreshes' = [refreshes EXCEPT ![r] = [open |-> TRUE, base |-> sessions']]
    BY <2>1 DEF Refreshing
  <2>3. [open |-> TRUE, base |-> sessions'] \in [open : BOOLEAN, base : Lists]
    OBVIOUS
  <2>. QED
    BY <2>2, <2>3 DEF ListsOK
<1>3. ASSUME \E r \in Slots : ~refreshes[r].open
      PROVE  IdleSlot \in Slots /\ ~refreshes[IdleSlot].open
  BY <1>3 DEF IdleSlot
<1>. QED
  BY <1>1, <1>2, <1>3 DEF Refresh

-----------------------------------------------------------------------------
(* Closing and making peers.                                               *)

(* Closed peers are no longer live, and the others stay within reach.      *)
LEMMA ClosingKeeps ==
    ASSUME LinksOK, Peers, NEW D \in SUBSET Desktops, ClosePeers(D), NEW F, Forget(F),
           UNCHANGED overlapped
    PROVE  LinksOK' /\ Peers'
<1>. DEFINE hit(h) == \E d \in D : channels[d] = h
<1>1. /\ \A d \in Desktops : channels'[d] = IF d \in D THEN 0 ELSE channels[d]
      /\ \A h \in Handles : peers'[h] = IF hit(h) THEN [peers[h] EXCEPT !.state = "closed"] ELSE peers[h]
      /\ \A d \in Desktops : making'[d] = IF d \in D /\ "dial" \in making[d]
                                          THEN (making[d] \ {"dial"}) \cup {"stray"} ELSE making[d]
  BY DEF ClosePeers
<1>2. channels' \in [Desktops -> 0..MaxPeers]
  <2>1. 0 \in 0..MaxPeers
    BY SessionsAssumption
  <2>. QED
    BY <2>1 DEF ClosePeers, LinksOK
<1>3. peers' \in [Handles -> [of : SUBSET Desktops,
                              state : {"unused", "connecting", "connected", "failed", "closed"}]]
  <2>1. ASSUME NEW h \in Handles
        PROVE  [peers[h] EXCEPT !.state = "closed"]
                  \in [of : SUBSET Desktops,
                       state : {"unused", "connecting", "connected", "failed", "closed"}]
    BY DEF LinksOK
  <2>2. peers' = [h \in Handles |-> IF hit(h) THEN [peers[h] EXCEPT !.state = "closed"] ELSE peers[h]]
    BY DEF ClosePeers
  <2>. QED
    BY <2>1, <2>2 DEF LinksOK
<1>4. making' \in [Desktops -> SUBSET {"dial", "signal", "stray"}]
  BY DEF ClosePeers, LinksOK
<1>5. dial' \in [Desktops -> {"none", "making", "waiting"}] /\ adrift' \subseteq Desktops
      /\ ping' \in Pings
  <2>1. ASSUME NEW d \in Desktops
        PROVE  [ping[d] EXCEPT !.pending = @ /\ d \notin F]
                  \in [sending : 0..MaxProbes, pending : BOOLEAN]
    <3>1. /\ ping[d] \in [sending : 0..MaxProbes, pending : BOOLEAN]
          /\ (ping[d].pending /\ d \notin F) \in BOOLEAN
      BY DEF LinksOK, Pings
    <3>. QED
      BY <3>1
  <2>2. ping' = [d \in Desktops |-> [ping[d] EXCEPT !.pending = @ /\ d \notin F]]
    BY DEF Forget
  <2>3. ping' \in Pings
    BY <2>1, <2>2 DEF Pings
  <2>. QED
    BY <2>3 DEF ClosePeers, LinksOK
<1>6. LinksOK'
  BY <1>2, <1>3, <1>4, <1>5 DEF LinksOK
<1>7. ASSUME NEW d \in Desktops \ overlapped  PROVE Alone(d)'
  <2>1. Alone(d)
    BY DEF Peers
  <2>2. channels'[d] = 0 \/ making'[d] = {}
    <3>1. CASE channels[d] = 0
      BY <1>1, <3>1
    <3>2. CASE making[d] = {}
      BY <1>1, <3>2
    <3>. QED
      BY <2>1, <3>1, <3>2 DEF Alone
  <2>3. \A a, b \in making'[d] : a = b
    <3>1. \A a, b \in making[d] : a = b
      BY <2>1 DEF Alone
    <3>2. CASE d \in D /\ "dial" \in making[d]
      <4>1. making'[d] = (making[d] \ {"dial"}) \cup {"stray"}
        BY <1>1, <3>2
      <4>2. making[d] \ {"dial"} = {}
        BY <3>1, <3>2
      <4>. QED
        BY <4>1, <4>2
    <3>3. CASE ~(d \in D /\ "dial" \in making[d])
      <4>1. making'[d] = making[d]
        BY <1>1, <3>3
      <4>. QED
        BY <3>1, <4>1
    <3>. QED
      BY <3>2, <3>3
  <2>. QED
    BY <2>2, <2>3 DEF Alone
<1>8. ASSUME NEW h \in Handles, Live(h)'  PROVE Reach(h)'
  <2>1. peers'[h] = peers[h] /\ ~hit(h)
    <3>1. CASE hit(h)
      <4>1. peers[h] \in [of : SUBSET Desktops,
                          state : {"unused", "connecting", "connected", "failed", "closed"}]
        BY DEF LinksOK
      <4>2. peers'[h] = [peers[h] EXCEPT !.state = "closed"]
        BY <1>1, <3>1
      <4>3. peers'[h].state = "closed"
        BY <4>1, <4>2
      <4>. QED
        BY <1>8, <4>3 DEF Live
    <3>2. CASE ~hit(h)
      BY <1>1, <3>2
    <3>. QED
      BY <3>1, <3>2
  <2>2. Reach(h)
    BY <1>8, <2>1 DEF Live, Peers
  <2>3. PICK d \in peers[h].of : channels[d] = h \/ d \in overlapped
    BY <2>2 DEF Reach
  <2>4. d \in Desktops
    BY DEF LinksOK
  <2>5. channels[d] = h => channels'[d] = h
    BY <1>1, <2>1, <2>4
  <2>. QED
    BY <2>1, <2>3, <2>5 DEF Reach
<1>. QED
  BY <1>6, <1>7, <1>8 DEF Peers

(* What reconcileRealtime does: the trust of the list it is given becomes  *)
(* that of the list shown.                                                 *)
LEMMA Reconciled ==
    ASSUME LinksOK, WiresOK, Peers, NEW S \in Lists, Reconcile(S)
    PROVE  /\ sessions' \in Lists
           /\ \A d \in Desktops : sessions'[d].trust = S[d].trust
           /\ LinksOK' /\ WiresOK' /\ Peers'
           /\ UNCHANGED <<inbox, bound, overlapped>>
<1>1. /\ ClosePeers(Stale(S)) /\ Forget(Stale(S) \cup (Desktops \ Listed(S))) /\ UNCHANGED overlapped
      /\ sessions' = Disconnected(S, Stale(S))
      /\ UNCHANGED <<inbox, bound>>
      /\ stream' = IF Listed(S) = {} THEN "none" ELSE IF stream = "none" THEN "opening" ELSE stream
  BY DEF Reconcile
<1>2. LinksOK' /\ Peers'
  <2>1. Stale(S) \in SUBSET Desktops
    BY DEF Stale
  <2>. QED
    BY <1>1, <2>1, ClosingKeeps
<1>3. WiresOK'
  BY <1>1 DEF WiresOK
<1>. QED
  BY <1>1, <1>2, <1>3, DisconnectedList

(* A desktop for which a peer is wanted has none, or two calls overlap.    *)
LEMMA WantedKeeps ==
    ASSUME LinksOK, Peers, NEW d \in Desktops, channels[d] = 0,
           NEW why \in {"dial", "signal", "stray"}, Wanted(d, why), UNCHANGED <<peers, channels>>
    PROVE  /\ making' \in [Desktops -> SUBSET {"dial", "signal", "stray"}]
           /\ overlapped' \subseteq Desktops
           /\ Peers'
<1>1. /\ making' = [making EXCEPT ![d] = @ \cup {why}]
      /\ overlapped' = IF making[d] = {} THEN overlapped ELSE overlapped \cup {d}
  BY DEF Wanted
<1>2. making' \in [Desktops -> SUBSET {"dial", "signal", "stray"}]
  BY <1>1 DEF LinksOK
<1>3. overlapped' \subseteq Desktops
  BY <1>1 DEF LinksOK
<1>4. ASSUME NEW e \in Desktops \ overlapped'  PROVE Alone(e)'
  <2>1. Alone(e)
    BY <1>1, <1>4 DEF Peers
  <2>2. CASE e = d
    <3>1. making'[d] = {why}
      BY <1>1, <1>4, <2>2 DEF LinksOK
    <3>. QED
      BY <2>2, <3>1 DEF Alone
  <2>3. CASE e # d
    <3>1. making'[e] = making[e]
      BY <1>1, <2>3 DEF LinksOK
    <3>. QED
      BY <2>1, <3>1 DEF Alone
  <2>. QED
    BY <2>2, <2>3
<1>5. ASSUME NEW h \in Handles, Live(h)'  PROVE Reach(h)'
  <2>1. Reach(h)
    BY <1>5 DEF Live, Peers
  <2>. QED
    BY <1>1, <2>1 DEF Reach
<1>. QED
  BY <1>2, <1>3, <1>4, <1>5 DEF Peers

-----------------------------------------------------------------------------
(* Steps that leave the trust in the list as it is.                        *)

(* What is spent of the budget leaves a budget.                            *)
LEMMA SpendOK ==
    ASSUME left \in [Budgets -> Nat], NEW f \in Budgets, Spend(f)
    PROVE  left' \in [Budgets -> Nat]
<1>1. left[f] \in Nat /\ left[f] > 0 /\ left' = [left EXCEPT ![f] = @ - 1]
  BY DEF Spend
<1>2. left[f] - 1 \in Nat
  BY <1>1
<1>. QED
  BY <1>1, <1>2

(* With the trust of every session, the stored list and the scan as they   *)
(* were, a call that starts now holds no copy that disagrees.              *)
LEMMA SteadyKeeps ==
    ASSUME ListsOK, GhostsOK, Started, Copies,
           UNCHANGED <<saved, loaded, scan, approved, removed, raced>>,
           sessions' \in Lists, \A d \in Desktops : sessions'[d].trust = sessions[d].trust,
           dirty' \in BOOLEAN, dirty => dirty',
           ~loaded => stream' = "none" /\ UNCHANGED refreshes,
           refreshes' \in [Slots -> [open : BOOLEAN, base : Lists]],
           \A r \in Slots : \/ refreshes'[r] = refreshes[r]
                            \/ refreshes'[r].open /\ refreshes'[r].base = sessions'
    PROVE  ListsOK' /\ GhostsOK' /\ Started' /\ Copies'
<1>1. ListsOK' /\ GhostsOK'
  BY DEF ListsOK, GhostsOK
<1>2. Started'
  <2>1. ~loaded' => /\ \A d \in Desktops : sessions'[d].trust = "none"
                    /\ stream' = "none" /\ scan'.of = {} /\ \A r \in Slots : ~refreshes'[r].open
    BY DEF Started
  <2>2. ASSUME NEW r \in Slots, NEW d \in Desktops, ~refreshes'[r].open
        PROVE  refreshes'[r].base[d].trust = "none"
    <3>1. refreshes'[r] = refreshes[r]
      BY <2>2
    <3>. QED
      BY <2>2, <3>1 DEF Started
  <2>3. \A a, b \in scan'.of : a = b
    BY DEF Started
  <2>. QED
    BY <2>1, <2>2, <2>3 DEF Started
<1>3. ASSUME NEW d \in approved \ raced  PROVE Kept(d)'
  <2>0. d \in Desktops /\ Kept(d)
    BY DEF GhostsOK, Copies
  <2>1. sessions'[d].trust \in {"none", "active"}
    BY <2>0 DEF Kept, Started
  <2>2. ASSUME NEW r \in Slots  PROVE refreshes'[r].base[d].trust \in {"none", "active"}
    BY <2>0, <2>1 DEF Kept
  <2>3. IF loaded' THEN sessions'[d].trust = "active" ELSE saved'[d] = "active"
    BY <2>0 DEF Kept
  <2>4. scan'.of # {} => d \in scan'.of \/ scan'.base[d].trust = "active"
    BY <2>0 DEF Kept
  <2>. QED
    BY <2>2, <2>3, <2>4 DEF Kept
<1>4. ASSUME NEW d \in removed \ raced  PROVE Gone(d)'
  <2>0. d \in Desktops /\ Gone(d)
    BY DEF GhostsOK, Copies
  <2>1. sessions'[d].trust = "none"
    BY <2>0 DEF Gone
  <2>2. ASSUME NEW r \in Slots  PROVE refreshes'[r].base[d].trust = "none"
    BY <2>0, <2>1 DEF Gone
  <2>3. ~loaded' \/ ~dirty' => saved'[d] = "none"
    BY <2>0 DEF Gone
  <2>4. scan'.of # {} => scan'.base[d].trust = "none"
    BY <2>0 DEF Gone
  <2>. QED
    BY <2>1, <2>2, <2>3, <2>4 DEF Gone
<1>. QED
  BY <1>1, <1>2, <1>3, <1>4 DEF Copies

(* The same, of a step that starts no refresh and keeps the stream.        *)
LEMMA ShownKeeps ==
    ASSUME IInv, UNCHANGED <<saved, loaded, scan, approved, removed, raced, refreshes, wires>>,
           sessions' \in Lists, \A d \in Desktops : sessions'[d].trust = sessions[d].trust,
           dirty' \in BOOLEAN, dirty => dirty'
    PROVE  ListsOK' /\ GhostsOK' /\ WiresOK' /\ Started' /\ Copies'
<1>1. WiresOK'
  BY DEF IInv, TypeOK, WiresOK, wires
<1>2. ~loaded => stream' = "none" /\ UNCHANGED refreshes
  BY DEF IInv, Started, wires
<1>3. refreshes' \in [Slots -> [open : BOOLEAN, base : Lists]]
  BY DEF IInv, TypeOK, ListsOK
<1>. QED
  BY <1>1, <1>2, <1>3, SteadyKeeps DEF IInv, TypeOK

(* Nothing of the list changes at all.                                     *)
LEMMA QuietKeeps ==
    ASSUME IInv, UNCHANGED <<lists, wires, ghosts>>
    PROVE  ListsOK' /\ GhostsOK' /\ WiresOK' /\ Started' /\ Copies'
<1>1. sessions' \in Lists /\ dirty' \in BOOLEAN
  BY DEF IInv, TypeOK, ListsOK, lists
<1>. QED
  BY <1>1, ShownKeeps DEF lists, ghosts

(* Nothing of the peers changes.                                           *)
LEMMA LinksKeep ==
    ASSUME IInv, UNCHANGED <<peers, channels, making, dial, adrift, ping, overlapped>>
    PROVE  LinksOK' /\ Peers'
<1>1. LinksOK'
  BY DEF IInv, TypeOK, LinksOK
<1>2. ASSUME NEW d \in Desktops \ overlapped  PROVE Alone(d)'
  BY DEF IInv, Peers, Alone
<1>3. ASSUME NEW h \in Handles, Live(h)'  PROVE Reach(h)'
  BY <1>3 DEF IInv, Peers, Live, Reach
<1>. QED
  BY <1>1, <1>2, <1>3 DEF Peers

-----------------------------------------------------------------------------
(* The stream, and what the desktop does.                                  *)

(* A step that changes the stream and its signals, and starts a refresh at *)
(* most.                                                                   *)
LEMMA StreamKeeps ==
    ASSUME IInv, UNCHANGED <<saved, loaded, scan, dirty, sessions, links, ghosts>>,
           WiresOK', left' \in [Budgets -> Nat],
           Refresh \/ UNCHANGED refreshes,
           ~loaded => stream' = "none" /\ UNCHANGED refreshes
    PROVE  IInv'
<1>1. /\ ListsOK /\ GhostsOK /\ Started /\ Copies /\ sessions' = sessions
      /\ sessions \in Lists /\ dirty' \in BOOLEAN /\ dirty' = dirty
  BY DEF IInv, TypeOK, ListsOK
<1>2. /\ refreshes' \in [Slots -> [open : BOOLEAN, base : Lists]]
      /\ \A r \in Slots : \/ refreshes'[r] = refreshes[r]
                          \/ refreshes'[r].open /\ refreshes'[r].base = sessions'
  <2>1. CASE Refresh
    BY <1>1, <2>1, RefreshHolds
  <2>2. CASE UNCHANGED refreshes
    BY <1>1, <2>2 DEF ListsOK
  <2>. QED
    BY <2>1, <2>2
<1>3. ListsOK' /\ GhostsOK' /\ Started' /\ Copies'
  BY <1>1, <1>2, SteadyKeeps DEF ghosts
<1>4. LinksOK' /\ Peers'
  BY LinksKeep DEF links
<1>. QED
  BY <1>3, <1>4 DEF IInv, TypeOK

(* A new signal in the queue of the mobile.                                *)
LEMMA SendOK ==
    ASSUME WiresOK, NEW type \in {"approved", "revoked", "revoke", "offer"}, NEW d \in Desktops, Send(type, d)
    PROVE  inbox' \in Seq(Signal)
<1>1. [type |-> type, of |-> d] \in Signal
  BY DEF Signal
<1>2. inbox' = Append(inbox, [type |-> type, of |-> d])
  BY DEF Send
<1>. QED
  BY <1>1, <1>2 DEF WiresOK

(* Approvals and signals of the desktop, and the stream that opens, ends   *)
(* or makes the app refresh.                                               *)
LEMMA StreamStep ==
    ASSUME IInv,
           \/ RefreshStarts \/ StreamOpens \/ StreamEnds
           \/ \E d \in Desktops : \/ Approves(d) \/ Revokes(d)
                                  \/ \E type \in {"revoke", "offer"} : DesktopSends(type, d)
    PROVE  IInv'
<1>0. WiresOK /\ left \in [Budgets -> Nat]
  BY DEF IInv, TypeOK
<1>1. CASE RefreshStarts
  <2>1. /\ UNCHANGED <<saved, loaded, scan, dirty, sessions, links, ghosts, wires, left>>
        /\ Refresh /\ loaded
    BY <1>1 DEF RefreshStarts
  <2>2. WiresOK'
    BY <1>0, <2>1 DEF WiresOK, wires
  <2>. QED
    BY <1>0, <2>1, <2>2, StreamKeeps
<1>2. CASE StreamOpens
  <2>1. /\ UNCHANGED <<saved, loaded, scan, dirty, sessions, links, ghosts, inbox, bound, left>>
        /\ Refresh /\ stream = "opening" /\ stream' = "open"
    BY <1>2 DEF StreamOpens
  <2>2. WiresOK'
    BY <1>0, <2>1 DEF WiresOK
  <2>3. loaded
    BY <2>1 DEF IInv, Started
  <2>. QED
    BY <1>0, <2>1, <2>2, <2>3, StreamKeeps
<1>3. CASE StreamEnds
  <2>1. /\ UNCHANGED <<saved, loaded, scan, dirty, sessions, refreshes, links, ghosts, inbox, bound>>
        /\ Spend("resets") /\ stream' = "none"
    BY <1>3 DEF StreamEnds, lists
  <2>2. WiresOK'
    BY <1>0, <2>1 DEF WiresOK
  <2>3. left' \in [Budgets -> Nat]
    BY <1>0, <2>1, SpendOK DEF Budgets
  <2>. QED
    BY <2>1, <2>2, <2>3, StreamKeeps
<1>4. ASSUME NEW d \in Desktops, Approves(d)  PROVE IInv'
  <2>1. /\ UNCHANGED <<saved, loaded, scan, dirty, sessions, refreshes, links, ghosts, stream, left>>
        /\ Send("approved", d) /\ bound' = [bound EXCEPT ![d] = "active"]
    BY <1>4 DEF Approves, lists
  <2>2. inbox' \in Seq(Signal)
    BY <1>0, <2>1, SendOK
  <2>3. WiresOK'
    BY <1>0, <2>1, <2>2 DEF WiresOK, Trusts
  <2>4. ~loaded => stream' = "none"
    BY <2>1 DEF IInv, Started
  <2>. QED
    BY <1>0, <2>1, <2>3, <2>4, StreamKeeps
<1>5. ASSUME NEW d \in Desktops, NEW type \in {"revoke", "offer"}, DesktopSends(type, d)  PROVE IInv'
  <2>1. /\ UNCHANGED <<saved, loaded, scan, dirty, sessions, refreshes, links, ghosts, stream, bound>>
        /\ Send(type, d) /\ Spend("signals")
    BY <1>5 DEF DesktopSends, lists
  <2>2. inbox' \in Seq(Signal)
    BY <1>0, <2>1, SendOK
  <2>3. WiresOK'
    BY <1>0, <2>1, <2>2 DEF WiresOK
  <2>4. ~loaded => stream' = "none"
    BY <2>1 DEF IInv, Started
  <2>5. left' \in [Budgets -> Nat]
    BY <1>0, <2>1, SpendOK DEF Budgets
  <2>. QED
    BY <2>1, <2>3, <2>4, <2>5, StreamKeeps
<1>6. ASSUME NEW d \in Desktops, Revokes(d)  PROVE IInv'
  <2>1. /\ UNCHANGED <<saved, loaded, scan, dirty, sessions, refreshes, links, ghosts, stream>>
        /\ Send("revoked", d) /\ bound' = [bound EXCEPT ![d] = "none"] /\ Spend("signals")
    BY <1>6 DEF Revokes, lists
  <2>2. inbox' \in Seq(Signal)
    BY <1>0, <2>1, SendOK
  <2>3. WiresOK'
    BY <1>0, <2>1, <2>2 DEF WiresOK, Trusts
  <2>4. ~loaded => stream' = "none"
    BY <2>1 DEF IInv, Started
  <2>5. left' \in [Budgets -> Nat]
    BY <1>0, <2>1, SpendOK DEF Budgets
  <2>. QED
    BY <2>1, <2>3, <2>4, <2>5, StreamKeeps
<1>. QED
  BY <1>1, <1>2, <1>3, <1>4, <1>5, <1>6

-----------------------------------------------------------------------------
(* Peers and probes.                                                       *)

(* A state is shown for a session that is listed.                          *)
LEMMA ShownOK ==
    ASSUME IInv, NEW d \in Desktops,
           NEW state \in {"", "disconnected", "connecting", "connected", "failed"}, Shown(d, state)
    PROVE  ListsOK' /\ GhostsOK' /\ WiresOK' /\ Started' /\ Copies'
<1>. DEFINE t == [sessions[d] EXCEPT !.peer = state]
<1>1. /\ sessions' = IF sessions[d].trust = "none" THEN sessions ELSE [sessions EXCEPT ![d] = t]
      /\ dirty' = TRUE /\ UNCHANGED <<saved, loaded, refreshes, scan, wires, ghosts>>
  BY DEF Shown
<1>2. sessions \in Lists /\ sessions[d] \in Session
  BY DEF IInv, TypeOK, ListsOK, Lists
<1>3. t \in Session /\ t.trust = sessions[d].trust
  BY <1>2 DEF Session
<1>. HIDE DEF t
<1>4. /\ [sessions EXCEPT ![d] = t] \in Lists
      /\ \A e \in Desktops : [sessions EXCEPT ![d] = t][e].trust = sessions[e].trust
  BY <1>2, <1>3 DEF Lists
<1>5. sessions' \in Lists /\ \A e \in Desktops : sessions'[e].trust = sessions[e].trust
  BY <1>1, <1>2, <1>4
<1>. QED
  BY <1>1, <1>5, ShownKeeps DEF ghosts

(* A turn of a dial connects the peer there is, or wants one.              *)
LEMMA TurnKeeps ==
    ASSUME IInv, NEW d \in Desktops, NEW why \in {"dial", "signal", "stray"}, Turn(d, why),
           dial' \in [Desktops -> {"none", "making", "waiting"}], adrift' \subseteq Desktops
    PROVE  IInv'
<1>0. UNCHANGED <<lists, channels, ping, wires, ghosts, left>>
  BY DEF Turn
<1>1. ListsOK' /\ GhostsOK' /\ WiresOK' /\ Started' /\ Copies' /\ left' \in [Budgets -> Nat]
  BY <1>0, QuietKeeps DEF IInv, TypeOK
<1>2. CASE Existing(d)
  <2>1. /\ UNCHANGED <<making, overlapped>>
        /\ peers' = [peers EXCEPT ![channels[d]].state = IF @ = "failed" THEN "connecting" ELSE @]
    BY <1>2 DEF Turn
  <2>2. channels[d] \in Handles
    BY <1>2, SessionsAssumption DEF Existing, IInv, TypeOK, LinksOK, Handles
  <2>3. peers[channels[d]] \in [of : SUBSET Desktops,
                    state : {"unused", "connecting", "connected", "failed", "closed"}]
    BY <2>2 DEF IInv, TypeOK, LinksOK
  <2>. DEFINE h == channels[d]
              p == [peers[h] EXCEPT !.state = IF @ = "failed" THEN "connecting" ELSE @]
  <2>4. /\ p \in [of : SUBSET Desktops,
                  state : {"unused", "connecting", "connected", "failed", "closed"}]
        /\ p.of = peers[h].of
        /\ p.state \in {"connecting", "connected", "failed"} => Live(h)
    BY <2>3 DEF Live
  <2>5. peers' = [peers EXCEPT ![h] = p]
    BY <2>1
  <2>. HIDE DEF p
  <2>6. LinksOK'
    BY <1>0, <2>1, <2>2, <2>4, <2>5 DEF IInv, TypeOK, LinksOK
  <2>7. ASSUME NEW g \in Handles, Live(g)'  PROVE Live(g) /\ peers'[g].of = peers[g].of
    <3>1. CASE g = h
      <4>1. peers'[g] = p
        BY <2>5, <3>1 DEF IInv, TypeOK, LinksOK
      <4>. QED
        BY <2>4, <2>7, <3>1, <4>1 DEF Live
    <3>2. CASE g # h
      <4>1. peers'[g] = peers[g]
        BY <2>5, <3>2 DEF IInv, TypeOK, LinksOK
      <4>. QED
        BY <2>7, <4>1 DEF Live
    <3>. QED
      BY <3>1, <3>2
  <2>8. ASSUME NEW g \in Handles, Live(g)'  PROVE Reach(g)'
    BY <1>0, <2>1, <2>7, <2>8 DEF IInv, Peers, Reach
  <2>9. ASSUME NEW e \in Desktops \ overlapped  PROVE Alone(e)'
    BY <1>0, <2>1 DEF IInv, Peers, Alone
  <2>. QED
    BY <1>1, <2>1, <2>6, <2>8, <2>9 DEF IInv, TypeOK, Peers
<1>3. CASE ~Existing(d)
  <2>1. Wanted(d, why) /\ UNCHANGED peers
    BY <1>3 DEF Turn
  <2>2. channels[d] = 0
    BY <1>3 DEF Existing
  <2>3. LinksOK /\ Peers
    BY DEF IInv, TypeOK
  <2>4. /\ making' \in [Desktops -> SUBSET {"dial", "signal", "stray"}]
        /\ overlapped' \subseteq Desktops /\ Peers'
    BY <1>0, <2>1, <2>2, <2>3, WantedKeeps
  <2>5. LinksOK'
    BY <1>0, <2>1, <2>3, <2>4 DEF LinksOK
  <2>. QED
    BY <1>1, <2>4, <2>5 DEF IInv, TypeOK
<1>. QED
  BY <1>2, <1>3

(* A dial begins, tries again, or does so after it was forgotten.          *)
LEMMA DialStep ==
    ASSUME IInv, NEW d \in Desktops, DialStarts(d) \/ DialRetries(d) \/ DriftRetries(d)
    PROVE  IInv'
<1>1. /\ dial \in [Desktops -> {"none", "making", "waiting"}] /\ adrift \subseteq Desktops
  BY DEF IInv, TypeOK, LinksOK
<1>2. /\ Turn(d, "dial") \/ Turn(d, "stray")
      /\ dial' \in [Desktops -> {"none", "making", "waiting"}] /\ adrift' \subseteq Desktops
  BY <1>1 DEF DialStarts, DialRetries, DriftRetries
<1>. QED
  BY <1>2, TurnKeeps

(* A peer is made: the one it takes the place of is reached no more, which *)
(* only happens where two calls overlapped.                                *)
LEMMA PeerMadeKeeps ==
    ASSUME IInv, NEW d \in Desktops, NEW why \in making[d], PeerMade(d, why)
    PROVE  IInv'
<1>. DEFINE h == CHOOSE x \in Handles : peers[x].state = "unused"
            p == [of |-> {d}, state |-> "connecting"]
<1>1. /\ h \in Handles /\ peers[h].state = "unused"
      /\ peers' = [peers EXCEPT ![h] = p] /\ channels' = [channels EXCEPT ![d] = h]
      /\ making' = [making EXCEPT ![d] = @ \ {why}]
      /\ dial' = IF why = "dial" THEN [dial EXCEPT ![d] = "waiting"] ELSE dial
      /\ adrift' = IF why = "stray" THEN adrift \cup {d} ELSE adrift
      /\ Shown(d, "connecting") /\ UNCHANGED <<ping, overlapped>> /\ Spend("peers")
  BY DEF PeerMade
<1>. HIDE DEF h
<1>2. ListsOK' /\ GhostsOK' /\ WiresOK' /\ Started' /\ Copies'
  BY <1>1, ShownOK
<1>3. left' \in [Budgets -> Nat]
  BY <1>1, SpendOK DEF IInv, TypeOK, Budgets
<1>4. h \in 0..MaxPeers /\ h # 0
  BY <1>1, SessionsAssumption DEF Handles
<1>5. LinksOK'
  <2>1. channels' \in [Desktops -> 0..MaxPeers]
    BY <1>1, <1>4 DEF IInv, TypeOK, LinksOK
  <2>2. making' \in [Desktops -> SUBSET {"dial", "signal", "stray"}]
    BY <1>1 DEF IInv, TypeOK, LinksOK
  <2>3. p \in [of : SUBSET Desktops,
               state : {"unused", "connecting", "connected", "failed", "closed"}]
    OBVIOUS
  <2>4. peers' \in [Handles -> [of : SUBSET Desktops,
                    state : {"unused", "connecting", "connected", "failed", "closed"}]]
    BY <1>1, <2>3 DEF IInv, TypeOK, LinksOK
  <2>5. dial' \in [Desktops -> {"none", "making", "waiting"}]
    BY <1>1 DEF IInv, TypeOK, LinksOK
  <2>. QED
    BY <1>1, <2>1, <2>2, <2>4, <2>5 DEF IInv, TypeOK, LinksOK
<1>6. ASSUME NEW e \in Desktops \ overlapped'  PROVE Alone(e)'
  <2>1. Alone(e)
    BY <1>1 DEF IInv, Peers
  <2>2. CASE e = d
    <3>1. making'[d] = {}
      BY <1>1, <2>1, <2>2 DEF Alone, IInv, TypeOK, LinksOK
    <3>. QED
      BY <2>2, <3>1 DEF Alone
  <2>3. CASE e # d
    <3>1. making'[e] = making[e] /\ channels'[e] = channels[e]
      BY <1>1, <2>3 DEF IInv, TypeOK, LinksOK
    <3>. QED
      BY <2>1, <3>1 DEF Alone
  <2>. QED
    BY <2>2, <2>3
<1>7. ASSUME NEW g \in Handles, Live(g)'  PROVE Reach(g)'
  <2>1. CASE g = h
    <3>1. peers'[g].of = {d} /\ channels'[d] = g
      BY <1>1, <2>1 DEF IInv, TypeOK, LinksOK
    <3>. QED
      BY <3>1 DEF Reach
  <2>2. CASE g # h
    <3>1. peers'[g] = peers[g]
      BY <1>1, <2>2 DEF IInv, TypeOK, LinksOK
    <3>2. Reach(g)
      BY <1>7, <3>1 DEF IInv, Peers, Live
    <3>3. PICK e \in peers[g].of : channels[e] = g \/ e \in overlapped
      BY <3>2 DEF Reach
    <3>4. e \in Desktops
      BY DEF IInv, TypeOK, LinksOK
    <3>5. CASE e \in overlapped
      BY <1>1, <3>1, <3>5 DEF Reach
    <3>6. CASE e \notin overlapped
      <4>1. channels[e] = g /\ g # 0
        BY <3>3, <3>6, SessionsAssumption DEF Handles
      <4>2. making[e] = {}
        BY <3>4, <3>6, <4>1 DEF IInv, Peers, Alone
      <4>3. e # d
        BY <4>2
      <4>4. channels'[e] = g
        BY <1>1, <3>4, <4>1, <4>3 DEF IInv, TypeOK, LinksOK
      <4>. QED
        BY <3>1, <4>4 DEF Reach
    <3>. QED
      BY <3>5, <3>6
  <2>. QED
    BY <2>1, <2>2
<1>. QED
  BY <1>2, <1>3, <1>5, <1>6, <1>7 DEF IInv, TypeOK, Peers

(* The other ends of making a peer, and what becomes of one.               *)
LEMMA PeerStep ==
    ASSUME IInv,
           \/ \E d \in Desktops : DialEnds(d) \/ \E why \in making[d] : MakingFails(d, why)
           \/ \E h \in Handles, state \in {"connected", "failed"} : PeerMoves(h, state)
    PROVE  IInv'
<1>1. ASSUME NEW d \in Desktops, DialEnds(d)  PROVE IInv'
  <2>1. /\ UNCHANGED <<lists, peers, channels, making, adrift, ping, overlapped, wires, ghosts, left>>
        /\ dial' = [dial EXCEPT ![d] = "none"]
    BY <1>1 DEF DialEnds
  <2>2. ListsOK' /\ GhostsOK' /\ WiresOK' /\ Started' /\ Copies' /\ left' \in [Budgets -> Nat]
    BY <2>1, QuietKeeps DEF IInv, TypeOK
  <2>3. LinksOK'
    BY <2>1 DEF IInv, TypeOK, LinksOK
  <2>4. Peers'
    BY <2>1 DEF IInv, Peers, Alone, Reach, Live
  <2>. QED
    BY <2>2, <2>3, <2>4 DEF IInv, TypeOK
<1>2. ASSUME NEW d \in Desktops, NEW why \in making[d], MakingFails(d, why)  PROVE IInv'
  <2>1. /\ making' = [making EXCEPT ![d] = @ \ {why}]
        /\ dial' = IF why = "dial" THEN [dial EXCEPT ![d] = "none"] ELSE dial
        /\ Shown(d, "failed") /\ UNCHANGED <<peers, channels, adrift, ping, overlapped, left>>
    BY <1>2 DEF MakingFails
  <2>2. ListsOK' /\ GhostsOK' /\ WiresOK' /\ Started' /\ Copies' /\ left' \in [Budgets -> Nat]
    BY <2>1, ShownOK DEF IInv, TypeOK
  <2>3. LinksOK'
    BY <2>1 DEF IInv, TypeOK, LinksOK
  <2>4. \A e \in Desktops : making'[e] \subseteq making[e]
    BY <2>1 DEF IInv, TypeOK, LinksOK
  <2>5. ASSUME NEW e \in Desktops \ overlapped'  PROVE Alone(e)'
    BY <2>1, <2>4 DEF IInv, Peers, Alone
  <2>6. ASSUME NEW h \in Handles, Live(h)'  PROVE Reach(h)'
    BY <2>1, <2>6 DEF IInv, Peers, Live, Reach
  <2>. QED
    BY <2>2, <2>3, <2>5, <2>6 DEF IInv, TypeOK, Peers
<1>3. ASSUME NEW h \in Handles, NEW state \in {"connected", "failed"}, PeerMoves(h, state)
      PROVE  IInv'
  <2>. DEFINE p == [peers[h] EXCEPT !.state = state]
  <2>1. /\ Live(h) /\ peers' = [peers EXCEPT ![h] = p]
        /\ UNCHANGED <<channels, making, dial, adrift, ping, overlapped, left>>
    BY <1>3 DEF PeerMoves
  <2>2. PICK d \in peers[h].of : Shown(d, state)
    BY <1>3 DEF PeerMoves
  <2>3. peers[h] \in [of : SUBSET Desktops,
                      state : {"unused", "connecting", "connected", "failed", "closed"}]
    BY DEF IInv, TypeOK, LinksOK
  <2>4. ListsOK' /\ GhostsOK' /\ WiresOK' /\ Started' /\ Copies' /\ left' \in [Budgets -> Nat]
    <3>1. d \in Desktops
      BY <2>3
    <3>. QED
      BY <2>1, <2>2, <3>1, ShownOK DEF IInv, TypeOK
  <2>5. /\ p.of = peers[h].of
        /\ p \in [of : SUBSET Desktops,
                  state : {"unused", "connecting", "connected", "failed", "closed"}]
    BY <2>3
  <2>. HIDE DEF p
  <2>6. LinksOK'
    BY <2>1, <2>5 DEF IInv, TypeOK, LinksOK
  <2>7. ASSUME NEW g \in Handles, Live(g)'  PROVE Reach(g)'
    <3>1. Live(g) /\ peers'[g].of = peers[g].of
      BY <2>1, <2>5, <2>7 DEF IInv, TypeOK, LinksOK, Live
    <3>. QED
      BY <2>1, <3>1 DEF IInv, Peers, Reach
  <2>8. ASSUME NEW e \in Desktops \ overlapped'  PROVE Alone(e)'
    BY <2>1 DEF IInv, Peers, Alone
  <2>. QED
    BY <2>4, <2>6, <2>7, <2>8 DEF IInv, TypeOK, Peers
<1>. QED
  BY <1>1, <1>2, <1>3

(* A probe of the link marks the session, and unmarks it.                  *)
LEMMA ProbeStep ==
    ASSUME IInv, Probes
    PROVE  IInv'
<1>0. ASSUME NEW d \in Desktops
      PROVE  /\ ping[d].sending \in 0..MaxProbes /\ ping[d].pending \in BOOLEAN
             /\ ping[d].sending < MaxProbes => ping[d].sending + 1 \in 0..MaxProbes
             /\ ping[d].sending > 0 => ping[d].sending - 1 \in 0..MaxProbes
  BY DEF IInv, TypeOK, LinksOK, Pings, MaxProbes
<1>1. PICK d \in Desktops, n \in 0..MaxProbes, waits \in BOOLEAN, flag \in BOOLEAN :
          Probing(d, n, waits, flag)
  BY <1>0 DEF Probes, ProbeStarts, ProbeSent, ProbeFails, ProbeEnds, LatePong
<1>. DEFINE t == [sessions[d] EXCEPT !.probing = flag]
<1>2. /\ ping' = [ping EXCEPT ![d] = [sending |-> n, pending |-> waits]] /\ dirty' = TRUE
      /\ sessions' = IF sessions[d].trust = "none" THEN sessions ELSE [sessions EXCEPT ![d] = t]
      /\ UNCHANGED <<saved, loaded, refreshes, scan, peers, channels, making, dial, adrift, overlapped,
                     wires, ghosts, left>>
  BY <1>1 DEF Probing
<1>3. sessions \in Lists /\ sessions[d] \in Session
  BY DEF IInv, TypeOK, ListsOK, Lists
<1>4. t \in Session /\ t.trust = sessions[d].trust
  BY <1>3 DEF Session
<1>. HIDE DEF t
<1>5. /\ [sessions EXCEPT ![d] = t] \in Lists
      /\ \A e \in Desktops : [sessions EXCEPT ![d] = t][e].trust = sessions[e].trust
  BY <1>3, <1>4, ChangedList
<1>6. sessions' \in Lists /\ \A e \in Desktops : sessions'[e].trust = sessions[e].trust
  BY <1>2, <1>3, <1>5
<1>7. ListsOK' /\ GhostsOK' /\ WiresOK' /\ Started' /\ Copies'
  BY <1>2, <1>6, ShownKeeps DEF ghosts
<1>8. LinksOK'
  BY <1>2 DEF IInv, TypeOK, LinksOK, Pings
<1>9. Peers'
  BY <1>2 DEF IInv, Peers, Alone, Reach, Live
<1>. QED
  BY <1>2, <1>7, <1>8, <1>9 DEF IInv, TypeOK

-----------------------------------------------------------------------------
(* Steps that change the trust.                                            *)

(* No call in flight holds an older session of a desktop that did not race.*)
LEMMA NotHeld ==
    ASSUME IInv, NEW d \in Desktops, Races(d), d \notin raced'
    PROVE  scan.of = {} /\ \A r \in Slots : refreshes[r].base[d].trust = "none"
<1>1. ~Held(d)
  BY DEF Races
<1>. QED
  BY <1>1 DEF Held, IInv, Started

(* What raced stays so.                                                    *)
LEMMA RacesOK ==
    ASSUME GhostsOK, NEW d \in Desktops, Races(d)
    PROVE  raced \subseteq raced' /\ raced' \subseteq Desktops
BY DEF Races, GhostsOK

(* A session is removed, and its peer closed.                              *)
LEMMA RemoveKeeps ==
    ASSUME IInv, NEW d \in Desktops, loaded, Remove(d), UNCHANGED stream
    PROVE  ListsOK' /\ LinksOK' /\ GhostsOK' /\ Started' /\ Copies' /\ Peers'
<1>1. /\ ClosePeers({d}) /\ Forget({d})
      /\ sessions' = [sessions EXCEPT ![d] = Absent] /\ dirty' = TRUE /\ Races(d)
      /\ removed' = removed \cup {d} /\ approved' = approved \ {d}
      /\ UNCHANGED <<saved, loaded, refreshes, scan, overlapped>>
  BY DEF Remove, Unlisted
<1>2. LinksOK' /\ Peers'
  BY <1>1, ClosingKeeps DEF IInv, TypeOK
<1>3. /\ sessions' \in Lists /\ sessions'[d].trust = "none"
      /\ \A e \in Desktops \ {d} : sessions'[e] = sessions[e]
  BY <1>1, AbsentSession DEF IInv, TypeOK, ListsOK, Lists
<1>4. ListsOK'
  BY <1>1, <1>3 DEF IInv, TypeOK, ListsOK
<1>5. raced \subseteq raced' /\ GhostsOK'
  BY <1>1, RacesOK DEF IInv, TypeOK, GhostsOK
<1>6. Started'
  BY <1>1 DEF IInv, Started
<1>7. ASSUME NEW e \in approved' \ raced'  PROVE Kept(e)'
  <2>1. e \in Desktops \ {d} /\ Kept(e)
    BY <1>1, <1>5 DEF IInv, Copies, TypeOK, GhostsOK
  <2>. QED
    BY <1>1, <1>3, <2>1 DEF Kept
<1>8. ASSUME NEW e \in removed' \ raced'  PROVE Gone(e)'
  <2>1. CASE e = d
    <3>1. scan.of = {} /\ \A r \in Slots : refreshes[r].base[d].trust = "none"
      BY <1>1, <1>8, <2>1, NotHeld
    <3>. QED
      BY <1>1, <1>3, <2>1, <3>1 DEF Gone
  <2>2. CASE e # d
    <3>1. e \in Desktops \ {d} /\ Gone(e)
      BY <1>1, <1>5, <2>2 DEF IInv, Copies, TypeOK, GhostsOK
    <3>. QED
      BY <1>1, <1>3, <3>1 DEF Gone
  <2>. QED
    BY <2>1, <2>2
<1>. QED
  BY <1>2, <1>4, <1>5, <1>6, <1>7, <1>8 DEF Copies

(* A binding is revoked: its session stays, with a trust of its own.       *)
LEMMA RevokedKeeps ==
    ASSUME IInv, NEW d \in Desktops, loaded, Revoked(d), UNCHANGED stream
    PROVE  ListsOK' /\ LinksOK' /\ GhostsOK' /\ Started' /\ Copies' /\ Peers'
<1>. DEFINE S == Disconnected(sessions, {d})
            s == [S[d] EXCEPT !.trust = "revoked", !.online = FALSE]
<1>1. /\ ClosePeers({d}) /\ Forget({d})
      /\ sessions' = IF sessions[d].trust = "none" THEN sessions ELSE [sessions EXCEPT ![d] = s]
      /\ dirty' = TRUE /\ Races(d) /\ approved' = approved \ {d}
      /\ UNCHANGED <<saved, loaded, refreshes, scan, overlapped, removed>>
  BY DEF Revoked, RevokedSession
<1>2. LinksOK' /\ Peers'
  BY <1>1, ClosingKeeps DEF IInv, TypeOK
<1>3. sessions \in Lists /\ S \in Lists
  BY DisconnectedList DEF IInv, TypeOK, ListsOK
<1>4. s \in Session
  <2>1. S[d] \in Session
    BY <1>3 DEF Lists
  <2>. HIDE DEF S
  <2>. QED
    BY <2>1 DEF Session, Trusts
<1>. HIDE DEF S, s
<1>5. /\ sessions' \in Lists /\ \A e \in Desktops \ {d} : sessions'[e] = sessions[e]
      /\ sessions[d].trust = "none" => sessions'[d].trust = "none"
  BY <1>1, <1>3, <1>4 DEF Lists
<1>6. ListsOK'
  BY <1>1, <1>5 DEF IInv, TypeOK, ListsOK
<1>7. raced \subseteq raced' /\ GhostsOK'
  BY <1>1, RacesOK DEF IInv, TypeOK, GhostsOK
<1>8. Started'
  BY <1>1 DEF IInv, Started
<1>9. ASSUME NEW e \in approved' \ raced'  PROVE Kept(e)'
  <2>1. e \in Desktops \ {d} /\ Kept(e)
    BY <1>1, <1>7 DEF IInv, Copies, TypeOK, GhostsOK
  <2>. QED
    BY <1>1, <1>5, <2>1 DEF Kept
<1>10. ASSUME NEW e \in removed' \ raced'  PROVE Gone(e)'
  <2>1. e \in Desktops /\ Gone(e)
    BY <1>1, <1>7 DEF IInv, Copies, TypeOK, GhostsOK
  <2>2. sessions'[e].trust = "none"
    BY <1>5, <2>1 DEF Gone
  <2>. QED
    BY <1>1, <2>1, <2>2 DEF Gone
<1>. QED
  BY <1>2, <1>6, <1>7, <1>8, <1>9, <1>10 DEF Copies

(* An approval reaches the app.                                            *)
LEMMA ApprovedKeeps ==
    ASSUME IInv, NEW d \in Desktops, loaded, Approved(d), UNCHANGED stream
    PROVE  ListsOK' /\ LinksOK' /\ GhostsOK' /\ Started' /\ Copies' /\ Peers'
<1>. DEFINE s == [sessions[d] EXCEPT !.trust = "active", !.online = TRUE]
<1>1. /\ sessions' = IF sessions[d].trust = "none" THEN sessions
                     ELSE [sessions EXCEPT ![d].trust = "active", ![d].online = TRUE]
      /\ Refresh /\ dirty' = TRUE /\ Races(d)
      /\ approved' = approved \cup (IF sessions[d].trust = "none" /\ scan.of # {d} THEN {} ELSE {d})
      /\ UNCHANGED <<saved, loaded, scan, links, removed>>
  BY DEF Approved, ApprovedSession
<1>2. sessions \in Lists /\ sessions[d] \in Session
  BY DEF IInv, TypeOK, ListsOK, Lists
<1>3. s \in Session /\ s.trust = "active"
  BY <1>2 DEF Session, Trusts
<1>4. sessions[d].trust # "none" => sessions' = [sessions EXCEPT ![d] = s]
  BY <1>1, <1>2 DEF Lists
<1>. HIDE DEF s
<1>5. /\ sessions' \in Lists /\ \A e \in Desktops \ {d} : sessions'[e] = sessions[e]
      /\ sessions[d].trust = "none" => sessions'[d].trust = "none"
      /\ sessions[d].trust # "none" => sessions'[d].trust = "active"
  <2>1. CASE sessions[d].trust = "none"
    BY <1>1, <1>2, <2>1
  <2>2. CASE sessions[d].trust # "none"
    BY <1>2, <1>3, <1>4, <2>2 DEF Lists
  <2>. QED
    BY <2>1, <2>2
<1>6. /\ refreshes' \in [Slots -> [open : BOOLEAN, base : Lists]]
      /\ \A r \in Slots : \/ refreshes'[r] = refreshes[r]
                          \/ refreshes'[r].open /\ refreshes'[r].base = sessions'
  BY <1>1, <1>5, RefreshHolds DEF IInv, TypeOK
<1>7. ListsOK'
  BY <1>1, <1>5, <1>6 DEF IInv, TypeOK, ListsOK
<1>8. LinksOK' /\ Peers'
  BY <1>1, LinksKeep DEF links
<1>9. raced \subseteq raced' /\ GhostsOK'
  BY <1>1, RacesOK DEF IInv, TypeOK, GhostsOK
<1>10. Started'
  BY <1>1, <1>6 DEF IInv, Started
<1>11. ASSUME NEW e \in approved' \ raced'  PROVE Kept(e)'
  <2>1. CASE e = d
    <3>1. scan.of = {} /\ \A r \in Slots : refreshes[r].base[d].trust = "none"
      BY <1>1, <1>11, <2>1, NotHeld
    <3>2. sessions'[d].trust = "active"
      <4>1. CASE sessions[d].trust # "none"
        BY <1>5, <4>1
      <4>2. CASE sessions[d].trust = "none"
        <5>1. d \in approved
          BY <1>1, <1>11, <2>1, <3>1, <4>2
        <5>2. Kept(d)
          BY <1>9, <1>11, <2>1, <5>1 DEF IInv, Copies
        <5>. QED
          BY <4>2, <5>2 DEF Kept
      <4>. QED
        BY <4>1, <4>2
    <3>3. \A r \in Slots : refreshes'[r].base[d].trust \in {"none", "active"}
      BY <1>6, <3>1, <3>2
    <3>. QED
      BY <1>1, <2>1, <3>1, <3>2, <3>3 DEF Kept
  <2>2. CASE e # d
    <3>1. e \in Desktops \ {d} /\ Kept(e)
      BY <1>1, <1>9, <1>11, <2>2 DEF IInv, Copies, TypeOK, GhostsOK
    <3>2. sessions'[e].trust = "active"
      BY <1>5, <3>1 DEF Kept
    <3>3. \A r \in Slots : refreshes'[r].base[e].trust \in {"none", "active"}
      BY <1>6, <3>1, <3>2 DEF Kept
    <3>. QED
      BY <1>1, <3>1, <3>2, <3>3 DEF Kept
  <2>. QED
    BY <2>1, <2>2
<1>12. ASSUME NEW e \in removed' \ raced'  PROVE Gone(e)'
  <2>1. e \in Desktops /\ Gone(e)
    BY <1>1, <1>9 DEF IInv, Copies, TypeOK, GhostsOK
  <2>2. sessions'[e].trust = "none"
    BY <1>5, <2>1 DEF Gone
  <2>3. \A r \in Slots : refreshes'[r].base[e].trust = "none"
    BY <1>6, <2>1, <2>2 DEF Gone
  <2>. QED
    BY <1>1, <2>1, <2>2, <2>3 DEF Gone
<1>. QED
  BY <1>7, <1>8, <1>9, <1>10, <1>11, <1>12 DEF Copies

(* An offer finds a session, and may want a peer, or makes the app refresh.*)
LEMMA OfferedKeeps ==
    ASSUME IInv, NEW d \in Desktops, loaded, Offered(d), UNCHANGED stream
    PROVE  ListsOK' /\ LinksOK' /\ GhostsOK' /\ Started' /\ Copies' /\ Peers'
<1>1. /\ UNCHANGED <<sessions, saved, loaded, scan, dirty, peers, channels, dial, adrift, ping>>
      /\ UNCHANGED <<approved, removed, raced>>
      /\ Refresh \/ UNCHANGED refreshes
      /\ \/ UNCHANGED <<making, overlapped>>
         \/ channels[d] = 0 /\ Wanted(d, "signal")
  BY DEF Offered, ghosts
<1>2. sessions' \in Lists /\ dirty' \in BOOLEAN
  BY <1>1 DEF IInv, TypeOK, ListsOK
<1>3. /\ refreshes' \in [Slots -> [open : BOOLEAN, base : Lists]]
      /\ \A r \in Slots : \/ refreshes'[r] = refreshes[r]
                          \/ refreshes'[r].open /\ refreshes'[r].base = sessions'
  <2>1. CASE Refresh
    BY <1>2, <2>1, RefreshHolds DEF IInv, TypeOK
  <2>2. CASE UNCHANGED refreshes
    BY <2>2 DEF IInv, TypeOK, ListsOK
  <2>. QED
    BY <1>1, <2>1, <2>2
<1>4. ListsOK' /\ GhostsOK' /\ Started' /\ Copies'
  BY <1>1, <1>2, <1>3, SteadyKeeps DEF IInv, TypeOK
<1>5. CASE UNCHANGED <<making, overlapped>>
  BY <1>1, <1>4, <1>5, LinksKeep
<1>6. CASE channels[d] = 0 /\ Wanted(d, "signal")
  <2>1. /\ making' \in [Desktops -> SUBSET {"dial", "signal", "stray"}]
        /\ overlapped' \subseteq Desktops /\ Peers'
    BY <1>1, <1>6, WantedKeeps DEF IInv, TypeOK
  <2>2. LinksOK'
    BY <1>1, <2>1 DEF IInv, TypeOK, LinksOK
  <2>. QED
    BY <1>4, <2>1, <2>2
<1>. QED
  BY <1>1, <1>5, <1>6

(* A signal is handled.                                                    *)
LEMMA ReceiveKeeps ==
    ASSUME IInv, Receive
    PROVE  IInv'
<1>. DEFINE e == Head(inbox)
<1>1. /\ stream = "open" /\ inbox # <<>> /\ inbox' = Tail(inbox)
      /\ UNCHANGED <<stream, bound, left>>
      /\ \/ Approved(e.of) \/ Revoked(e.of) \/ Offered(e.of)
         \/ sessions[e.of].trust # "none" /\ Remove(e.of)
  BY DEF Receive
<1>2. inbox \in Seq(Signal)
  BY DEF IInv, TypeOK, WiresOK
<1>3. e \in Signal /\ Tail(inbox) \in Seq(Signal)
  BY <1>1, <1>2
<1>4. WiresOK' /\ left' \in [Budgets -> Nat]
  BY <1>1, <1>3 DEF IInv, TypeOK, WiresOK
<1>5. loaded
  BY <1>1 DEF IInv, Started, TypeOK, ListsOK
<1>. HIDE DEF e
<1>6. e.of \in Desktops
  BY <1>3 DEF Signal
<1>7. ListsOK' /\ LinksOK' /\ GhostsOK' /\ Started' /\ Copies' /\ Peers'
  BY <1>1, <1>5, <1>6, ApprovedKeeps, RevokedKeeps, OfferedKeeps, RemoveKeeps
<1>. QED
  BY <1>4, <1>7 DEF IInv, TypeOK

(* The user removes a session.                                             *)
LEMMA RemoveSessionKeeps ==
    ASSUME IInv, NEW d \in Desktops, RemoveSession(d)
    PROVE  IInv'
<1>1. sessions[d].trust # "none" /\ Spend("removals") /\ Remove(d) /\ UNCHANGED <<stream, inbox, bound>>
  BY DEF RemoveSession, wires
<1>2. loaded
  BY <1>1 DEF IInv, Started
<1>3. ListsOK' /\ LinksOK' /\ GhostsOK' /\ Started' /\ Copies' /\ Peers'
  BY <1>1, <1>2, RemoveKeeps
<1>4. WiresOK'
  BY <1>1 DEF IInv, TypeOK, WiresOK
<1>5. left' \in [Budgets -> Nat]
  BY <1>1, SpendOK DEF IInv, TypeOK, Budgets
<1>. QED
  BY <1>3, <1>4, <1>5 DEF IInv, TypeOK

(* The stored list becomes the list shown.                                 *)
LEMMA BootstrapKeeps ==
    ASSUME IInv, Bootstrap
    PROVE  IInv'
<1>1. /\ ~loaded /\ loaded' = TRUE /\ dirty' = TRUE /\ sessions' = Stored(saved) /\ Refresh
      /\ UNCHANGED <<saved, scan, links, wires, ghosts, left>>
  BY DEF Bootstrap
<1>2. sessions' \in Lists /\ \A d \in Desktops : sessions'[d].trust = saved[d]
  BY <1>1, StoredList DEF IInv, TypeOK, ListsOK
<1>3. /\ refreshes' \in [Slots -> [open : BOOLEAN, base : Lists]]
      /\ \A r \in Slots : \/ refreshes'[r] = refreshes[r]
                          \/ refreshes'[r].open /\ refreshes'[r].base = sessions'
  BY <1>1, <1>2, RefreshHolds DEF IInv, TypeOK
<1>4. TypeOK'
  <2>1. LinksOK'
    BY <1>1, LinksKeep DEF links
  <2>2. ListsOK'
    BY <1>1, <1>2, <1>3 DEF IInv, TypeOK, ListsOK
  <2>3. WiresOK' /\ GhostsOK'
    BY <1>1 DEF IInv, TypeOK, WiresOK, GhostsOK, wires, ghosts
  <2>. QED
    BY <1>1, <2>1, <2>2, <2>3 DEF IInv, TypeOK
<1>5. Started'
  BY <1>1, <1>3 DEF IInv, Started
<1>6. ASSUME NEW d \in approved' \ raced'  PROVE Kept(d)'
  <2>1. d \in Desktops /\ Kept(d)
    BY <1>1 DEF IInv, Copies, TypeOK, GhostsOK, ghosts
  <2>2. sessions'[d].trust = "active"
    BY <1>1, <1>2, <2>1 DEF Kept
  <2>3. \A r \in Slots : refreshes'[r].base[d].trust \in {"none", "active"}
    BY <1>3, <2>1, <2>2 DEF Kept
  <2>. QED
    BY <1>1, <2>1, <2>2, <2>3 DEF Kept
<1>7. ASSUME NEW d \in removed' \ raced'  PROVE Gone(d)'
  <2>1. d \in Desktops /\ Gone(d)
    BY <1>1 DEF IInv, Copies, TypeOK, GhostsOK, ghosts
  <2>2. sessions'[d].trust = "none"
    BY <1>1, <1>2, <2>1 DEF Gone
  <2>3. \A r \in Slots : refreshes'[r].base[d].trust = "none"
    BY <1>3, <2>1, <2>2 DEF Gone
  <2>. QED
    BY <1>1, <2>1, <2>2, <2>3 DEF Gone
<1>8. Peers'
  BY <1>1, LinksKeep DEF links
<1>. QED
  BY <1>4, <1>5, <1>6, <1>7, <1>8 DEF IInv, Copies

(* The effect of a list saves it.                                          *)
LEMMA EffectKeeps ==
    ASSUME IInv, Effect
    PROVE  IInv'
<1>1. /\ loaded /\ saved' = TrustOf(sessions) /\ dirty' \in BOOLEAN /\ Reconcile(sessions)
      /\ UNCHANGED <<loaded, refreshes, scan, ghosts, left>>
  BY DEF Effect
<1>2. /\ sessions' \in Lists /\ \A d \in Desktops : sessions'[d].trust = sessions[d].trust
      /\ LinksOK' /\ WiresOK' /\ Peers'
  BY <1>1, Reconciled DEF IInv, TypeOK, ListsOK
<1>3. saved' \in [Desktops -> Trusts] /\ \A d \in Desktops : saved'[d] = sessions[d].trust
  BY <1>1, TrustsOfList DEF IInv, TypeOK, ListsOK
<1>4. TypeOK'
  BY <1>1, <1>2, <1>3 DEF IInv, TypeOK, ListsOK, GhostsOK, ghosts
<1>5. Started'
  BY <1>1 DEF IInv, Started
<1>6. ASSUME NEW d \in approved' \ raced'  PROVE Kept(d)'
  <2>1. d \in Desktops /\ Kept(d)
    BY <1>1 DEF IInv, Copies, TypeOK, GhostsOK, ghosts
  <2>. QED
    BY <1>1, <1>2, <2>1 DEF Kept
<1>7. ASSUME NEW d \in removed' \ raced'  PROVE Gone(d)'
  <2>1. d \in Desktops /\ Gone(d)
    BY <1>1 DEF IInv, Copies, TypeOK, GhostsOK, ghosts
  <2>. QED
    BY <1>1, <1>2, <1>3, <2>1 DEF Gone
<1>. QED
  BY <1>2, <1>4, <1>5, <1>6, <1>7 DEF IInv, Copies

(* A refresh ends: it saves its own list, and shows it merged.             *)
LEMMA RefreshEndsKeeps ==
    ASSUME IInv, NEW q \in Slots, RefreshEnds(q)
    PROVE  IInv'
<1>1. PICK on \in SUBSET Desktops :
        LET new == [d \in Desktops |-> Refreshed(refreshes[q].base[d], d \in on)]
        IN  saved' = TrustOf(new) /\ Reconcile(Merge(sessions, new))
  BY DEF RefreshEnds
<1>. DEFINE new == [d \in Desktops |-> Refreshed(refreshes[q].base[d], d \in on)]
<1>2. /\ refreshes[q].open /\ dirty' = TRUE /\ refreshes' = [refreshes EXCEPT ![q] = Closed]
      /\ UNCHANGED <<loaded, scan, ghosts, left>>
  BY DEF RefreshEnds
<1>3. loaded
  BY <1>2 DEF IInv, Started
<1>4. sessions \in Lists /\ refreshes[q].base \in Lists
  BY DEF IInv, TypeOK, ListsOK
<1>5. new \in Lists /\ \A d \in Desktops : new[d].trust = refreshes[q].base[d].trust
  BY <1>4, RefreshedList
<1>6. saved' = TrustOf(new) /\ Reconcile(Merge(sessions, new))
  BY <1>1
<1>. HIDE DEF new
<1>7. /\ Merge(sessions, new) \in Lists
      /\ \A d \in Desktops : Merge(sessions, new)[d].trust =
            IF new[d].trust # "none" THEN new[d].trust ELSE sessions[d].trust
  BY <1>4, <1>5, MergedList
<1>8. /\ sessions' \in Lists
      /\ \A d \in Desktops : sessions'[d].trust = Merge(sessions, new)[d].trust
      /\ LinksOK' /\ WiresOK' /\ Peers'
  BY <1>6, <1>7, Reconciled DEF IInv, TypeOK
<1>9. saved' \in [Desktops -> Trusts] /\ \A d \in Desktops : saved'[d] = new[d].trust
  BY <1>5, <1>6, TrustsOfList
<1>10. /\ Closed \in [open : BOOLEAN, base : Lists] /\ ~Closed.open
       /\ \A d \in Desktops : Closed.base[d].trust = "none"
  BY AbsentSession DEF Closed, Lists
<1>11. /\ refreshes' \in [Slots -> [open : BOOLEAN, base : Lists]]
       /\ \A r \in Slots, d \in Desktops :
             refreshes'[r].base[d].trust \in {"none", refreshes[r].base[d].trust}
       /\ \A r \in Slots : refreshes'[r] = refreshes[r] \/ refreshes'[r] = Closed
  BY <1>2, <1>10 DEF IInv, TypeOK, ListsOK
<1>12. TypeOK'
  BY <1>2, <1>8, <1>9, <1>11 DEF IInv, TypeOK, ListsOK, GhostsOK, ghosts
<1>13. Started'
  BY <1>2, <1>3, <1>10, <1>11 DEF IInv, Started
<1>14. ASSUME NEW d \in approved' \ raced'  PROVE Kept(d)'
  <2>1. d \in Desktops /\ Kept(d)
    BY <1>2 DEF IInv, Copies, TypeOK, GhostsOK, ghosts
  <2>2. sessions'[d].trust = "active"
    <3>1. new[d].trust \in {"none", "active"} /\ sessions[d].trust = "active"
      BY <1>3, <1>5, <2>1 DEF Kept
    <3>. QED
      BY <1>7, <1>8, <2>1, <3>1
  <2>3. \A r \in Slots : refreshes'[r].base[d].trust \in {"none", "active"}
    BY <1>11, <2>1 DEF Kept
  <2>. QED
    BY <1>2, <1>3, <2>1, <2>2, <2>3 DEF Kept
<1>15. ASSUME NEW d \in removed' \ raced'  PROVE Gone(d)'
  <2>1. d \in Desktops /\ Gone(d)
    BY <1>2 DEF IInv, Copies, TypeOK, GhostsOK, ghosts
  <2>2. sessions'[d].trust = "none" /\ saved'[d] = "none"
    <3>1. new[d].trust = "none" /\ sessions[d].trust = "none"
      BY <1>5, <2>1 DEF Gone
    <3>. QED
      BY <1>7, <1>8, <1>9, <2>1, <3>1
  <2>3. \A r \in Slots : refreshes'[r].base[d].trust = "none"
    BY <1>11, <2>1 DEF Gone
  <2>. QED
    BY <1>2, <2>1, <2>2, <2>3 DEF Gone
<1>. QED
  BY <1>8, <1>12, <1>13, <1>14, <1>15 DEF IInv, Copies

(* A scan reads the list.                                                  *)
LEMMA ScanStartsKeeps ==
    ASSUME IInv, NEW d \in Desktops, ScanStarts(d)
    PROVE  IInv'
<1>1. /\ loaded /\ Spend("scans") /\ scan' = [of |-> {d}, base |-> sessions]
      /\ bound' = [bound EXCEPT ![d] = "pending"]
      /\ UNCHANGED <<sessions, saved, loaded, refreshes, dirty, links, stream, inbox, ghosts>>
  BY DEF ScanStarts
<1>2. LinksOK' /\ Peers'
  BY <1>1, LinksKeep DEF links
<1>3. left' \in [Budgets -> Nat]
  BY <1>1, SpendOK DEF IInv, TypeOK, Budgets
<1>4. scan' \in [of : SUBSET Desktops, base : Lists]
  BY <1>1 DEF IInv, TypeOK, ListsOK
<1>5. ListsOK' /\ WiresOK' /\ GhostsOK'
  BY <1>1, <1>4 DEF IInv, TypeOK, ListsOK, WiresOK, GhostsOK, ghosts, Trusts
<1>6. Started'
  BY <1>1 DEF IInv, Started
<1>7. ASSUME NEW e \in approved' \ raced'  PROVE Kept(e)'
  <2>1. Kept(e)
    BY <1>1 DEF IInv, Copies, ghosts
  <2>2. scan'.base[e].trust = "active"
    BY <1>1, <2>1 DEF Kept
  <2>. QED
    BY <1>1, <2>1, <2>2 DEF Kept
<1>8. ASSUME NEW e \in removed' \ raced'  PROVE Gone(e)'
  <2>1. Gone(e)
    BY <1>1 DEF IInv, Copies, ghosts
  <2>2. scan'.base[e].trust = "none"
    BY <1>1, <2>1 DEF Gone
  <2>. QED
    BY <1>1, <2>1, <2>2 DEF Gone
<1>. QED
  BY <1>2, <1>3, <1>5, <1>6, <1>7, <1>8 DEF IInv, TypeOK, Copies

(* A scan ends: its list is shown and saved as it is.                      *)
LEMMA ScanEndsKeeps ==
    ASSUME IInv, ScanEnds
    PROVE  IInv'
<1>1. PICK d \in scan.of, on \in SUBSET Desktops :
        LET new == ScanResult(d, on)
        IN  /\ saved' = TrustOf(new) /\ Reconcile(new)
            /\ scan' = NoScan /\ dirty' = TRUE
            /\ removed' = removed \ {d}
            /\ approved' = IF d \in raced THEN approved ELSE approved \ {d}
            /\ UNCHANGED <<loaded, refreshes, raced, left>>
  BY DEF ScanEnds
<1>. DEFINE new == ScanResult(d, on)
<1>2. /\ saved' = TrustOf(new) /\ Reconcile(new) /\ scan' = NoScan /\ dirty' = TRUE
      /\ removed' = removed \ {d} /\ UNCHANGED <<loaded, refreshes, raced, left>>
      /\ approved' = IF d \in raced THEN approved ELSE approved \ {d}
  BY <1>1
<1>3. d \in Desktops /\ scan.of # {} /\ scan.base \in Lists /\ loaded
  BY DEF IInv, TypeOK, ListsOK, Started
<1>4. new \in Lists /\ \A e \in Desktops : e # d => new[e].trust = scan.base[e].trust
  BY <1>3, ScannedList
<1>. HIDE DEF new
<1>5. /\ sessions' \in Lists /\ \A e \in Desktops : sessions'[e].trust = new[e].trust
      /\ LinksOK' /\ WiresOK' /\ Peers'
  BY <1>2, <1>4, Reconciled DEF IInv, TypeOK
<1>6. saved' \in [Desktops -> Trusts] /\ \A e \in Desktops : saved'[e] = new[e].trust
  BY <1>2, <1>4, TrustsOfList
<1>7. NoScan \in [of : SUBSET Desktops, base : Lists] /\ NoScan.of = {}
  BY AbsentSession DEF NoScan, Lists
<1>8. TypeOK'
  <2>1. ListsOK'
    BY <1>2, <1>5, <1>6, <1>7 DEF IInv, TypeOK, ListsOK
  <2>2. GhostsOK'
    BY <1>2 DEF IInv, TypeOK, GhostsOK
  <2>. QED
    BY <1>2, <1>5, <2>1, <2>2 DEF IInv, TypeOK
<1>9. Started'
  BY <1>2, <1>3, <1>7 DEF IInv, Started
<1>10. ASSUME NEW e \in approved' \ raced'  PROVE Kept(e)'
  <2>1. e \in Desktops /\ e # d /\ Kept(e)
    BY <1>2, <1>10 DEF IInv, Copies, TypeOK, GhostsOK
  <2>2. sessions'[e].trust = scan.base[e].trust
    BY <1>4, <1>5, <2>1
  <2>3. scan.base[e].trust = "active"
    BY <1>3, <2>1 DEF Kept, IInv, Started
  <2>. QED
    BY <1>2, <1>3, <1>7, <2>1, <2>2, <2>3 DEF Kept
<1>11. ASSUME NEW e \in removed' \ raced'  PROVE Gone(e)'
  <2>1. e \in Desktops /\ e # d /\ Gone(e)
    BY <1>2 DEF IInv, Copies, TypeOK, GhostsOK
  <2>2. sessions'[e].trust = "none" /\ saved'[e] = "none"
    BY <1>3, <1>4, <1>5, <1>6, <2>1 DEF Gone
  <2>. QED
    BY <1>2, <1>7, <2>1, <2>2 DEF Gone
<1>. QED
  BY <1>5, <1>8, <1>9, <1>10, <1>11 DEF IInv, Copies

(* The app is stopped: what was shown but not yet saved raced.             *)
LEMMA RestartKeeps ==
    ASSUME IInv, Restart
    PROVE  IInv'
<1>1. /\ loaded /\ Spend("resets") /\ loaded' = FALSE /\ dirty' = FALSE /\ stream' = "none"
      /\ sessions' = [d \in Desktops |-> Absent] /\ refreshes' = [r \in Slots |-> Closed]
      /\ scan' = NoScan /\ UNCHANGED <<saved, inbox, bound, approved, removed, overlapped>>
      /\ raced' = raced \cup {d \in Desktops : saved[d] # sessions[d].trust}
  BY DEF Restart
<1>2. /\ peers' = [h \in Handles |-> IF Live(h) THEN [peers[h] EXCEPT !.state = "closed"] ELSE peers[h]]
      /\ channels' = [d \in Desktops |-> 0] /\ making' = [d \in Desktops |-> {}]
      /\ dial' = [d \in Desktops |-> "none"] /\ adrift' = {}
      /\ ping' = [d \in Desktops |-> NoPing]
  BY DEF Restart
<1>3. /\ sessions' \in Lists /\ \A d \in Desktops : sessions'[d].trust = "none"
      /\ scan' \in [of : SUBSET Desktops, base : Lists] /\ scan'.of = {}
      /\ refreshes' \in [Slots -> [open : BOOLEAN, base : Lists]]
      /\ \A r \in Slots : ~refreshes'[r].open
      /\ \A r \in Slots, d \in Desktops : refreshes'[r].base[d].trust = "none"
  <2>1. [d \in Desktops |-> Absent] \in Lists /\ \A d \in Desktops : [e \in Desktops |-> Absent][d].trust = "none"
    BY AbsentSession DEF Lists
  <2>2. /\ Closed \in [open : BOOLEAN, base : Lists] /\ ~Closed.open
        /\ Closed.base = [d \in Desktops |-> Absent]
    BY <2>1 DEF Closed
  <2>3. NoScan \in [of : SUBSET Desktops, base : Lists] /\ NoScan.of = {}
    BY <2>1 DEF NoScan
  <2>. QED
    BY <1>1, <2>1, <2>2, <2>3
<1>4. left' \in [Budgets -> Nat]
  BY <1>1, SpendOK DEF IInv, TypeOK, Budgets
<1>5. LinksOK'
  <2>1. ASSUME NEW h \in Handles
        PROVE  [peers[h] EXCEPT !.state = "closed"]
                  \in [of : SUBSET Desktops,
                       state : {"unused", "connecting", "connected", "failed", "closed"}]
    BY DEF IInv, TypeOK, LinksOK
  <2>2. peers' \in [Handles -> [of : SUBSET Desktops,
                    state : {"unused", "connecting", "connected", "failed", "closed"}]]
    BY <1>2, <2>1 DEF IInv, TypeOK, LinksOK
  <2>3. channels' \in [Desktops -> 0..MaxPeers]
    BY <1>2, SessionsAssumption
  <2>. QED
    BY <1>1, <1>2, <2>2, <2>3, NoPingOK DEF IInv, TypeOK, LinksOK, Pings
<1>6. TypeOK'
  <2>1. ListsOK'
    BY <1>1, <1>3 DEF IInv, TypeOK, ListsOK
  <2>2. WiresOK' /\ GhostsOK'
    BY <1>1 DEF IInv, TypeOK, WiresOK, GhostsOK
  <2>. QED
    BY <1>4, <1>5, <2>1, <2>2 DEF IInv, TypeOK
<1>7. Started'
  BY <1>1, <1>3 DEF IInv, Started
<1>8. ASSUME NEW d \in approved' \ raced'  PROVE Kept(d)'
  <2>1. d \in Desktops /\ Kept(d) /\ saved[d] = sessions[d].trust
    BY <1>1, <1>8 DEF IInv, Copies, TypeOK, GhostsOK
  <2>2. saved'[d] = "active"
    BY <1>1, <2>1 DEF Kept
  <2>. QED
    BY <1>1, <1>3, <2>1, <2>2 DEF Kept
<1>9. ASSUME NEW d \in removed' \ raced'  PROVE Gone(d)'
  <2>1. d \in Desktops /\ Gone(d) /\ saved[d] = sessions[d].trust
    BY <1>1, <1>9 DEF IInv, Copies, TypeOK, GhostsOK
  <2>2. saved'[d] = "none"
    BY <1>1, <2>1 DEF Gone
  <2>. QED
    BY <1>1, <1>3, <2>1, <2>2 DEF Gone
<1>10. Peers'
  <2>1. ASSUME NEW h \in Handles  PROVE ~Live(h)'
    <3>1. CASE Live(h)
      <4>1. peers'[h] = [peers[h] EXCEPT !.state = "closed"]
        BY <1>2, <3>1
      <4>2. peers'[h].state = "closed"
        BY <4>1 DEF IInv, TypeOK, LinksOK
      <4>. QED
        BY <4>2 DEF Live
    <3>2. CASE ~Live(h)
      BY <1>2, <3>2 DEF Live
    <3>. QED
      BY <3>1, <3>2
  <2>2. \A d \in Desktops : Alone(d)'
    BY <1>2 DEF Alone
  <2>. QED
    BY <2>1, <2>2 DEF Peers
<1>. QED
  BY <1>6, <1>7, <1>8, <1>9, <1>10 DEF IInv, Copies

-----------------------------------------------------------------------------
(* The theorems.                                                           *)

(* At the start nothing is loaded, trusted anew or in flight.              *)
LEMMA InitOK == Init => IInv
<1>. SUFFICES ASSUME Init  PROVE IInv
  OBVIOUS
<1>1. /\ loaded = FALSE /\ dirty = FALSE /\ stream = "none" /\ inbox = <<>>
      /\ refreshes = [r \in Slots |-> Closed] /\ scan = NoScan
      /\ sessions = [d \in Desktops |-> Absent]
      /\ peers = [h \in Handles |-> [of |-> {}, state |-> "unused"]]
      /\ channels = [d \in Desktops |-> 0] /\ making = [d \in Desktops |-> {}]
      /\ dial = [d \in Desktops |-> "none"] /\ adrift = {}
      /\ ping = [d \in Desktops |-> NoPing]
      /\ approved = {} /\ removed = {} /\ raced = {} /\ overlapped = {}
  BY DEF Init
<1>2. /\ saved \in [Desktops -> Trusts] /\ bound \in [Desktops -> Trusts]
      /\ left \in [Budgets -> Nat]
  BY SessionsAssumption DEF Init
<1>3. sessions \in Lists /\ \A d \in Desktops : sessions[d].trust = "none"
  BY <1>1, AbsentSession DEF Lists
<1>4. /\ Closed \in [open : BOOLEAN, base : Lists] /\ ~Closed.open
      /\ \A d \in Desktops : Closed.base[d].trust = "none"
      /\ NoScan \in [of : SUBSET Desktops, base : Lists] /\ NoScan.of = {}
  BY <1>1, <1>3 DEF Closed, NoScan
<1>5. TypeOK
  <2>1. ListsOK
    BY <1>1, <1>2, <1>3, <1>4 DEF ListsOK
  <2>2. LinksOK
    BY <1>1, SessionsAssumption, NoPingOK DEF LinksOK, Pings
  <2>3. WiresOK /\ GhostsOK
    BY <1>1, <1>2 DEF WiresOK, GhostsOK
  <2>. QED
    BY <1>2, <2>1, <2>2, <2>3 DEF TypeOK
<1>6. Started
  BY <1>1, <1>3, <1>4 DEF Started
<1>7. Peers
  BY <1>1 DEF Peers, Alone, Live
<1>. QED
  BY <1>1, <1>5, <1>6, <1>7 DEF IInv, Copies

(* Every step keeps the invariant.                                         *)
LEMMA NextKeeps == IInv /\ [Next]_vars => IInv'
<1>. SUFFICES ASSUME IInv, [Next]_vars  PROVE IInv'
  OBVIOUS
<1>1. CASE Listing
  BY <1>1, BootstrapKeeps, EffectKeeps, StreamStep, ScanEndsKeeps, RestartKeeps, RefreshEndsKeeps,
     ScanStartsKeeps, RemoveSessionKeeps DEF Listing
<1>2. CASE Signals
  BY <1>2, ReceiveKeeps, StreamStep DEF Signals
<1>3. CASE Dialing
  BY <1>3, DialStep, PeerMadeKeeps, PeerStep DEF Dialing
<1>4. CASE Probes
  BY <1>4, ProbeStep
<1>5. CASE UNCHANGED vars
  <2>1. UNCHANGED <<lists, links, wires, ghosts, left>>
    BY <1>5 DEF vars
  <2>2. ListsOK' /\ GhostsOK' /\ WiresOK' /\ Started' /\ Copies'
    BY <2>1, QuietKeeps
  <2>3. LinksOK' /\ Peers'
    BY <2>1, LinksKeep DEF links
  <2>. QED
    BY <2>1, <2>2, <2>3 DEF IInv, TypeOK
<1>. QED
  BY <1>1, <1>2, <1>3, <1>4, <1>5 DEF Next

(* The invariant of the sessions: types, nothing in flight before the list *)
(* is loaded, the copies of approved and removed sessions, and the peers.  *)
THEOREM SessionsInvariance == Spec => []IInv
<1>. QED
  BY InitOK, NextKeeps, PTL DEF Spec

(* An approved session stays active through refreshes, scans of other      *)
(* desktops and restarts, unless a call in flight held it as pending       *)
(* (SessionsContext.tsx:1513).                                             *)
THEOREM ApprovalsKept == Spec => []ApprovalKept
<1>1. IInv => ApprovalKept
  BY DEF IInv, Copies, Kept, ApprovalKept
<1>. QED
  BY <1>1, SessionsInvariance, PTL

(* A removed session does not return, in memory or in the storage, unless  *)
(* a call in flight held it (SessionsContext.tsx:1939, 1577).              *)
THEOREM RemovalsKept == Spec => []RemovedStaysRemoved
<1>1. IInv => RemovedStaysRemoved
  BY DEF IInv, Copies, Gone, RemovedStaysRemoved
<1>. QED
  BY <1>1, SessionsInvariance, PTL

(* A live peer is the one its desktop knows, unless two calls made a peer  *)
(* for that desktop at once (SessionsContext.tsx:1279).                    *)
THEOREM PeersWithinReach == Spec => []NoOrphan
<1>1. IInv => NoOrphan
  BY DEF IInv, Peers, Reach, NoOrphan
<1>. QED
  BY <1>1, SessionsInvariance, PTL

=============================================================================
