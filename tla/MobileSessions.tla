--------------------------- MODULE MobileSessions ---------------------------
(***************************************************************************)
(* The sessions of the mobile app (mobile/src/state/SessionsContext.tsx,   *)
(* services/pairingV2.ts): the list shown and its copy in the storage, the *)
(* refreshes and scans that read it, await the server and write it back,   *)
(* the signal stream, and a peer channel for each active session.          *)
(*                                                                         *)
(* Between two awaits the code runs alone, so an action is what happens up *)
(* to the next await.  One server, one session for each desktop; messages  *)
(* are in ChatSync, what a peer does on the wire in PeerChannel.           *)
(***************************************************************************)
EXTENDS Naturals, Sequences, FiniteSets

CONSTANTS Desktops, MaxPeers, Scenarios

Handles == 1..MaxPeers
Slots == 1..2                       \* refreshes in flight at once
Trusts == {"none", "pending", "active", "revoked"}
MaxInbox == 2
MaxProbes == 2                      \* probes of one link being sent at once
Budgets == {"scans", "removals", "signals", "peers", "probes", "resets"}

\* A scenario: the bindings and the stored list at the start, and how often
\* each of the bounded events may happen.
ASSUME SessionsAssumption ==
  /\ MaxPeers \in Nat
  /\ \A s \in Scenarios : s.trusts \in [Desktops -> Trusts] /\ s.left \in [Budgets -> Nat]

VARIABLES sessions,   \* desktop -> session, of trust "none" if there is none
          saved,      \* the trust of the sessions in AsyncStorage
          loaded,     \* the provider has read them
          refreshes,  \* refreshSessions in flight and the list each started from
          scan,       \* pairByScan in flight: its desktop, and the list it read
          dirty,      \* the list was set, its effect has not run
          stream,     \* the signal stream
          inbox,      \* signals the server holds for the mobile
          bound,      \* the trust of the server's binding
          peers, channels,   \* the peers made; peersRef
          making,     \* calls of ensureSessionPeer past its look into peersRef
          dial,       \* peerConnectingRef
          adrift,     \* desktops with a dial that closePeer forgot
          ping,       \* the probes of the link: those being sent, and whether
                      \* pendingLinkPingsRef has the last one sent
          approved, removed, \* what the mobile was told or did last
          raced,      \* desktops of which a call in flight held an older session
          overlapped, \* desktops for which two peers were being made
          left

lists == <<sessions, saved, loaded, refreshes, scan, dirty>>
links == <<peers, channels, making, dial, adrift, ping, overlapped>>
wires == <<stream, inbox, bound>>
ghosts == <<approved, removed, raced>>
vars == <<lists, links, wires, ghosts, left>>

Absent == [trust |-> "none", online |-> FALSE, peer |-> "", probing |-> FALSE]
Listed(S) == {d \in Desktops : S[d].trust # "none"}
TrustOf(S) == [d \in Desktops |-> S[d].trust]
Spend(f) == left[f] > 0 /\ left' = [left EXCEPT ![f] = @ - 1]
Closed == [open |-> FALSE, base |-> [d \in Desktops |-> Absent]]
NoPing == [sending |-> 0, pending |-> FALSE]
NoScan == [of |-> {}, base |-> [d \in Desktops |-> Absent]]

\* A call in flight will write back the session of d as it is now
Held(d) == scan.of # {} \/ \E r \in Slots : refreshes[r].open /\ refreshes[r].base[d].trust # "none"
Races(d) == raced' = IF Held(d) THEN raced \cup {d} ELSE raced

\* Faulty: the desktop is to be trusted anew.
StoredUntrusted(trusts) ==
  [d \in Desktops |-> [Absent EXCEPT !.trust = IF trusts[d] = "none" THEN "none" ELSE "pending"]]
\* loadStoredSessions: what is known of the transport is not kept
Stored(trusts) == [d \in Desktops |-> [Absent EXCEPT !.trust = trusts[d]]]

Init ==
  /\ loaded = FALSE /\ dirty = FALSE /\ stream = "none" /\ inbox = <<>>
  /\ refreshes = [r \in Slots |-> Closed] /\ scan = NoScan
  /\ sessions = [d \in Desktops |-> Absent]
  /\ \E s \in Scenarios : saved = s.trusts /\ bound = s.trusts /\ left = s.left
  /\ peers = [h \in Handles |-> [of |-> {}, state |-> "unused"]]
  /\ channels = [d \in Desktops |-> 0] /\ making = [d \in Desktops |-> {}]
  /\ dial = [d \in Desktops |-> "none"] /\ adrift = {}
  /\ ping = [d \in Desktops |-> NoPing]
  /\ approved = {} /\ removed = {} /\ raced = {} /\ overlapped = {}

---------------------------------------------------------------------------
\* Peers that are closed.  A dial whose promise is forgotten goes on, and so
\* does a probe.

Live(h) == peers[h].state \in {"connecting", "connected", "failed"}

\* What closePeer does to the peer and its dial, for each desktop of D
ClosePeers(D) ==
  /\ channels' = [d \in Desktops |-> IF d \in D THEN 0 ELSE channels[d]]
  /\ peers' = [h \in Handles |-> IF \E d \in D : channels[d] = h
                                 THEN [peers[h] EXCEPT !.state = "closed"] ELSE peers[h]]
  /\ dial' = [d \in Desktops |-> IF d \in D THEN "none" ELSE dial[d]]
  /\ making' = [d \in Desktops |-> IF d \in D /\ "dial" \in making[d]
                                   THEN (making[d] \ {"dial"}) \cup {"stray"} ELSE making[d]]
  /\ adrift' = adrift \cup {d \in D : dial[d] = "waiting"}
\* What it does to the probe
Forget(D) == ping' = [d \in Desktops |-> [ping[d] EXCEPT !.pending = @ /\ d \notin D]]
Disconnected(S, D) ==
  [d \in Desktops |-> IF d \in D /\ S[d].trust # "none" /\ channels[d] # 0
                      THEN [S[d] EXCEPT !.peer = "disconnected"] ELSE S[d]]

\* Faulty: peers are closed with their session only.
NeverStale(S) == {}
\* closeStalePeers
Stale(S) == {d \in Desktops : channels[d] # 0 /\ S[d].trust # "active"}

\* reconcileRealtime: the stream follows the sessions, connectReadyPeers is
\* DialStarts
Reconcile(S) ==
  /\ ClosePeers(Stale(S)) /\ Forget(Stale(S) \cup (Desktops \ Listed(S)))
  /\ sessions' = Disconnected(S, Stale(S))
  /\ stream' = IF Listed(S) = {} THEN "none" ELSE IF stream = "none" THEN "opening" ELSE stream
  /\ UNCHANGED <<inbox, bound, overlapped>>

\* setSessions runs the effect of the list: it is saved, and all else follows
Effect ==
  /\ loaded /\ dirty
  /\ saved' = TrustOf(sessions)
  /\ dirty' = (Stale(sessions) # {})
  /\ Reconcile(sessions)
  /\ UNCHANGED <<loaded, refreshes, scan, ghosts, left>>

---------------------------------------------------------------------------
\* The list

Refreshing(r) == refreshes' = [refreshes EXCEPT ![r] = [open |-> TRUE, base |-> sessions']]
IdleSlot == CHOOSE r \in Slots : ~refreshes[r].open
Refresh == IF \E r \in Slots : ~refreshes[r].open /\ Listed(sessions') # {}
           THEN Refreshing(IdleSlot) ELSE UNCHANGED refreshes

Bootstrap ==
  /\ ~loaded /\ loaded' = TRUE /\ dirty' = TRUE
  /\ sessions' = Stored(saved)
  /\ Refresh
  /\ UNCHANGED <<saved, scan, links, wires, ghosts, left>>

\* the timer, the app brought to the front, a signal of a binding not listed
RefreshStarts ==
  /\ loaded /\ \A r \in Slots : ~refreshes[r].open
  /\ Listed(sessions) # {} /\ UNCHANGED sessions /\ Refresh
  /\ UNCHANGED <<saved, loaded, scan, dirty, links, wires, ghosts, left>>

\* refreshSessionsV2 asks for the presence of active desktops only, and takes
\* the rest of a session, its trust too, from the list it was given; nothing
\* is on if the requests fail
Refreshed(s, on) ==
  IF s.trust = "none" THEN s
  ELSE [s EXCEPT !.online = on /\ s.trust = "active", !.probing = on /\ s.trust # "revoked" /\ @]

\* mergeRefreshedSessions
Merge(latest, new) == [d \in Desktops |-> IF new[d].trust # "none" THEN new[d] ELSE latest[d]]

RefreshEnds(r) ==
  /\ refreshes[r].open
  /\ \E on \in SUBSET Desktops :
       LET new == [d \in Desktops |-> Refreshed(refreshes[r].base[d], d \in on)]
       IN  /\ saved' = TrustOf(new)          \* saveStoredSessions(nextSessions)
           /\ Reconcile(Merge(sessions, new))
  /\ dirty' = TRUE
  /\ refreshes' = [refreshes EXCEPT ![r] = Closed]
  /\ UNCHANGED <<loaded, scan, ghosts, left>>

\* pairByScan: the server has no active binding for the pair, or refuses
ScanStarts(d) ==
  /\ loaded /\ scan.of = {} /\ bound[d] # "active" /\ Spend("scans")
  /\ scan' = [of |-> {d}, base |-> sessions]
  /\ bound' = [bound EXCEPT ![d] = "pending"]
  /\ UNCHANGED <<sessions, saved, loaded, refreshes, dirty, links, stream, inbox, ghosts>>

\* buildSessionFromBinding: an existing session of the desktop is kept
Claimed(S, d) == [S EXCEPT ![d].trust = "pending", ![d].probing = FALSE]
ScanResult(d, on) == [e \in Desktops |-> Refreshed(Claimed(scan.base, d)[e], e \in on)]

\* pairByScanV2's list is committed as it is
ScanEnds ==
  \E d \in scan.of, on \in SUBSET Desktops :
    LET new == ScanResult(d, on)
    IN  /\ saved' = TrustOf(new)
        /\ Reconcile(new)
        /\ scan' = NoScan /\ dirty' = TRUE
        /\ removed' = removed \ {d}
        /\ approved' = IF d \in raced THEN approved ELSE approved \ {d}
        /\ UNCHANGED <<loaded, refreshes, raced, left>>

\* Faulty: the session stays listed until the desktop knows.
HideOnly(d) == UNCHANGED sessions
\* removeSession and a revocation by the desktop: the peer is closed, the
\* session goes
Unlisted(d) == sessions' = [sessions EXCEPT ![d] = Absent]
Remove(d) ==
  /\ ClosePeers({d}) /\ Forget({d}) /\ Unlisted(d)
  /\ dirty' = TRUE /\ Races(d)
  /\ removed' = removed \cup {d} /\ approved' = approved \ {d}
  /\ UNCHANGED <<saved, loaded, refreshes, scan, overlapped>>
RemoveSession(d) ==
  /\ sessions[d].trust # "none" /\ Spend("removals") /\ Remove(d) /\ UNCHANGED wires

---------------------------------------------------------------------------
\* Signals

Send(type, d) == Len(inbox) < MaxInbox /\ inbox' = Append(inbox, [type |-> type, of |-> d])
Approves(d) ==
  /\ bound[d] = "pending" /\ bound' = [bound EXCEPT ![d] = "active"] /\ Send("approved", d)
  /\ UNCHANGED <<lists, links, stream, ghosts, left>>
Revokes(d) ==
  /\ bound[d] # "none" /\ bound' = [bound EXCEPT ![d] = "none"] /\ Spend("signals") /\ Send("revoked", d)
  /\ UNCHANGED <<lists, links, stream, ghosts>>
DesktopSends(type, d) ==
  /\ bound[d] = "active" /\ Spend("signals") /\ Send(type, d)
  /\ UNCHANGED <<lists, links, stream, bound, ghosts>>

\* pair.approved changes the sessions it finds, then refreshes
ApprovedSession(d) ==
  sessions' = IF sessions[d].trust = "none" THEN sessions
              ELSE [sessions EXCEPT ![d].trust = "active", ![d].online = TRUE]
Approved(d) ==
  /\ ApprovedSession(d) /\ Refresh /\ dirty' = TRUE /\ Races(d)
  /\ approved' = approved \cup (IF sessions[d].trust = "none" /\ scan.of # {d} THEN {} ELSE {d})
  /\ UNCHANGED <<saved, loaded, scan, links, removed>>

\* pair.revoked closes the peer and keeps the session, with its trust gone
RevokedSession(d) ==
  sessions' = IF sessions[d].trust = "none" THEN sessions
              ELSE [sessions EXCEPT ![d] = [Disconnected(sessions, {d})[d] EXCEPT
                                              !.trust = "revoked", !.online = FALSE]]
Revoked(d) ==
  /\ ClosePeers({d}) /\ Forget({d}) /\ RevokedSession(d) /\ dirty' = TRUE /\ Races(d)
  /\ approved' = approved \ {d}
  /\ UNCHANGED <<saved, loaded, refreshes, scan, overlapped, removed>>

\* A peer is wanted for a signal or a dial
Wanted(d, why) ==
  /\ making' = [making EXCEPT ![d] = @ \cup {why}]
  /\ overlapped' = IF making[d] = {} THEN overlapped ELSE overlapped \cup {d}
Offered(d) ==
  /\ IF sessions[d].trust = "none"
     THEN UNCHANGED sessions /\ Refresh /\ UNCHANGED <<making, overlapped>>
     ELSE /\ UNCHANGED <<sessions, refreshes>>
          /\ IF channels[d] = 0 /\ left.peers > 0 THEN Wanted(d, "signal")
             ELSE UNCHANGED <<making, overlapped>>
  /\ UNCHANGED <<saved, loaded, scan, dirty, peers, channels, dial, adrift, ping, ghosts>>

\* handleSignalEvent
Receive ==
  /\ stream = "open" /\ inbox # <<>> /\ inbox' = Tail(inbox)
  /\ LET e == Head(inbox)
     IN  CASE e.type = "approved" -> Approved(e.of)
           [] e.type = "revoked" -> Revoked(e.of)
           [] e.type = "revoke" /\ sessions[e.of].trust # "none" -> Remove(e.of)
           [] OTHER -> Offered(e.of)
  /\ UNCHANGED <<stream, bound, left>>

StreamOpens ==
  /\ stream = "opening" /\ stream' = "open"
  /\ UNCHANGED sessions /\ Refresh
  /\ UNCHANGED <<saved, loaded, scan, dirty, links, inbox, bound, ghosts, left>>
StreamEnds ==
  /\ stream # "none" /\ Spend("resets") /\ stream' = "none"
  /\ UNCHANGED <<lists, links, inbox, bound, ghosts>>

---------------------------------------------------------------------------
\* Peers

\* Faulty: every dial makes a peer.
LookPast(d) == FALSE
Existing(d) == channels[d] # 0

\* One turn of the loop of ensureSessionPeerConnected: the peer there is
\* connects again if it failed, or one is wanted.
Turn(d, why) ==
  /\ left.peers > 0
  /\ IF Existing(d)
     THEN /\ peers' = [peers EXCEPT ![channels[d]].state = IF @ = "failed" THEN "connecting" ELSE @]
          /\ UNCHANGED <<making, overlapped>>
     ELSE Wanted(d, why) /\ UNCHANGED peers
  /\ UNCHANGED <<lists, channels, ping, wires, ghosts, left>>
DialStarts(d) ==
  /\ loaded /\ sessions[d].trust = "active" /\ dial[d] = "none"
  /\ Turn(d, "dial")
  /\ dial' = [dial EXCEPT ![d] = IF Existing(d) THEN "waiting" ELSE "making"]
  /\ UNCHANGED adrift
\* The second turn, whatever became of the session: any dial may be the one
\* of pair.approved, which tries twice.
DialRetries(d) == dial[d] = "waiting" /\ Turn(d, "dial") /\ UNCHANGED <<dial, adrift>>
DriftRetries(d) ==
  /\ d \in adrift /\ Turn(d, "stray") /\ adrift' = adrift \ {d} /\ UNCHANGED dial

Shown(d, state) ==
  /\ sessions' = IF sessions[d].trust = "none" THEN sessions ELSE [sessions EXCEPT ![d].peer = state]
  /\ dirty' = TRUE
  /\ UNCHANGED <<saved, loaded, refreshes, scan, wires, ghosts>>

\* ensureSessionPeer after its awaits: the peer is set, whatever happened to
\* the session and to peersRef meanwhile
PeerMade(d, why) ==
  /\ why \in making[d] /\ Spend("peers") /\ \E x \in Handles : peers[x].state = "unused"
  /\ LET h == CHOOSE x \in Handles : peers[x].state = "unused"
     IN  /\ peers' = [peers EXCEPT ![h] = [of |-> {d}, state |-> "connecting"]]
         /\ channels' = [channels EXCEPT ![d] = h]
  /\ making' = [making EXCEPT ![d] = @ \ {why}]
  /\ dial' = IF why = "dial" THEN [dial EXCEPT ![d] = "waiting"] ELSE dial
  /\ adrift' = IF why = "stray" THEN adrift \cup {d} ELSE adrift
  /\ Shown(d, "connecting")
  /\ UNCHANGED <<ping, overlapped>>
MakingFails(d, why) ==
  /\ why \in making[d]
  /\ making' = [making EXCEPT ![d] = @ \ {why}]
  /\ dial' = IF why = "dial" THEN [dial EXCEPT ![d] = "none"] ELSE dial
  /\ Shown(d, "failed")
  /\ UNCHANGED <<peers, channels, adrift, ping, overlapped, left>>

\* onStateChange, of any peer that was not closed
PeerMoves(h, state) ==
  /\ Live(h) /\ peers[h].state = "connecting"
  /\ peers' = [peers EXCEPT ![h].state = state]
  /\ \E d \in peers[h].of : Shown(d, state)
  /\ UNCHANGED <<channels, making, dial, adrift, ping, overlapped, left>>
DialEnds(d) ==
  /\ dial[d] = "waiting" /\ dial' = [dial EXCEPT ![d] = "none"]
  /\ UNCHANGED <<lists, peers, channels, making, adrift, ping, overlapped, wires, ghosts, left>>

---------------------------------------------------------------------------
\* The probes of the link.  They overlap: the last one sent is the one that is
\* waited for, a pong of any of them is taken, and one that cannot be sent
\* ends them all.

Probing(d, n, waits, flag) ==
  /\ ping' = [ping EXCEPT ![d] = [sending |-> n, pending |-> waits]]
  /\ sessions' = IF sessions[d].trust = "none" THEN sessions ELSE [sessions EXCEPT ![d].probing = flag]
  /\ dirty' = TRUE
  /\ UNCHANGED <<saved, loaded, refreshes, scan, peers, channels, making, dial, adrift, overlapped,
                 wires, ghosts, left>>
ProbeStarts(d) ==
  /\ left.probes > 0 /\ sessions[d].trust = "active" /\ ping[d].sending < MaxProbes
  /\ Probing(d, ping[d].sending + 1, ping[d].pending, TRUE)
ProbeSent(d) == ping[d].sending > 0 /\ Probing(d, ping[d].sending - 1, TRUE, TRUE)
ProbeFails(d) == ping[d].sending > 0 /\ Probing(d, ping[d].sending - 1, FALSE, FALSE)
\* Faulty: a probe that times out is forgotten.
TimesOutQuietly(d) == ping[d].pending /\ Probing(d, ping[d].sending, FALSE, sessions[d].probing)
\* its pong, or its timer of ten seconds
ProbeEnds(d) == ping[d].pending /\ Probing(d, ping[d].sending, FALSE, FALSE)
\* the pong of an earlier one
LatePong(d) ==
  /\ ping[d].pending \/ ping[d].sending > 0
  /\ sessions[d].probing /\ Probing(d, ping[d].sending, ping[d].pending, FALSE)

---------------------------------------------------------------------------
\* The app is stopped, at any moment
Restart ==
  /\ loaded /\ Spend("resets")
  /\ loaded' = FALSE /\ dirty' = FALSE /\ sessions' = [d \in Desktops |-> Absent]
  /\ refreshes' = [r \in Slots |-> Closed] /\ scan' = NoScan /\ stream' = "none"
  /\ peers' = [h \in Handles |-> IF Live(h) THEN [peers[h] EXCEPT !.state = "closed"] ELSE peers[h]]
  /\ channels' = [d \in Desktops |-> 0] /\ making' = [d \in Desktops |-> {}]
  /\ dial' = [d \in Desktops |-> "none"] /\ adrift' = {}
  /\ ping' = [d \in Desktops |-> NoPing]
  /\ raced' = raced \cup {d \in Desktops : saved[d] # sessions[d].trust}
  /\ UNCHANGED <<saved, inbox, bound, approved, removed, overlapped>>

Listing == \/ Bootstrap \/ Effect \/ RefreshStarts \/ ScanEnds \/ Restart
           \/ \E r \in Slots : RefreshEnds(r)
           \/ \E d \in Desktops : ScanStarts(d) \/ RemoveSession(d)
Signals == \/ Receive \/ StreamOpens \/ StreamEnds
           \/ \E d \in Desktops : \/ Approves(d) \/ Revokes(d)
                                  \/ \E type \in {"revoke", "offer"} : DesktopSends(type, d)
Dialing == \/ \E d \in Desktops :
                 \/ DialStarts(d) \/ DialEnds(d) \/ DialRetries(d) \/ DriftRetries(d)
                 \/ \E why \in making[d] : PeerMade(d, why) \/ MakingFails(d, why)
           \/ \E h \in Handles, state \in {"connected", "failed"} : PeerMoves(h, state)
Probes == \E d \in Desktops : \/ ProbeStarts(d) \/ ProbeSent(d) \/ ProbeFails(d)
                             \/ ProbeEnds(d) \/ LatePong(d)
Next == Listing \/ Signals \/ Dialing \/ Probes

Spec == Init /\ [][Next]_vars

\* Effects, timers and the callbacks of awaited calls run in the end.
FairSpec ==
  /\ Spec /\ WF_vars(Bootstrap) /\ WF_vars(Effect) /\ WF_vars(RefreshStarts) /\ WF_vars(StreamOpens)
  /\ WF_vars(\E r \in Slots : RefreshEnds(r))
  /\ \A d \in Desktops : /\ WF_vars(ProbeStarts(d)) /\ WF_vars(ProbeEnds(d))
                         /\ WF_vars(ProbeSent(d) \/ ProbeFails(d))

---------------------------------------------------------------------------
\* handleSignalEvent (SessionsContext.tsx:1513): what the user of the desktop
\* approved stays active, through refreshes, scans of other desktops and
\* restarts, but for calls that were in flight with the session as pending.
ApprovalKept == loaded => \A d \in approved \ raced : sessions[d].trust = "active"

\* removeSession and channel.revoke (SessionsContext.tsx:1939, 1577): no
\* refresh, late peer or restart brings a session back, but for calls that
\* were in flight with it.
RemovedStaysRemoved ==
  \A d \in removed \ raced : sessions[d].trust = "none" /\ (loaded /\ ~dirty => saved[d] = "none")

\* ensureSessionPeer (SessionsContext.tsx:1279): all live peers are known and
\* can be closed, unless two calls awaited the login of one desktop at once.
NoOrphan ==
  \A h \in Handles : Live(h) => \E d \in peers[h].of : channels[d] = h \/ d \in overlapped

\* reconcileRealtime and probeSessionLink (SessionsContext.tsx:1753, 891): no
\* peer outlives the trust in its desktop, the app listens to its server as
\* long as it has sessions, and a probe is shown as pending for a while only.
Settles ==
  /\ \A d \in Desktops : []<>(channels[d] = 0 \/ sessions[d].trust = "active")
  /\ []<>(stream = "open" \/ Listed(sessions) = {})
  /\ \A d \in Desktops : []<>(~sessions[d].probing \/ sessions[d].trust = "pending")
=============================================================================
