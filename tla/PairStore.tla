------------------------------- MODULE PairStore -------------------------------
(***************************************************************************)
(* Pair sessions and bindings of the v2 control plane (server/v2_store.go),*)
(* on top of the identities of IdentityStore: one lock protects both, so   *)
(* an identity operation also prunes the pair sessions, and a pairing      *)
(* operation also prunes the identities.                                   *)
(*                                                                         *)
(* A claim token is drawn with its pair session and never leaves it: the   *)
(* index from tokens to sessions is the set of sessions whose token is     *)
(* still indexed.  Display names and the session nonce are left out.       *)
(***************************************************************************)
EXTENDS IdentityStore

CONSTANTS PairIds,      \* pair sessions, and their claim tokens
          BindingIds,
          MaxPairTTL,   \* clampInt's upper bound on a session's lifetime
          NoMobile,     \* ClaimedMobileID == nil
          NoBinding,    \* BindingID == nil
          NoDesktop     \* the owner of a session that does not exist

ASSUME PairAssumption ==
    /\ MaxPairTTL \in Nat \ {0}
    /\ NoMobile \notin Mobiles
    /\ NoBinding \notin BindingIds
    /\ NoDesktop \notin Desktops

VARIABLES pairSessions,  \* pair session id |-> session
          claimIndex,    \* sessions whose claim token is in pairClaimTokenIndex
          bindings       \* binding id |-> binding

pairVars == <<pairSessions, claimIndex, bindings>>
vars == <<challenges, authSessions, entities, inflight,
          pairSessions, claimIndex, bindings>>

PairSession ==
    [device : Desktops, deviceKey : Keys,
     status : {"pending", "claimed", "approved", "expired"},
     claimant : Mobiles \cup {NoMobile}, binding : BindingIds \cup {NoBinding},
     life : 0..MaxPairTTL]

Binding ==
    [pairSession : PairIds, device : Desktops, deviceKey : Keys,
     mobile : Mobiles, mobileKey : Keys, trust : {"pending", "active"}]

TypeOK ==
    /\ IdentityTypeOK
    /\ pairSessions \in MapOf(PairIds, PairSession)
    /\ claimIndex \in SUBSET PairIds
    /\ bindings \in MapOf(BindingIds, Binding)

Init ==
    /\ IdentityInit
    /\ pairSessions = [p \in {} |-> p]
    /\ claimIndex = {}
    /\ bindings = [b \in {} |-> b]

-----------------------------------------------------------------------------
(* What pruneExpiredLocked leaves of the pairing maps.                     *)

Claimable == {"pending", "claimed"}

Lapsed == {p \in DOMAIN pairSessions :
              pairSessions[p].life = 0 /\ pairSessions[p].status \in Claimable}

LivePairs ==
    [p \in DOMAIN pairSessions |->
        IF p \in Lapsed THEN [pairSessions[p] EXCEPT !.status = "expired"]
                        ELSE pairSessions[p]]

LiveIndex == claimIndex \ Lapsed

PrunePairs ==
    /\ pairSessions' = LivePairs
    /\ claimIndex' = LiveIndex
    /\ UNCHANGED bindings

\* findBindingLocked: no binding is ever revoked by the v2 server, so these are
\* the bindings of the pair; Go's map order leaves open which one is found.
BindingsOf(d, m) ==
    {b \in DOMAIN bindings : bindings[b].device = d /\ bindings[b].mobile = m}

-----------------------------------------------------------------------------
(* One action per handler.  e, d and m name the principal of the request.  *)

CreatePairSession(d, p, ttl) ==
    /\ d \in inflight
    /\ d \in DOMAIN LiveEntities
    /\ p \notin DOMAIN LivePairs
    /\ pairSessions' = Put(LivePairs, p,
                           [device |-> d, deviceKey |-> LiveEntities[d].key,
                            status |-> "pending", claimant |-> NoMobile,
                            binding |-> NoBinding, life |-> ttl])
    /\ claimIndex' = LiveIndex \cup {p}
    /\ PruneIdentities
    /\ UNCHANGED <<inflight, bindings>>

DeletePairSession(d, p) ==
    /\ d \in inflight
    /\ p \in DOMAIN LivePairs
    /\ LivePairs[p].device = d
    /\ LivePairs[p].binding = NoBinding
    /\ LivePairs[p].status = "pending"
    /\ pairSessions' = Restrict(LivePairs, DOMAIN LivePairs \ {p})
    /\ claimIndex' = LiveIndex \ {p}
    /\ PruneIdentities
    /\ UNCHANGED <<inflight, bindings>>

\* Faulty: a claimed session is open to every mobile.
OpenToAll(m, p) == TRUE

\* "already claimed by another mobile"
OpenTo(m, p) == LivePairs[p].status = "claimed" => LivePairs[p].claimant = m

\* The checks claimPair makes before it touches the mobile or a binding.
MayClaim(m, p) ==
    /\ m \in inflight
    /\ p \in LiveIndex
    /\ p \in DOMAIN LivePairs
    /\ LivePairs[p].life > 0
    /\ LivePairs[p].status \in Claimable
    /\ OpenTo(m, p)
    /\ m \in DOMAIN LiveEntities

\* A claim that carries a display name counts as activity of the mobile, even
\* when the claim is then refused.
NameMobile(m, named) ==
    /\ entities' = IF named
                   THEN Put(LiveEntities, m, Registered(LiveEntities[m].key))
                   ELSE LiveEntities
    /\ challenges' = LiveChallenges
    /\ authSessions' = LiveSessions
    /\ UNCHANGED inflight

\* Faulty: the session does not learn its binding.
SetClaimUnlinked(m, p, b, r) ==
    /\ bindings' = Put(bindings, b, r)
    /\ pairSessions' = Put(LivePairs, p,
                           [LivePairs[p] EXCEPT !.status = "claimed", !.claimant = m])
    /\ claimIndex' = LiveIndex

\* The session is claimed by m under binding b, which holds record r.
SetClaim(m, p, b, r) ==
    /\ bindings' = Put(bindings, b, r)
    /\ pairSessions' = Put(LivePairs, p,
                           [LivePairs[p] EXCEPT !.status = "claimed",
                                                !.claimant = m, !.binding = b])
    /\ claimIndex' = LiveIndex

PendingBinding(m, p) ==
    [pairSession |-> p, device |-> LivePairs[p].device,
     deviceKey |-> LivePairs[p].deviceKey, mobile |-> m,
     mobileKey |-> LiveEntities[m].key, trust |-> "pending"]

\* "binding already active"
ClaimRefused(m, p, named) ==
    /\ MayClaim(m, p)
    /\ \E b \in BindingsOf(LivePairs[p].device, m) : bindings[b].trust = "active"
    /\ NameMobile(m, named)
    /\ PrunePairs

\* Faulty: an active binding is pointed at this session too.
ClaimAgainAny(m, p, named) ==
    /\ MayClaim(m, p)
    /\ \E b \in BindingsOf(LivePairs[p].device, m) :
          SetClaim(m, p, b, PendingBinding(m, p))
    /\ NameMobile(m, named)

\* A pending binding of the pair is pointed at this session, with fresh keys.
ClaimAgain(m, p, named) ==
    /\ MayClaim(m, p)
    /\ \E b \in BindingsOf(LivePairs[p].device, m) :
          /\ bindings[b].trust = "pending"
          /\ SetClaim(m, p, b, PendingBinding(m, p))
    /\ NameMobile(m, named)

ClaimFirst(m, p, b, named) ==
    /\ MayClaim(m, p)
    /\ BindingsOf(LivePairs[p].device, m) = {}
    /\ b \notin DOMAIN bindings
    /\ SetClaim(m, p, b, PendingBinding(m, p))
    /\ NameMobile(m, named)

\* Faulty: a session that has expired meanwhile is not marked.
ApprovedIfOpen(p) ==
    IF p \in DOMAIN LivePairs /\ LivePairs[p].status \in Claimable
    THEN Put(LivePairs, p, [LivePairs[p] EXCEPT !.status = "approved"])
    ELSE LivePairs

\* The session of an approved binding is approved, if it still exists.
Approved(p) ==
    IF p \in DOMAIN LivePairs
    THEN Put(LivePairs, p, [LivePairs[p] EXCEPT !.status = "approved"])
    ELSE LivePairs

\* The binding becomes active whatever the status of its pair session is.
ApproveBinding(d, b) ==
    /\ d \in inflight
    /\ b \in DOMAIN bindings
    /\ bindings[b].device = d
    /\ bindings[b].trust = "pending"
    /\ bindings' = Put(bindings, b, [bindings[b] EXCEPT !.trust = "active"])
    /\ pairSessions' = Approved(bindings[b].pairSession)
    /\ claimIndex' = LiveIndex \ ({bindings[b].pairSession} \cap DOMAIN LivePairs)
    /\ PruneIdentities
    /\ UNCHANGED inflight

\* The operations whose success is reported to onMutation.
PairMutation ==
    \/ \E d \in Desktops, p \in PairIds, ttl \in 1..MaxPairTTL :
          CreatePairSession(d, p, ttl)
    \/ \E d \in Desktops, p \in PairIds : DeletePairSession(d, p)
    \/ \E m \in Mobiles, p \in PairIds, named \in BOOLEAN :
          \/ ClaimAgain(m, p, named)
          \/ \E b \in BindingIds : ClaimFirst(m, p, b, named)
    \/ \E d \in Desktops, b \in BindingIds : ApproveBinding(d, b)

\* The other.
PairRest ==
    \E m \in Mobiles, p \in PairIds, named \in BOOLEAN : ClaimRefused(m, p, named)

PairOp == PairMutation \/ PairRest

\* Time passes for every entry of the store.
StoreTick ==
    /\ Tick
    /\ pairSessions' = Aged(pairSessions)
    /\ UNCHANGED <<claimIndex, bindings>>

Next ==
    \/ IdentityOp /\ PrunePairs
    \/ PairOp
    \/ (\E e \in Entities : Finish(e)) /\ UNCHANGED pairVars
    \/ StoreTick

Spec == Init /\ [][Next]_vars

-----------------------------------------------------------------------------
(* A claim token is accepted exactly while its session is pending or       *)
(* claimed.  Create, delete, expiry and approval each maintain the index   *)
(* by hand (v2_store.go:279, 701, 732, 873).                               *)
ClaimIndexExact ==
    claimIndex = {p \in DOMAIN pairSessions : pairSessions[p].status \in Claimable}

(* A desktop and a mobile share at most one binding, however many sessions *)
(* the mobile claims and in whatever order (v2_store.go:793-823).          *)
OneBindingPerPair ==
    \A b1, b2 \in DOMAIN bindings :
        /\ bindings[b1].device = bindings[b2].device
        /\ bindings[b1].mobile = bindings[b2].mobile
        => b1 = b2

(* A session names its binding if and only if a mobile has claimed it, and *)
(* the binding is between that session's desktop and that mobile; so a     *)
(* claimed session can no longer be deleted (v2_store.go:727, 825-832).    *)
ClaimBacked ==
    \A p \in DOMAIN pairSessions :
        LET s == pairSessions[p]
        IN IF s.binding = NoBinding
           THEN s.claimant = NoMobile /\ s.status \in {"pending", "expired"}
           ELSE /\ s.status # "pending"
                /\ s.binding \in DOMAIN bindings
                /\ bindings[s.binding].device = s.device
                /\ bindings[s.binding].mobile = s.claimant

(* The session a binding points at points back, and gave the binding its   *)
(* device key: the safety code both ends compute from the key, the session *)
(* id and its nonce is the same, also after the mobile moved a pending     *)
(* binding to a newer session (v2_store.go:799-805).                       *)
BindingFollowsSession ==
    \A b \in DOMAIN bindings :
        LET p == bindings[b].pairSession
        IN /\ p \in DOMAIN pairSessions
           /\ pairSessions[p].binding = b
           /\ pairSessions[p].deviceKey = bindings[b].deviceKey

(* A binding is active if and only if the session it points at was         *)
(* approved: approval reaches the session the user confirmed, and a later  *)
(* claim never moves an active binding elsewhere (v2_store.go:794, 864).   *)
ActiveIffApproved ==
    \A b \in DOMAIN bindings :
        LET p == bindings[b].pairSession
        IN p \in DOMAIN pairSessions =>
               (bindings[b].trust = "active" <=> pairSessions[p].status = "approved")

(* Nothing the server does changes an active binding: not a late claim of  *)
(* another session of the pair, nor a second approval, nor a new key of a  *)
(* mobile that registered again (v2_store.go:794, 859).                    *)
ActiveIsFrozen ==
    [][\A b \in DOMAIN bindings :
          bindings[b].trust = "active" =>
              b \in DOMAIN bindings' /\ bindings'[b] = bindings[b]]_vars

-----------------------------------------------------------------------------
(* Trust between a desktop and a mobile, read off the bindings.            *)

TrustOf(d, m) ==
    IF \E b \in BindingsOf(d, m) : bindings[b].trust = "active" THEN "active"
    ELSE IF BindingsOf(d, m) # {} THEN "pending"
    ELSE "none"

OwnerOf(p) ==
    IF p \in DOMAIN pairSessions THEN pairSessions[p].device ELSE NoDesktop

ClaimantOf(p) ==
    IF p \in DOMAIN pairSessions THEN pairSessions[p].claimant ELSE NoMobile

Promise == INSTANCE Pairing
    WITH owner <- [p \in PairIds |-> OwnerOf(p)],
         claimant <- [p \in PairIds |-> ClaimantOf(p)],
         trust <- [dm \in Desktops \X Mobiles |-> TrustOf(dm[1], dm[2])]

(* The store, with its clock, its pruning and its refusals, implements the *)
(* pairing promise: a session has one claimant for ever and trust only     *)
(* grows (v2_store.go:655-877).                                            *)
KeepsPairingPromise == Promise!Spec
=============================================================================
