----------------------------- MODULE StoreProofs ------------------------------
(***************************************************************************)
(* Proofs about the v2 store, in three parts: PairStore, the promise of    *)
(* Pairing that it keeps, and StoreRecovery.                               *)
(*                                                                         *)
(* First PairStore: type correctness, and the invariant that ties          *)
(* sessions to entities, the claim-token index to the pair sessions and    *)
(* the pair sessions to the bindings.  Every handler prunes first, so the  *)
(* argument goes in two moves: the pruned maps satisfy the invariant, and  *)
(* the handler's own change keeps it.                                      *)
(***************************************************************************)
EXTENDS StoreRecovery, TLAPS

(* The parts of the invariant as predicates of the maps they speak of, so  *)
(* that they can be stated of the pruned maps and of the next state.       *)
Match(as, es) ==
    \A t \in DOMAIN as : as[t].entity \in DOMAIN es /\ es[as[t].entity].key = as[t].key

Exact(ps, ci) == ci = {p \in DOMAIN ps : ps[p].status \in Claimable}

One(bs) ==
    \A b1, b2 \in DOMAIN bs :
        bs[b1].device = bs[b2].device /\ bs[b1].mobile = bs[b2].mobile => b1 = b2

Backed(ps, bs) ==
    \A p \in DOMAIN ps :
        IF ps[p].binding = NoBinding
        THEN ps[p].claimant = NoMobile /\ ps[p].status \in {"pending", "expired"}
        ELSE /\ ps[p].status # "pending"
             /\ ps[p].binding \in DOMAIN bs
             /\ bs[ps[p].binding].device = ps[p].device
             /\ bs[ps[p].binding].mobile = ps[p].claimant

Follows(ps, bs) ==
    \A b \in DOMAIN bs :
        bs[b].pairSession \in DOMAIN ps =>
            /\ ps[bs[b].pairSession].binding = b
            /\ ps[bs[b].pairSession].deviceKey = bs[b].deviceKey
            /\ bs[b].trust = "active" <=> ps[bs[b].pairSession].status = "approved"

(* The store never loses the session of a binding; a restart may.          *)
Present(ps, bs) == \A b \in DOMAIN bs : bs[b].pairSession \in DOMAIN ps

PairInv(ps, ci, bs) ==
    /\ Exact(ps, ci)
    /\ One(bs)
    /\ Backed(ps, bs)
    /\ Follows(ps, bs)

PairTypes(ps, ci, bs) ==
    /\ ps \in MapOf(PairIds, PairSession)
    /\ ci \in SUBSET PairIds
    /\ bs \in MapOf(BindingIds, Binding)

\* What a restart leaves of the invariant, and the whole of it.
Core ==
    /\ TypeOK
    /\ Match(authSessions, entities)
    /\ PairInv(pairSessions, claimIndex, bindings)

IInv == Core /\ Present(pairSessions, bindings)

\* A session that is made now is not one that a binding names.
Fresh ==
    \A b \in DOMAIN bindings :
        bindings[b].pairSession \notin DOMAIN pairSessions' \ DOMAIN pairSessions

-----------------------------------------------------------------------------
(* Maps.                                                                   *)

(* A Go map has keys in K and values in V. *)
LEMMA MapElim ==
    ASSUME NEW K, NEW V, NEW f \in MapOf(K, V)
    PROVE  /\ DOMAIN f \subseteq K
           /\ \A x \in DOMAIN f : f[x] \in V
           /\ f = [x \in DOMAIN f |-> f[x]]
<1>1. PICK D \in SUBSET K : f \in [D -> V]
  BY DEF MapOf
<1> QED BY <1>1

(* A function on keys of K with values in V is such a map. *)
LEMMA MapIntro ==
    ASSUME NEW K, NEW V, NEW D \in SUBSET K, NEW f \in [D -> V]
    PROVE  f \in MapOf(K, V)
BY DEF MapOf

(* Assignment to a key. *)
LEMMA PutMap ==
    ASSUME NEW K, NEW V, NEW f \in MapOf(K, V), NEW k \in K, NEW v \in V
    PROVE  Put(f, k, v) \in MapOf(K, V)
<1> DEFINE D == DOMAIN f \cup {k}
<1>1. D \in SUBSET K /\ \A x \in DOMAIN f : f[x] \in V
  BY MapElim
<1>2. Put(f, k, v) \in [D -> V]
  BY <1>1 DEF Put
<1> QED BY <1>1, <1>2, MapIntro

(* Deletion of keys. *)
LEMMA RestrictMap ==
    ASSUME NEW K, NEW V, NEW f \in MapOf(K, V), NEW S \in SUBSET DOMAIN f
    PROVE  /\ Restrict(f, S) \in MapOf(K, V)
           /\ DOMAIN Restrict(f, S) = S
           /\ \A x \in S : Restrict(f, S)[x] = f[x]
<1>1. DOMAIN f \subseteq K /\ \A x \in DOMAIN f : f[x] \in V
  BY MapElim
<1>2. Restrict(f, S) \in [S -> V]
  BY <1>1 DEF Restrict
<1>3. Restrict(f, S) \in MapOf(K, V)
  BY <1>1, <1>2, MapIntro
<1> QED BY <1>3 DEF Restrict

-----------------------------------------------------------------------------
(* The pruned maps.                                                        *)

(* Pruning keeps the types. *)
LEMMA PrunedTypes ==
    ASSUME TypeOK
    PROVE  /\ LiveChallenges \in MapOf(ChallengeIds, Challenge)
           /\ LiveEntities \in MapOf(Entities, Registration)
           /\ LiveSessions \in MapOf(Tokens, AuthSession)
           /\ PairTypes(LivePairs, LiveIndex, bindings)
           /\ DOMAIN LivePairs = DOMAIN pairSessions
<1>1. LiveChallenges \in MapOf(ChallengeIds, Challenge)
  BY RestrictMap DEF TypeOK, IdentityTypeOK, LiveChallenges, Unexpired
<1>2. LiveEntities \in MapOf(Entities, Registration)
  BY RestrictMap DEF TypeOK, IdentityTypeOK, LiveEntities, Unexpired
<1>3. LiveSessions \in MapOf(Tokens, AuthSession)
  BY RestrictMap DEF TypeOK, IdentityTypeOK, LiveSessions, Unexpired
<1>4. LivePairs \in MapOf(PairIds, PairSession)
  <2>1. /\ DOMAIN pairSessions \in SUBSET PairIds
        /\ \A p \in DOMAIN pairSessions : pairSessions[p] \in PairSession
    BY MapElim DEF TypeOK
  <2>2. LivePairs \in [DOMAIN pairSessions -> PairSession]
    BY <2>1 DEF LivePairs, PairSession
  <2> QED BY <2>1, <2>2, MapIntro
<1>5. PairTypes(LivePairs, LiveIndex, bindings)
  BY <1>4 DEF PairTypes, TypeOK, LiveIndex
<1>6. DOMAIN LivePairs = DOMAIN pairSessions
  BY DEF LivePairs
<1> QED BY <1>1, <1>2, <1>3, <1>5, <1>6

(* Pruning drops an entity together with its sessions. *)
LEMMA PrunedMatch ==
    ASSUME TypeOK, Match(authSessions, entities)
    PROVE  Match(LiveSessions, LiveEntities)
<1>1. \A t \in DOMAIN LiveSessions :
          /\ t \in DOMAIN authSessions
          /\ LiveSessions[t] = authSessions[t]
          /\ authSessions[t].entity \notin RemovedEntities
  BY DEF LiveSessions, Restrict, Unexpired
<1>2. \A e \in DOMAIN LiveEntities : LiveEntities[e] = entities[e]
  BY DEF LiveEntities, Restrict
<1> QED BY <1>1, <1>2 DEF Match, RemovedEntities

(* Expiry takes a session out of the index and changes nothing else that   *)
(* the bindings depend on.                                                 *)
LEMMA PrunedPairInv ==
    ASSUME TypeOK, PairInv(pairSessions, claimIndex, bindings)
    PROVE  PairInv(LivePairs, LiveIndex, bindings)
<1>1. /\ DOMAIN LivePairs = DOMAIN pairSessions
      /\ \A p \in DOMAIN pairSessions :
            /\ pairSessions[p] \in PairSession
            /\ LivePairs[p].device = pairSessions[p].device
            /\ LivePairs[p].deviceKey = pairSessions[p].deviceKey
            /\ LivePairs[p].claimant = pairSessions[p].claimant
            /\ LivePairs[p].binding = pairSessions[p].binding
            /\ p \in Lapsed => /\ LivePairs[p].status = "expired"
                              /\ pairSessions[p].status \in Claimable
            /\ p \notin Lapsed => LivePairs[p].status = pairSessions[p].status
  <2>1. \A p \in DOMAIN pairSessions : pairSessions[p] \in PairSession
    BY MapElim DEF TypeOK
  <2> QED BY <2>1 DEF LivePairs, Lapsed, PairSession
<1>2. Exact(LivePairs, LiveIndex)
  BY <1>1 DEF PairInv, Exact, LiveIndex, Claimable
<1>3. One(bindings)
  BY DEF PairInv
<1>4. Backed(LivePairs, bindings)
  BY <1>1 DEF PairInv, Backed, Claimable
<1>5. Follows(LivePairs, bindings)
  BY <1>1 DEF PairInv, Follows, Claimable
<1> QED BY <1>2, <1>3, <1>4, <1>5 DEF PairInv

-----------------------------------------------------------------------------
(* Identities.                                                             *)

(* Refreshing a registered entity, or registering a new one, keeps every   *)
(* session matched.                                                        *)
LEMMA RegisterMatch ==
    ASSUME TypeOK, Match(LiveSessions, LiveEntities),
           NEW e \in Entities, NEW k \in Keys,
           e \in DOMAIN LiveEntities => LiveEntities[e].key = k
    PROVE  /\ Put(LiveEntities, e, Registered(k)) \in MapOf(Entities, Registration)
           /\ DOMAIN Put(LiveEntities, e, Registered(k)) = DOMAIN LiveEntities \cup {e}
           /\ Put(LiveEntities, e, Registered(k))[e].key = k
           /\ Match(LiveSessions, Put(LiveEntities, e, Registered(k)))
<1> DEFINE r == Registered(k)
<1>1. LiveEntities \in MapOf(Entities, Registration)
  BY PrunedTypes
<1>2. r \in Registration /\ r.key = k
  BY IdentityAssumption DEF Registered, Registration
<1> HIDE DEF r
<1>3. Put(LiveEntities, e, r) \in MapOf(Entities, Registration)
  BY <1>1, <1>2, PutMap
<1>4. /\ DOMAIN Put(LiveEntities, e, r) = DOMAIN LiveEntities \cup {e}
      /\ Put(LiveEntities, e, r)[e] = r
      /\ \A x \in DOMAIN LiveEntities : x # e => Put(LiveEntities, e, r)[x] = LiveEntities[x]
  BY DEF Put
<1>5. Match(LiveSessions, Put(LiveEntities, e, r))
  BY <1>2, <1>4 DEF Match
<1> QED BY <1>2, <1>3, <1>4, <1>5 DEF r

(* Adding or refreshing a session that carries its entity's key. *)
LEMMA SessionMatch ==
    ASSUME TypeOK, NEW es \in MapOf(Entities, Registration), Match(LiveSessions, es),
           NEW t \in Tokens, NEW s \in AuthSession,
           s.entity \in DOMAIN es, es[s.entity].key = s.key
    PROVE  /\ Put(LiveSessions, t, s) \in MapOf(Tokens, AuthSession)
           /\ Match(Put(LiveSessions, t, s), es)
<1>1. LiveSessions \in MapOf(Tokens, AuthSession)
  BY PrunedTypes
<1>2. Put(LiveSessions, t, s) \in MapOf(Tokens, AuthSession)
  BY <1>1, PutMap
<1>3. /\ DOMAIN Put(LiveSessions, t, s) = DOMAIN LiveSessions \cup {t}
      /\ Put(LiveSessions, t, s)[t] = s
      /\ \A x \in DOMAIN LiveSessions : x # t => Put(LiveSessions, t, s)[x] = LiveSessions[x]
  BY DEF Put
<1> QED BY <1>2, <1>3 DEF Match

(* Time takes nothing away and changes no field but the deadline. *)
LEMMA AgedMap ==
    ASSUME NEW f
    PROVE  /\ DOMAIN Aged(f) = DOMAIN f
           /\ \A x \in DOMAIN f :
                 Aged(f)[x] = [f[x] EXCEPT !.life = IF f[x].life > 0 THEN f[x].life - 1 ELSE 0]
BY DEF Aged

(* A refused operation prunes and stops. *)
LEMMA PruneKeeps ==
    ASSUME TypeOK, Match(authSessions, entities), PruneIdentities, UNCHANGED inflight
    PROVE  IdentityTypeOK' /\ Match(authSessions, entities)'
<1>1. Match(LiveSessions, LiveEntities)
  BY PrunedMatch
<1>2. Match(authSessions, entities)'
  BY <1>1 DEF Match, PruneIdentities
<1>3. IdentityTypeOK'
  BY PrunedTypes DEF PruneIdentities, TypeOK, IdentityTypeOK
<1> QED BY <1>2, <1>3

(* An entity that is refreshed keeps its key. *)
LEMMA RefreshKeeps ==
    ASSUME TypeOK, Match(authSessions, entities),
           NEW e \in DOMAIN LiveEntities,
           entities' = Put(LiveEntities, e, Registered(LiveEntities[e].key)),
           challenges' = LiveChallenges,
           authSessions' = LiveSessions,
           UNCHANGED inflight
    PROVE  IdentityTypeOK' /\ Match(authSessions, entities)'
<1> DEFINE k == LiveEntities[e].key
<1>1. e \in Entities /\ k \in Keys
  <2>1. LiveEntities \in MapOf(Entities, Registration)
    BY PrunedTypes
  <2>2. e \in Entities /\ LiveEntities[e] \in Registration
    BY <2>1, MapElim
  <2> QED BY <2>2 DEF Registration
<1>2. Match(LiveSessions, LiveEntities)
  BY PrunedMatch
<1> HIDE DEF k
<1>3. LiveEntities[e].key = k
  BY DEF k
<1>4. /\ Put(LiveEntities, e, Registered(k)) \in MapOf(Entities, Registration)
      /\ Match(LiveSessions, Put(LiveEntities, e, Registered(k)))
  BY <1>1, <1>2, <1>3, RegisterMatch
<1>5. entities' = Put(LiveEntities, e, Registered(k))
  BY <1>3
<1>6. Match(authSessions, entities)'
  BY <1>4, <1>5 DEF Match
<1>7. IdentityTypeOK'
  BY <1>4, <1>5, PrunedTypes DEF TypeOK, IdentityTypeOK
<1> QED BY <1>6, <1>7

(* Every identity operation keeps the types and the sessions matched. *)
LEMMA IdentityOpKeeps ==
    ASSUME TypeOK, Match(authSessions, entities), IdentityOp
    PROVE  IdentityTypeOK' /\ Match(authSessions, entities)'
<1>1. /\ LiveChallenges \in MapOf(ChallengeIds, Challenge)
      /\ LiveEntities \in MapOf(Entities, Registration)
      /\ LiveSessions \in MapOf(Tokens, AuthSession)
      /\ inflight \in SUBSET Entities
  BY PrunedTypes DEF TypeOK, IdentityTypeOK
<1>2. Match(LiveSessions, LiveEntities)
  BY PrunedMatch
<1>3. ASSUME NEW c \in ChallengeIds, NEW e \in Entities, NEW k \in Keys,
             CreateChallenge(c, e, k)
      PROVE  IdentityTypeOK' /\ Match(authSessions, entities)'
  <2> DEFINE r == [entity |-> e, key |-> k, life |-> ChallengeTTL]
  <2>1. r \in Challenge
    BY IdentityAssumption DEF Challenge
  <2>2. challenges' = Put(LiveChallenges, c, r)
    BY <1>3 DEF CreateChallenge
  <2> HIDE DEF r
  <2>3. challenges' \in MapOf(ChallengeIds, Challenge)
    BY <1>1, <2>1, <2>2, PutMap
  <2> QED BY <1>1, <1>2, <1>3, <2>3 DEF CreateChallenge, IdentityTypeOK, Match
<1>4. ASSUME NEW c \in ChallengeIds, NEW t \in Tokens, Login(c, t)
      PROVE  IdentityTypeOK' /\ Match(authSessions, entities)'
  <2> DEFINE e == challenges[c].entity
             k == challenges[c].key
             es == Put(LiveEntities, e, Registered(k))
             s == [entity |-> e, key |-> k, life |-> AuthTTL]
  <2>1. c \in DOMAIN challenges /\ DOMAIN LiveChallenges \subseteq DOMAIN challenges
    BY <1>4 DEF Login, LiveChallenges, Restrict, Unexpired
  <2>2. challenges[c] \in Challenge
    BY <2>1, MapElim DEF TypeOK, IdentityTypeOK
  <2>3. e \in Entities /\ k \in Keys
    BY <2>2 DEF Challenge
  <2>4. s \in AuthSession /\ s.entity = e /\ s.key = k
    BY <2>3, IdentityAssumption DEF AuthSession
  <2>5. e \in DOMAIN LiveEntities => LiveEntities[e].key = k
    BY <1>4 DEF Login, KeyAccepted
  <2>6. entities' = es /\ authSessions' = Put(LiveSessions, t, s)
    BY <1>4 DEF Login
  <2>7. challenges' \in MapOf(ChallengeIds, Challenge) /\ inflight' = inflight
    BY <1>1, <1>4, RestrictMap DEF Login
  <2> HIDE DEF e, k, s
  <2>8. /\ es \in MapOf(Entities, Registration)
        /\ DOMAIN es = DOMAIN LiveEntities \cup {e}
        /\ es[e].key = k
        /\ Match(LiveSessions, es)
    BY <1>2, <2>3, <2>5, RegisterMatch
  <2> HIDE DEF es
  <2>9. /\ Put(LiveSessions, t, s) \in MapOf(Tokens, AuthSession)
        /\ Match(Put(LiveSessions, t, s), es)
    BY <2>4, <2>8, SessionMatch
  <2>10. Match(authSessions, entities)'
    BY <2>6, <2>9 DEF Match
  <2> QED BY <1>1, <2>6, <2>7, <2>8, <2>9, <2>10 DEF IdentityTypeOK
<1>5. ASSUME NEW t \in Tokens, Authenticate(t)
      PROVE  IdentityTypeOK' /\ Match(authSessions, entities)'
  <2> DEFINE s == LiveSessions[t]
             es == IF s.entity \in DOMAIN LiveEntities THEN LiveEntities
                   ELSE Put(LiveEntities, s.entity, Registered(s.key))
             slid == [s EXCEPT !.life = AuthTTL]
  <2>1. s \in AuthSession
    BY <1>1, <1>5, MapElim DEF Authenticate
  <2>2. s.entity \in DOMAIN LiveEntities /\ LiveEntities[s.entity].key = s.key
    BY <1>2, <1>5 DEF Authenticate, Match
  <2>3. es = LiveEntities
    BY <2>2
  <2>4. slid \in AuthSession /\ slid.entity = s.entity /\ slid.key = s.key
    BY <2>1, IdentityAssumption DEF AuthSession
  <2>5. /\ challenges' = LiveChallenges
        /\ entities' = LiveEntities
        /\ authSessions' = Put(LiveSessions, t, slid)
        /\ inflight' = inflight \cup {s.entity}
    BY <1>5, <2>3 DEF Authenticate, SlidSession
  <2>6. s.entity \in Entities
    BY <2>1 DEF AuthSession
  <2> HIDE DEF s, es, slid
  <2>7. /\ Put(LiveSessions, t, slid) \in MapOf(Tokens, AuthSession)
        /\ Match(Put(LiveSessions, t, slid), LiveEntities)
    BY <1>1, <1>2, <2>2, <2>4, SessionMatch
  <2>8. Match(authSessions, entities)'
    BY <2>5, <2>7 DEF Match
  <2> QED BY <1>1, <2>5, <2>6, <2>7, <2>8 DEF IdentityTypeOK
<1>6. ASSUME NEW e \in Entities, Presence(e)
      PROVE  IdentityTypeOK' /\ Match(authSessions, entities)'
  BY <1>6, RefreshKeeps DEF Presence
<1>7. CASE Cleanup
  BY <1>7, PruneKeeps DEF Cleanup
<1> QED BY <1>3, <1>4, <1>5, <1>6, <1>7 DEF IdentityOp, IdentityMutation, IdentityRest

(* Time keeps the types and the sessions matched. *)
LEMMA TickKeeps ==
    ASSUME TypeOK, Match(authSessions, entities), Tick
    PROVE  IdentityTypeOK' /\ Match(authSessions, entities)'
<1>1. /\ challenges \in MapOf(ChallengeIds, Challenge)
      /\ authSessions \in MapOf(Tokens, AuthSession)
      /\ entities \in MapOf(Entities, Registration)
  BY DEF TypeOK, IdentityTypeOK
<1>2. Aged(challenges) \in MapOf(ChallengeIds, Challenge)
  <2>1. /\ DOMAIN challenges \in SUBSET ChallengeIds
        /\ \A x \in DOMAIN challenges : challenges[x] \in Challenge
    BY <1>1, MapElim
  <2>2. Aged(challenges) \in [DOMAIN challenges -> Challenge]
    BY <2>1, IdentityAssumption DEF Aged, Challenge
  <2> QED BY <2>1, <2>2, MapIntro
<1>3. /\ Aged(authSessions) \in MapOf(Tokens, AuthSession)
      /\ \A t \in DOMAIN authSessions : /\ Aged(authSessions)[t].entity = authSessions[t].entity
                                        /\ Aged(authSessions)[t].key = authSessions[t].key
  <2>1. /\ DOMAIN authSessions \in SUBSET Tokens
        /\ \A x \in DOMAIN authSessions : authSessions[x] \in AuthSession
    BY <1>1, MapElim
  <2>2. Aged(authSessions) \in [DOMAIN authSessions -> AuthSession]
    BY <2>1, IdentityAssumption DEF Aged, AuthSession
  <2>3. Aged(authSessions) \in MapOf(Tokens, AuthSession)
    BY <2>1, <2>2, MapIntro
  <2> QED BY <2>1, <2>3 DEF Aged, AuthSession
<1>4. /\ Aged(entities) \in MapOf(Entities, Registration)
      /\ \A e \in DOMAIN entities : Aged(entities)[e].key = entities[e].key
  <2>1. /\ DOMAIN entities \in SUBSET Entities
        /\ \A x \in DOMAIN entities : entities[x] \in Registration
    BY <1>1, MapElim
  <2>2. Aged(entities) \in [DOMAIN entities -> Registration]
    BY <2>1, IdentityAssumption DEF Aged, Registration
  <2>3. Aged(entities) \in MapOf(Entities, Registration)
    BY <2>1, <2>2, MapIntro
  <2> QED BY <2>1, <2>3 DEF Aged, Registration
<1>5. DOMAIN Aged(authSessions) = DOMAIN authSessions /\ DOMAIN Aged(entities) = DOMAIN entities
  BY AgedMap
<1>6. Match(Aged(authSessions), Aged(entities))
  BY <1>3, <1>4, <1>5 DEF Match
<1>7. Match(authSessions, entities)'
  BY <1>6 DEF Match, Tick
<1>8. IdentityTypeOK'
  BY <1>2, <1>3, <1>4 DEF Tick, TypeOK, IdentityTypeOK
<1> QED BY <1>7, <1>8

-----------------------------------------------------------------------------
(* Pair sessions and bindings.                                             *)

(* An operation on identities alone leaves the pairing maps pruned. *)
LEMMA PrunePairsKeeps ==
    ASSUME TypeOK, PairInv(pairSessions, claimIndex, bindings), PrunePairs
    PROVE  /\ PairTypes(pairSessions, claimIndex, bindings)'
           /\ PairInv(pairSessions, claimIndex, bindings)'
<1>1. PairTypes(LivePairs, LiveIndex, bindings) /\ PairInv(LivePairs, LiveIndex, bindings)
  BY PrunedTypes, PrunedPairInv
<1> QED BY <1>1 DEF PrunePairs, PairTypes, PairInv, Exact, One, Backed, Follows

(* A new session is pending, indexed, and no binding points at it. *)
LEMMA CreateKeeps ==
    ASSUME TypeOK, PairInv(pairSessions, claimIndex, bindings),
           NEW d \in Desktops, NEW p \in PairIds, NEW ttl \in 1..MaxPairTTL,
           CreatePairSession(d, p, ttl), Fresh
    PROVE  /\ PairTypes(pairSessions, claimIndex, bindings)'
           /\ PairInv(pairSessions, claimIndex, bindings)'
<1> DEFINE r == [device |-> d, deviceKey |-> LiveEntities[d].key, status |-> "pending",
                 claimant |-> NoMobile, binding |-> NoBinding, life |-> ttl]
<1>1. /\ PairTypes(LivePairs, LiveIndex, bindings)
      /\ PairInv(LivePairs, LiveIndex, bindings)
  BY PrunedTypes, PrunedPairInv
<1>2. LiveEntities[d].key \in Keys
  <2>1. LiveEntities \in MapOf(Entities, Registration) /\ d \in DOMAIN LiveEntities
    BY PrunedTypes DEF CreatePairSession
  <2>2. LiveEntities[d] \in Registration
    BY <2>1, MapElim
  <2> QED BY <2>2 DEF Registration
<1>3. /\ r \in PairSession
      /\ r.status = "pending" /\ r.claimant = NoMobile /\ r.binding = NoBinding
  BY <1>2, PairAssumption DEF PairSession
<1>4. /\ p \notin DOMAIN LivePairs
      /\ pairSessions' = Put(LivePairs, p, r)
      /\ claimIndex' = LiveIndex \cup {p}
      /\ bindings' = bindings
  BY DEF CreatePairSession
<1> HIDE DEF r
<1>5. Put(LivePairs, p, r) \in MapOf(PairIds, PairSession)
  BY <1>1, <1>3, PutMap DEF PairTypes
<1>6. PairTypes(pairSessions, claimIndex, bindings)'
  BY <1>1, <1>4, <1>5 DEF PairTypes
<1>7. /\ DOMAIN pairSessions' = DOMAIN LivePairs \cup {p}
      /\ pairSessions'[p] = r
      /\ \A q \in DOMAIN LivePairs : pairSessions'[q] = LivePairs[q]
  BY <1>4 DEF Put
<1>8. Exact(pairSessions, claimIndex)'
  BY <1>1, <1>3, <1>4, <1>7 DEF PairInv, Exact, Claimable
<1>9. One(bindings)'
  BY <1>1, <1>4 DEF PairInv, One
<1>10. Backed(pairSessions, bindings)'
  BY <1>1, <1>3, <1>4, <1>7 DEF PairInv, Backed
<1>11. \A b \in DOMAIN bindings : bindings[b].pairSession # p
  BY <1>4, <1>7, PrunedTypes DEF Fresh
<1>12. Follows(pairSessions, bindings)'
  BY <1>1, <1>4, <1>7, <1>11 DEF PairInv, Follows
<1> QED BY <1>6, <1>8, <1>9, <1>10, <1>12 DEF PairInv

(* A deletion takes a session away, and its token from the index.          *)
LEMMA DeleteKeeps ==
    ASSUME TypeOK, PairInv(pairSessions, claimIndex, bindings),
           NEW d \in Desktops, NEW p \in PairIds, DeletePairSession(d, p)
    PROVE  /\ PairTypes(pairSessions, claimIndex, bindings)'
           /\ PairInv(pairSessions, claimIndex, bindings)'
<1>1. /\ PairTypes(LivePairs, LiveIndex, bindings)
      /\ PairInv(LivePairs, LiveIndex, bindings)
  BY PrunedTypes, PrunedPairInv
<1> DEFINE S == DOMAIN LivePairs \ {p}
<1>2. /\ LivePairs[p].binding = NoBinding
      /\ pairSessions' = Restrict(LivePairs, S)
      /\ claimIndex' = LiveIndex \ {p}
      /\ bindings' = bindings
  BY DEF DeletePairSession
<1>3. pairSessions' \in MapOf(PairIds, PairSession)
  BY <1>1, <1>2, RestrictMap DEF PairTypes
<1>4. PairTypes(pairSessions, claimIndex, bindings)'
  BY <1>1, <1>2, <1>3 DEF PairTypes
<1>5. DOMAIN pairSessions' = S /\ \A q \in S : pairSessions'[q] = LivePairs[q]
  BY <1>2 DEF Restrict
<1>6. Exact(pairSessions, claimIndex)'
  BY <1>1, <1>2, <1>5 DEF PairInv, Exact
<1>7. One(bindings)'
  BY <1>1, <1>2 DEF PairInv, One
<1>8. Backed(pairSessions, bindings)'
  BY <1>1, <1>2, <1>5 DEF PairInv, Backed
<1>9. Follows(pairSessions, bindings)'
  <2>1. Follows(LivePairs, bindings)
    BY <1>1 DEF PairInv
  <2>2. \A b \in DOMAIN bindings :
            bindings[b].pairSession \in DOMAIN pairSessions' =>
                /\ bindings[b].pairSession \in DOMAIN LivePairs
                /\ pairSessions'[bindings[b].pairSession] = LivePairs[bindings[b].pairSession]
    BY <1>5
  <2> QED BY <1>2, <2>1, <2>2 DEF Follows
<1> QED BY <1>4, <1>6, <1>7, <1>8, <1>9 DEF PairInv

(* A claim under b, the only binding of the pair if there is one.  No      *)
(* other binding can point at the session: it would be backed by a claim   *)
(* of the same mobile, hence be a binding of the same pair.                *)
LEMMA SetClaimKeeps ==
    ASSUME TypeOK, PairInv(pairSessions, claimIndex, bindings),
           NEW m \in Mobiles, NEW p \in PairIds, NEW b \in BindingIds,
           MayClaim(m, p),
           \A x \in BindingsOf(LivePairs[p].device, m) : x = b,
           b \in DOMAIN bindings => b \in BindingsOf(LivePairs[p].device, m),
           SetClaim(m, p, b, PendingBinding(m, p))
    PROVE  /\ PairTypes(pairSessions, claimIndex, bindings)'
           /\ PairInv(pairSessions, claimIndex, bindings)'
<1> DEFINE r == PendingBinding(m, p)
           s == [LivePairs[p] EXCEPT !.status = "claimed", !.claimant = m, !.binding = b]
<1>1. /\ PairTypes(LivePairs, LiveIndex, bindings)
      /\ PairInv(LivePairs, LiveIndex, bindings)
  BY PrunedTypes, PrunedPairInv
<1>2. LivePairs[p] \in PairSession /\ LiveEntities[m].key \in Keys
  <2>1. /\ LiveEntities \in MapOf(Entities, Registration) /\ m \in DOMAIN LiveEntities
        /\ LivePairs \in MapOf(PairIds, PairSession) /\ p \in DOMAIN LivePairs
    BY PrunedTypes DEF MayClaim, PairTypes
  <2>2. LiveEntities[m] \in Registration
    BY <2>1, MapElim
  <2>3. LivePairs[p] \in PairSession
    BY <2>1, MapElim
  <2> QED BY <2>2, <2>3 DEF Registration
<1>3. /\ s \in PairSession
      /\ s.device = LivePairs[p].device /\ s.deviceKey = LivePairs[p].deviceKey
      /\ s.status = "claimed" /\ s.claimant = m /\ s.binding = b
  BY <1>2 DEF PairSession
<1>4. /\ r \in Binding
      /\ r.pairSession = p /\ r.device = LivePairs[p].device
      /\ r.deviceKey = LivePairs[p].deviceKey
      /\ r.mobile = m /\ r.trust = "pending"
  BY <1>2 DEF PendingBinding, PairSession, Binding
<1>5. /\ pairSessions' = Put(LivePairs, p, s)
      /\ bindings' = Put(bindings, b, r)
      /\ claimIndex' = LiveIndex
  BY DEF SetClaim
<1>6. /\ p \in DOMAIN LivePairs /\ LivePairs[p].status \in Claimable
      /\ LivePairs[p].status = "claimed" => LivePairs[p].claimant = m
  BY DEF MayClaim, OpenTo
<1>7. b # NoBinding /\ DOMAIN bindings \subseteq BindingIds /\ NoBinding \notin BindingIds
  BY <1>1, PairAssumption, MapElim DEF PairTypes
<1>8. \A x \in DOMAIN bindings :
          bindings[x].device = LivePairs[p].device /\ bindings[x].mobile = m => x = b
  BY DEF BindingsOf
<1>9. b \in DOMAIN bindings =>
          bindings[b].device = LivePairs[p].device /\ bindings[b].mobile = m
  BY DEF BindingsOf
<1> HIDE DEF r, s
<1>10. PairTypes(pairSessions, claimIndex, bindings)'
  <2>1. Put(LivePairs, p, s) \in MapOf(PairIds, PairSession)
    BY <1>1, <1>3, PutMap DEF PairTypes
  <2>2. Put(bindings, b, r) \in MapOf(BindingIds, Binding)
    BY <1>1, <1>4, PutMap DEF PairTypes
  <2> QED BY <1>1, <1>5, <2>1, <2>2 DEF PairTypes
<1>11. /\ DOMAIN pairSessions' = DOMAIN LivePairs
       /\ pairSessions'[p] = s
       /\ \A q \in DOMAIN LivePairs : q # p => pairSessions'[q] = LivePairs[q]
  BY <1>5, <1>6 DEF Put
<1>12. /\ DOMAIN bindings' = DOMAIN bindings \cup {b}
       /\ bindings'[b] = r
       /\ \A x \in DOMAIN bindings : x # b => bindings'[x] = bindings[x]
  BY <1>5 DEF Put
<1>13. Exact(pairSessions, claimIndex)'
  BY <1>1, <1>3, <1>5, <1>6, <1>11 DEF PairInv, Exact, Claimable
<1>14. One(bindings)'
  BY <1>1, <1>4, <1>8, <1>12 DEF PairInv, One
<1>15. Backed(pairSessions, bindings)'
  BY <1>1, <1>3, <1>4, <1>7, <1>9, <1>11, <1>12 DEF PairInv, Backed
<1>16. \A x \in DOMAIN bindings : x # b => bindings[x].pairSession # p
  <2> SUFFICES ASSUME NEW x \in DOMAIN bindings, x # b, bindings[x].pairSession = p
               PROVE  FALSE
    OBVIOUS
  <2>1. LivePairs[p].binding = x
    BY <1>1, <1>6 DEF PairInv, Follows
  <2>2. /\ LivePairs[p].status # "pending"
        /\ bindings[x].device = LivePairs[p].device
        /\ bindings[x].mobile = LivePairs[p].claimant
    BY <1>1, <1>6, <1>7, <2>1 DEF PairInv, Backed
  <2> QED BY <1>6, <1>8, <2>2 DEF Claimable
<1>17. Follows(pairSessions, bindings)'
  BY <1>1, <1>3, <1>4, <1>6, <1>11, <1>12, <1>16 DEF PairInv, Follows
<1> QED BY <1>10, <1>13, <1>14, <1>15, <1>17 DEF PairInv

(* Approval of a binding whose session a restart has lost.                 *)
LEMMA ApproveLostKeeps ==
    ASSUME TypeOK, PairInv(pairSessions, claimIndex, bindings),
           NEW d \in Desktops, NEW b \in BindingIds, ApproveBinding(d, b),
           bindings[b].pairSession \notin DOMAIN LivePairs
    PROVE  /\ PairTypes(pairSessions, claimIndex, bindings)'
           /\ PairInv(pairSessions, claimIndex, bindings)'
<1> DEFINE r == [bindings[b] EXCEPT !.trust = "active"]
<1>1. /\ PairTypes(LivePairs, LiveIndex, bindings)
      /\ PairInv(LivePairs, LiveIndex, bindings)
  BY PrunedTypes, PrunedPairInv
<1>2. b \in DOMAIN bindings /\ bindings[b] \in Binding
  BY <1>1, MapElim DEF ApproveBinding, PairTypes
<1>3. /\ r \in Binding /\ r.pairSession = bindings[b].pairSession
      /\ r.device = bindings[b].device /\ r.mobile = bindings[b].mobile
  BY <1>2 DEF Binding
<1>4. /\ pairSessions' = LivePairs
      /\ bindings' = Put(bindings, b, r)
      /\ claimIndex' = LiveIndex
  BY DEF ApproveBinding, Approved
<1> HIDE DEF r
<1>5. PairTypes(pairSessions, claimIndex, bindings)'
  <2>1. Put(bindings, b, r) \in MapOf(BindingIds, Binding)
    BY <1>1, <1>3, PutMap DEF PairTypes
  <2> QED BY <1>1, <1>4, <2>1 DEF PairTypes
<1>6. /\ DOMAIN bindings' = DOMAIN bindings
      /\ bindings'[b] = r
      /\ \A x \in DOMAIN bindings : x # b => bindings'[x] = bindings[x]
  BY <1>2, <1>4 DEF Put
<1>7. Exact(pairSessions, claimIndex)'
  BY <1>1, <1>4 DEF PairInv, Exact
<1>8. One(bindings)'
  BY <1>1, <1>2, <1>3, <1>6 DEF PairInv, One
<1>9. Backed(pairSessions, bindings)'
  BY <1>1, <1>3, <1>4, <1>6 DEF PairInv, Backed
<1>10. Follows(pairSessions, bindings)'
  BY <1>1, <1>3, <1>4, <1>6 DEF PairInv, Follows
<1> QED BY <1>5, <1>7, <1>8, <1>9, <1>10 DEF PairInv

(* Approval makes the binding active and its session approved together. *)
LEMMA ApproveKeeps ==
    ASSUME TypeOK, PairInv(pairSessions, claimIndex, bindings),
           NEW d \in Desktops, NEW b \in BindingIds, ApproveBinding(d, b),
           bindings[b].pairSession \in DOMAIN LivePairs
    PROVE  /\ PairTypes(pairSessions, claimIndex, bindings)'
           /\ PairInv(pairSessions, claimIndex, bindings)'
<1> DEFINE p == bindings[b].pairSession
           s == [LivePairs[p] EXCEPT !.status = "approved"]
           r == [bindings[b] EXCEPT !.trust = "active"]
<1>1. /\ PairTypes(LivePairs, LiveIndex, bindings)
      /\ PairInv(LivePairs, LiveIndex, bindings)
  BY PrunedTypes, PrunedPairInv
<1>2. b \in DOMAIN bindings /\ bindings[b].trust = "pending"
  BY DEF ApproveBinding
<1>3. /\ p \in DOMAIN LivePairs /\ LivePairs[p].binding = b
      /\ LivePairs[p].deviceKey = bindings[b].deviceKey
      /\ LivePairs[p].status # "approved"
  BY <1>1, <1>2 DEF PairInv, Follows
<1>4. LivePairs[p] \in PairSession /\ bindings[b] \in Binding /\ p \in PairIds
  <2>1. LivePairs[p] \in PairSession /\ p \in PairIds
    BY <1>1, <1>3, MapElim DEF PairTypes
  <2>2. bindings[b] \in Binding
    BY <1>1, <1>2, MapElim DEF PairTypes
  <2> QED BY <2>1, <2>2
<1>5. /\ s \in PairSession /\ s.status = "approved"
      /\ s.device = LivePairs[p].device /\ s.deviceKey = LivePairs[p].deviceKey
      /\ s.claimant = LivePairs[p].claimant /\ s.binding = LivePairs[p].binding
  BY <1>4 DEF PairSession
<1>6. /\ r \in Binding /\ r.trust = "active" /\ r.pairSession = p
      /\ r.device = bindings[b].device /\ r.mobile = bindings[b].mobile
      /\ r.deviceKey = bindings[b].deviceKey
  BY <1>4 DEF Binding
<1>7. /\ pairSessions' = Put(LivePairs, p, s)
      /\ bindings' = Put(bindings, b, r)
      /\ claimIndex' = LiveIndex \ {p}
  BY <1>3 DEF ApproveBinding, Approved
<1>8. NoBinding \notin BindingIds
  BY PairAssumption
<1>9. bindings[b].pairSession = p
  OBVIOUS
<1> HIDE DEF p, r, s
<1>10. PairTypes(pairSessions, claimIndex, bindings)'
  <2>1. Put(LivePairs, p, s) \in MapOf(PairIds, PairSession)
    BY <1>1, <1>4, <1>5, PutMap DEF PairTypes
  <2>2. Put(bindings, b, r) \in MapOf(BindingIds, Binding)
    BY <1>1, <1>6, PutMap DEF PairTypes
  <2> QED BY <1>1, <1>7, <2>1, <2>2 DEF PairTypes
<1>11. /\ DOMAIN pairSessions' = DOMAIN LivePairs
       /\ pairSessions'[p] = s
       /\ \A q \in DOMAIN LivePairs : q # p => pairSessions'[q] = LivePairs[q]
  BY <1>3, <1>7 DEF Put
<1>12. /\ DOMAIN bindings' = DOMAIN bindings
       /\ bindings'[b] = r
       /\ \A x \in DOMAIN bindings : x # b => bindings'[x] = bindings[x]
  BY <1>2, <1>7 DEF Put
<1>13. Exact(pairSessions, claimIndex)'
  BY <1>1, <1>5, <1>7, <1>11 DEF PairInv, Exact, Claimable
<1>14. One(bindings)'
  BY <1>1, <1>2, <1>6, <1>12 DEF PairInv, One
<1>15. Backed(pairSessions, bindings)'
  BY <1>1, <1>2, <1>3, <1>5, <1>6, <1>8, <1>11, <1>12 DEF PairInv, Backed
<1>16. Follows(pairSessions, bindings)'
  BY <1>1, <1>2, <1>3, <1>5, <1>6, <1>9, <1>11, <1>12 DEF PairInv, Follows
<1> QED BY <1>10, <1>13, <1>14, <1>15, <1>16 DEF PairInv

(* A claim prunes the identities and may refresh the mobile. *)
LEMMA NameMobileKeeps ==
    ASSUME TypeOK, Match(authSessions, entities),
           NEW m \in DOMAIN LiveEntities, NEW named \in BOOLEAN, NameMobile(m, named)
    PROVE  IdentityTypeOK' /\ Match(authSessions, entities)'
<1>1. CASE named
  BY <1>1, RefreshKeeps DEF NameMobile
<1>2. CASE ~named
  BY <1>2, PruneKeeps DEF NameMobile, PruneIdentities
<1> QED BY <1>1, <1>2

-----------------------------------------------------------------------------
(* The invariant.                                                          *)

LEMMA InitInv == Init => IInv
<1> SUFFICES ASSUME Init PROVE IInv
  OBVIOUS
<1>1. DOMAIN challenges = {} /\ challenges \in [{} -> Challenge]
  BY DEF Init, IdentityInit
<1>2. DOMAIN authSessions = {} /\ authSessions \in [{} -> AuthSession]
  BY DEF Init, IdentityInit
<1>3. DOMAIN entities = {} /\ entities \in [{} -> Registration]
  BY DEF Init, IdentityInit
<1>4. DOMAIN pairSessions = {} /\ pairSessions \in [{} -> PairSession]
  BY DEF Init
<1>5. DOMAIN bindings = {} /\ bindings \in [{} -> Binding]
  BY DEF Init
<1>6. TypeOK
  BY <1>1, <1>2, <1>3, <1>4, <1>5
     DEF Init, IdentityInit, TypeOK, IdentityTypeOK, MapOf
<1>7. Match(authSessions, entities)
  BY <1>2 DEF Match
<1>8. PairInv(pairSessions, claimIndex, bindings)
  BY <1>4, <1>5 DEF Init, PairInv, Exact, One, Backed, Follows
<1>9. Present(pairSessions, bindings)
  BY <1>5 DEF Present
<1> QED BY <1>6, <1>7, <1>8, <1>9 DEF IInv, Core

(* Every step keeps the core, with or without the sessions of bindings.    *)
LEMMA CoreStep ==
    ASSUME Core, [Next]_vars, Fresh
    PROVE  Core'
<1>1. TypeOK /\ Match(authSessions, entities) /\ PairInv(pairSessions, claimIndex, bindings)
  BY DEF Core
<1>2. ASSUME IdentityTypeOK', Match(authSessions, entities)',
             PairTypes(pairSessions, claimIndex, bindings)',
             PairInv(pairSessions, claimIndex, bindings)'
      PROVE  Core'
  BY <1>2 DEF Core, TypeOK, PairTypes
<1>3. CASE IdentityOp /\ PrunePairs
  BY <1>1, <1>2, <1>3, IdentityOpKeeps, PrunePairsKeeps
<1>4. ASSUME NEW d \in Desktops, NEW p \in PairIds, NEW ttl \in 1..MaxPairTTL,
             CreatePairSession(d, p, ttl)
      PROVE  Core'
  <2>1. PruneIdentities /\ UNCHANGED inflight
    BY <1>4 DEF CreatePairSession
  <2> QED BY <1>1, <1>2, <1>4, <2>1, CreateKeeps, PruneKeeps
<1>5. ASSUME NEW d \in Desktops, NEW p \in PairIds, DeletePairSession(d, p)
      PROVE  Core'
  <2>1. PruneIdentities /\ UNCHANGED inflight
    BY <1>5 DEF DeletePairSession
  <2> QED BY <1>1, <1>2, <1>5, <2>1, DeleteKeeps, PruneKeeps
<1>6. ASSUME NEW m \in Mobiles, NEW p \in PairIds, NEW named \in BOOLEAN,
             MayClaim(m, p), NameMobile(m, named)
      PROVE  IdentityTypeOK' /\ Match(authSessions, entities)'
  <2>1. m \in DOMAIN LiveEntities
    BY <1>6 DEF MayClaim
  <2> QED BY <1>1, <1>6, <2>1, NameMobileKeeps
<1>7. ASSUME NEW m \in Mobiles, NEW p \in PairIds, NEW named \in BOOLEAN,
             ClaimRefused(m, p, named)
      PROVE  Core'
  <2>1. MayClaim(m, p) /\ NameMobile(m, named) /\ PrunePairs
    BY <1>7 DEF ClaimRefused
  <2> QED BY <1>1, <1>2, <1>6, <2>1, PrunePairsKeeps
<1>8. ASSUME NEW m \in Mobiles, NEW p \in PairIds, NEW named \in BOOLEAN,
             ClaimAgain(m, p, named)
      PROVE  Core'
  <2>1. PICK b \in BindingsOf(LivePairs[p].device, m) : SetClaim(m, p, b, PendingBinding(m, p))
    BY <1>8 DEF ClaimAgain
  <2>2. MayClaim(m, p) /\ NameMobile(m, named)
    BY <1>8 DEF ClaimAgain
  <2>3. b \in BindingIds
    <3>1. b \in DOMAIN bindings
      BY <2>1 DEF BindingsOf
    <3> QED BY <1>1, <3>1, MapElim DEF TypeOK
  <2>4. \A x \in BindingsOf(LivePairs[p].device, m) : x = b
    BY <1>1, <2>1 DEF PairInv, One, BindingsOf
  <2>5. PairTypes(pairSessions, claimIndex, bindings)' /\ PairInv(pairSessions, claimIndex, bindings)'
    BY <1>1, <2>1, <2>2, <2>3, <2>4, SetClaimKeeps
  <2> QED BY <1>2, <1>6, <2>2, <2>5
<1>9. ASSUME NEW m \in Mobiles, NEW p \in PairIds, NEW b \in BindingIds, NEW named \in BOOLEAN,
             ClaimFirst(m, p, b, named)
      PROVE  Core'
  <2>1. /\ MayClaim(m, p) /\ NameMobile(m, named) /\ SetClaim(m, p, b, PendingBinding(m, p))
        /\ BindingsOf(LivePairs[p].device, m) = {} /\ b \notin DOMAIN bindings
    BY <1>9 DEF ClaimFirst
  <2>2. PairTypes(pairSessions, claimIndex, bindings)' /\ PairInv(pairSessions, claimIndex, bindings)'
    BY <1>1, <2>1, SetClaimKeeps
  <2> QED BY <1>2, <1>6, <2>1, <2>2
<1>10. ASSUME NEW d \in Desktops, NEW b \in BindingIds, ApproveBinding(d, b)
       PROVE  Core'
  <2>1. PruneIdentities /\ UNCHANGED inflight
    BY <1>10 DEF ApproveBinding
  <2> QED BY <1>1, <1>2, <1>10, <2>1, ApproveKeeps, ApproveLostKeeps, PruneKeeps
<1>11. ASSUME NEW e \in Entities, Finish(e), UNCHANGED pairVars
       PROVE  Core'
  BY <1>1, <1>11 DEF Core, TypeOK, IdentityTypeOK, Finish, pairVars, Match,
                     PairInv, Exact, One, Backed, Follows
<1>12. CASE StoreTick
  <2>1. IdentityTypeOK' /\ Match(authSessions, entities)'
    BY <1>1, <1>12, TickKeeps DEF StoreTick
  <2>2. /\ DOMAIN pairSessions \in SUBSET PairIds
        /\ \A p \in DOMAIN pairSessions : pairSessions[p] \in PairSession
    BY <1>1, MapElim DEF TypeOK
  <2>3. Aged(pairSessions) \in [DOMAIN pairSessions -> PairSession]
    BY <2>2, PairAssumption DEF Aged, PairSession
  <2>4. PairTypes(pairSessions, claimIndex, bindings)'
    BY <1>1, <1>12, <2>2, <2>3, MapIntro DEF StoreTick, PairTypes, TypeOK
  <2>5. /\ DOMAIN pairSessions' = DOMAIN pairSessions
        /\ \A p \in DOMAIN pairSessions :
              /\ pairSessions'[p].device = pairSessions[p].device
              /\ pairSessions'[p].deviceKey = pairSessions[p].deviceKey
              /\ pairSessions'[p].status = pairSessions[p].status
              /\ pairSessions'[p].claimant = pairSessions[p].claimant
              /\ pairSessions'[p].binding = pairSessions[p].binding
    BY <1>12, <2>2 DEF StoreTick, Aged, PairSession
  <2>6. claimIndex' = claimIndex /\ bindings' = bindings
    BY <1>12 DEF StoreTick
  <2>7. PairInv(pairSessions, claimIndex, bindings)'
    BY <1>1, <2>5, <2>6 DEF PairInv, Exact, One, Backed, Follows
  <2> QED BY <1>2, <2>1, <2>4, <2>7
<1>13. CASE UNCHANGED vars
  BY <1>13 DEF Core, TypeOK, IdentityTypeOK, vars, Match, PairInv, Exact, One, Backed, Follows
<1> QED BY <1>3, <1>4, <1>5, <1>7, <1>8, <1>9, <1>10, <1>11, <1>12, <1>13 DEF Next, PairOp, PairMutation, PairRest

(* No step takes away the session of a binding: a session is deleted only  *)
(* while it has no binding, and the session a binding names points back.   *)
LEMMA PresentStep ==
    ASSUME Core, Present(pairSessions, bindings), [Next]_vars
    PROVE  Present(pairSessions, bindings)'
<1>1. DOMAIN LivePairs = DOMAIN pairSessions
  BY DEF LivePairs
<1>2. ASSUME bindings' = bindings, DOMAIN pairSessions \subseteq DOMAIN pairSessions'
      PROVE  Present(pairSessions, bindings)'
  BY <1>2 DEF Present
<1>3. ASSUME NEW b, NEW r, bindings' = Put(bindings, b, r), r.pairSession \in DOMAIN pairSessions',
             DOMAIN pairSessions \subseteq DOMAIN pairSessions'
      PROVE  Present(pairSessions, bindings)'
  BY <1>3 DEF Present, Put
<1>4. ASSUME NEW d \in Desktops, NEW p \in PairIds, DeletePairSession(d, p)
      PROVE  Present(pairSessions, bindings)'
  <2>1. /\ LivePairs[p].binding = NoBinding
        /\ bindings' = bindings
        /\ pairSessions' = Restrict(LivePairs, DOMAIN LivePairs \ {p})
    BY <1>4 DEF DeletePairSession
  <2>2. DOMAIN pairSessions' = DOMAIN pairSessions \ {p}
    BY <1>1, <2>1 DEF Restrict
  <2>3. Follows(LivePairs, bindings)
    BY PrunedPairInv DEF Core, PairInv
  <2>4. DOMAIN bindings \subseteq BindingIds
    BY MapElim DEF Core, TypeOK
  <2>5. \A b \in DOMAIN bindings : bindings[b].pairSession # p
    BY <1>1, <2>1, <2>3, <2>4, PairAssumption DEF Follows, Present
  <2> QED BY <2>1, <2>2, <2>5 DEF Present
<1>5. ASSUME NEW m \in Mobiles, NEW p \in PairIds, NEW b, MayClaim(m, p),
             SetClaim(m, p, b, PendingBinding(m, p))
      PROVE  Present(pairSessions, bindings)'
  <2>1. p \in DOMAIN LivePairs
    BY <1>5 DEF MayClaim
  <2>2. DOMAIN pairSessions' = DOMAIN pairSessions \cup {p}
    BY <1>1, <1>5 DEF SetClaim, Put
  <2>3. PendingBinding(m, p).pairSession = p
    BY DEF PendingBinding
  <2> QED BY <1>3, <1>5, <2>2, <2>3 DEF SetClaim
<1>6. ASSUME NEW d \in Desktops, NEW b \in BindingIds, ApproveBinding(d, b)
      PROVE  Present(pairSessions, bindings)'
  <2>1. /\ b \in DOMAIN bindings
        /\ bindings' = Put(bindings, b, [bindings[b] EXCEPT !.trust = "active"])
        /\ pairSessions' = Approved(bindings[b].pairSession)
    BY <1>6 DEF ApproveBinding
  <2>2. bindings[b] \in Binding
    BY <2>1, MapElim DEF Core, TypeOK
  <2>3. [bindings[b] EXCEPT !.trust = "active"].pairSession = bindings[b].pairSession
    BY <2>2 DEF Binding
  <2>4. DOMAIN pairSessions' = DOMAIN pairSessions
    BY <1>1, <2>1 DEF Approved, Put
  <2> QED BY <1>3, <2>1, <2>3, <2>4 DEF Present
<1>7. ASSUME PrunePairs  PROVE Present(pairSessions, bindings)'
  BY <1>1, <1>2, <1>7 DEF PrunePairs
<1>8. ASSUME NEW d \in Desktops, NEW p \in PairIds, NEW ttl \in 1..MaxPairTTL,
             CreatePairSession(d, p, ttl)
      PROVE  Present(pairSessions, bindings)'
  <2>1. DOMAIN pairSessions' = DOMAIN pairSessions \cup {p} /\ bindings' = bindings
    BY <1>1, <1>8 DEF CreatePairSession, Put
  <2> QED BY <1>2, <2>1
<1>9. CASE StoreTick
  <2>1. DOMAIN pairSessions' = DOMAIN pairSessions /\ bindings' = bindings
    BY <1>9, AgedMap DEF StoreTick
  <2> QED BY <1>2, <2>1
<1>10. CASE UNCHANGED <<pairSessions, bindings>>
  BY <1>2, <1>10
<1> QED BY <1>4, <1>5, <1>6, <1>7, <1>8, <1>9, <1>10
     DEF Next, PairOp, PairMutation, PairRest, ClaimRefused, ClaimAgain, ClaimFirst, pairVars, vars

(* So the invariant is inductive: where every binding has its session, a   *)
(* session made now is another one.                                        *)
LEMMA NextInv == IInv /\ [Next]_vars => IInv'
<1>1. Present(pairSessions, bindings) => Fresh
  BY DEF Present, Fresh
<1> QED BY <1>1, CoreStep, PresentStep DEF IInv

(* The inductive invariant of the store. *)
THEOREM Invariance == Spec => []IInv
<1> QED BY InitInv, NextInv, PTL DEF Spec

-----------------------------------------------------------------------------
(* What the invariant gives.                                               *)

(* Every map of the store keeps its type, whatever the order of requests,  *)
(* expiries and ticks (server/v2_store.go).                                *)
THEOREM TypeCorrect == Spec => []TypeOK
<1>1. IInv => TypeOK
  BY DEF IInv, Core
<1> QED BY <1>1, Invariance, PTL

(* A bearer session always belongs to a registered entity with its key:    *)
(* prune removes both together (v2_store.go:284-300).                      *)
THEOREM SessionsMatch == Spec => []SessionsMatchEntities
<1>1. IInv => SessionsMatchEntities
  BY DEF IInv, Core, Match, SessionsMatchEntities
<1> QED BY <1>1, Invariance, PTL

(* The claim-token index holds exactly the sessions that can be claimed    *)
(* (v2_store.go:279, 701, 732, 873).                                       *)
THEOREM IndexExact == Spec => []ClaimIndexExact
<1>1. IInv => ClaimIndexExact
  BY DEF IInv, Core, PairInv, Exact, ClaimIndexExact
<1> QED BY <1>1, Invariance, PTL

(* A desktop and a mobile never share two bindings (v2_store.go:793-823).  *)
THEOREM BindingUnique == Spec => []OneBindingPerPair
<1>1. IInv => OneBindingPerPair
  BY DEF IInv, Core, PairInv, One, OneBindingPerPair
<1> QED BY <1>1, Invariance, PTL

(* A claim and its binding name the same desktop and the same mobile       *)
(* (v2_store.go:727, 825-832).                                             *)
THEOREM ClaimsBacked == Spec => []ClaimBacked
<1>1. IInv => ClaimBacked
  BY DEF IInv, Core, PairInv, Backed, ClaimBacked
<1> QED BY <1>1, Invariance, PTL

(* A binding and the session it points at agree (v2_store.go:799-805).     *)
THEOREM BindingsFollow == Spec => []BindingFollowsSession
<1>1. IInv => BindingFollowsSession
  BY DEF IInv, Core, PairInv, Follows, Present, BindingFollowsSession
<1> QED BY <1>1, Invariance, PTL

(* A binding is active exactly when its session was approved               *)
(* (v2_store.go:794, 864).                                                 *)
THEOREM ActiveApproved == Spec => []ActiveIffApproved
<1>1. IInv => ActiveIffApproved
  BY DEF IInv, Core, PairInv, Follows, ActiveIffApproved
<1> QED BY <1>1, Invariance, PTL

-----------------------------------------------------------------------------
(* What no step undoes.                                                    *)

(* No step touches an active binding: a claim writes only a pending        *)
(* binding of its pair, or a new one, and approval writes a pending one.   *)
LEMMA FrozenStep ==
    ASSUME [Next]_vars
    PROVE  \A b \in DOMAIN bindings :
               bindings[b].trust = "active" =>
                   b \in DOMAIN bindings' /\ bindings'[b] = bindings[b]
<1> SUFFICES ASSUME NEW b \in DOMAIN bindings, bindings[b].trust = "active"
             PROVE  b \in DOMAIN bindings' /\ bindings'[b] = bindings[b]
  OBVIOUS
<1>1. ASSUME bindings' = bindings
      PROVE  b \in DOMAIN bindings' /\ bindings'[b] = bindings[b]
  BY <1>1
<1>2. ASSUME NEW x, NEW r, x # b, bindings' = Put(bindings, x, r)
      PROVE  b \in DOMAIN bindings' /\ bindings'[b] = bindings[b]
  BY <1>2 DEF Put
<1>3. ASSUME NEW m \in Mobiles, NEW p \in PairIds, NEW named \in BOOLEAN,
             ClaimAgain(m, p, named)
      PROVE  b \in DOMAIN bindings' /\ bindings'[b] = bindings[b]
  <2>1. PICK x \in BindingsOf(LivePairs[p].device, m) :
            bindings[x].trust = "pending" /\ SetClaim(m, p, x, PendingBinding(m, p))
    BY <1>3 DEF ClaimAgain
  <2>2. x # b /\ bindings' = Put(bindings, x, PendingBinding(m, p))
    BY <2>1 DEF SetClaim
  <2> QED BY <1>2, <2>2
<1>4. ASSUME NEW m \in Mobiles, NEW p \in PairIds, NEW x \in BindingIds, NEW named \in BOOLEAN,
             ClaimFirst(m, p, x, named)
      PROVE  b \in DOMAIN bindings' /\ bindings'[b] = bindings[b]
  <2>1. x # b /\ bindings' = Put(bindings, x, PendingBinding(m, p))
    BY <1>4 DEF ClaimFirst, SetClaim
  <2> QED BY <1>2, <2>1
<1>5. ASSUME NEW d \in Desktops, NEW x \in BindingIds, ApproveBinding(d, x)
      PROVE  b \in DOMAIN bindings' /\ bindings'[b] = bindings[b]
  <2>1. x # b /\ bindings' = Put(bindings, x, [bindings[x] EXCEPT !.trust = "active"])
    BY <1>5 DEF ApproveBinding
  <2> QED BY <1>2, <2>1
<1>6. CASE UNCHANGED bindings
  BY <1>1, <1>6
<1> QED BY <1>3, <1>4, <1>5, <1>6
     DEF Next, PairOp, PairMutation, PairRest, PrunePairs, CreatePairSession, DeletePairSession, ClaimRefused,
         pairVars, StoreTick, vars

(* An active binding is never changed again, by any request of any device  *)
(* (v2_store.go:794, 859).                                                 *)
THEOREM ActiveStaysFrozen == Spec => ActiveIsFrozen
<1>1. IInv /\ [Next]_vars =>
        [\A b \in DOMAIN bindings :
            bindings[b].trust = "active" =>
                b \in DOMAIN bindings' /\ bindings'[b] = bindings[b]]_vars
  BY FrozenStep
<1> QED BY <1>1, Invariance, PTL DEF Spec, ActiveIsFrozen

(* A registered entity that has not expired is still there after a prune.  *)
(* Whoever writes it then writes the key it has: presence, a display name, *)
(* a login (which checks) and a request (whose entity is registered).      *)
LEMMA KeyStep ==
    ASSUME IInv, [Next]_vars
    PROVE  \A e \in DOMAIN entities \cap DOMAIN entities' :
               entities[e].life > 0 => entities'[e].key = entities[e].key
<1> SUFFICES ASSUME NEW e \in DOMAIN entities, e \in DOMAIN entities', entities[e].life > 0
             PROVE  entities'[e].key = entities[e].key
  OBVIOUS
<1>1. e \in DOMAIN LiveEntities /\ LiveEntities[e] = entities[e]
  BY DEF LiveEntities, Restrict, Unexpired
<1>2. entities[e] \in Registration
  BY MapElim DEF IInv, Core, TypeOK, IdentityTypeOK
<1>3. ASSUME entities' = LiveEntities \/ entities' = entities
      PROVE  entities'[e].key = entities[e].key
  BY <1>1, <1>3
<1>4. ASSUME NEW x, NEW k, x \in DOMAIN LiveEntities => LiveEntities[x].key = k,
             entities' = Put(LiveEntities, x, Registered(k))
      PROVE  entities'[e].key = entities[e].key
  BY <1>1, <1>4 DEF Put, Registered
<1>5. ASSUME NEW m \in Mobiles, NEW named \in BOOLEAN, NameMobile(m, named)
      PROVE  entities'[e].key = entities[e].key
  BY <1>3, <1>4, <1>5 DEF NameMobile
<1>6. CASE IdentityOp /\ PrunePairs
  <2>1. ASSUME NEW c \in ChallengeIds, NEW t \in Tokens, Login(c, t)
        PROVE  entities'[e].key = entities[e].key
    BY <1>4, <2>1 DEF Login, KeyAccepted
  <2>2. ASSUME NEW x \in Entities, Presence(x)
        PROVE  entities'[e].key = entities[e].key
    BY <1>4, <2>2 DEF Presence
  <2>3. ASSUME NEW t \in Tokens, Authenticate(t)
        PROVE  entities'[e].key = entities[e].key
    BY <1>3, <1>4, <2>3 DEF Authenticate
  <2>4. CASE Cleanup
    BY <1>3, <2>4 DEF Cleanup, PruneIdentities
  <2>5. ASSUME NEW c \in ChallengeIds, NEW x \in Entities, NEW k \in Keys,
               CreateChallenge(c, x, k)
        PROVE  entities'[e].key = entities[e].key
    BY <1>3, <2>5 DEF CreateChallenge
  <2> QED BY <1>6, <2>1, <2>2, <2>3, <2>4, <2>5 DEF IdentityOp, IdentityMutation, IdentityRest
<1>7. CASE PairOp
  <2>1. ASSUME PruneIdentities
        PROVE  entities'[e].key = entities[e].key
    BY <1>3, <2>1 DEF PruneIdentities
  <2> QED BY <1>5, <1>7, <2>1
          DEF PairOp, PairMutation, PairRest, CreatePairSession, DeletePairSession,
              ClaimAgain, ClaimFirst, ClaimRefused, ApproveBinding
<1>8. CASE StoreTick
  <2>1. entities' = Aged(entities)
    BY <1>8 DEF StoreTick, Tick
  <2> QED BY <1>2, <2>1, AgedMap DEF Registration
<1>9. CASE \E x \in Entities : Finish(x)
  BY <1>3, <1>9 DEF Finish
<1>10. CASE UNCHANGED vars
  BY <1>3, <1>10 DEF vars
<1> QED BY <1>6, <1>7, <1>8, <1>9, <1>10 DEF Next

(* An id keeps its key for as long as it stays registered, whichever       *)
(* requests, expiries and claims come between (v2_store.go:424, 446).      *)
THEOREM KeysContinue == Spec => KeyContinuity
<1>1. IInv /\ [Next]_vars =>
        [\A e \in DOMAIN entities \cap DOMAIN entities' :
            entities[e].life > 0 => entities'[e].key = entities[e].key]_identityVars
  BY KeyStep
<1> QED BY <1>1, Invariance, PTL DEF Spec, KeyContinuity

-------------------------------------------------------------------------------
(***************************************************************************)
(* PairStore implements Pairing: its initial states map to initial states, *)
(* and every step of the store maps to a step of the promise or a stutter. *)
(* What a step means for the promise needs the invariant of the store: a   *)
(* session that is withdrawn or claimed first has no claimant because      *)
(* claims are backed, and the trust of a pair is that of its one binding.  *)
(***************************************************************************)
Owners    == [p \in PairIds |-> OwnerOf(p)]
Claimants == [p \in PairIds |-> ClaimantOf(p)]
Trusts    == [dm \in Desktops \X Mobiles |-> TrustOf(dm[1], dm[2])]

-----------------------------------------------------------------------------
(* What the promise sees of the tables.                                    *)

(* Pruning changes neither owners nor claimants: the promise has no clock. *)
LEMMA PrunedView ==
    ASSUME IInv
    PROVE  /\ LivePairs \in MapOf(PairIds, PairSession)
           /\ DOMAIN LivePairs = DOMAIN pairSessions
           /\ \A p \in DOMAIN pairSessions :
                 /\ LivePairs[p].device = pairSessions[p].device
                 /\ LivePairs[p].claimant = pairSessions[p].claimant
                 /\ LivePairs[p].binding = pairSessions[p].binding
                 /\ LivePairs[p] \in PairSession
           /\ Backed(LivePairs, bindings)
           /\ One(bindings)
<1>1. /\ LivePairs \in MapOf(PairIds, PairSession)
      /\ DOMAIN LivePairs = DOMAIN pairSessions
      /\ Backed(LivePairs, bindings) /\ One(bindings)
  BY PrunedTypes, PrunedPairInv DEF IInv, Core, PairTypes, PairInv
<1>2. \A p \in DOMAIN pairSessions : pairSessions[p] \in PairSession /\ LivePairs[p] \in PairSession
  BY <1>1, MapElim DEF IInv, Core, TypeOK
<1>3. \A p \in DOMAIN pairSessions :
          /\ LivePairs[p].device = pairSessions[p].device
          /\ LivePairs[p].claimant = pairSessions[p].claimant
          /\ LivePairs[p].binding = pairSessions[p].binding
  BY <1>2 DEF LivePairs, PairSession
<1> QED BY <1>1, <1>2, <1>3

(* A step that keeps the sessions with their owners and claimants.         *)
LEMMA SameSessions ==
    ASSUME DOMAIN pairSessions' = DOMAIN pairSessions,
           \A p \in DOMAIN pairSessions : /\ pairSessions'[p].device = pairSessions[p].device
                                          /\ pairSessions'[p].claimant = pairSessions[p].claimant
    PROVE  Owners' = Owners /\ Claimants' = Claimants
BY DEF Owners, Claimants, OwnerOf, ClaimantOf

(* A step that keeps the bindings keeps the trust.                         *)
LEMMA SameTrust ==
    ASSUME bindings' = bindings
    PROVE  Trusts' = Trusts
BY DEF Trusts, TrustOf, BindingsOf

(* The trust of a pair is that of its binding.                             *)
LEMMA TrustOfOne ==
    ASSUME IInv, NEW b \in DOMAIN bindings
    PROVE  /\ bindings[b] \in Binding
           /\ TrustOf(bindings[b].device, bindings[b].mobile) = bindings[b].trust
<1>1. bindings[b] \in Binding
  BY MapElim DEF IInv, Core, TypeOK
<1>2. \A x \in BindingsOf(bindings[b].device, bindings[b].mobile) : x = b
  BY DEF IInv, Core, PairInv, One, BindingsOf
<1>3. b \in BindingsOf(bindings[b].device, bindings[b].mobile)
  BY DEF BindingsOf
<1> QED BY <1>1, <1>2, <1>3 DEF TrustOf, Binding

(* Writing one binding changes the trust of its pair only.                 *)
LEMMA OneTrust ==
    ASSUME IInv, IInv', NEW b, NEW r \in Binding, bindings' = Put(bindings, b, r),
           b \in DOMAIN bindings => bindings[b].device = r.device /\ bindings[b].mobile = r.mobile
    PROVE  Trusts' = [Trusts EXCEPT ![<<r.device, r.mobile>>] = r.trust]
<1>1. /\ DOMAIN bindings' = DOMAIN bindings \cup {b} /\ bindings'[b] = r
      /\ \A x \in DOMAIN bindings : x # b => bindings'[x] = bindings[x]
  BY DEF Put
<1>2. r.device \in Desktops /\ r.mobile \in Mobiles
  BY DEF Binding
<1>3. TrustOf(r.device, r.mobile)' = r.trust
  <2>1. \A x \in DOMAIN bindings' :
            bindings'[x].device = r.device /\ bindings'[x].mobile = r.mobile => x = b
    BY <1>1 DEF IInv, Core, PairInv, One
  <2> QED BY <1>1, <2>1 DEF TrustOf, BindingsOf, Binding
<1>4. ASSUME NEW d \in Desktops, NEW m \in Mobiles, <<d, m>> # <<r.device, r.mobile>>
      PROVE  TrustOf(d, m)' = TrustOf(d, m)
  <2>1. BindingsOf(d, m)' = BindingsOf(d, m)
    BY <1>1, <1>4 DEF BindingsOf
  <2>2. b \notin BindingsOf(d, m)
    BY <1>4 DEF BindingsOf
  <2>3. \A x \in BindingsOf(d, m) : bindings'[x] = bindings[x]
    BY <1>1, <2>2 DEF BindingsOf
  <2> QED BY <2>1, <2>3 DEF TrustOf
<1>5. ASSUME NEW dm \in Desktops \X Mobiles
      PROVE  Trusts'[dm] = [Trusts EXCEPT ![<<r.device, r.mobile>>] = r.trust][dm]
  <2>1. dm = <<dm[1], dm[2]>> /\ dm[1] \in Desktops /\ dm[2] \in Mobiles
    OBVIOUS
  <2>2. CASE dm = <<r.device, r.mobile>>
    BY <1>3, <2>2 DEF Trusts
  <2>3. CASE dm # <<r.device, r.mobile>>
    BY <1>4, <2>1, <2>3 DEF Trusts
  <2> QED BY <2>2, <2>3
<1> QED BY <1>5 DEF Trusts

-----------------------------------------------------------------------------
(* The steps of the store.                                                 *)

(* An empty store promises nothing.                                        *)
LEMMA InitRefines == Init => Promise!Init
<1> SUFFICES ASSUME Init PROVE Promise!Init
  OBVIOUS
<1>1. DOMAIN pairSessions = {} /\ DOMAIN bindings = {}
  BY DEF Init
<1>2. \A d, m : BindingsOf(d, m) = {}
  BY <1>1 DEF BindingsOf
<1> QED BY <1>1, <1>2 DEF Promise!Init, OwnerOf, ClaimantOf, TrustOf

(* A new session has an owner and no claimant.                             *)
LEMMA CreateRefines ==
    ASSUME IInv, NEW d \in Desktops, NEW p \in PairIds, NEW ttl \in 1..MaxPairTTL,
           CreatePairSession(d, p, ttl)
    PROVE  Promise!Offer(d, p)
<1>1. /\ p \notin DOMAIN pairSessions
      /\ DOMAIN pairSessions' = DOMAIN pairSessions \cup {p}
      /\ pairSessions'[p].device = d /\ pairSessions'[p].claimant = NoMobile
      /\ \A q \in DOMAIN pairSessions : pairSessions'[q] = LivePairs[q]
  BY PrunedView DEF CreatePairSession, Put
<1>2. Owners[p] = NoDesktop /\ Owners' = [Owners EXCEPT ![p] = d]
  BY <1>1, PrunedView DEF Owners, OwnerOf
<1>3. Claimants' = Claimants
  BY <1>1, PrunedView DEF Claimants, ClaimantOf
<1>4. Trusts' = Trusts
  BY SameTrust DEF CreatePairSession
<1> QED BY <1>2, <1>3, <1>4 DEF Promise!Offer, Owners, Claimants, Trusts

(* A session that is deleted names no binding, so nobody has claimed it.   *)
LEMMA DeleteRefines ==
    ASSUME IInv, NEW d \in Desktops, NEW p \in PairIds, DeletePairSession(d, p)
    PROVE  Promise!Withdraw(p)
<1>1. /\ p \in DOMAIN pairSessions
      /\ DOMAIN pairSessions' = DOMAIN pairSessions \ {p}
      /\ \A q \in DOMAIN pairSessions \ {p} : pairSessions'[q] = LivePairs[q]
  BY PrunedView DEF DeletePairSession, Restrict
<1>2. pairSessions[p].claimant = NoMobile
  BY <1>1, PrunedView DEF DeletePairSession, Backed
<1>3. Claimants[p] = NoMobile /\ Claimants' = Claimants
  BY <1>1, <1>2, PrunedView DEF Claimants, ClaimantOf
<1>4. Owners' = [Owners EXCEPT ![p] = NoDesktop]
  BY <1>1, PrunedView DEF Owners, OwnerOf
<1>5. Trusts' = Trusts
  BY SameTrust DEF DeletePairSession
<1> QED BY <1>3, <1>4, <1>5 DEF Promise!Withdraw, Owners, Claimants, Trusts

(* A claim takes a session nobody else holds, for a pair without trust.    *)
LEMMA ClaimRefines ==
    ASSUME IInv, IInv', NEW m \in Mobiles, NEW p \in PairIds, NEW b, MayClaim(m, p),
           SetClaim(m, p, b, PendingBinding(m, p)),
           \A x \in BindingsOf(LivePairs[p].device, m) : bindings[x].trust # "active",
           b \in DOMAIN bindings => b \in BindingsOf(LivePairs[p].device, m)
    PROVE  \E d \in Desktops : Promise!Claim(d, m, p)
<1> DEFINE d == LivePairs[p].device
           r == PendingBinding(m, p)
<1>1. /\ p \in DOMAIN pairSessions /\ LivePairs[p] \in PairSession
      /\ d = pairSessions[p].device /\ d \in Desktops
  BY PrunedView DEF MayClaim, PairSession
<1>2. /\ r \in Binding /\ r.device = d /\ r.mobile = m /\ r.trust = "pending"
  <2>1. LiveEntities \in MapOf(Entities, Registration) /\ m \in DOMAIN LiveEntities
    BY PrunedTypes DEF IInv, Core, MayClaim
  <2>2. LiveEntities[m] \in Registration
    BY <2>1, MapElim
  <2> QED BY <1>1, <2>2 DEF Registration, PendingBinding, Binding, PairSession
<1>3. /\ DOMAIN pairSessions' = DOMAIN pairSessions
      /\ pairSessions'[p].device = d /\ pairSessions'[p].claimant = m
      /\ \A q \in DOMAIN pairSessions : q # p => pairSessions'[q] = LivePairs[q]
  BY <1>1, PrunedView DEF SetClaim, Put, PairSession
<1>4. Owners' = Owners /\ Owners[p] = d
  BY <1>1, <1>3, PrunedView DEF Owners, OwnerOf
<1>5. Claimants' = [Claimants EXCEPT ![p] = m]
  BY <1>1, <1>3, PrunedView DEF Claimants, ClaimantOf
<1>6. Claimants[p] \in {NoMobile, m}
  BY <1>1, PrunedView DEF Claimants, ClaimantOf, MayClaim, OpenTo, Claimable, Backed
<1>7. Trusts[<<d, m>>] # "active"
  BY <1>1 DEF Trusts, TrustOf
<1>8. Trusts' = [Trusts EXCEPT ![<<d, m>>] = "pending"]
  <2>1. bindings' = Put(bindings, b, r)
    BY DEF SetClaim
  <2>2. b \in DOMAIN bindings => bindings[b].device = r.device /\ bindings[b].mobile = r.mobile
    BY <1>2 DEF BindingsOf
  <2> HIDE DEF r
  <2> QED BY <1>2, <2>1, <2>2, OneTrust
<1>9. Promise!Claim(d, m, p)
  BY <1>4, <1>5, <1>6, <1>7, <1>8 DEF Promise!Claim, Owners, Claimants, Trusts
<1> QED BY <1>1, <1>9

(* An approval finds the pair pending and makes it active.                 *)
LEMMA ApproveRefines ==
    ASSUME IInv, IInv', NEW d \in Desktops, NEW b \in BindingIds, ApproveBinding(d, b)
    PROVE  \E m \in Mobiles : Promise!Approve(d, m)
<1> DEFINE m == bindings[b].mobile
           r == [bindings[b] EXCEPT !.trust = "active"]
<1>1. b \in DOMAIN bindings /\ bindings[b].device = d /\ bindings[b].trust = "pending"
  BY DEF ApproveBinding
<1>2. /\ m \in Mobiles /\ r \in Binding
      /\ r.device = d /\ r.mobile = m /\ r.trust = "active"
  BY <1>1, TrustOfOne DEF Binding
<1>3. /\ DOMAIN pairSessions' = DOMAIN pairSessions
      /\ \A p \in DOMAIN pairSessions : /\ pairSessions'[p].device = pairSessions[p].device
                                        /\ pairSessions'[p].claimant = pairSessions[p].claimant
  BY PrunedView DEF ApproveBinding, Approved, Put, PairSession
<1>4. Trusts[<<d, m>>] = "pending"
  BY <1>1, <1>2, TrustOfOne DEF Trusts
<1>5. Trusts' = [Trusts EXCEPT ![<<d, m>>] = "active"]
  <2>1. bindings' = Put(bindings, b, r)
    BY DEF ApproveBinding
  <2> HIDE DEF r
  <2> QED BY <1>1, <1>2, <2>1, OneTrust
<1>6. Promise!Approve(d, m)
  BY <1>3, <1>4, <1>5, SameSessions DEF Promise!Approve, Owners, Claimants, Trusts
<1> QED BY <1>2, <1>6

(* Every step of the store is a step of the promise, or not visible to it. *)
LEMMA StepRefines ==
    ASSUME IInv, IInv', [Next]_vars
    PROVE  [Promise!Next]_(Promise!vars)
<1>1. ASSUME Owners' = Owners, Claimants' = Claimants, Trusts' = Trusts
      PROVE  UNCHANGED Promise!vars
  BY <1>1 DEF Promise!vars, Owners, Claimants, Trusts
<1>2. ASSUME PrunePairs
      PROVE  UNCHANGED Promise!vars
  <2>1. Owners' = Owners /\ Claimants' = Claimants
    BY <1>2, SameSessions, PrunedView DEF PrunePairs
  <2> QED BY <1>1, <1>2, <2>1, SameTrust DEF PrunePairs
<1>3. CASE IdentityOp /\ PrunePairs
  BY <1>2, <1>3
<1>4. ASSUME NEW d \in Desktops, NEW p \in PairIds, NEW ttl \in 1..MaxPairTTL,
             CreatePairSession(d, p, ttl)
      PROVE  Promise!Next
  BY <1>4, CreateRefines DEF Promise!Next
<1>5. ASSUME NEW d \in Desktops, NEW p \in PairIds, DeletePairSession(d, p)
      PROVE  Promise!Next
  BY <1>5, DeleteRefines DEF Promise!Next
<1>6. ASSUME NEW m \in Mobiles, NEW p \in PairIds, NEW named \in BOOLEAN,
             ClaimRefused(m, p, named)
      PROVE  UNCHANGED Promise!vars
  BY <1>2, <1>6 DEF ClaimRefused
<1>7. ASSUME NEW m \in Mobiles, NEW p \in PairIds, NEW named \in BOOLEAN,
             ClaimAgain(m, p, named)
      PROVE  Promise!Next
  <2>1. PICK b \in BindingsOf(LivePairs[p].device, m) :
            bindings[b].trust = "pending" /\ SetClaim(m, p, b, PendingBinding(m, p))
    BY <1>7 DEF ClaimAgain
  <2>2. \A x \in BindingsOf(LivePairs[p].device, m) : bindings[x].trust # "active"
    BY <2>1, PrunedView DEF One, BindingsOf
  <2>3. \E d \in Desktops : Promise!Claim(d, m, p)
    BY <1>7, <2>1, <2>2, ClaimRefines DEF ClaimAgain
  <2> QED BY <2>3 DEF Promise!Next
<1>8. ASSUME NEW m \in Mobiles, NEW p \in PairIds, NEW b \in BindingIds, NEW named \in BOOLEAN,
             ClaimFirst(m, p, b, named)
      PROVE  Promise!Next
  <2>1. \E d \in Desktops : Promise!Claim(d, m, p)
    BY <1>8, ClaimRefines DEF ClaimFirst
  <2> QED BY <2>1 DEF Promise!Next
<1>9. ASSUME NEW d \in Desktops, NEW b \in BindingIds, ApproveBinding(d, b)
      PROVE  Promise!Next
  BY <1>9, ApproveRefines DEF Promise!Next
<1>10. ASSUME NEW e \in Entities, Finish(e), UNCHANGED pairVars
       PROVE  UNCHANGED Promise!vars
  BY <1>1, <1>10, SameSessions, SameTrust DEF pairVars
<1>11. CASE StoreTick
  <2>1. \A p \in DOMAIN pairSessions : pairSessions[p] \in PairSession
    BY MapElim DEF IInv, Core, TypeOK
  <2>2. /\ DOMAIN pairSessions' = DOMAIN pairSessions
        /\ \A p \in DOMAIN pairSessions : /\ pairSessions'[p].device = pairSessions[p].device
                                          /\ pairSessions'[p].claimant = pairSessions[p].claimant
    BY <1>11, <2>1 DEF StoreTick, Aged, PairSession
  <2> QED BY <1>1, <1>11, <2>2, SameSessions, SameTrust DEF StoreTick
<1>12. CASE UNCHANGED vars
  BY <1>1, <1>12, SameSessions, SameTrust DEF vars
<1> QED BY <1>3, <1>4, <1>5, <1>6, <1>7, <1>8, <1>9, <1>10, <1>11, <1>12
        DEF Next, PairOp, PairMutation, PairRest

(* The store implements the promise for any number of devices, sessions    *)
(* and lifetimes: one claimant per session for ever, and trust that only   *)
(* grows, by a claim and then by an approval (v2_store.go:655-877).        *)
THEOREM PromiseKept == Spec => KeepsPairingPromise
<1>1. IInv /\ IInv' /\ [Next]_vars => [Promise!Next]_(Promise!vars)
  BY StepRefines
<1> QED BY <1>1, InitRefines, Invariance, PTL DEF Spec, KeepsPairingPromise, Promise!Spec

-------------------------------------------------------------------------------
(***************************************************************************)
(* Proofs about StoreRecovery, for any ids, keys and lifetimes: no crash,  *)
(* restart or late write weakens trust that reached Redis, or brings an    *)
(* entity back that the running store has dropped.                         *)
(*                                                                         *)
(* Both follow from one order between copies of the store: memory is never *)
(* behind what Redis holds, nor behind a snapshot on its way there.  The   *)
(* order is kept while deadlines pass in all copies at once.               *)
(*                                                                         *)
(* A restart also leaves the pairing sound, except that a binding may have *)
(* lost its session.  That much of the invariant holds of every copy, and  *)
(* the store's own steps keep it where no id is drawn that a binding names.*)
(***************************************************************************)
\* The maps of entities have lives that can be compared.
Timed(es) ==
    \A e \in DOMAIN es : /\ es[e] = [key |-> es[e].key, life |-> es[e].life]
                         /\ es[e].life \in 0..EntityTTL

\* An image is a record of four maps.
IsImage(im) ==
    /\ im = [entities |-> im.entities, authSessions |-> im.authSessions,
             pairSessions |-> im.pairSessions, bindings |-> im.bindings]
    /\ Timed(im.entities)

\* Map bs still has every active binding of map as.
KeepsTrust(as, bs) ==
    \A b \in DOMAIN as : as[b].trust = "active" => b \in DOMAIN bs /\ bs[b] = as[b]

\* Map fs still has what is alive in map es, for at least as long.
Outlives(fs, es) ==
    \A e \in DOMAIN es :
        es[e].life > 0 => e \in DOMAIN fs /\ fs[e].life >= es[e].life /\ fs[e].key = es[e].key

\* These maps are not behind image im.
NotBehind(es, bs, im) == KeepsTrust(im.bindings, bs) /\ Outlives(es, im.entities)

Ordered ==
    /\ Timed(entities)
    /\ IsImage(saved)
    /\ mode = "restored" => NotBehind(entities, bindings, saved)
    /\ writing # NoImage =>
          mode # "down" /\ IsImage(writing) /\ NotBehind(entities, bindings, writing)

-----------------------------------------------------------------------------
(* Maps of entities.                                                       *)

(* Keeping at least what is alive.                                         *)
LEMMA KeptOutlives ==
    ASSUME NEW es, Timed(es), NEW active, Unexpired(es) \subseteq active, active \subseteq DOMAIN es
    PROVE  Timed(Restrict(es, active)) /\ Outlives(Restrict(es, active), es)
<1>. DEFINE fs == Restrict(es, active)
<1>1. DOMAIN fs = active /\ \A e \in active : fs[e] = es[e]
  BY DEF Restrict
<1>. HIDE DEF fs
<1>2. Timed(fs)
  BY <1>1 DEF Timed
<1>3. Outlives(fs, es)
  BY <1>1, IdentityAssumption DEF Timed, Outlives, Unexpired
<1>. QED
  BY <1>2, <1>3 DEF fs

(* Pruning keeps what is alive.                                            *)
LEMMA PrunedOutlives ==
    ASSUME NEW es, Timed(es)
    PROVE  /\ Timed(Restrict(es, Unexpired(es)))
           /\ Outlives(Restrict(es, Unexpired(es)), es)
<1>1. Unexpired(es) \subseteq DOMAIN es
  BY DEF Unexpired
<1>. QED
  BY <1>1, KeptOutlives

(* An entity seen just now lives longest, if it keeps its key.             *)
LEMMA RegisteredOutlives ==
    ASSUME NEW es, Timed(es), NEW fs, Timed(fs), Outlives(fs, es), NEW e, NEW k,
           e \in DOMAIN fs => fs[e].key = k
    PROVE  /\ Timed(Put(fs, e, Registered(k)))
           /\ Outlives(Put(fs, e, Registered(k)), es)
<1>. DEFINE gs == Put(fs, e, Registered(k))
<1>1. /\ DOMAIN gs = DOMAIN fs \cup {e}
      /\ \A x \in DOMAIN gs : gs[x] = IF x = e THEN Registered(k) ELSE fs[x]
  BY DEF Put
<1>. HIDE DEF gs
<1>2. /\ Registered(k).life = EntityTTL /\ EntityTTL \in 0..EntityTTL
      /\ Registered(k) = [key |-> Registered(k).key, life |-> Registered(k).life]
      /\ Registered(k).key = k
  BY IdentityAssumption DEF Registered
<1>3. Timed(gs)
  BY <1>1, <1>2 DEF Timed
<1>4. Outlives(gs, es)
  BY <1>1, <1>2, IdentityAssumption DEF Outlives, Timed
<1>. QED
  BY <1>3, <1>4 DEF gs

(* Being alive longer is transitive.                                       *)
LEMMA OutlivesTransitive ==
    ASSUME NEW es, NEW fs, NEW gs, Timed(es), Timed(fs), Timed(gs),
           Outlives(fs, es), Outlives(gs, fs)
    PROVE  Outlives(gs, es)
BY IdentityAssumption DEF Outlives, Timed

(* Time passes equally.                                                    *)
LEMMA AgedOutlives ==
    ASSUME NEW es, NEW fs, Timed(es), Timed(fs), Outlives(fs, es)
    PROVE  Timed(Aged(es)) /\ Outlives(Aged(fs), Aged(es))
<1>1. ASSUME NEW ms, Timed(ms)
      PROVE  /\ DOMAIN Aged(ms) = DOMAIN ms
             /\ \A e \in DOMAIN ms :
                   /\ Aged(ms)[e] = [key |-> ms[e].key,
                                     life |-> IF ms[e].life > 0 THEN ms[e].life - 1 ELSE 0]
                   /\ Aged(ms)[e].life = IF ms[e].life > 0 THEN ms[e].life - 1 ELSE 0
                   /\ Aged(ms)[e].key = ms[e].key
  <2>1. DOMAIN Aged(ms) = DOMAIN ms
    BY DEF Aged
  <2>2. ASSUME NEW e \in DOMAIN ms
        PROVE  Aged(ms)[e] = [key |-> ms[e].key,
                              life |-> IF ms[e].life > 0 THEN ms[e].life - 1 ELSE 0]
    BY <1>1 DEF Aged, Timed
  <2>. QED
    BY <2>1, <2>2
<1>. DEFINE Later(n) == IF n > 0 THEN n - 1 ELSE 0
            AgedIs(as, ms) ==
              /\ DOMAIN as = DOMAIN ms
              /\ \A e \in DOMAIN ms : /\ as[e] = [key |-> ms[e].key, life |-> Later(ms[e].life)]
                                      /\ as[e].life = Later(ms[e].life) /\ as[e].key = ms[e].key
<1>2. AgedIs(Aged(es), es) /\ AgedIs(Aged(fs), fs)
  BY <1>1
<1>. DEFINE as == Aged(es)
            bs == Aged(fs)
<1>. HIDE DEF as, bs
<1>3. AgedIs(as, es) /\ AgedIs(bs, fs)
  BY <1>2 DEF as, bs
<1>4. ASSUME NEW n \in 0..EntityTTL, NEW m \in 0..EntityTTL, m >= n
      PROVE  /\ Later(n) \in 0..EntityTTL /\ Later(m) >= Later(n)
             /\ Later(n) > 0 => n > 0
  BY <1>4, IdentityAssumption
<1>. HIDE DEF Later
<1>5. \A e \in DOMAIN es : es[e].life \in 0..EntityTTL
  BY DEF Timed
<1>6. Timed(as)
  <2>1. ASSUME NEW e \in DOMAIN as
        PROVE  as[e] = [key |-> as[e].key, life |-> as[e].life] /\ as[e].life \in 0..EntityTTL
    <3>1. es[e].life \in 0..EntityTTL /\ as[e] = [key |-> es[e].key, life |-> Later(es[e].life)]
      BY <1>3, <1>5
    <3>2. Later(es[e].life) \in 0..EntityTTL
      BY <1>4, <3>1
    <3>. QED
      BY <3>1, <3>2
  <2>. QED
    BY <2>1 DEF Timed
<1>7. Outlives(bs, as)
  <2>1. ASSUME NEW e \in DOMAIN as, as[e].life > 0
        PROVE  e \in DOMAIN bs /\ bs[e].life >= as[e].life /\ bs[e].key = as[e].key
    <3>1. /\ es[e].life \in 0..EntityTTL /\ as[e].life = Later(es[e].life) /\ e \in DOMAIN es
          /\ as[e].key = es[e].key
      BY <1>3, <1>5
    <3>2. es[e].life >= es[e].life
      BY <3>1, IdentityAssumption
    <3>3. es[e].life > 0
      BY <1>4, <2>1, <3>1, <3>2
    <3>4. /\ e \in DOMAIN fs /\ fs[e].life >= es[e].life /\ fs[e].life \in 0..EntityTTL
          /\ fs[e].key = es[e].key
      BY <3>1, <3>3 DEF Outlives, Timed
    <3>5. bs[e].life = Later(fs[e].life) /\ e \in DOMAIN bs /\ bs[e].key = fs[e].key
      BY <1>3, <3>4
    <3>. QED
      BY <1>4, <3>1, <3>4, <3>5
  <2>. QED
    BY <2>1 DEF Outlives
<1>. QED
  BY <1>6, <1>7 DEF as, bs

\* A step of the store that is not the clock's.
Operation ==
    \/ IdentityOp /\ PrunePairs
    \/ PairOp
    \/ (\E e \in Entities : Finish(e)) /\ UNCHANGED pairVars

(* No step of the store but the clock shortens a life, and none weakens    *)
(* trust.                                                                  *)
LEMMA StoreNotBehind ==
    ASSUME Timed(entities), Operation
    PROVE  Timed(entities') /\ Outlives(entities', entities) /\ KeepsTrust(bindings, bindings')
<1>1. KeepsTrust(bindings, bindings')
  BY FrozenStep DEF KeepsTrust, Operation, Next
<1>. DEFINE Live == Timed(LiveEntities) /\ Outlives(LiveEntities, entities)
<1>2. Live
  BY PrunedOutlives DEF LiveEntities
<1>3. ASSUME NEW e, NEW k, e \in DOMAIN LiveEntities => LiveEntities[e].key = k
      PROVE  /\ Timed(Put(LiveEntities, e, Registered(k)))
             /\ Outlives(Put(LiveEntities, e, Registered(k)), entities)
  BY <1>2, <1>3, RegisteredOutlives
<1>. DEFINE Goal == Timed(entities') /\ Outlives(entities', entities)
<1>4. Goal
  <2>1. ASSUME entities' = LiveEntities  PROVE Goal
    BY <1>2, <2>1
  <2>2. ASSUME NEW e, NEW k, e \in DOMAIN LiveEntities => LiveEntities[e].key = k,
               entities' = Put(LiveEntities, e, Registered(k))
        PROVE  Goal
    BY <1>3, <2>2
  <2>3. ASSUME entities' = entities  PROVE Goal
    BY <2>3, IdentityAssumption DEF Timed, Outlives
  <2>. HIDE DEF Goal
  <2>4. CASE IdentityOp
    <3>1. ASSUME NEW c \in ChallengeIds, NEW t \in Tokens, Login(c, t)  PROVE Goal
      BY <2>2, <3>1 DEF Login, KeyAccepted
    <3>2. ASSUME NEW e \in Entities, Presence(e)  PROVE Goal
      BY <2>2, <3>2 DEF Presence
    <3>3. ASSUME NEW c \in ChallengeIds, NEW e \in Entities, NEW k \in Keys, CreateChallenge(c, e, k)
          PROVE  Goal
      BY <2>1, <3>3 DEF CreateChallenge
    <3>4. ASSUME NEW t \in Tokens, Authenticate(t)  PROVE Goal
      BY <2>1, <2>2, <3>4 DEF Authenticate
    <3>5. Cleanup => Goal
      BY <2>1 DEF Cleanup, PruneIdentities
    <3>. QED
      BY <2>4, <3>1, <3>2, <3>3, <3>4, <3>5 DEF IdentityOp, IdentityMutation, IdentityRest
  <2>5. ASSUME NEW m, NEW named, NameMobile(m, named)  PROVE Goal
    BY <2>1, <2>2, <2>5 DEF NameMobile
  <2>6. PruneIdentities => Goal
    BY <2>1 DEF PruneIdentities
  <2>7. CASE PairOp
    BY <2>5, <2>6, <2>7 DEF PairOp, PairMutation, PairRest, CreatePairSession, DeletePairSession,
       ClaimAgain, ClaimFirst, ClaimRefused, ApproveBinding
  <2>8. ASSUME NEW e \in Entities, Finish(e)  PROVE Goal
    BY <2>3, <2>8 DEF Finish
  <2>. QED
    BY <2>4, <2>7, <2>8 DEF Operation
<1>. QED
  BY <1>1, <1>4

(* So memory stays ahead of an image.                                      *)
LEMMA StoreAhead ==
    ASSUME Timed(entities), Operation, NEW im, IsImage(im),
           NotBehind(entities, bindings, im)
    PROVE  NotBehind(entities', bindings', im)
<1>1. Timed(entities') /\ Outlives(entities', entities) /\ KeepsTrust(bindings, bindings')
  BY StoreNotBehind
<1>2. Outlives(entities', im.entities)
  BY <1>1, OutlivesTransitive DEF NotBehind, IsImage
<1>3. KeepsTrust(im.bindings, bindings')
  BY <1>1 DEF NotBehind, KeepsTrust
<1>. QED
  BY <1>2, <1>3 DEF NotBehind

-----------------------------------------------------------------------------
(* The recovery.                                                           *)

(* A snapshot of the store is an image that the store is not behind.       *)
LEMMA SnapshotNotBehind ==
    ASSUME Timed(entities)
    PROVE  IsImage(Current) /\ NotBehind(entities, bindings, Current)
<1>. DEFINE im == Current
<1>1. /\ im.entities = Restrict(entities, Unexpired(entities))
      /\ im.bindings = bindings
      /\ im = [entities |-> im.entities, authSessions |-> im.authSessions,
               pairSessions |-> im.pairSessions, bindings |-> im.bindings]
  BY DEF Current, Kept
<1>. HIDE DEF im
<1>2. IsImage(im)
  BY <1>1, PrunedOutlives DEF IsImage
<1>3. Outlives(entities, im.entities)
  BY <1>1, IdentityAssumption DEF Outlives, Restrict, Unexpired, Timed
<1>4. KeepsTrust(im.bindings, bindings)
  BY <1>1 DEF KeepsTrust
<1>. QED
  BY <1>2, <1>3, <1>4 DEF NotBehind, im

(* The clock passes in an image as in memory.                              *)
LEMMA AgedIsImage ==
    ASSUME NEW im, IsImage(im)
    PROVE  /\ IsImage(AgedImage(im))
           /\ AgedImage(im).entities = Aged(im.entities)
           /\ AgedImage(im).authSessions = Aged(im.authSessions)
           /\ AgedImage(im).pairSessions = Aged(im.pairSessions)
           /\ AgedImage(im).bindings = im.bindings
<1>. DEFINE am == AgedImage(im)
<1>1. im = [entities |-> im.entities, authSessions |-> im.authSessions,
            pairSessions |-> im.pairSessions, bindings |-> im.bindings]
  BY DEF IsImage
<1>2. am = [entities |-> Aged(im.entities), authSessions |-> Aged(im.authSessions),
            pairSessions |-> Aged(im.pairSessions), bindings |-> im.bindings]
  <2>. DEFINE a == Aged(im.entities)
              b == Aged(im.authSessions)
              c == Aged(im.pairSessions)
  <2>1. am = [im EXCEPT !.entities = a, !.authSessions = b, !.pairSessions = c]
    BY <1>1 DEF AgedImage
  <2>. HIDE DEF a, b, c, am
  <2>2. am = [entities |-> a, authSessions |-> b, pairSessions |-> c, bindings |-> im.bindings]
    BY <1>1, <2>1
  <2>. QED
    BY <2>2 DEF a, b, c
<1>. HIDE DEF am
<1>3. Outlives(im.entities, im.entities)
  BY IdentityAssumption DEF Outlives, Timed, IsImage
<1>4. Timed(Aged(im.entities))
  BY <1>3, AgedOutlives DEF IsImage
<1>. QED
  BY <1>2, <1>4 DEF IsImage, am

(* So memory stays ahead of it.                                            *)
LEMMA AgedAhead ==
    ASSUME Timed(entities), NEW im, IsImage(im), NotBehind(entities, bindings, im)
    PROVE  IsImage(AgedImage(im)) /\ NotBehind(Aged(entities), bindings, AgedImage(im))
<1>1. Outlives(Aged(entities), Aged(im.entities))
  BY AgedOutlives DEF IsImage, NotBehind
<1>. QED
  BY <1>1, AgedIsImage DEF NotBehind

(* Memory is empty in the beginning, and so is Redis.                      *)
LEMMA RecoveryInitInv == RecoveryInit => Ordered
BY DEF RecoveryInit, Init, IdentityInit, Ordered, IsImage, Timed, NotBehind, KeepsTrust,
       Outlives, Empty

(* The reader keeps every entity that is alive.                            *)
LEMMA ActiveKeeps ==
    ASSUME NEW active \in Active
    PROVE  Unexpired(saved.entities) \subseteq active /\ active \subseteq DOMAIN saved.entities
BY DEF Active, Unexpired

(* Every step keeps the order of the copies.                               *)
LEMMA OrderedStep == Ordered /\ [RecoveryNext]_recoveryVars => Ordered'
<1>. SUFFICES ASSUME Ordered, [RecoveryNext]_recoveryVars  PROVE Ordered'
  OBVIOUS
<1>1. CASE Mutate \/ Serve \/ CleanupReported
  <2>1. Operation /\ UNCHANGED <<mode, writing, saved>>
    BY <1>1 DEF Mutate, Serve, CleanupReported, Operation, IdentityOp, PairOp, IdentityRest, redisVars
  <2>. QED
    BY <2>1, StoreNotBehind, StoreAhead DEF Ordered
<1>2. CASE Snapshot
  <2>1. /\ UNCHANGED <<entities, bindings, mode, saved>>
        /\ mode # "down" /\ writing' = Current
    BY <1>2 DEF Snapshot, vars, redisVars
  <2>. QED
    BY <2>1, SnapshotNotBehind DEF Ordered
<1>3. CASE Exec
  <2>1. /\ UNCHANGED <<entities, bindings, mode>>
        /\ writing # NoImage /\ saved' = writing /\ writing' = NoImage
    BY <1>3 DEF Exec, vars
  <2>. QED
    BY <2>1 DEF Ordered
<1>4. CASE ExecFails
  <2>1. UNCHANGED <<entities, bindings, mode, saved>> /\ writing' = NoImage
    BY <1>4 DEF ExecFails, vars, redisVars
  <2>. QED
    BY <2>1 DEF Ordered
<1>5. ASSUME Forget  PROVE Timed(entities') /\ mode' = "down" /\ writing' = NoImage
  BY <1>5 DEF Forget, Load, Empty, Timed
<1>6. CASE Crash
  BY <1>5, <1>6 DEF Crash, Ordered, redisVars
<1>7. CASE Stop
  BY <1>5, <1>7, SnapshotNotBehind DEF Stop, Ordered
<1>8. CASE Restore
  <2>1. PICK active \in Active : Load(Hydrated(active).entities, Hydrated(active).authSessions,
                                       Hydrated(active).pairSessions, Hydrated(active).bindings)
    BY <1>8 DEF Restore
  <2>2. /\ entities' = Restrict(saved.entities, active)
        /\ bindings' = saved.bindings
        /\ UNCHANGED <<writing, saved>> /\ writing = NoImage
    BY <1>8, <2>1 DEF Restore, Hydrated, Kept, Load, Ordered, redisVars
  <2>3. Timed(entities') /\ Outlives(entities', saved.entities)
    BY <2>2, ActiveKeeps, KeptOutlives DEF Ordered, IsImage
  <2>4. KeepsTrust(saved.bindings, bindings')
    BY <2>2 DEF KeepsTrust
  <2>. QED
    BY <2>2, <2>3, <2>4 DEF Ordered, NotBehind
<1>9. CASE StartFresh
  <2>1. /\ UNCHANGED <<entities, bindings, writing, saved>>
        /\ mode = "down" /\ mode' = "fresh"
    BY <1>9 DEF StartFresh, vars, redisVars
  <2>. QED
    BY <2>1 DEF Ordered
<1>10. CASE Elapse
  <2>1. /\ entities' = Aged(entities) /\ UNCHANGED <<bindings, mode>>
        /\ saved' = AgedImage(saved)
        /\ writing' = IF writing = NoImage THEN NoImage ELSE AgedImage(writing)
    BY <1>10 DEF Elapse, StoreTick, Tick
  <2>2. Timed(entities')
    <3>1. Outlives(entities, entities)
      BY IdentityAssumption DEF Outlives, Ordered, Timed
    <3>. QED
      BY <2>1, <3>1, AgedOutlives DEF Ordered
  <2>3. IsImage(saved') /\ (mode = "restored" => NotBehind(entities', bindings', saved'))
    <3>1. IsImage(AgedImage(saved))
      BY AgedIsImage DEF Ordered
    <3>. QED
      BY <2>1, <3>1, AgedAhead DEF Ordered
  <2>4. writing # NoImage =>
           mode # "down" /\ IsImage(AgedImage(writing)) /\ NotBehind(entities', bindings', AgedImage(writing))
    BY <2>1, AgedAhead DEF Ordered
  <2>. QED
    BY <2>1, <2>2, <2>3, <2>4 DEF Ordered
<1>11. CASE UNCHANGED recoveryVars
  BY <1>11 DEF recoveryVars, Ordered
<1>. QED
  BY <1>1, <1>2, <1>3, <1>4, <1>6, <1>7, <1>8, <1>9, <1>10, <1>11 DEF RecoveryNext

-----------------------------------------------------------------------------
(* The pairing invariant, in memory and in every copy of it.               *)

\* The sessions that a restart indexes by their claim token.
IndexOf(ps) == {p \in DOMAIN ps : ps[p].status \in Claimable}

\* What holds of the store's maps holds of these.
Sound(es, ts, ps, bs) ==
    /\ es \in MapOf(Entities, Registration)
    /\ ts \in MapOf(Tokens, AuthSession)
    /\ Match(ts, es)
    /\ PairTypes(ps, IndexOf(ps), bs)
    /\ PairInv(ps, IndexOf(ps), bs)

SoundImage(im) == Sound(im.entities, im.authSessions, im.pairSessions, im.bindings)

CopiesSound ==
    /\ Core
    /\ SoundImage(saved)
    /\ writing # NoImage => SoundImage(writing)
    /\ mode \in {"down", "restored", "fresh"} /\ armed \in BOOLEAN

(* The running store is such a store: its index is exact.                  *)
LEMMA CoreSound ==
    ASSUME Core
    PROVE  Sound(entities, authSessions, pairSessions, bindings)
<1>1. claimIndex = IndexOf(pairSessions)
  BY DEF Core, PairInv, Exact, IndexOf
<1>. QED
  BY <1>1 DEF Core, Sound, TypeOK, IdentityTypeOK, PairTypes

(* A store with nothing in it.                                             *)
LEMMA EmptySound == Sound(Empty, Empty, Empty, Empty)
<1>1. /\ DOMAIN Empty = {} /\ Empty \in [{} -> Registration] /\ Empty \in [{} -> AuthSession]
      /\ Empty \in [{} -> PairSession] /\ Empty \in [{} -> Binding]
  BY DEF Empty
<1>. HIDE DEF Empty
<1>2. /\ Empty \in MapOf(Entities, Registration) /\ Empty \in MapOf(Tokens, AuthSession)
      /\ Empty \in MapOf(PairIds, PairSession) /\ Empty \in MapOf(BindingIds, Binding)
  BY <1>1, MapIntro
<1>. QED
  BY <1>1, <1>2 DEF Sound, IndexOf, Match, PairTypes, PairInv, Exact, One, Backed, Follows

(* What is kept of a sound store is sound: bearer sessions go with their   *)
(* entities, and no binding is dropped, so every claim stays backed.       *)
LEMMA KeptSound ==
    ASSUME NEW es, NEW ts, NEW ps, NEW bs, Sound(es, ts, ps, bs),
           NEW E, E \subseteq DOMAIN es
    PROVE  SoundImage(Kept(E, es, ts, ps, bs))
<1>. DEFINE T == {t \in Unexpired(ts) : ts[t].entity \in E}
            P == {p \in Unexpired(ps) : ps[p].device \in E}
            ks == Restrict(es, E)
            ls == Restrict(ts, T)
            qs == Restrict(ps, P)
<1>1. E \subseteq DOMAIN es /\ T \subseteq DOMAIN ts /\ P \subseteq DOMAIN ps
      /\ \A t \in T : ts[t].entity \in E
  BY DEF Unexpired
<1>2. /\ Kept(E, es, ts, ps, bs).entities = ks
      /\ Kept(E, es, ts, ps, bs).authSessions = ls
      /\ Kept(E, es, ts, ps, bs).pairSessions = qs
      /\ Kept(E, es, ts, ps, bs).bindings = bs
  BY DEF Kept
<1>. HIDE DEF T, P
<1>3. /\ ks \in MapOf(Entities, Registration) /\ DOMAIN ks = E
      /\ \A e \in E : ks[e] = es[e]
  BY <1>1, RestrictMap DEF Sound
<1>4. /\ ls \in MapOf(Tokens, AuthSession) /\ DOMAIN ls = T
      /\ \A t \in T : ls[t] = ts[t]
  BY <1>1, RestrictMap DEF Sound
<1>5. /\ qs \in MapOf(PairIds, PairSession) /\ DOMAIN qs = P
      /\ \A p \in P : qs[p] = ps[p]
  BY <1>1, RestrictMap DEF Sound, PairTypes
<1>. HIDE DEF ks, ls, qs
<1>6. Match(ls, ks)
  BY <1>1, <1>3, <1>4 DEF Sound, Match
<1>7. PairTypes(qs, IndexOf(qs), bs)
  <2>1. DOMAIN qs \subseteq PairIds
    BY <1>5, MapElim
  <2>. QED
    BY <1>5, <2>1 DEF Sound, PairTypes, IndexOf
<1>8. Backed(qs, bs)
  BY <1>1, <1>5 DEF Sound, PairInv, Backed
<1>9. Follows(qs, bs)
  <2>1. Follows(ps, bs)
    BY DEF Sound, PairInv
  <2>2. \A b \in DOMAIN bs :
            bs[b].pairSession \in DOMAIN qs =>
                /\ bs[b].pairSession \in DOMAIN ps
                /\ qs[bs[b].pairSession] = ps[bs[b].pairSession]
    BY <1>1, <1>5
  <2>. QED
    BY <2>1, <2>2 DEF Follows
<1>10. PairInv(qs, IndexOf(qs), bs)
  BY <1>8, <1>9 DEF Sound, PairInv, Exact, IndexOf
<1>. QED
  BY <1>2, <1>3, <1>4, <1>6, <1>7, <1>10 DEF Sound, SoundImage

(* A store loaded from sound maps has the core of the invariant.           *)
LEMMA LoadKeeps ==
    ASSUME NEW es, NEW ts, NEW ps, NEW bs, Sound(es, ts, ps, bs), Load(es, ts, ps, bs)
    PROVE  Core'
<1>1. /\ entities' = es /\ authSessions' = ts /\ pairSessions' = ps /\ bindings' = bs
      /\ claimIndex' = IndexOf(ps) /\ challenges' = Empty /\ inflight' = {}
  BY DEF Load, IndexOf
<1>2. Empty \in MapOf(ChallengeIds, Challenge)
  <2>1. Empty \in [{} -> Challenge]
    BY DEF Empty
  <2>. QED
    BY <2>1, MapIntro
<1>. QED
  BY <1>1, <1>2 DEF Sound, Core, TypeOK, IdentityTypeOK, PairTypes, Match, PairInv,
                    Exact, One, Backed, Follows

(* Time passing keeps a copy sound: it takes nothing away.                 *)
LEMMA AgedSound ==
    ASSUME NEW es, NEW ts, NEW ps, NEW bs, Sound(es, ts, ps, bs)
    PROVE  Sound(Aged(es), Aged(ts), Aged(ps), bs)
<1>1. /\ DOMAIN Aged(es) = DOMAIN es
      /\ DOMAIN Aged(ts) = DOMAIN ts
      /\ DOMAIN Aged(ps) = DOMAIN ps
  BY AgedMap
<1>2. /\ DOMAIN es \in SUBSET Entities /\ \A e \in DOMAIN es : es[e] \in Registration
      /\ DOMAIN ts \in SUBSET Tokens /\ \A t \in DOMAIN ts : ts[t] \in AuthSession
      /\ DOMAIN ps \in SUBSET PairIds /\ \A p \in DOMAIN ps : ps[p] \in PairSession
  BY MapElim DEF Sound, PairTypes
<1>3. \A e \in DOMAIN es : Aged(es)[e] \in Registration /\ Aged(es)[e].key = es[e].key
  BY <1>2, IdentityAssumption DEF Aged, Registration
<1>4. \A t \in DOMAIN ts : /\ Aged(ts)[t] \in AuthSession
                           /\ Aged(ts)[t].entity = ts[t].entity /\ Aged(ts)[t].key = ts[t].key
  BY <1>2, IdentityAssumption DEF Aged, AuthSession
<1>5. \A p \in DOMAIN ps : /\ Aged(ps)[p] \in PairSession
                           /\ Aged(ps)[p].device = ps[p].device
                           /\ Aged(ps)[p].deviceKey = ps[p].deviceKey
                           /\ Aged(ps)[p].status = ps[p].status
                           /\ Aged(ps)[p].claimant = ps[p].claimant
                           /\ Aged(ps)[p].binding = ps[p].binding
  BY <1>2, PairAssumption DEF Aged, PairSession
<1>6. /\ Aged(es) = [e \in DOMAIN es |-> Aged(es)[e]]
      /\ Aged(ts) = [t \in DOMAIN ts |-> Aged(ts)[t]]
      /\ Aged(ps) = [p \in DOMAIN ps |-> Aged(ps)[p]]
  BY DEF Aged
<1>. DEFINE fs == Aged(es)
            ls == Aged(ts)
            qs == Aged(ps)
<1>. HIDE DEF fs, ls, qs
<1>7. fs \in [DOMAIN es -> Registration] /\ ls \in [DOMAIN ts -> AuthSession]
      /\ qs \in [DOMAIN ps -> PairSession]
  BY <1>3, <1>4, <1>5, <1>6 DEF fs, ls, qs
<1>8. /\ fs \in MapOf(Entities, Registration) /\ ls \in MapOf(Tokens, AuthSession)
      /\ qs \in MapOf(PairIds, PairSession)
  BY <1>2, <1>7, MapIntro
<1>9. Match(ls, fs)
  BY <1>1, <1>3, <1>4 DEF Sound, Match, fs, ls
<1>10. /\ DOMAIN qs = DOMAIN ps
       /\ \A p \in DOMAIN ps : /\ qs[p].device = ps[p].device
                               /\ qs[p].deviceKey = ps[p].deviceKey
                               /\ qs[p].status = ps[p].status
                               /\ qs[p].claimant = ps[p].claimant
                               /\ qs[p].binding = ps[p].binding
  BY <1>1, <1>5 DEF qs
<1>11. IndexOf(qs) = IndexOf(ps)
  BY <1>10 DEF IndexOf
<1>12. PairInv(qs, IndexOf(qs), bs)
  BY <1>10, <1>11 DEF Sound, PairInv, Exact, Backed, Follows, IndexOf
<1>13. PairTypes(qs, IndexOf(qs), bs)
  BY <1>8, <1>11 DEF Sound, PairTypes
<1>. QED
  BY <1>8, <1>9, <1>12, <1>13 DEF Sound, fs, ls, qs

(* So does it in an image.                                                 *)
LEMMA AgedImageSound ==
    ASSUME NEW im, IsImage(im), SoundImage(im)
    PROVE  SoundImage(AgedImage(im))
<1>1. /\ AgedImage(im).entities = Aged(im.entities)
      /\ AgedImage(im).authSessions = Aged(im.authSessions)
      /\ AgedImage(im).pairSessions = Aged(im.pairSessions)
      /\ AgedImage(im).bindings = im.bindings
  BY AgedIsImage
<1>. QED
  BY <1>1, AgedSound DEF SoundImage

(* At first every copy is empty.                                           *)
LEMMA SoundInit == RecoveryInit => CopiesSound
<1>. SUFFICES ASSUME RecoveryInit  PROVE CopiesSound
  OBVIOUS
<1>1. Core
  BY InitInv DEF RecoveryInit, IInv
<1>2. /\ saved.entities = Empty /\ saved.authSessions = Empty
      /\ saved.pairSessions = Empty /\ saved.bindings = Empty
      /\ mode = "restored" /\ armed = FALSE /\ writing = NoImage
  BY DEF RecoveryInit
<1>. QED
  BY <1>1, <1>2, EmptySound DEF CopiesSound, SoundImage

(* Every step keeps every copy sound, also a crash in the middle of a      *)
(* write and a restart from an image of any age.                           *)
LEMMA SoundStep ==
    ASSUME Ordered, CopiesSound, [RecoveryNext]_recoveryVars
    PROVE  CopiesSound'
<1>1. ASSUME DOMAIN pairSessions' \subseteq DOMAIN pairSessions, [Next]_vars
      PROVE  Core'
  BY <1>1, CoreStep DEF CopiesSound, Fresh
<1>2. ASSUME UNCHANGED vars  PROVE Core'
  BY <1>1, <1>2 DEF vars
<1>3. ASSUME PrunePairs  PROVE DOMAIN pairSessions' \subseteq DOMAIN pairSessions
  BY <1>3 DEF PrunePairs, LivePairs
<1>4. SoundImage(Current)
  <2>1. Unexpired(entities) \subseteq DOMAIN entities
    BY DEF Unexpired
  <2>. QED
    BY <2>1, CoreSound, KeptSound DEF CopiesSound, Current
<1>5. CASE Mutate
  <2>1. [Next]_vars /\ Fresh /\ UNCHANGED <<mode, writing, saved>> /\ armed' = TRUE
    BY <1>5 DEF Mutate, Next, IdentityOp, PairOp, IdsAreFresh, Fresh, redisVars
  <2>. QED
    BY <2>1, CoreStep DEF CopiesSound
<1>6. CASE Serve
  <2>1. [Next]_vars /\ UNCHANGED <<mode, armed, writing, saved>>
    BY <1>6 DEF Serve, Next, IdentityOp, PairOp, redisVars
  <2>2. DOMAIN pairSessions' \subseteq DOMAIN pairSessions
    BY <1>3, <1>6 DEF Serve, PairRest, ClaimRefused, pairVars
  <2>. QED
    BY <1>1, <2>1, <2>2 DEF CopiesSound
<1>7. CASE CleanupReported
  <2>1. [Next]_vars /\ UNCHANGED <<mode, writing, saved>> /\ armed' = TRUE /\ PrunePairs
    BY <1>7 DEF CleanupReported, Next, IdentityOp, IdentityRest, redisVars
  <2>. QED
    BY <1>1, <1>3, <2>1 DEF CopiesSound
<1>8. CASE Snapshot
  BY <1>2, <1>4, <1>8 DEF Snapshot, CopiesSound, redisVars
<1>9. CASE Exec
  BY <1>2, <1>9 DEF Exec, CopiesSound
<1>10. CASE ExecFails
  BY <1>2, <1>10 DEF ExecFails, CopiesSound, redisVars
<1>11. ASSUME Forget  PROVE Core' /\ mode' = "down" /\ armed' = FALSE /\ writing' = NoImage
  <2>1. Core'
    BY <1>11, EmptySound, LoadKeeps DEF Forget
  <2>. QED
    BY <1>11, <2>1 DEF Forget
<1>12. CASE Crash
  BY <1>11, <1>12 DEF Crash, CopiesSound, redisVars
<1>13. CASE Stop
  BY <1>4, <1>11, <1>13 DEF Stop, CopiesSound
<1>14. CASE Restore
  <2>0. /\ \E active \in Active : Load(Hydrated(active).entities, Hydrated(active).authSessions,
                                       Hydrated(active).pairSessions, Hydrated(active).bindings)
        /\ mode' = "restored" /\ UNCHANGED <<armed, writing, saved>>
    BY <1>14 DEF Restore, redisVars
  <2>. PICK active \in Active : Load(Hydrated(active).entities, Hydrated(active).authSessions,
                                      Hydrated(active).pairSessions, Hydrated(active).bindings)
    BY <2>0
  <2>. DEFINE k == Hydrated(active)
  <2>1. SoundImage(k)
    BY KeptSound, ActiveKeeps DEF CopiesSound, SoundImage, Hydrated
  <2>2. /\ Load(k.entities, k.authSessions, k.pairSessions, k.bindings)
        /\ mode' = "restored" /\ UNCHANGED <<armed, writing, saved>>
    BY <2>0
  <2>. HIDE DEF k
  <2>3. Core'
    BY <2>1, <2>2, LoadKeeps DEF SoundImage
  <2>. QED
    BY <2>2, <2>3 DEF CopiesSound
<1>15. CASE StartFresh
  BY <1>2, <1>15 DEF StartFresh, CopiesSound, redisVars
<1>16. CASE Elapse
  <2>1. /\ saved' = AgedImage(saved) /\ UNCHANGED <<mode, armed>> /\ StoreTick
        /\ writing' = IF writing = NoImage THEN NoImage ELSE AgedImage(writing)
    BY <1>16 DEF Elapse
  <2>2. Core'
    <3>1. DOMAIN pairSessions' = DOMAIN pairSessions
      BY <2>1, AgedMap DEF StoreTick
    <3>. QED
      BY <1>1, <2>1, <3>1 DEF Next
  <2>3. SoundImage(AgedImage(saved)) /\ (writing # NoImage => SoundImage(AgedImage(writing)))
    BY AgedImageSound DEF CopiesSound, Ordered
  <2>. QED
    BY <2>1, <2>2, <2>3 DEF CopiesSound
<1>17. CASE UNCHANGED recoveryVars
  <2>1. UNCHANGED <<vars, mode, armed, writing, saved>>
    BY <1>17 DEF recoveryVars, vars
  <2>. QED
    BY <1>2, <2>1 DEF CopiesSound
<1>. QED
  BY <1>5, <1>6, <1>7, <1>8, <1>9, <1>10, <1>12, <1>13, <1>14, <1>15, <1>16, <1>17
     DEF RecoveryNext

-----------------------------------------------------------------------------
(* The bearer sessions of the copies.                                      *)

(* Bearer sessions have lives that can be compared.                        *)
LEMMA SessionLives ==
    ASSUME NEW ts, ts \in MapOf(Tokens, AuthSession)
    PROVE  \A t \in DOMAIN ts : /\ ts[t] \in AuthSession /\ ts[t].life \in 0..AuthTTL
                                /\ ts[t].life \in Nat
<1>1. \A t \in DOMAIN ts : ts[t] \in AuthSession
  BY MapElim
<1>. QED
  BY <1>1, IdentityAssumption DEF AuthSession

(* So have entities.                                                       *)
LEMMA EntityLives ==
    ASSUME NEW es, es \in MapOf(Entities, Registration)
    PROVE  \A e \in DOMAIN es : es[e] \in Registration /\ es[e].life \in Nat
<1>1. \A e \in DOMAIN es : es[e] \in Registration
  BY MapElim
<1>. QED
  BY <1>1, IdentityAssumption DEF Registration

\* Map as still has the sessions that image im would serve, for at least as long.
HoldsSessions(as, im) ==
    \A t \in Served(im.entities, im.authSessions) :
        /\ t \in DOMAIN as
        /\ as[t].entity = im.authSessions[t].entity /\ as[t].key = im.authSessions[t].key
        /\ as[t].life >= im.authSessions[t].life

SessionsAhead ==
    /\ mode = "restored" => HoldsSessions(authSessions, saved)
    /\ writing # NoImage => HoldsSessions(authSessions, writing)

(* A session that an image would serve is not pruned from the store.       *)
LEMMA ServedNotPruned ==
    ASSUME Core, NEW im, SoundImage(im), NotBehind(entities, bindings, im),
           HoldsSessions(authSessions, im), NEW t \in Served(im.entities, im.authSessions)
    PROVE  t \in DOMAIN LiveSessions /\ LiveSessions[t] = authSessions[t]
<1>. DEFINE e == im.authSessions[t].entity
<1>1. /\ t \in DOMAIN im.authSessions /\ im.authSessions[t].life > 0
      /\ e \in DOMAIN im.entities /\ im.entities[e].life > 0
  BY DEF Served, Unexpired
<1>2. /\ im.authSessions[t].life \in Nat /\ im.entities[e].life \in Nat
  BY <1>1, SessionLives, EntityLives DEF SoundImage, Sound
<1>3. t \in DOMAIN authSessions /\ authSessions[t].life >= im.authSessions[t].life
      /\ authSessions[t].entity = e
  BY DEF HoldsSessions
<1>4. e \in DOMAIN entities /\ entities[e].life >= im.entities[e].life
  BY <1>1 DEF NotBehind, Outlives
<1>5. authSessions[t].life \in Nat /\ entities[e].life \in Nat
  BY <1>3, <1>4, SessionLives, EntityLives DEF Core, TypeOK, IdentityTypeOK
<1>6. authSessions[t].life > 0 /\ entities[e].life > 0
  BY <1>1, <1>2, <1>3, <1>4, <1>5
<1>7. e \in DOMAIN LiveEntities
  BY <1>4, <1>6 DEF LiveEntities, Unexpired, Restrict
<1>. QED
  BY <1>3, <1>6, <1>7 DEF LiveSessions, RemovedEntities, Unexpired, Restrict

(* No step of the store but the clock takes such a session away.           *)
LEMMA StoreHolds ==
    ASSUME Core, NEW im, SoundImage(im), NotBehind(entities, bindings, im),
           HoldsSessions(authSessions, im), Operation
    PROVE  HoldsSessions(authSessions', im)
<1>. DEFINE S == Served(im.entities, im.authSessions)
            Held(t, s) == /\ s.entity = im.authSessions[t].entity /\ s.key = im.authSessions[t].key
                          /\ s.life >= im.authSessions[t].life
            Goal == \A t \in S : t \in DOMAIN authSessions' /\ Held(t, authSessions'[t])
<1>1. \A t \in S : /\ t \in DOMAIN LiveSessions /\ LiveSessions[t] = authSessions[t]
                   /\ Held(t, authSessions[t])
  BY ServedNotPruned DEF HoldsSessions
<1>2. \A t \in S : im.authSessions[t].life \in 0..AuthTTL
  BY SessionLives DEF Served, Unexpired, SoundImage, Sound
<1>3. ASSUME NEW t \in Tokens, t \in DOMAIN LiveSessions
      PROVE  /\ SlidSession(LiveSessions[t]).entity = LiveSessions[t].entity
             /\ SlidSession(LiveSessions[t]).key = LiveSessions[t].key
             /\ SlidSession(LiveSessions[t]).life = AuthTTL
  <2>1. t \in DOMAIN authSessions /\ LiveSessions[t] = authSessions[t]
    BY <1>3 DEF LiveSessions, Unexpired, Restrict
  <2>2. LiveSessions[t] \in AuthSession
    BY <2>1, SessionLives DEF Core, TypeOK, IdentityTypeOK
  <2>. QED
    BY <2>2 DEF SlidSession, AuthSession
<1>4. ASSUME authSessions' = LiveSessions  PROVE Goal
  BY <1>1, <1>4
<1>5. ASSUME authSessions' = authSessions  PROVE Goal
  BY <1>5 DEF HoldsSessions
<1>6. ASSUME NEW t \in Tokens, NEW s, authSessions' = Put(LiveSessions, t, s),
             t \in S => Held(t, s)
      PROVE  Goal
  <2>1. /\ DOMAIN authSessions' = DOMAIN LiveSessions \cup {t}
        /\ \A x \in DOMAIN authSessions' : authSessions'[x] = IF x = t THEN s ELSE LiveSessions[x]
    BY <1>6 DEF Put
  <2>. HIDE DEF Held, S
  <2>. QED
    BY <1>1, <1>6, <2>1
<1>7. ASSUME NEW t \in Tokens, Authenticate(t)  PROVE Goal
  <2>1. t \in S => Held(t, SlidSession(LiveSessions[t]))
    BY <1>1, <1>2, <1>3, IdentityAssumption
  <2>. QED
    BY <1>6, <1>7, <2>1 DEF Authenticate
<1>8. ASSUME NEW c \in ChallengeIds, NEW t \in Tokens, Login(c, t)  PROVE Goal
  <2>1. t \notin S
    BY <1>1, <1>8 DEF Login
  <2>. HIDE DEF Goal, Held, S
  <2>. QED
    BY <1>6, <1>8, <2>1 DEF Login
<1>. HIDE DEF Goal
<1>9. Goal
  <2>1. CASE IdentityOp
    <3>1. ASSUME NEW e \in Entities, Presence(e)  PROVE authSessions' = LiveSessions
      BY <3>1 DEF Presence
    <3>2. ASSUME NEW c \in ChallengeIds, NEW e \in Entities, NEW k \in Keys, CreateChallenge(c, e, k)
          PROVE  authSessions' = LiveSessions
      BY <3>2 DEF CreateChallenge
    <3>3. Cleanup => authSessions' = LiveSessions
      BY DEF Cleanup, PruneIdentities
    <3>. QED
      BY <1>4, <1>7, <1>8, <2>1, <3>1, <3>2, <3>3 DEF IdentityOp, IdentityMutation, IdentityRest
  <2>2. CASE PairOp
    <3>1. authSessions' = LiveSessions
      BY <2>2 DEF PairOp, PairMutation, PairRest, CreatePairSession, DeletePairSession,
         ClaimAgain, ClaimFirst, ClaimRefused, ApproveBinding, NameMobile, PruneIdentities
    <3>. QED
      BY <1>4, <3>1
  <2>3. CASE \E e \in Entities : Finish(e)
    <3>1. authSessions' = authSessions
      BY <2>3 DEF Finish
    <3>. QED
      BY <1>5, <3>1
  <2>. QED
    BY <2>1, <2>2, <2>3 DEF Operation
<1>. QED
  BY <1>9 DEF Goal, HoldsSessions

(* What is kept of a store it holds.                                       *)
LEMMA KeptHeld ==
    ASSUME NEW es, NEW ts, NEW ps, NEW bs, ts \in MapOf(Tokens, AuthSession),
           NEW active, active \subseteq DOMAIN es
    PROVE  HoldsSessions(ts, Kept(active, es, ts, ps, bs))
<1>. DEFINE T == {t \in Unexpired(ts) : ts[t].entity \in active}
            ls == Restrict(ts, T)
            ks == Restrict(es, active)
<1>1. Kept(active, es, ts, ps, bs).authSessions = ls /\ Kept(active, es, ts, ps, bs).entities = ks
  BY DEF Kept
<1>2. DOMAIN ls = T /\ T \subseteq DOMAIN ts /\ \A t \in T : ls[t] = ts[t]
  BY DEF Restrict, Unexpired
<1>3. \A t \in DOMAIN ts : ts[t].life \in Nat
  BY SessionLives
<1>4. Served(ks, ls) \subseteq T
  BY <1>2 DEF Served, Unexpired
<1>5. \A t \in T : /\ t \in DOMAIN ts /\ ts[t].entity = ls[t].entity /\ ts[t].key = ls[t].key
                   /\ ts[t].life >= ls[t].life
  BY <1>2, <1>3
<1>. QED
  BY <1>1, <1>4, <1>5 DEF HoldsSessions

(* And the other way around: what is kept of an image, with every entity   *)
(* that is alive, holds the sessions of the image.                         *)
LEMMA KeptHolds ==
    ASSUME NEW im, SoundImage(im), NEW ps, NEW bs,
           NEW active, Unexpired(im.entities) \subseteq active
    PROVE  HoldsSessions(Kept(active, im.entities, im.authSessions, ps, bs).authSessions, im)
<1>. DEFINE ts == im.authSessions
            T == {t \in Unexpired(ts) : ts[t].entity \in active}
            ls == Restrict(ts, T)
<1>1. Kept(active, im.entities, ts, ps, bs).authSessions = ls
  BY DEF Kept
<1>2. DOMAIN ls = T /\ T \subseteq DOMAIN ts /\ \A t \in T : ls[t] = ts[t]
  BY DEF Restrict, Unexpired
<1>3. \A t \in DOMAIN ts : ts[t].life \in Nat
  BY SessionLives DEF SoundImage, Sound
<1>4. Served(im.entities, ts) \subseteq T
  BY DEF Served
<1>5. \A t \in T : /\ t \in DOMAIN ls /\ ls[t].entity = ts[t].entity /\ ls[t].key = ts[t].key
                   /\ ls[t].life >= ts[t].life
  BY <1>2, <1>3
<1>. QED
  BY <1>1, <1>4, <1>5 DEF HoldsSessions

(* Time changes nothing else in a session.                                 *)
LEMMA AgedSessions ==
    ASSUME NEW as, \A t \in DOMAIN as : as[t] \in AuthSession
    PROVE  /\ DOMAIN Aged(as) = DOMAIN as
           /\ \A t \in DOMAIN as :
                /\ Aged(as)[t].entity = as[t].entity /\ Aged(as)[t].key = as[t].key
                /\ Aged(as)[t].life = IF as[t].life > 0 THEN as[t].life - 1 ELSE 0
                /\ as[t].life \in Nat
<1>1. ASSUME NEW s \in AuthSession
      PROVE  s = [entity |-> s.entity, key |-> s.key, life |-> s.life] /\ s.life \in Nat
  BY IdentityAssumption DEF AuthSession
<1>2. \A t \in DOMAIN as : /\ as[t] = [entity |-> as[t].entity, key |-> as[t].key, life |-> as[t].life]
                           /\ as[t].life \in Nat
  BY <1>1
<1>3. DOMAIN Aged(as) = DOMAIN as
  BY DEF Aged
<1>4. ASSUME NEW t \in DOMAIN as
      PROVE  Aged(as)[t] = [entity |-> as[t].entity, key |-> as[t].key,
                            life |-> IF as[t].life > 0 THEN as[t].life - 1 ELSE 0]
  <2>1. as[t] = [entity |-> as[t].entity, key |-> as[t].key, life |-> as[t].life]
    BY <1>2
  <2>2. Aged(as)[t] = [as[t] EXCEPT !.life = IF @ > 0 THEN @ - 1 ELSE 0]
    BY DEF Aged
  <2>. QED
    BY <2>1, <2>2
<1>5. ASSUME NEW t \in DOMAIN as
      PROVE  /\ Aged(as)[t].entity = as[t].entity /\ Aged(as)[t].key = as[t].key
             /\ Aged(as)[t].life = IF as[t].life > 0 THEN as[t].life - 1 ELSE 0
  <2>. DEFINE s == Aged(as)[t]
              n == IF as[t].life > 0 THEN as[t].life - 1 ELSE 0
  <2>1. s = [entity |-> as[t].entity, key |-> as[t].key, life |-> n]
    BY <1>4
  <2>. HIDE DEF s, n
  <2>2. s.entity = as[t].entity /\ s.key = as[t].key /\ s.life = n
    BY <2>1
  <2>. QED
    BY <2>2 DEF s, n
<1>. QED
  BY <1>2, <1>3, <1>5

(* Time passes for the sessions of both.                                   *)
LEMMA AgedHolds ==
    ASSUME NEW ts, ts \in MapOf(Tokens, AuthSession), NEW im, IsImage(im), SoundImage(im),
           HoldsSessions(ts, im)
    PROVE  HoldsSessions(Aged(ts), AgedImage(im))
<1>. DEFINE us == im.authSessions
            es == im.entities
            Later(n) == IF n > 0 THEN n - 1 ELSE 0
<1>1. AgedImage(im).authSessions = Aged(us) /\ AgedImage(im).entities = Aged(es)
  BY AgedIsImage
<1>2. /\ \A t \in DOMAIN ts : ts[t] \in AuthSession
      /\ \A t \in DOMAIN us : us[t] \in AuthSession
      /\ \A e \in DOMAIN es : es[e] \in Registration
  BY SessionLives, EntityLives DEF SoundImage, Sound
<1>3. ASSUME NEW as, \A t \in DOMAIN as : as[t] \in AuthSession
      PROVE  /\ DOMAIN Aged(as) = DOMAIN as
             /\ \A t \in DOMAIN as : /\ Aged(as)[t].entity = as[t].entity
                                     /\ Aged(as)[t].key = as[t].key
                                     /\ Aged(as)[t].life = Later(as[t].life)
                                     /\ as[t].life \in Nat
  BY <1>3, AgedSessions
<1>4. /\ DOMAIN Aged(es) = DOMAIN es
      /\ \A e \in DOMAIN es : Aged(es)[e].life = Later(es[e].life) /\ es[e].life \in Nat
  BY <1>2, IdentityAssumption DEF Aged, Registration
<1>. DEFINE at == Aged(ts)
            au == Aged(us)
            ae == Aged(es)
<1>. HIDE DEF at, au, ae
<1>5. /\ DOMAIN at = DOMAIN ts /\ DOMAIN au = DOMAIN us /\ DOMAIN ae = DOMAIN es
      /\ \A t \in DOMAIN ts : /\ at[t].entity = ts[t].entity /\ at[t].key = ts[t].key
                              /\ at[t].life = Later(ts[t].life) /\ ts[t].life \in Nat
      /\ \A t \in DOMAIN us : /\ au[t].entity = us[t].entity /\ au[t].key = us[t].key
                              /\ au[t].life = Later(us[t].life) /\ us[t].life \in Nat
      /\ \A e \in DOMAIN es : ae[e].life = Later(es[e].life) /\ es[e].life \in Nat
  BY <1>2, <1>3, <1>4 DEF at, au, ae
<1>6. Served(ae, au) \subseteq Served(es, us)
  BY <1>5 DEF Served, Unexpired
<1>7. ASSUME NEW t \in Served(ae, au)
      PROVE  /\ t \in DOMAIN at /\ at[t].entity = au[t].entity /\ at[t].key = au[t].key
             /\ at[t].life >= au[t].life
  <2>1. t \in Served(es, us) /\ t \in DOMAIN us
    BY <1>6 DEF Served, Unexpired
  <2>2. /\ t \in DOMAIN ts /\ ts[t].entity = us[t].entity /\ ts[t].key = us[t].key
        /\ ts[t].life >= us[t].life
    BY <2>1 DEF HoldsSessions
  <2>. QED
    BY <1>5, <2>1, <2>2
<1>8. Served(ae, au) = Served(AgedImage(im).entities, AgedImage(im).authSessions)
  BY <1>1 DEF ae, au
<1>. QED
  BY <1>1, <1>7, <1>8 DEF HoldsSessions, at, au

(* Every step keeps the sessions of the copies behind those in memory.     *)
LEMMA SessionsStep ==
    ASSUME Ordered, CopiesSound, SessionsAhead, [RecoveryNext]_recoveryVars
    PROVE  SessionsAhead'
<1>1. authSessions \in MapOf(Tokens, AuthSession)
  BY DEF CopiesSound, Core, TypeOK, IdentityTypeOK
<1>2. CASE Mutate \/ Serve \/ CleanupReported
  <2>1. Operation /\ UNCHANGED <<mode, writing, saved>>
    BY <1>2 DEF Mutate, Serve, CleanupReported, Operation, IdentityOp, PairOp, IdentityRest, redisVars
  <2>. QED
    BY <2>1, StoreHolds DEF Ordered, CopiesSound, SessionsAhead
<1>3. CASE Snapshot
  <2>1. UNCHANGED <<authSessions, mode, saved>> /\ writing' = Current
    BY <1>3 DEF Snapshot, vars, redisVars
  <2>2. Unexpired(entities) \subseteq DOMAIN entities
    BY DEF Unexpired
  <2>3. HoldsSessions(authSessions, Current)
    BY <1>1, <2>2, KeptHeld DEF Current
  <2>. QED
    BY <2>1, <2>3 DEF SessionsAhead
<1>4. CASE Exec
  <2>1. UNCHANGED <<authSessions, mode>> /\ writing # NoImage /\ saved' = writing /\ writing' = NoImage
    BY <1>4 DEF Exec, vars
  <2>. QED
    BY <2>1 DEF SessionsAhead
<1>5. CASE ExecFails
  <2>1. UNCHANGED <<authSessions, mode, saved>> /\ writing' = NoImage
    BY <1>5 DEF ExecFails, vars, redisVars
  <2>. QED
    BY <2>1 DEF SessionsAhead
<1>6. CASE Crash \/ Stop
  <2>1. mode' = "down" /\ writing' = NoImage
    BY <1>6 DEF Crash, Stop, Forget
  <2>. QED
    BY <2>1 DEF SessionsAhead
<1>7. CASE Restore
  <2>1. PICK active \in Active : Load(Hydrated(active).entities, Hydrated(active).authSessions,
                                       Hydrated(active).pairSessions, Hydrated(active).bindings)
    BY <1>7 DEF Restore
  <2>2. /\ authSessions' = Hydrated(active).authSessions
        /\ UNCHANGED <<writing, saved>> /\ writing = NoImage
    BY <1>7, <2>1 DEF Restore, Load, Ordered, redisVars
  <2>3. HoldsSessions(Hydrated(active).authSessions, saved)
    BY KeptHolds, ActiveKeeps DEF CopiesSound, Hydrated
  <2>. QED
    BY <2>2, <2>3 DEF SessionsAhead
<1>8. CASE StartFresh
  <2>1. UNCHANGED <<authSessions, writing, saved>> /\ mode' = "fresh"
    BY <1>8 DEF StartFresh, vars, redisVars
  <2>. QED
    BY <2>1 DEF SessionsAhead
<1>9. CASE Elapse
  <2>1. /\ authSessions' = Aged(authSessions) /\ UNCHANGED mode
        /\ saved' = AgedImage(saved)
        /\ writing' = IF writing = NoImage THEN NoImage ELSE AgedImage(writing)
    BY <1>9 DEF Elapse, StoreTick, Tick
  <2>. QED
    BY <1>1, <2>1, AgedHolds DEF SessionsAhead, Ordered, CopiesSound
<1>10. CASE UNCHANGED recoveryVars
  BY <1>10 DEF recoveryVars, SessionsAhead
<1>. QED
  BY <1>2, <1>3, <1>4, <1>5, <1>6, <1>7, <1>8, <1>9, <1>10 DEF RecoveryNext

(* Nothing that a restart would serve is new.                              *)
LEMMA NothingRevived ==
    ASSUME Ordered, CopiesSound, SessionsAhead
    PROVE  NoRevival
<1>. SUFFICES ASSUME mode = "restored", NEW active \in Active
              PROVE  /\ \A e \in Unexpired(Hydrated(active).entities) :
                          /\ e \in Unexpired(entities)
                          /\ entities[e].key = Hydrated(active).entities[e].key
                     /\ \A t \in Served(Hydrated(active).entities, Hydrated(active).authSessions) :
                          /\ t \in Served(entities, authSessions)
                          /\ authSessions[t].entity = Hydrated(active).authSessions[t].entity
                          /\ authSessions[t].key = Hydrated(active).authSessions[t].key
  BY DEF NoRevival
<1>. DEFINE es == Hydrated(active).entities
            ts == Hydrated(active).authSessions
            im == saved
<1>1. /\ DOMAIN es = active /\ \A e \in active : es[e] = im.entities[e]
      /\ DOMAIN ts \subseteq DOMAIN im.authSessions /\ \A t \in DOMAIN ts : ts[t] = im.authSessions[t]
  BY DEF Hydrated, Kept, Restrict, Unexpired
<1>2. active \subseteq DOMAIN im.entities
  BY ActiveKeeps
<1>. HIDE DEF es, ts
<1>3. NotBehind(entities, bindings, im) /\ HoldsSessions(authSessions, im) /\ SoundImage(im)
  BY DEF Ordered, SessionsAhead, CopiesSound
<1>4. ASSUME NEW e \in Unexpired(es)
      PROVE  e \in Unexpired(entities) /\ entities[e].key = es[e].key
  <2>1. e \in active /\ im.entities[e].life > 0 /\ es[e] = im.entities[e]
    BY <1>1 DEF Unexpired
  <2>2. /\ e \in DOMAIN entities /\ entities[e].life >= im.entities[e].life
        /\ entities[e].key = im.entities[e].key
    BY <1>2, <1>3, <2>1 DEF NotBehind, Outlives
  <2>3. entities[e].life \in Nat /\ im.entities[e].life \in Nat
    BY <1>2, <1>3, <2>1, <2>2, EntityLives
       DEF SoundImage, Sound, CopiesSound, Core, TypeOK, IdentityTypeOK
  <2>. QED
    BY <2>1, <2>2, <2>3 DEF Unexpired
<1>5. ASSUME NEW t \in Served(es, ts)
      PROVE  /\ t \in Served(entities, authSessions)
             /\ authSessions[t].entity = ts[t].entity
             /\ authSessions[t].key = ts[t].key
  <2>1. /\ t \in DOMAIN ts /\ ts[t] = im.authSessions[t] /\ im.authSessions[t].life > 0
        /\ t \in DOMAIN im.authSessions /\ ts[t].entity \in Unexpired(es)
    BY <1>1 DEF Served, Unexpired
  <2>2. t \in Served(im.entities, im.authSessions)
    BY <1>1, <1>2, <2>1 DEF Served, Unexpired
  <2>3. /\ t \in DOMAIN authSessions /\ authSessions[t].life >= im.authSessions[t].life
        /\ authSessions[t].entity = ts[t].entity /\ authSessions[t].key = ts[t].key
    BY <1>3, <2>1, <2>2 DEF HoldsSessions
  <2>4. authSessions[t].life \in Nat /\ im.authSessions[t].life \in Nat
    BY <1>3, <2>1, <2>3, SessionLives
       DEF SoundImage, Sound, CopiesSound, Core, TypeOK, IdentityTypeOK
  <2>. QED
    BY <1>4, <2>1, <2>3, <2>4 DEF Served, Unexpired
<1>. QED
  BY <1>4, <1>5 DEF es, ts

(* Leases are maps of entities to lifetimes.                               *)
LEMMA LeasesTyped ==
    ASSUME CopiesSound, granting \in Leases, leases \in Leases, [RecoveryNext]_recoveryVars
    PROVE  granting' \in Leases /\ leases' \in Leases
<1>1. Empty \in Leases
  <2>1. Empty \in [{} -> [life : Nat]]
    BY DEF Empty
  <2>. QED
    BY <2>1, MapIntro DEF Leases
<1>2. Granted \in Leases
  <2>1. /\ entities \in MapOf(Entities, Registration)
        /\ Unexpired(entities) \subseteq DOMAIN entities
    BY DEF CopiesSound, Core, TypeOK, IdentityTypeOK, Unexpired
  <2>2. DOMAIN entities \in SUBSET Entities /\ \A e \in DOMAIN entities : entities[e].life \in Nat
    BY <2>1, MapElim, EntityLives
  <2>3. Granted \in [Unexpired(entities) -> [life : Nat]]
    BY <2>1, <2>2, LeaseAssumption DEF Granted
  <2>. QED
    BY <2>1, <2>2, <2>3, MapIntro DEF Leases
<1>3. Aged(leases) \in Leases
  <2>1. DOMAIN leases \in SUBSET Entities /\ \A e \in DOMAIN leases : leases[e] \in [life : Nat]
    BY MapElim DEF Leases
  <2>2. Aged(leases) \in [DOMAIN leases -> [life : Nat]]
    BY <2>1 DEF Aged
  <2>. QED
    BY <2>1, <2>2, MapIntro DEF Leases
<1>. QED
  BY <1>1, <1>2, <1>3
     DEF RecoveryNext, recoveryVars, redisVars, Mutate, Serve, CleanupReported, Snapshot, Exec,
         ExecFails, Crash, Stop, Forget, Restore, StartFresh, Elapse

-----------------------------------------------------------------------------
(* The theorems.                                                           *)

(* Memory is never behind Redis, or behind what is being written to it.    *)
THEOREM CopiesOrdered == RecoverySpec => []Ordered
BY RecoveryInitInv, OrderedStep, PTL DEF RecoverySpec

(* Trust that has reached Redis survives (main.go:1553, 1731).             *)
THEOREM TrustIsDurable == RecoverySpec => []TrustSurvives
<1>1. Ordered => TrustSurvives
  BY DEF Ordered, NotBehind, KeepsTrust, TrustSurvives
<1>. QED
  BY CopiesOrdered, <1>1, PTL

(* The copies are sound as well: the pairing invariant holds of memory,    *)
(* of Redis and of a snapshot on its way there, so that it holds after     *)
(* every restart (main.go:1448-1530).                                      *)
THEOREM CopiesStaySound == RecoverySpec => []CopiesSound
<1>1. Ordered /\ CopiesSound /\ [RecoveryNext]_recoveryVars => CopiesSound'
  BY SoundStep
<1>. QED
  BY SoundInit, CopiesOrdered, <1>1, PTL DEF RecoverySpec

(* What the store has dropped does not come back to life with a restart,  *)
(* though a lease may bring its record back (main.go:1471-1473).           *)
THEOREM DroppedStaysDropped == RecoverySpec => []NoRevival
<1>1. RecoveryInit => SessionsAhead
  BY DEF RecoveryInit, SessionsAhead, HoldsSessions, Served, Unexpired, Empty
<1>2. Ordered /\ CopiesSound /\ SessionsAhead /\ [RecoveryNext]_recoveryVars => SessionsAhead'
  BY SessionsStep
<1>3. Ordered /\ CopiesSound /\ SessionsAhead => NoRevival
  BY NothingRevived
<1>. QED
  BY CopiesOrdered, CopiesStaySound, <1>1, <1>2, <1>3, PTL DEF RecoverySpec

(* A restart may lose the session of a binding, but it confuses none, and  *)
(* the index and the bearer sessions match what was kept                   *)
(* (main.go:1448-1530).                                                    *)
THEOREM RecoveryIsSound == RecoverySpec => []RecoveredStore
<1>1. CopiesSound => RecoveredStore
  BY DEF CopiesSound, Core, PairInv, Match, Exact, One, Backed, Follows, RecoveredStore,
         SessionsMatchEntities, ClaimIndexExact, OneBindingPerPair, ClaimBacked, ActiveIffApproved
<1>. QED
  BY CopiesStaySound, <1>1, PTL

(* Memory and both images keep their types, whichever restarts come        *)
(* between (main.go:1553-1740).                                            *)
THEOREM RecoveryTypeCorrect == RecoverySpec => []RecoveryTypeOK
<1>1. ASSUME NEW im, IsImage(im), SoundImage(im)  PROVE im \in Image
  BY <1>1 DEF IsImage, SoundImage, Sound, PairTypes, Image
<1>. DEFINE Typed == granting \in Leases /\ leases \in Leases
<1>2. Ordered /\ CopiesSound /\ Typed => RecoveryTypeOK
  BY <1>1 DEF Ordered, CopiesSound, Core, RecoveryTypeOK
<1>3. RecoveryInit => Typed
  <2>1. Empty \in [{} -> [life : Nat]]
    BY DEF Empty
  <2>. QED
    BY <2>1, MapIntro DEF RecoveryInit, Leases
<1>4. CopiesSound /\ Typed /\ [RecoveryNext]_recoveryVars => Typed'
  BY LeasesTyped
<1>. QED
  BY CopiesOrdered, CopiesStaySound, <1>2, <1>3, <1>4, PTL DEF RecoverySpec

===============================================================================
