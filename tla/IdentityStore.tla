----------------------------- MODULE IdentityStore -----------------------------
(***************************************************************************)
(* Identities of the v2 control plane (server/v2_store.go): login          *)
(* challenges, bearer sessions and the registered desktops and mobiles.    *)
(*                                                                         *)
(* A Go map is a function on its set of keys.  A deadline is the number of *)
(* clock ticks left before it (`life`): an entry has expired when its life *)
(* is 0, which is what "ExpiresAt <= now" says.  Every handler takes the   *)
(* store's lock, prunes what has expired, then does its own work: each     *)
(* action below works on the pruned maps.  An HTTP request is two critical *)
(* sections, Authenticate and the operation itself, with any other step    *)
(* possible in between.                                                    *)
(*                                                                         *)
(* An id released by a deletion may be drawn again: a finite set of ids    *)
(* stands for the endless supply of makeID and makeV2OpaqueToken.          *)
(***************************************************************************)
EXTENDS Naturals, Functions

CONSTANTS Desktops,      \* ids of desktop devices
          Mobiles,       \* ids of mobile devices
          Keys,          \* Ed25519 public keys
          ChallengeIds,  \* ids of login challenges
          Tokens,        \* bearer tokens
          ChallengeTTL,  \* lifetime of a challenge, in ticks
          AuthTTL,       \* lifetime of an unused bearer session
          EntityTTL      \* inactivity after which an entity is dropped

ASSUME IdentityAssumption ==
    /\ Desktops \cap Mobiles = {}
    /\ ChallengeTTL \in Nat \ {0}
    /\ AuthTTL \in Nat \ {0}
    /\ EntityTTL \in Nat \ {0}

VARIABLES challenges,    \* challenge id |-> challenge
          authSessions,  \* bearer token |-> session
          entities,      \* desktop or mobile id |-> registration
          inflight       \* entities with an authenticated request in progress

identityVars == <<challenges, authSessions, entities, inflight>>

Entities == Desktops \cup Mobiles

Challenge   == [entity : Entities, key : Keys, life : 0..ChallengeTTL]
AuthSession == [entity : Entities, key : Keys, life : 0..AuthTTL]
Registration == [key : Keys, life : 0..EntityTTL]

\* A Go map from some of the keys K to values V.
MapOf(K, V) == UNION {[D -> V] : D \in SUBSET K}

\* m[k] = v on a Go map.
Put(m, k, v) == [x \in DOMAIN m \cup {k} |-> IF x = k THEN v ELSE m[x]]

IdentityTypeOK ==
    /\ challenges \in MapOf(ChallengeIds, Challenge)
    /\ authSessions \in MapOf(Tokens, AuthSession)
    /\ entities \in MapOf(Entities, Registration)
    /\ inflight \in SUBSET Entities

IdentityInit ==
    /\ challenges = [c \in {} |-> c]
    /\ authSessions = [t \in {} |-> t]
    /\ entities = [e \in {} |-> e]
    /\ inflight = {}

-----------------------------------------------------------------------------
(* What pruneExpiredLocked leaves of the identity maps.                    *)

Unexpired(m) == {x \in DOMAIN m : m[x].life > 0}

LiveChallenges == Restrict(challenges, Unexpired(challenges))

LiveEntities == Restrict(entities, Unexpired(entities))

RemovedEntities == DOMAIN entities \ DOMAIN LiveEntities

LiveSessions ==
    Restrict(authSessions,
             {t \in Unexpired(authSessions) :
                  authSessions[t].entity \notin RemovedEntities})

\* An entity seen or updated just now.
Registered(k) == [key |-> k, life |-> EntityTTL]

-----------------------------------------------------------------------------
(* One action per handler.                                                 *)

CreateChallenge(c, e, k) ==
    /\ c \notin DOMAIN LiveChallenges
    /\ challenges' = Put(LiveChallenges, c,
                         [entity |-> e, key |-> k, life |-> ChallengeTTL])
    /\ authSessions' = LiveSessions
    /\ entities' = LiveEntities
    /\ UNCHANGED inflight

\* Faulty: any key may log in for a registered id.
AnyKeyAccepted(e, k) == TRUE

\* "already exists with another public key"
KeyAccepted(e, k) == e \in DOMAIN LiveEntities => LiveEntities[e].key = k

\* The client signed challenge c.  A challenge that does not match the payload
\* or a key other than the registered one is refused: only Cleanup happens.
Login(c, t) ==
    /\ c \in DOMAIN LiveChallenges
    /\ t \notin DOMAIN LiveSessions
    /\ LET e == challenges[c].entity
           k == challenges[c].key
       IN /\ KeyAccepted(e, k)
          /\ entities' = Put(LiveEntities, e, Registered(k))
          /\ authSessions' = Put(LiveSessions, t,
                                 [entity |-> e, key |-> k, life |-> AuthTTL])
    /\ challenges' = Restrict(LiveChallenges, DOMAIN LiveChallenges \ {c})
    /\ UNCHANGED inflight

\* The session slides: its deadline is a full lifetime from now.
SlidSession(s) == [s EXCEPT !.life = AuthTTL]

\* A request arrives with token t: its session slides, the entity is made
\* again from the session if it is missing, and the operation may follow.
Authenticate(t) ==
    /\ t \in DOMAIN LiveSessions
    /\ LET s == LiveSessions[t]
       IN /\ authSessions' = Put(LiveSessions, t, SlidSession(s))
          /\ entities' = IF s.entity \in DOMAIN LiveEntities
                         THEN LiveEntities
                         ELSE Put(LiveEntities, s.entity, Registered(s.key))
          /\ inflight' = inflight \cup {s.entity}
    /\ challenges' = LiveChallenges

\* The prune that every operation starts with, on the maps of this module.
PruneIdentities ==
    /\ challenges' = LiveChallenges
    /\ authSessions' = LiveSessions
    /\ entities' = LiveEntities

\* announcePresence and heartbeatPresence.
Presence(e) ==
    /\ e \in inflight
    /\ e \in DOMAIN LiveEntities
    /\ entities' = Put(LiveEntities, e, Registered(LiveEntities[e].key))
    /\ challenges' = LiveChallenges
    /\ authSessions' = LiveSessions
    /\ UNCHANGED inflight

\* The response to every request of e that was in progress is written.
Finish(e) ==
    /\ e \in inflight
    /\ inflight' = inflight \ {e}
    /\ UNCHANGED <<challenges, authSessions, entities>>

\* cleanupV2Expired, and every operation that is refused after its prune.
Cleanup ==
    /\ PruneIdentities
    /\ UNCHANGED inflight

Aged(m) == [x \in DOMAIN m |->
               [m[x] EXCEPT !.life = IF @ > 0 THEN @ - 1 ELSE 0]]

\* Time passes.
Tick ==
    /\ challenges' = Aged(challenges)
    /\ authSessions' = Aged(authSessions)
    /\ entities' = Aged(entities)
    /\ UNCHANGED inflight

\* The operations whose success is reported to onMutation.
IdentityMutation ==
    \/ \E c \in ChallengeIds, t \in Tokens : Login(c, t)
    \/ \E e \in Entities : Presence(e)

\* The others.
IdentityRest ==
    \/ \E c \in ChallengeIds, e \in Entities, k \in Keys : CreateChallenge(c, e, k)
    \/ \E t \in Tokens : Authenticate(t)
    \/ Cleanup

IdentityOp == IdentityMutation \/ IdentityRest

-----------------------------------------------------------------------------
(* Every bearer session belongs to a registered entity and carries its     *)
(* key: prune drops an entity and all its sessions in one critical section *)
(* (v2_store.go:284), so an old session never speaks for an id that was    *)
(* registered again with another key.                                      *)
SessionsMatchEntities ==
    \A t \in DOMAIN authSessions :
        LET s == authSessions[t]
        IN s.entity \in DOMAIN entities /\ entities[s.entity].key = s.key

(* While an id stays registered its key never changes: login refuses       *)
(* another key (v2_store.go:424, 446) until inactivity has dropped the     *)
(* entity.                                                                 *)
KeyContinuity ==
    [][\A e \in DOMAIN entities \cap DOMAIN entities' :
          entities[e].life > 0 => entities'[e].key = entities[e].key]_identityVars
=============================================================================
