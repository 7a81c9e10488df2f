----------------------------- MODULE StoreRecovery -----------------------------
(***************************************************************************)
(* The v2 store under STORE_BACKEND=redis (server/main.go): a debounced    *)
(* timer copies the store into Redis, the process may stop or crash at any *)
(* moment, and a restart hydrates the store from what Redis holds.         *)
(*                                                                         *)
(* One process owns the key prefix.  A handler that succeeds calls         *)
(* onMutation, which arms the timer; the timer takes the snapshot and      *)
(* writes it to Redis in one MULTI, with any step of the store possible in *)
(* between.  Deadlines are absolute times, so they pass in Redis and while *)
(* the process is down as well.                                            *)
(*                                                                         *)
(* Beside the hashes Redis holds a lease key per entity.  Its lifetime is  *)
(* computed with the snapshot and begins with the write, and is rounded up *)
(* to a second, so a lease may outlive its entity; a restart loads an      *)
(* entity that is active or has a lease.                                   *)
(***************************************************************************)
EXTENDS PairStore

CONSTANTS NoImage,    \* no write in progress
          LeaseFloor  \* the second that a shorter lease is rounded up to, in ticks

ASSUME LeaseAssumption == LeaseFloor \in Nat

VARIABLES mode,     \* "down", or serving from a "restored" or a "fresh" store
          armed,    \* the persist timer is running
          writing,  \* the snapshot being written to Redis
          granting, \* the leases that are written with it
          saved,    \* the hashes in Redis
          leases    \* the lease keys in Redis

redisVars == <<saved, leases>>
recoveryVars == <<challenges, authSessions, entities, inflight, pairSessions, claimIndex,
                  bindings, mode, armed, writing, granting, saved, leases>>

Image == [entities : MapOf(Entities, Registration),
          authSessions : MapOf(Tokens, AuthSession),
          pairSessions : MapOf(PairIds, PairSession),
          bindings : MapOf(BindingIds, Binding)]

Leases == MapOf(Entities, [life : Nat])

RecoveryTypeOK ==
    /\ TypeOK
    /\ mode \in {"down", "restored", "fresh"}
    /\ armed \in BOOLEAN
    /\ writing \in Image \cup {NoImage}
    /\ saved \in Image
    /\ granting \in Leases /\ leases \in Leases

Empty == [x \in {} |-> x]

RecoveryInit ==
    /\ Init
    /\ mode = "restored"
    /\ armed = FALSE
    /\ writing = NoImage
    /\ saved = [entities |-> Empty, authSessions |-> Empty,
                pairSessions |-> Empty, bindings |-> Empty]
    /\ granting = Empty /\ leases = Empty

-----------------------------------------------------------------------------

\* Faulty: bindings go with their desktop, as the v1 store's do.
KeptOfActive(active, es, as, ps, bs) ==
    [entities |-> Restrict(es, active),
     authSessions |-> Restrict(as, {t \in Unexpired(as) : as[t].entity \in active}),
     pairSessions |-> Restrict(ps, {p \in Unexpired(ps) : ps[p].device \in active}),
     bindings |-> Restrict(bs, {b \in DOMAIN bs : bs[b].device \in active})]

\* What is kept of the maps, by the writer and again by the reader: active
\* entities, their unexpired bearer sessions, the unexpired pair sessions of
\* active desktops whatever their status, and every binding.
Kept(active, es, as, ps, bs) ==
    [entities |-> Restrict(es, active),
     authSessions |-> Restrict(as, {t \in Unexpired(as) : as[t].entity \in active}),
     pairSessions |-> Restrict(ps, {p \in Unexpired(ps) : ps[p].device \in active}),
     bindings |-> bs]

\* An id is drawn at random: one that a binding still names is not drawn again.
IdsAreFresh ==
    \A b \in DOMAIN bindings :
        bindings[b].pairSession \notin DOMAIN pairSessions' \ DOMAIN pairSessions

\* pruneExpiredLocked reports a change.
Pruned ==
    \/ challenges # LiveChallenges \/ authSessions # LiveSessions
    \/ entities # LiveEntities \/ pairSessions # LivePairs

\* An operation that succeeds and arms the timer.
Mutate ==
    /\ mode # "down"
    /\ (IdentityMutation /\ PrunePairs) \/ PairMutation
    /\ IdsAreFresh
    /\ armed' = TRUE
    /\ UNCHANGED <<mode, writing, granting, redisVars>>

\* An operation that is not persisted on its own account: a challenge, a slid
\* bearer session, a refusal after its prune, a finished request.
Serve ==
    /\ mode # "down"
    /\ \/ IdentityRest /\ PrunePairs
       \/ PairRest
       \/ (\E e \in Entities : Finish(e)) /\ UNCHANGED pairVars
    /\ UNCHANGED <<mode, armed, writing, granting, redisVars>>

\* The cleanup before a request reports what it pruned.
CleanupReported ==
    /\ mode # "down"
    /\ Pruned
    /\ Cleanup /\ PrunePairs
    /\ armed' = TRUE
    /\ UNCHANGED <<mode, writing, granting, redisVars>>

-----------------------------------------------------------------------------
(* Writing.                                                                *)

\* The writer keeps the entities seen lately.
Current == Kept(Unexpired(entities), entities, authSessions, pairSessions, bindings)

\* The leases it gives them: what is left of their lives, at least a second.
Granted ==
    [e \in Unexpired(entities) |->
        [life |-> IF entities[e].life < LeaseFloor THEN LeaseFloor ELSE entities[e].life]]

\* The timer fires: persistWithTimeout takes persistMu and the snapshot.
Snapshot ==
    /\ mode # "down"
    /\ armed
    /\ writing = NoImage
    /\ armed' = FALSE
    /\ writing' = Current
    /\ granting' = Granted
    /\ UNCHANGED <<vars, mode, redisVars>>

\* MULTI/EXEC replaces every hash and the leases at once; the lifetimes of the
\* leases begin here.  If the old leases could not be listed they remain, but
\* an entity with a record has been given a new one.
Exec ==
    /\ writing # NoImage
    /\ saved' = writing
    /\ leases' = granting
    /\ writing' = NoImage
    /\ granting' = Empty
    /\ UNCHANGED <<vars, mode, armed>>

\* Redis cannot be reached in time; nothing tries again before a mutation does.
ExecFails ==
    /\ writing # NoImage
    /\ writing' = NoImage
    /\ granting' = Empty
    /\ UNCHANGED <<vars, mode, armed, redisVars>>

-----------------------------------------------------------------------------
(* Stopping and starting.                                                  *)

\* Faulty: every restored session can be claimed by its token.
LoadKeepingIndex(es, as, ps, bs) ==
    /\ entities' = es
    /\ authSessions' = as
    /\ pairSessions' = ps
    /\ claimIndex' = DOMAIN ps
    /\ bindings' = bs
    /\ challenges' = Empty
    /\ inflight' = {}

\* Memory holds these maps; challenges and requests do not survive a restart.
Load(es, as, ps, bs) ==
    /\ entities' = es
    /\ authSessions' = as
    /\ pairSessions' = ps
    /\ claimIndex' = {p \in DOMAIN ps : ps[p].status \in Claimable}
    /\ bindings' = bs
    /\ challenges' = Empty
    /\ inflight' = {}

Forget ==
    /\ Load(Empty, Empty, Empty, Empty)
    /\ mode' = "down"
    /\ armed' = FALSE
    /\ writing' = NoImage
    /\ granting' = Empty

Crash ==
    /\ mode # "down"
    /\ Forget
    /\ UNCHANGED redisVars

\* SIGTERM: Close flushes the store, once a write in progress is done.
Stop ==
    /\ mode # "down"
    /\ writing = NoImage
    /\ saved' = Current
    /\ leases' = Granted
    /\ Forget

\* Active by the time they were last seen, or by a lease, if those could be read.
Active ==
    {Unexpired(saved.entities),
     Unexpired(saved.entities) \cup (DOMAIN saved.entities \cap Unexpired(leases))}

\* Faulty: a restored entity counts as seen at the restart.
HydratedAlive(active) ==
    [Kept(active, saved.entities, saved.authSessions, saved.pairSessions, saved.bindings)
        EXCEPT !.entities = [e \in active |-> Registered(@[e].key)]]

\* What the reader makes of the hashes.
Hydrated(active) ==
    Kept(active, saved.entities, saved.authSessions, saved.pairSessions, saved.bindings)

\* hydrateFromRedis
Restore ==
    /\ mode = "down"
    /\ \E active \in Active :
          LET k == Hydrated(active)
          IN Load(k.entities, k.authSessions, k.pairSessions, k.bindings)
    /\ mode' = "restored"
    /\ UNCHANGED <<armed, writing, granting, redisVars>>

\* "failed to restore redis state, start fresh"
StartFresh ==
    /\ mode = "down"
    /\ mode' = "fresh"
    /\ UNCHANGED <<vars, armed, writing, granting, redisVars>>

AgedImage(im) ==
    [im EXCEPT !.entities = Aged(@), !.authSessions = Aged(@), !.pairSessions = Aged(@)]

Elapse ==
    /\ StoreTick
    /\ saved' = AgedImage(saved)
    /\ leases' = Aged(leases)
    /\ writing' = IF writing = NoImage THEN NoImage ELSE AgedImage(writing)
    /\ UNCHANGED <<mode, armed, granting>>

RecoveryNext ==
    \/ Mutate \/ Serve \/ CleanupReported
    \/ Snapshot \/ Exec \/ ExecFails
    \/ Crash \/ Stop \/ Restore \/ StartFresh
    \/ Elapse

RecoverySpec == RecoveryInit /\ [][RecoveryNext]_recoveryVars

-----------------------------------------------------------------------------
(* Trust that has reached Redis is never lost or weakened by a restart,    *)
(* nor by the write of an older snapshot, however crashes and writes       *)
(* interleave (main.go:1553, 1731): the running store holds every active   *)
(* binding of Redis unchanged.                                             *)
TrustSurvives ==
    mode = "restored" =>
        \A b \in DOMAIN saved.bindings :
            saved.bindings[b].trust = "active" =>
                b \in DOMAIN bindings /\ bindings[b] = saved.bindings[b]

\* The bearer tokens that open something: unexpired, of an entity that is alive.
Served(es, as) == {t \in Unexpired(as) : as[t].entity \in Unexpired(es)}

(* What the running store has dropped does not come back to life.  A       *)
(* restart may load its record again, as a lease outlives its entity       *)
(* (main.go:1471, 1744-1748), with bearer sessions that have time left;    *)
(* but whatever it would load, with or without the leases, it would serve  *)
(* no entity and no token that the store before it did not serve, nor      *)
(* either for another key: the record is expired, and the first prune      *)
(* drops it with its sessions (v2_store.go:284).  So once an id is free    *)
(* for another key, no restart gives it back to the old one.               *)
NoRevival ==
    mode = "restored" =>
        \A active \in Active :
            LET es == Hydrated(active).entities
                as == Hydrated(active).authSessions
            IN /\ \A e \in Unexpired(es) :
                    e \in Unexpired(entities) /\ entities[e].key = es[e].key
               /\ \A t \in Served(es, as) :
                    /\ t \in Served(entities, authSessions)
                    /\ authSessions[t].entity = as[t].entity
                    /\ authSessions[t].key = as[t].key

(* A restart may lose the session a binding points at (only unexpired      *)
(* sessions are kept) but never confuses it with another one; bearer       *)
(* sessions still belong to entities that were kept, with their keys, and  *)
(* the claim-token index is rebuilt to match (main.go:1448-1530).          *)
RecoveredStore ==
    /\ SessionsMatchEntities
    /\ ClaimIndexExact
    /\ OneBindingPerPair
    /\ ClaimBacked
    /\ ActiveIffApproved
    /\ \A b \in DOMAIN bindings :
          LET p == bindings[b].pairSession
          IN p \in DOMAIN pairSessions =>
                /\ pairSessions[p].binding = b
                /\ pairSessions[p].deviceKey = bindings[b].deviceKey
=============================================================================
