------------------------------ MODULE ChatSync ------------------------------
(***************************************************************************)
(* One conversation between a mobile (mobile/src/state/SessionsContext.tsx *)
(* with utils/chatGraph.ts and packages/message-sdk/src/openclaw-chat.ts)  *)
(* and a desktop (pair_backend/chat.rs): messages that name the messages   *)
(* they follow, their delivery, and the exchange of states by which each   *)
(* end learns what the other lacks.                                        *)
(*                                                                         *)
(* A message never changes: `made' holds it, an end holds its id.  An id   *)
(* is a number, and their order is that of (ts, id), whatever the order in *)
(* which the messages were written: the two clocks differ.                 *)
(*                                                                         *)
(* The session of the mobile also lists an info message                    *)
(* (buildInfoMessage), which is dated but is not of the graph; the desktop *)
(* has none.                                                               *)
(***************************************************************************)
EXTENDS Naturals, Sequences, FiniteSets, SequencesExt

CONSTANTS MaxMessages,  \* ids of messages
          Scenarios     \* [limit, messages, info, faults, resets]:
                        \* MAX_SESSION_MESSAGES of both ends, messages written,
                        \* those dated before the info message, faults of the
                        \* transport, restarts and refreshes

ASSUME ChatAssumption ==
  /\ MaxMessages \in Nat \ {0}
  /\ Scenarios \subseteq [limit : Nat \ {0}, messages : Nat, info : Nat,
                          faults : Nat, resets : Nat]

VARIABLES made,       \* id -> the message, or its origin is "none"
          mine,       \* ids the session of the mobile holds
          noted,      \* the session still lists the info message
          status,     \* deliveryStatus of the mobile's own messages
          tasks,      \* deliveries in progress at the mobile
          host,       \* ids of the desktop's channel
          saying,     \* messages the desktop is sending and has not appended
          unacked,    \* messages of the desktop waiting for the mobile's ack
          forwarded,  \* how often the desktop gave a message to the agent
          toHost, toMobile,   \* on their way
          snapshot,   \* the session a refresh started from
          disk,       \* the session as it was last saved
          excused,    \* messages whose task or status was lost
          left, limit

vars == <<made, mine, noted, status, tasks, host, saying, unacked, forwarded,
          toHost, toMobile, snapshot, disk, excused, left, limit>>

Ids == 1..MaxMessages
Absent == [origin |-> "none", seq |-> 0, after |-> {}]
Info == 0
Own(S, origin) == {id \in S : made[id].origin = origin}

---------------------------------------------------------------------------
\* The graph of messages

Parents(id, S) == made[id].after \cap S
Least(S) == CHOOSE x \in S : \A y \in S : x <= y

\* Faulty: the order of the clocks.
PickByClock(S, placed) == Least(S \ placed)

\* Of the messages whose known parents are placed, the least; those left in
\* a cycle, which no end writes, come last.
Pick(S, placed) ==
  LET ready == {id \in S \ placed : Parents(id, S) \subseteq placed}
  IN  IF ready # {} THEN Least(ready) ELSE Least(S \ placed)

Order(S) ==
  LET f[n \in 0..MaxMessages] ==
        IF n = 0 THEN <<>> ELSE LET q == f[n - 1] IN Append(q, Pick(S, ToSet(q)))
  IN  f[Cardinality(S)]

LeafIds(S) == {id \in S : \A x \in S : id \notin made[x].after}
MissingIds(S) == UNION {made[id].after : id \in S} \ S
NewlyMissing(old, new) == MissingIds(new) \ MissingIds(old)

\* The end of the run 1, 2, .. of an origin's sequence numbers
Contiguous(S, origin) ==
  LET seqs == {made[id].seq : id \in Own(S, origin)}
  IN  CHOOSE n \in 0..MaxMessages : 1..n \subseteq seqs /\ n + 1 \notin seqs

NextOriginSeq(S, origin) ==
  LET seqs == {made[id].seq : id \in Own(S, origin)}
  IN  1 + (IF seqs = {} THEN 0 ELSE CHOOSE n \in seqs : \A k \in seqs : k <= n)

\* The info message is compared by date, the others by the graph.  Where a
\* message dated after the info precedes one dated before it, the comparison
\* is not an order, and the sort may leave any list.
Straddled(S) ==
  LET q == Order(S)
  IN  \E i, j \in 1..Len(q) : i < j /\ q[j] <= limit.info /\ limit.info < q[i]

\* The lists the mobile may show
Listings(S) ==
  CASE ~noted -> {Order(S)}
    [] noted /\ Straddled(S) -> SetToSeqs(S \cup {Info})
    [] OTHER -> {InsertAt(Order(S), 1 + Cardinality({id \in S : id <= limit.info}), Info)}

Ending(q, n) == IF Len(q) <= n THEN q ELSE SubSeq(q, Len(q) - n + 1, Len(q))

ListLength(S) == Cardinality(S) + (IF noted THEN 1 ELSE 0)

\* What is left of the session: the last n of those shown
Cut(S, n) ==
  IF ListLength(S) <= n THEN {[mine |-> S, noted |-> noted]}
  ELSE {[mine |-> ToSet(Ending(q, n)) \ {Info}, noted |-> Info \in ToSet(Ending(q, n))] : q \in Listings(S)}

\* upsertSessionMessage, then the last MAX_SESSION_MESSAGES
Upsert(S, id) == Cut(S \cup {id}, limit.kept)

\* ... of a message that follows every other, and is dated after the info
UpsertLast(S, id) ==
  IF noted /\ Straddled(S) THEN Upsert(S, id)
  ELSE {[c EXCEPT !.mine = @ \cup {id}] : c \in Cut(S, limit.kept - 1)}

\* reconcile_channel_messages_locked: the last of the desktop's list
Newest(S, n) == ToSet(Ending(Order(S), n))

\* append_channel_message drops the oldest shown before it orders anew
Appended(S, id) == IF id \in S THEN S ELSE Newest(S, limit.kept - 1) \cup {id}

---------------------------------------------------------------------------
Init ==
  /\ made = [id \in Ids |-> Absent]
  /\ mine = {} /\ noted = TRUE /\ host = {} /\ saying = {} /\ unacked = {} /\ toHost = {} /\ toMobile = {}
  /\ status = [id \in Ids |-> "none"] /\ tasks = [id \in Ids |-> "none"]
  /\ forwarded = [id \in Ids |-> 0] /\ excused = {}
  /\ disk = [mine |-> {}, noted |-> TRUE, status |-> [id \in Ids |-> "none"]]
  /\ snapshot = [open |-> FALSE, session |-> disk]
  /\ \E s \in Scenarios :
        /\ left = [faults |-> s.faults, resets |-> s.resets]
        /\ limit = [messages |-> s.messages, kept |-> s.limit, info |-> s.info]

Session == [mine |-> mine, noted |-> noted, status |-> status]
Spend(f) == left[f] > 0 /\ left' = [left EXCEPT ![f] = @ - 1]
Chat(id) == [type |-> "message", id |-> id]
Chats(S) == {Chat(id) : id \in S}
SyncRequest(S) == IF S = {} THEN {} ELSE {[type |-> "sync-request", ids |-> S]}
SyncState(S) == [type |-> "sync-state", hostSeq |-> Contiguous(S, "host"),
                 mobileSeq |-> Contiguous(S, "mobile")]
Above(S, origin, seq) == {id \in Own(S, origin) : made[id].seq > seq}
Write(id, origin, S) ==
  /\ made[id] = Absent /\ id <= limit.messages
  /\ made' = [made EXCEPT ![id] = [origin |-> origin, seq |-> NextOriginSeq(S, origin),
                                   after |-> LeafIds(S)]]

---------------------------------------------------------------------------
\* The mobile writes

\* sendMessage: the message is stored as "sending" before anything is sent;
\* the clock of the phone is not set back behind the info message
SendMessage(id) ==
  /\ Write(id, "mobile", mine) /\ id > limit.info
  /\ \E c \in UpsertLast(mine, id) : mine' = c.mine /\ noted' = c.noted
  /\ status' = [status EXCEPT ![id] = "sending"]
  /\ tasks' = [tasks EXCEPT ![id] = "deliver"]
  /\ UNCHANGED <<host, saying, unacked, forwarded, toHost, toMobile, snapshot, disk,
                 excused, left, limit>>

\* retryMessage, of a message that failed
RetryMessage(id) ==
  /\ id \in mine /\ status[id] = "failed" /\ tasks[id] = "none"
  /\ status' = [status EXCEPT ![id] = "sending"]
  /\ tasks' = [tasks EXCEPT ![id] = "deliver"]
  /\ UNCHANGED <<made, mine, noted, host, saying, unacked, forwarded, toHost, toMobile, snapshot, disk, excused, left, limit>>

\* deliverAppMessage: the message is handed to the channel or the relay
Deliver(id) ==
  /\ tasks[id] = "deliver"
  /\ tasks' = [tasks EXCEPT ![id] = "settle"]
  /\ toHost' = toHost \cup {Chat(id)}
  /\ UNCHANGED <<made, mine, noted, status, host, saying, unacked, forwarded, toMobile, snapshot, disk, excused, left, limit>>

\* deliverLocalChatMessage ends well, or at any point throws
Settled(id, result) ==
  /\ tasks' = [tasks EXCEPT ![id] = "none"]
  /\ status' = IF id \in mine THEN [status EXCEPT ![id] = result] ELSE status
  /\ UNCHANGED <<made, mine, noted, host, saying, unacked, forwarded, toHost, toMobile, snapshot, disk, excused, limit>>
Settle(id) == tasks[id] = "settle" /\ Settled(id, "sent") /\ UNCHANGED left

\* Faulty: a failure is reported to the caller only.
FailQuietly(id) == /\ tasks[id] # "none" /\ Spend("faults")
                   /\ tasks' = [tasks EXCEPT ![id] = "none"]
                   /\ UNCHANGED <<made, mine, noted, status, host, saying, unacked, forwarded, toHost, toMobile,
                                  snapshot, disk, excused, limit>>
Fail(id) == tasks[id] # "none" /\ Spend("faults") /\ Settled(id, "failed")

\* requestMessageStateSync, at every start and every minute; the interval
\* it keeps outlasts the exchange of one state
Syncing == \E w \in toHost \cup toMobile : w.type = "sync-state"
SyncWithDesktop ==
  /\ ~Syncing
  /\ toHost' = toHost \cup {SyncState(mine)}
  /\ UNCHANGED <<made, mine, noted, status, tasks, host, saying, unacked, forwarded, toMobile, snapshot, disk,
                 excused, left, limit>>

---------------------------------------------------------------------------
\* The mobile receives

Acknowledged(id) == unacked \ {id}

\* upsertRemoteChatMessage, the request for parents it lacks and the ack,
\* which arrives at once: to be late or lost is to be repeated
MobileChat(w) ==
  /\ \E c \in Upsert(mine, w.id) : mine' = c.mine /\ noted' = c.noted
  /\ unacked' = Acknowledged(w.id)
  /\ toHost' = toHost \cup SyncRequest(NewlyMissing(mine, mine \cup {w.id}))

\* resendKnownMessages
MobileRequest(w) ==
  /\ toHost' = toHost \cup Chats(Own(mine, "mobile") \cap w.ids) /\ UNCHANGED <<mine, noted, unacked>>

\* Faulty: what the desktop holds is taken from its highest number alone.
StateUnheard(w) == UNCHANGED <<mine, noted, unacked, toHost>>

\* handleDesktopSyncState: all above the run the desktop holds
MobileState(w) ==
  /\ toHost' = toHost \cup Chats(Above(mine, "mobile", w.mobileSeq))
                \cup (IF w.hostSeq > Contiguous(mine, "host") THEN {SyncState(mine)} ELSE {})
  /\ UNCHANGED <<mine, noted, unacked>>

Dispatched(w) ==
  CASE w.type = "message" -> MobileChat(w)
    [] w.type = "sync-request" -> MobileRequest(w)
    [] w.type = "sync-state" -> MobileState(w)

\* A message arrives, on either transport; some arrive twice.
MobileReceives(w) ==
  /\ w \in toMobile
  /\ \/ toMobile' = toMobile \ {w} /\ UNCHANGED left
     \/ UNCHANGED toMobile /\ Spend("faults")
  /\ Dispatched(w)
  /\ UNCHANGED <<made, status, tasks, host, saying, forwarded, snapshot, disk, excused, limit>>

---------------------------------------------------------------------------
\* The desktop (chat.rs)

\* send_chat_to_peer and mirror_openclaw_reply_to_mobile: the message gets its
\* number and what it follows from the list, and is sent; ...
HostSay(id) ==
  /\ Write(id, "host", host)
  /\ saying' = saying \cup {id} /\ unacked' = unacked \cup {id}
  /\ toMobile' = toMobile \cup {Chat(id)}
  /\ UNCHANGED <<mine, noted, status, tasks, host, forwarded, toHost, snapshot, disk,
                 excused, left, limit>>

\* ... once it is sent, it is appended to the list ...
HostSaid(id) ==
  /\ id \in saying /\ saying' = saying \ {id}
  /\ host' = Appended(host, id)
  /\ UNCHANGED <<made, mine, noted, status, tasks, unacked, forwarded, toHost, toMobile,
                 snapshot, disk, excused, left, limit>>

\* ... or the sending fails, and it is not; it may have arrived
HostSayFails(id) ==
  /\ id \in saying /\ saying' = saying \ {id} /\ Spend("faults")
  /\ unacked' = unacked \ {id}
  /\ toMobile' \in {toMobile, toMobile \ {Chat(id)}}
  /\ UNCHANGED <<made, mine, noted, status, tasks, host, forwarded, toHost, snapshot, disk,
                 excused, limit>>

\* notify_openclaw_error_to_mobile appends first
HostReports(id) ==
  /\ Write(id, "host", host)
  /\ host' = Appended(host, id) /\ unacked' = unacked \cup {id}
  /\ toMobile' = toMobile \cup {Chat(id)}
  /\ UNCHANGED <<mine, noted, status, tasks, saying, forwarded, toHost, snapshot, disk,
                 excused, left, limit>>

\* the retry of a message the mobile did not acknowledge
HostRetry(id) ==
  /\ id \in unacked \ saying /\ Spend("faults")
  /\ toMobile' = toMobile \cup {Chat(id)}
  /\ UNCHANGED <<made, mine, noted, status, tasks, host, saying, unacked, forwarded, toHost, snapshot, disk, excused, limit>>

\* Faulty: a message already held is given to the agent again.
ForwardsAll(w) == [forwarded EXCEPT ![w.id] = IF @ < 2 THEN @ + 1 ELSE @]
Forwards(w) ==
  IF w.id \in host THEN forwarded
  ELSE [forwarded EXCEPT ![w.id] = IF @ < 2 THEN @ + 1 ELSE @]

HostChat(w) ==
  LET next == Appended(host, w.id)
  IN  /\ host' = next /\ forwarded' = Forwards(w)
      /\ toMobile' = toMobile \cup SyncRequest(NewlyMissing(host, next))

HostRequest(w) ==
  /\ toMobile' = toMobile \cup Chats(Own(host, "host") \cap w.ids)
  /\ UNCHANGED <<host, forwarded>>

HostState(w) ==
  /\ toMobile' = toMobile \cup Chats(Above(host, "host", w.hostSeq))
                   \cup (IF w.mobileSeq > Contiguous(host, "mobile") THEN {SyncState(host)} ELSE {})
  /\ UNCHANGED <<host, forwarded>>

HostReceives(w) ==
  /\ w \in toHost
  /\ \/ toHost' = toHost \ {w} /\ UNCHANGED left
     \/ UNCHANGED toHost /\ Spend("faults")
  /\ CASE w.type = "message" -> HostChat(w)
       [] w.type = "sync-request" -> HostRequest(w)
       [] w.type = "sync-state" -> HostState(w)
  /\ UNCHANGED <<made, mine, noted, status, tasks, saying, unacked, snapshot, disk, excused, limit>>

\* The channel closes on a message, the relay drops one.
Lose(w) ==
  /\ w \in toHost \cup toMobile /\ Spend("faults")
  /\ toHost' = toHost \ {w} /\ toMobile' = toMobile \ {w}
  /\ UNCHANGED <<made, mine, noted, status, tasks, host, saying, unacked, forwarded, snapshot, disk, excused, limit>>

---------------------------------------------------------------------------
\* saveStoredSessions, which nothing awaits
SessionSaved ==
  /\ left.resets > 0 /\ disk' = Session
  /\ UNCHANGED <<made, mine, noted, status, tasks, host, saying, unacked, forwarded,
                 toHost, toMobile, snapshot, excused, left, limit>>

\* The app is stopped and started with what was saved.
Restart ==
  /\ Spend("resets")
  /\ mine' = disk.mine /\ noted' = disk.noted /\ status' = disk.status
  /\ tasks' = [id \in Ids |-> "none"]
  /\ excused' = excused \cup {id \in Ids : disk.status[id] = "sending"}
  /\ snapshot' = [snapshot EXCEPT !.open = FALSE]
  /\ UNCHANGED <<made, host, saying, unacked, forwarded, toHost, toMobile, disk, limit>>

\* refreshSessions reads the sessions, awaits the server, ...
RefreshBegins ==
  /\ ~snapshot.open /\ Spend("resets")
  /\ snapshot' = [open |-> TRUE, session |-> Session]
  /\ UNCHANGED <<made, mine, noted, status, tasks, host, saying, unacked, forwarded,
                 toHost, toMobile, disk, excused, limit>>

\* Faulty: the refreshed session replaces the latest.
TakeRefreshed(old, new) == new
\* ... and mergeRefreshedSessions joins both lists: a message of both is as
\* it was at the start of the refresh
MergedIds(old, new) == old \cup new
RefreshEnds ==
  LET old == snapshot.session
  IN  /\ snapshot.open
      /\ mine' = MergedIds(mine, old.mine) /\ noted' = (noted \/ old.noted)
      /\ status' = [id \in Ids |-> IF id \in old.mine THEN old.status[id] ELSE status[id]]
      /\ excused' = excused \cup {id \in old.mine : id \notin mine \/ old.status[id] # status[id]}
      /\ snapshot' = [snapshot EXCEPT !.open = FALSE]
      /\ UNCHANGED <<made, tasks, host, saying, unacked, forwarded, toHost, toMobile, disk,
                     left, limit>>

---------------------------------------------------------------------------
Writing == \E id \in Ids : \/ SendMessage(id) \/ RetryMessage(id) \/ Deliver(id)
                           \/ Settle(id) \/ Fail(id) \/ HostSay(id) \/ HostSaid(id)
                           \/ HostSayFails(id) \/ HostReports(id) \/ HostRetry(id)
Receiving == \/ \E w \in toMobile : MobileReceives(w)
             \/ \E w \in toHost : HostReceives(w)
             \/ \E w \in toHost \cup toMobile : Lose(w)
Next == Writing \/ SyncWithDesktop \/ Receiving \/ SessionSaved \/ Restart \/ RefreshBegins \/ RefreshEnds

Spec == Init /\ [][Next]_vars

\* The minute timer fires; of what stays on its way, a message the other end
\* lacks arrives, and so does a state.
FairSpec ==
  /\ Spec /\ WF_vars(SyncWithDesktop)
  /\ WF_vars(\E w \in toHost : w.type = "message" /\ HostReceives(w) /\ w.id \notin host)
  /\ WF_vars(\E w \in toHost : w.type = "sync-state" /\ HostReceives(w) /\ w \notin toHost')
  /\ WF_vars(\E w \in toMobile : w.type = "message" /\ MobileReceives(w) /\ w.id \notin mine)
  /\ WF_vars(\E w \in toMobile : w.type = "sync-state" /\ MobileReceives(w) /\ left' = left)

---------------------------------------------------------------------------
\* handleIncomingAppMessage (chat.rs:893): retries of the mobile, resends of
\* either sync and repeated deliveries reach the agent once, until the channel
\* has more messages than it keeps.
Written == {id \in Ids : made[id] # Absent}
Trimmed == Cardinality(Written) > limit.kept
AgentOnce == \A id \in Ids : forwarded[id] <= 1 \/ Trimmed

\* analyzeOpenClawPairChatGraph (openclaw-chat.ts:101), reconcileSessionMessages
\* (chatGraph.ts:143): whatever the clocks and the order of arrival, both ends
\* show a message after those it follows.  Only a reply dated before the info
\* message, to a message dated after it, may upset the list of the mobile.
InPlace(q) == \A i, j \in 1..Len(q) : q[i] # Info /\ q[j] \in made[q[i]].after => j < i
Backdated == noted /\ \E x \in mine : \E y \in Parents(x, mine) : x <= limit.info /\ limit.info < y
ParentsFirst ==
  /\ InPlace(Order(host))
  /\ Backdated \/ \A q \in Listings(mine) : InPlace(q)

\* sendMessage (SessionsContext.tsx:1966): a message shown as being sent is,
\* unless a restart dropped its delivery or a refresh restored its status.
SendingIsSent ==
  \A id \in mine : status[id] = "sending" => tasks[id] # "none" \/ id \in excused

\* mergeRefreshedSessions (SessionsContext.tsx:143): no refresh, late message
\* or failure takes a message out of a session that is not full; a restart
\* takes only what was not saved.
NothingForgotten ==
  [][ListLength(mine) < limit.kept => mine \subseteq mine' \/ (Restart /\ disk.mine \subseteq mine')]_mine

\* requestMessageStateSync and handleDesktopSyncState
\* (SessionsContext.tsx:1009, 1224): once nothing more is lost, each message
\* its writer holds, under a number it gave no other, is at both ends, also
\* one whose delivery failed.
HeldByWriter(id) == id \in Own(mine, "mobile") \cup Own(host, "host")
NumberedOnce(id) == \A x \in Own(Ids, made[id].origin) \ {id} : made[x].seq # made[id].seq
Converges ==
  <>[](\/ Cardinality(Written) >= limit.kept
       \/ \A id \in Ids : HeldByWriter(id) /\ NumberedOnce(id) => id \in mine \cap host)
=============================================================================
