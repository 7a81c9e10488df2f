------------------------------ MODULE DesktopLink ------------------------------
(***************************************************************************)
(* The desktop's link to the pairing server (pair_backend/signal.rs): every *)
(* connect opens a generation with a signal stream and a heartbeat; a       *)
(* failure of any of them arms a reconnect timer.  Tasks run concurrently   *)
(* and share the state only under short locks, so every section between two *)
(* awaits is an action.                                                     *)
(*                                                                         *)
(* A task is a record.  "at" is the await it has reached; aborting it takes *)
(* it out of the set.  Backoff, the cached bearer session and the status of *)
(* single channels are left out: a request succeeds when the server can be  *)
(* reached.                                                                 *)
(***************************************************************************)
EXTENDS Naturals, FiniteSets

CONSTANTS Faults,     \* "outage", "error" and "clean" ends (of the body) of a stream
          MaxOpens,   \* bound on the user's open commands
          MaxCloses,  \* bound on the user's close commands
          MaxGen,     \* generations told apart at a time; numbers are used again
          MaxLinkFaults   \* bound on outages and on streams that end by themselves

ASSUME LinkAssumption ==
    /\ Faults \subseteq {"outage", "error", "clean"}
    /\ {MaxOpens, MaxCloses, MaxGen, MaxLinkFaults} \subseteq Nat

VARIABLES open, desired,   \* channel_open, desired_connected
          generation,      \* connect_generation
          link,            \* connection_state
          sseTask, heartbeatTask,   \* generation of the handle kept, or 0
          timer,           \* the reconnect timer whose handle is kept, or {}
          tasks,
          reachable, opens, closes, linkFaults

state == <<open, desired, generation, link, sseTask, heartbeatTask, timer>>
bounds == <<opens, closes, linkFaults>>
linkVars == <<state, tasks, reachable, bounds>>

\* A connect is named by the command or by the timer it comes from.
Timers == [kind : {"timer"}, gen : 1..MaxGen, by : {"stream", "beat", "connect"}]

LinkInit ==
    /\ open = FALSE /\ desired = FALSE
    /\ generation = 0
    /\ link = "disconnected"
    /\ sseTask = 0 /\ heartbeatTask = 0
    /\ timer = {}
    /\ tasks = {}
    /\ reachable = TRUE
    /\ opens = 0 /\ closes = 0 /\ linkFaults = 0

Stream(g, at) == [kind |-> "stream", gen |-> g, at |-> at]
Beat(g, at) == [kind |-> "beat", gen |-> g, at |-> at]
Connect(name, g, at) == [kind |-> "connect", name |-> name, gen |-> g, at |-> at]
Reconnecting(c) == c.name \in Timers

\* The stream and the heartbeat whose handles the state keeps.
Kept == {t \in tasks : \/ t.kind = "stream" /\ t.gen = sseTask
                       \/ t.kind = "beat" /\ t.gen = heartbeatTask}

Moved(t, at) == (tasks \ {t}) \cup {[t EXCEPT !.at = at]}
Ended(t) == tasks \ {t}

Current(g) == generation = g
\* Faulty: a superseded task takes itself for the current one.
ActiveIfOpen(g) == open

Active(g) == Current(g) /\ open

\* Generations are only compared for equality: a number nothing refers to is new.
Used == {generation, sseTask, heartbeatTask}
        \cup {t.gen : t \in tasks \cup timer}
        \cup {c.name.gen : c \in {t \in tasks : t.kind = "connect" /\ Reconnecting(t)}}
Unused == 1..MaxGen \ Used

-----------------------------------------------------------------------------
(* The user's commands.                                                    *)

\* pair_backend_toggle_channel(true), reload_from_app_config.
UserOpen ==
    /\ opens < MaxOpens
    /\ opens' = opens + 1
    /\ open' = TRUE /\ desired' = TRUE
    /\ tasks' = tasks \cup {Connect([command |-> opens + 1], 0, "cancel")}
    /\ UNCHANGED <<generation, link, sseTask, heartbeatTask, timer, reachable, closes, linkFaults>>

\* disconnect
UserClose ==
    /\ closes < MaxCloses
    /\ closes' = closes + 1
    /\ open' = FALSE /\ desired' = FALSE
    /\ link' = "disconnected"
    /\ sseTask' = 0 /\ heartbeatTask' = 0 /\ timer' = {}
    /\ tasks' = (tasks \ Kept) \ timer
    /\ UNCHANGED <<generation, reachable, opens, linkFaults>>

-----------------------------------------------------------------------------
(* connect                                                                 *)

\* cancel_reconnect_task, for a command of the user.
CancelTimer(c) ==
    /\ c.at = "cancel"
    /\ tasks' = Moved(c, "check") \ timer
    /\ timer' = {}
    /\ UNCHANGED <<open, desired, generation, link, sseTask, heartbeatTask, reachable, bounds>>

Check(c) ==
    /\ c.at = "check"
    /\ LET wanted == IF Reconnecting(c) THEN desired ELSE open
       IN tasks' = IF wanted THEN Moved(c, "begin") ELSE Ended(c)
    /\ UNCHANGED <<state, reachable, bounds>>

\* The link is wanted and open from here on, whatever happened since the check.
Begin(c) ==
    /\ c.at = "begin"
    /\ Unused # {}
    /\ generation' = CHOOSE g \in Unused : TRUE
    /\ tasks' = (Ended(c) \ Kept) \cup {Connect(c.name, generation', "announce")}
    /\ sseTask' = 0 /\ heartbeatTask' = 0
    /\ link' = IF Reconnecting(c) THEN "reconnecting" ELSE "connecting"
    /\ open' = TRUE /\ desired' = TRUE
    /\ UNCHANGED <<timer, reachable, bounds>>

\* announce_presence answers; the stream and the heartbeat are spawned.
Announce(c) ==
    /\ c.at = "announce"
    /\ tasks' = IF reachable
                THEN Moved(c, "install") \cup {Stream(c.gen, "dialing"), Beat(c.gen, "waiting")}
                ELSE Moved(c, "failed")
    /\ UNCHANGED <<state, reachable, bounds>>

\* Faulty: the handles are kept whatever the generation.
InstallAnyway(c) ==
    /\ c.at = "install"
    /\ sseTask' = c.gen /\ heartbeatTask' = c.gen /\ tasks' = Ended(c)
    /\ UNCHANGED <<open, desired, generation, link, timer, reachable, bounds>>

\* The handles are kept, or the tasks aborted if a newer connect has begun.
Install(c) ==
    /\ c.at = "install"
    /\ \/ /\ Current(c.gen)
          /\ sseTask' = c.gen /\ heartbeatTask' = c.gen
          /\ tasks' = Ended(c)
       \/ /\ ~ Current(c.gen)
          /\ tasks' = {t \in Ended(c) : t.kind \in {"stream", "beat"} => t.gen # c.gen}
          /\ UNCHANGED <<sseTask, heartbeatTask>>
    /\ UNCHANGED <<open, desired, generation, link, timer, reachable, bounds>>

-----------------------------------------------------------------------------
(* run_signal_stream and the heartbeat.                                    *)

DialStream(s) ==
    /\ s.at = "dialing"
    /\ \/ /\ ~ reachable
          /\ tasks' = Moved(s, "failed") /\ link' = link
       \/ /\ reachable /\ Active(s.gen)
          /\ tasks' = Moved(s, "reading") /\ link' = "connected"
       \/ /\ reachable /\ ~ Active(s.gen)
          /\ tasks' = Ended(s) /\ link' = link
    /\ UNCHANGED <<open, desired, generation, sseTask, heartbeatTask, timer, reachable, bounds>>

\* A stream that ends with its body returns Ok, and nothing follows.
StreamEnds(s) ==
    /\ s.at = "reading"
    /\ \/ /\ ~ reachable
          /\ tasks' = Moved(s, "failed") /\ linkFaults' = linkFaults
       \/ /\ reachable /\ linkFaults < MaxLinkFaults
          /\ linkFaults' = linkFaults + 1
          /\ \/ "error" \in Faults /\ tasks' = Moved(s, "failed")
             \/ "clean" \in Faults /\ tasks' = Moved(s, "ended")
    /\ UNCHANGED <<state, reachable, opens, closes>>

\* Faulty: a heartbeat of a closed link goes on.
BeatDueAnyway(b) ==
    /\ b.at = "waiting"
    /\ tasks' = IF Current(b.gen) THEN Moved(b, "sending") ELSE Ended(b)
    /\ UNCHANGED <<state, reachable, bounds>>

BeatDue(b) ==
    /\ b.at = "waiting"
    /\ tasks' = IF Active(b.gen) /\ desired THEN Moved(b, "sending") ELSE Ended(b)
    /\ UNCHANGED <<state, reachable, bounds>>

\* heartbeat_once
SendBeat(b) ==
    /\ b.at = "sending"
    /\ tasks' = Moved(b, IF reachable THEN "waiting" ELSE "failed")
    /\ UNCHANGED <<state, reachable, bounds>>

-----------------------------------------------------------------------------
(* handle_stream_failure and schedule_reconnect, in the task that failed.   *)


HandleFailure(t) ==
    /\ t.at = "failed"
    /\ \/ /\ ~ Current(t.gen)
          /\ tasks' = Ended(t) /\ link' = link
       \/ /\ Current(t.gen)
          /\ tasks' = IF desired /\ open THEN Moved(t, "cancelling") ELSE Ended(t)
          /\ link' = "disconnected"
    /\ UNCHANGED <<open, desired, generation, sseTask, heartbeatTask, timer, reachable, bounds>>

\* cancel_reconnect_task: whichever timer the state keeps.
CancelOther(t) ==
    /\ t.at = "cancelling"
    /\ tasks' = Moved(t, "arming") \ timer
    /\ timer' = {}
    /\ UNCHANGED <<open, desired, generation, link, sseTask, heartbeatTask, reachable, bounds>>

TimerOf(t) == [kind |-> "timer", gen |-> t.gen, by |-> t.kind]

\* A timer the state kept until now is neither kept nor aborted.
Arm(t) ==
    /\ t.at = "arming"
    /\ tasks' = Ended(t) \cup {TimerOf(t)}
    /\ timer' = {TimerOf(t)}
    /\ UNCHANGED <<open, desired, generation, link, sseTask, heartbeatTask, reachable, bounds>>

\* The timer is due: spawn_connect_task, if its generation is still current.
Fire(r) ==
    /\ r.kind = "timer"
    /\ tasks' = IF Active(r.gen) /\ desired THEN Ended(r) \cup {Connect(r, 0, "check")}
                                            ELSE Ended(r)
    /\ UNCHANGED <<state, reachable, bounds>>

-----------------------------------------------------------------------------
(* The network.                                                            *)

Outage ==
    /\ "outage" \in Faults
    /\ reachable /\ linkFaults < MaxLinkFaults
    /\ reachable' = FALSE
    /\ linkFaults' = linkFaults + 1
    /\ UNCHANGED <<state, tasks, opens, closes>>

Recover ==
    /\ ~ reachable
    /\ reachable' = TRUE
    /\ UNCHANGED <<state, tasks, bounds>>

Step(t) ==
    \/ /\ t.kind = "connect"
       /\ CancelTimer(t) \/ Check(t) \/ Begin(t) \/ Announce(t) \/ Install(t)
    \/ t.kind = "stream" /\ DialStream(t)
    \/ t.kind = "beat" /\ (BeatDue(t) \/ SendBeat(t))
    \/ t.kind # "timer" /\ (HandleFailure(t) \/ CancelOther(t) \/ Arm(t))
    \/ Fire(t)

\* A stream fails at once while the server cannot be reached.
Broken(s) == s.kind = "stream" /\ ~ reachable /\ StreamEnds(s)

LinkNext ==
    \/ UserOpen \/ UserClose
    \/ \E t \in tasks : Step(t) \/ (t.kind = "stream" /\ StreamEnds(t))
    \/ Outage \/ Recover

LinkSpec == LinkInit /\ [][LinkNext]_linkVars

\* Every kind of task is scheduled, a broken stream is noticed, and an outage
\* ends.
Scheduled(kind) == \E t \in tasks : t.kind = kind /\ Step(t)

LinkFairness ==
    /\ \A kind \in {"connect", "stream", "beat", "timer"} : WF_linkVars(Scheduled(kind))
    /\ WF_linkVars(\E t \in tasks : Broken(t))
    /\ WF_linkVars(Recover)

LiveSpec == LinkSpec /\ LinkFairness

-----------------------------------------------------------------------------
(* Properties.                                                             *)

\* Every stream and heartbeat can still be aborted: the state keeps its handle
\* or the connect that spawned it is about to store or abort it.  Whatever
\* connects overlap, a superseded connect leaves nothing running
\* (signal.rs:246, the generation check before the handles are stored).
TasksOwned ==
    \A t \in tasks :
       t.kind \in {"stream", "beat"} =>
          \/ t \in Kept
          \/ \E c \in tasks : c.kind = "connect" /\ c.at = "install" /\ c.gen = t.gen

\* The window never shows a connected link without a stream of the current
\* generation that is read, whose failure is about to be handled, or whose body
\* ended without an error (which nothing notices): neither a late stream of an
\* older generation nor one of a closed link sets the state (signal.rs:298).
ConnectedMeansStream ==
    link = "connected" =>
       open /\ \E at \in {"reading", "failed", "ended"} : Stream(generation, at) \in tasks

\* After a close that nothing reopens, no connect, heartbeat or timer goes on,
\* whichever were in flight (the checks of channel_open before each of them
\* acts).  A stream may: a close between the opening of a stream and the
\* storing of its handle (signal.rs:243) finds nothing to abort.
ClosedQuiet == ~ open ~> (open \/ \A t \in tasks : t.kind = "stream")

\* The stream of the current generation is read again and again.
Reads == []<>(Stream(generation, "reading") \in tasks)


\* README-remote-architecture.md:64: a client that is cut off reconnects by
\* itself and retries with backoff.  VIOLATED: a stream whose body ends returns
\* Ok, which schedules nothing (signal.rs:327); and in an outage that several
\* tasks notice, a superseded failure, past its check, cancels the timer of the
\* current generation (signal.rs:379).
Retries == <>[]open => Reads
=============================================================================
