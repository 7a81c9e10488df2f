------------------------------ MODULE PairPanel ------------------------------
(***************************************************************************)
(* The pairing panel of the desktop shell (pair-backend-controller.ts and  *)
(* pair-ui.ts), composed with the setup form: both save the same           *)
(* configuration, each from its own copy.  The panel shows snapshots of    *)
(* the Rust pair backend, which come two ways that are not ordered with    *)
(* one another: as events, and as the answers of the panel's own commands. *)
(*                                                                         *)
(* The backend is external: its channels, the mobiles' connections and the *)
(* server it was last configured with.  QR codes, buttons' looks and the   *)
(* event log are left out.                                                 *)
(***************************************************************************)
EXTENDS SetupForm, Sequences

CONSTANT Chans

VARIABLES
  be,         \* the backend: its server, its channels and a version
  events,     \* snapshots emitted and not yet heard
  listening,  \* the event listener is registered
  panel,      \* the channels shown, the snapshot's version and its server
  chat,       \* the open conversation, its dialog and its draft
  saving,     \* pairConfigSaving
  behind      \* what excuses the panel: a snapshot missed, or overtaken

panelVars == <<be, events, listening, panel, chat, saving, behind>>
deskVars == <<setupVars, panelVars>>

ASSUME PanelAssumption ==
  /\ Blank \notin Chans
  /\ \A s \in Scenarios : s.settled \in BOOLEAN

Absent == [status |-> "none", peer |-> FALSE]
NoChat == [active |-> Blank, open |-> FALSE, draft |-> Blank]

\* A backend channel; `peer' is a connected peer.
ChannelStates == {Absent} \cup [status : {"pending", "active"}, peer : BOOLEAN]

\* The backend changes and emits what it now is.
Emits(new) ==
  LET snapshot == [new EXCEPT !.version = be.version + 1] IN
  /\ be' = snapshot
  /\ events' = IF listening THEN Append(events, snapshot) ELSE events
  /\ behind' = (behind \/ ~listening)

Listed(p, ch) == p.channels[ch].status # "none"

\* upsertPairChannel: a channel first seen keeps only some of its fields; its
\* peer's state is shown from the next snapshot on.
upsertPairChannel(old, new) ==
  IF old.status = "none" THEN [status |-> new.status, peer |-> FALSE] ELSE new

\* Faulty: channels the backend no longer has stay listed.
KeepsRemoved(snapshot) ==
  [ch \in Chans |-> IF snapshot.channels[ch] = Absent THEN panel.channels[ch]
                    ELSE upsertPairChannel(panel.channels[ch], snapshot.channels[ch])]

\* removePairChannelLocal: a conversation ends with its channel.
removePairChannelLocal(c, channels) ==
  IF c.active # Blank /\ channels[c.active] = Absent THEN NoChat ELSE c

\* The channels listed after a snapshot: those it has, and no other.
Relisted(snapshot) ==
  [ch \in Chans |-> IF snapshot.channels[ch] = Absent THEN Absent
                    ELSE upsertPairChannel(panel.channels[ch], snapshot.channels[ch])]

\* applyBackendSnapshot, on a conversation c
applyBackendSnapshot(snapshot, c, preserveDraft) ==
  /\ panel' = [channels |-> Relisted(snapshot), version |-> snapshot.version,
               open |-> snapshot.open /\ snapshot.server # Blank]
  /\ chat' = removePairChannelLocal(c, Relisted(snapshot))
  /\ pairUrl' = snapshot.server
  /\ draftUrl' = IF preserveDraft THEN draftUrl
                 ELSE IF snapshot.server = Blank THEN Default ELSE snapshot.server

\* What was missed, or overtaken by an event, is made up for by the newest.
Catches(snapshot) ==
  behind' = (snapshot.version < be.version /\ (behind \/ snapshot.version < panel.version))

------------------------------------------------------------------------------
\* initPairCenter: the listener is registered, and the state asked for,
\* without one waiting for the other.

ListenReturns ==
  /\ ~listening
  /\ listening' = TRUE
  /\ UNCHANGED <<setupVars, be, events, panel, chat, saving, behind>>

EventHeard ==
  /\ events # <<>>
  /\ applyBackendSnapshot(Head(events), chat, TRUE)
  /\ events' = Tail(events)
  /\ Catches(Head(events))
  /\ UNCHANGED <<disk, raw, formVars, view, calls, pairRaw, fuel, be, listening, saving>>

\* The backend changes of its own: a mobile claims, connects or leaves.
BackendChanges(ch) ==
  /\ Spend("backend")
  /\ Listed(be, ch)
  /\ \E s \in ChannelStates \ {Absent, be.channels[ch]} :
       Emits([be EXCEPT !.channels[ch] = s])
  /\ UNCHANGED <<disk, raw, formVars, view, calls, pairCopies, listening, panel, chat, saving>>

------------------------------------------------------------------------------
\* Commands of the panel

PanelCall(at, arg) == Call("pair", at, arg)

Asks(c) ==
  /\ view = "main"
  /\ Spend("commands")
  /\ Room(c)
  /\ calls' = calls \cup {c}
  /\ UNCHANGED <<disk, raw, formVars, view, pairCopies, panelVars>>

toggleChannel ==
  \/ ~panel.open /\ pairUrl # Blank /\ Asks(PanelCall("open", Blank))
  \/ panel.open /\ Asks(PanelCall("close", Blank))
createPairSession == pairUrl # Blank /\ panel.open /\ Asks(PanelCall("create", Blank))
approvePairChannel(ch) == Listed(panel, ch) /\ Asks(PanelCall("approve", ch))
removePairChannel(ch) == Listed(panel, ch) /\ Asks(PanelCall("delete", ch))

\* What a command makes of the backend
Outcome(c) ==
  CASE c.at = "create" -> {[be EXCEPT !.channels[ch] = [status |-> "pending", peer |-> FALSE]] :
                             ch \in {x \in Chans : ~Listed(be, x)}}
    [] c.at \in {"open", "close"} -> {[be EXCEPT !.open = (c.at = "open")]}
    [] c.at = "approve" -> {[be EXCEPT !.channels[c.arg].status = "active"]}
    [] c.at = "delete" -> {[be EXCEPT !.channels[c.arg] = Absent]}

\* The backend serves it, or refuses it.
CommandServed ==
  \E c \in calls :
    /\ c.op = "pair" /\ c.at \in {"open", "close", "create", "approve", "delete"}
    /\ \/ /\ c.at \in {"approve", "delete"} => Listed(be, c.arg)
          /\ \E new \in Outcome(c) :
               /\ Emits(new)
               /\ Goes(c, PanelCall("answer", be'))
       \/ /\ Ends(c)
          /\ UNCHANGED <<be, events, behind>>
    /\ UNCHANGED <<disk, raw, formVars, view, pairCopies, fuel, listening, panel, chat, saving>>

\* pair_backend_get_state
StateServed ==
  \E c \in calls :
    /\ c.op = "pair" /\ c.at = "get"
    /\ Goes(c, PanelCall("answer", be))
    /\ UNCHANGED <<disk, raw, formVars, view, pairCopies, fuel, panelVars>>

AnswerShown ==
  \E c \in calls :
    /\ c.op = "pair" /\ c.at = "answer"
    /\ applyBackendSnapshot(c.arg, chat, TRUE)
    /\ Catches(c.arg)
    /\ Ends(c)
    /\ UNCHANGED <<disk, raw, formVars, view, pairRaw, fuel, be, events, listening, saving>>

------------------------------------------------------------------------------
\* Conversations

\* Faulty: the draft of the conversation before stays.
OpensWithDraft(ch) ==
  /\ Listed(panel, ch)
  /\ Spend("chats")
  /\ chat' = [active |-> ch, open |-> TRUE, draft |-> chat.draft]
  /\ UNCHANGED <<disk, raw, formVars, view, calls, pairCopies, be, events, listening, panel,
                 saving, behind>>

openPairChatDialog(ch) ==
  /\ Listed(panel, ch)
  /\ Spend("chats")
  /\ chat' = [active |-> ch, open |-> TRUE, draft |-> Blank]
  /\ UNCHANGED <<disk, raw, formVars, view, calls, pairCopies, be, events, listening, panel,
                 saving, behind>>

\* The user types (the draft is named by the channel it is written to), closes
\* the conversation, or dismisses the dialog, which tells the controller nothing.
Chatting ==
  /\ chat.open
  /\ Spend("chats")
  /\ chat' \in {[chat EXCEPT !.draft = chat.active], NoChat, [chat EXCEPT !.open = FALSE]}
  /\ UNCHANGED <<disk, raw, formVars, view, calls, pairCopies, be, events, listening, panel,
                 saving, behind>>

\* sendPairChatMessage: the draft goes to the active conversation
sendPairChatMessage ==
  LET c == PanelCall("send", [to |-> chat.active, text |-> chat.draft]) IN
  /\ chat.open /\ chat.active # Blank /\ chat.draft # Blank
  /\ Room(c)
  /\ calls' = calls \cup {c}
  /\ UNCHANGED <<disk, raw, formVars, view, pairCopies, fuel, panelVars>>

SendServed ==
  \E c \in calls :
    /\ c.op = "pair" /\ c.at = "send"
    /\ \/ /\ Listed(be, c.arg.to)
          /\ Goes(c, PanelCall("sent", be))
       \/ Ends(c)
    /\ UNCHANGED <<disk, raw, formVars, view, pairCopies, fuel, panelVars>>

\* The answer empties the draft, whichever conversation it belongs to by now.
SendReturns ==
  \E c \in calls :
    /\ c.op = "pair" /\ c.at = "sent"
    /\ applyBackendSnapshot(c.arg, [chat EXCEPT !.draft = Blank], TRUE)
    /\ Catches(c.arg)
    /\ Ends(c)
    /\ UNCHANGED <<disk, raw, formVars, view, pairRaw, fuel, be, events, listening, saving>>

------------------------------------------------------------------------------
\* The channel server's settings

TypeServer(server) ==
  /\ view = "main"
  /\ Spend("commands")
  /\ draftUrl' = server
  /\ UNCHANGED <<disk, raw, formVars, view, calls, pairRaw, pairUrl, panelVars>>

\* savePairConfig: the copy the panel holds, with another server.  (It reads
\* one first when it holds none, which no state of the main view is.)
savePairConfig ==
  LET c == PanelCall("save", [pairRaw EXCEPT !.server = draftUrl]) IN
  /\ view = "main" /\ ~saving /\ draftUrl # Blank
  /\ Spend("commands")
  /\ Room(c)
  /\ calls' = calls \cup {c}
  /\ saving' = TRUE
  /\ UNCHANGED <<disk, raw, formVars, view, pairCopies, be, events, listening, panel, chat, behind>>

PairSaveServed ==
  \E c \in calls :
    /\ c.op = "pair" /\ c.at = "save"
    /\ Writes(c, c.arg)
    /\ UNCHANGED <<raw, formVars, view, pairCopies, fuel, panelVars>>

\* A save goes on to read the configuration back; a refusal ends it.
PairSaveReturns ==
  \E c \in calls :
    /\ c.op = "pair"
    /\ \/ c.at = "saved" /\ Goes(c, PanelCall("read", NoConfig)) /\ UNCHANGED saving
       \/ c.at = "refused" /\ Ends(c) /\ saving' = FALSE
    /\ UNCHANGED <<disk, raw, formVars, view, pairCopies, fuel, be, events, listening, panel,
                   chat, behind>>

refreshPairChannelConfig == ~saving /\ Asks(Call("refresh", "read", NoConfig))

PairReadServed ==
  \E c \in calls :
    /\ c.op \in {"pair", "refresh"} /\ c.at = "read"
    /\ Goes(c, Call(c.op, "raw", disk))
    /\ UNCHANGED <<disk, raw, formVars, view, pairCopies, fuel, panelVars>>

\* applyPairConfigFromRawConfig, and the backend is told to reload.
PairReadReturns ==
  \E c \in calls :
    /\ c.op \in {"pair", "refresh"} /\ c.at = "raw"
    /\ SyncPair(IF c.arg = NoConfig THEN pairRaw ELSE c.arg)
    /\ Goes(c, Call(c.op, "reload", NoConfig))
    /\ UNCHANGED <<disk, raw, formVars, view, fuel, panelVars>>

\* reload_from_app_config reads the configuration again and, whatever the user
\* had chosen, opens the channel when a server is configured.
Reloaded == Emits([be EXCEPT !.server = disk.server, !.open = disk.server # Blank])

BackendReloads ==
  /\ Reload \in calls
  /\ Reloaded
  /\ Ends(Reload)
  /\ UNCHANGED <<disk, raw, formVars, view, pairCopies, fuel, listening, panel, chat, saving>>

ReloadServed ==
  \E c \in calls :
    /\ c.op \in {"pair", "refresh"} /\ c.at = "reload"
    /\ Reloaded
    /\ Goes(c, Call(c.op, "reloaded", be'))
    /\ UNCHANGED <<disk, raw, formVars, view, pairCopies, fuel, listening, panel, chat, saving>>

ReloadReturns ==
  \E c \in calls :
    /\ c.op \in {"pair", "refresh"} /\ c.at = "reloaded"
    /\ applyBackendSnapshot(c.arg, chat, FALSE)
    /\ Catches(c.arg)
    /\ Ends(c)
    /\ saving' = (saving /\ c.op = "refresh")
    /\ UNCHANGED <<disk, raw, formVars, view, pairRaw, fuel, be, events, listening>>

------------------------------------------------------------------------------
\* The shell starts with the backend, or after the backend has settled.
DeskInit ==
  \E s \in Scenarios :
    /\ SetupInit(s)
    /\ calls = {Loading} \cup IF s.settled THEN {} ELSE {PanelCall("get", Blank), Reload}
    /\ be = [server |-> IF s.settled THEN s.disk.server ELSE Blank, version |-> 1,
             open |-> s.settled /\ s.disk.server # Blank,
             channels |-> [ch \in Chans |-> IF ch \in s.paired
                                            THEN [status |-> "active", peer |-> TRUE] ELSE Absent]]
    /\ panel = IF s.settled
               THEN [channels |-> be.channels, version |-> 1, open |-> be.open]
               ELSE [channels |-> [ch \in Chans |-> Absent], version |-> 0, open |-> FALSE]
    /\ events = <<>> /\ listening = s.settled /\ saving = FALSE /\ behind = FALSE
    /\ chat = NoChat

PanelNext ==
  \/ ListenReturns \/ EventHeard \/ toggleChannel \/ createPairSession \/ CommandServed \/ StateServed
  \/ AnswerShown \/ Chatting \/ sendPairChatMessage \/ SendServed \/ SendReturns
  \/ savePairConfig \/ PairSaveServed \/ PairSaveReturns \/ refreshPairChannelConfig
  \/ PairReadServed \/ PairReadReturns \/ ReloadServed \/ ReloadReturns \/ BackendReloads
  \/ \E ch \in Chans : \/ BackendChanges(ch) \/ openPairChatDialog(ch)
                        \/ approvePairChannel(ch) \/ removePairChannel(ch)
  \/ \E server \in Servers : TypeServer(server)

DeskNext == (SetupNext /\ UNCHANGED panelVars) \/ PanelNext

DeskSpec == DeskInit /\ [][DeskNext]_deskVars

------------------------------------------------------------------------------
\* What is sent to a mobile was written to that mobile, and the open dialog
\* belongs to a channel that is listed, although a snapshot may end a
\* conversation, a dialog may be dismissed unnoticed and another may be
\* opened before an answer comes (pair-backend-controller.ts:358-383).
SentWhereTyped ==
  /\ \A c \in calls : c.op = "pair" /\ c.at = "send" => c.arg.text = c.arg.to
  /\ chat.open => chat.active # Blank /\ Listed(panel, chat.active)

\* Once every command is answered and every event heard the panel lists the
\* backend's channels in their states, and no peer as connected that is not,
\* unless the last snapshot was emitted before the listener was registered or
\* was overwritten by an older answer (pair-backend-controller.ts:191-248).
ShowsBackend ==
  (/\ events = <<>> /\ listening /\ ~behind
   /\ \A c \in calls : c.op \notin {"pair", "refresh"})
  => /\ panel.open = (be.open /\ be.server # Blank)
     /\ \A ch \in Chans :
          /\ panel.channels[ch].status = be.channels[ch].status
          /\ panel.channels[ch].peer => be.channels[ch].peer
=============================================================================
