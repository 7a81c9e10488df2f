-------------------------- MODULE ChannelExtension --------------------------
(***************************************************************************)
(* The openclaw-mobile channel plugin of the agent gateway                 *)
(* (desktop/extensions/openclaw-mobile/src/channel.ts): the configuration  *)
(* of its accounts, the caches of mobiles and their aliases, the relay     *)
(* socket startAccount keeps open, and the dispatch of messages to the     *)
(* agent.  JavaScript runs one callback at a time; what happens before the *)
(* next await is one action.                                               *)
(*                                                                         *)
(* External: the gateway (starts an account, and again after each change   *)
(* of its configuration), the relay, the agent.                            *)
(***************************************************************************)
EXTENDS Naturals, Sequences, FiniteSets, SequencesExt

CONSTANTS DefaultAccount,     \* the account "default"
          Accounts,           \* all account names
          Account,            \* the account the gateway runs
          Mobiles, Users, Devices,
          BaseUrls,           \* of the servers
          Bindings,           \* [mobile, user] pairs the server lists
          Events,             \* [id, type, from, user] the relay may push
          Starts,             \* [cfg, left]: a configuration, and how many events,
                              \* edits, faults, dispatches and sends follow
          MaxSeen,            \* MAX_SEEN_EVENT_IDS
          None                \* no value: an unset field, an empty string

Parties == Mobiles \cup {e.from : e \in Events}    \* the desktop too
Display(user, mobile) == <<user, mobile>>          \* "user (mobile)"
Names == Users \cup {Display(u, m) : u \in Users, m \in Parties}

Budgets == {"events", "edits", "faults", "agent", "sends"}
Section(enabled, server, device) == [enabled |-> enabled, server |-> server, device |-> device]
Unset == Section(None, None, None)
Sections == [enabled : BOOLEAN \cup {None}, server : BaseUrls \cup {None}, device : Devices \cup {None}]
Configs == [top : Sections, accounts : [Accounts -> Sections \cup {None}]]

\* The prefixes of ids tell users and mobiles apart, and neither is a display
\* name; the server has one binding of a user and a device (main.go:726), and
\* pair.claimed names a mobile.
ASSUME ChannelAssumption ==
  /\ DefaultAccount \in Accounts /\ Account \in Accounts /\ MaxSeen \in Nat \ {0}
  /\ None \notin Parties \cup Names \cup Devices \cup BaseUrls \cup Sections
  /\ Parties \cap Names = {} /\ Users \cap {Display(n, m) : n \in Names, m \in Parties} = {}
  /\ Bindings \subseteq [mobile : Mobiles, user : Users]
  /\ \A b, c \in Bindings : b.user = c.user => b = c
  /\ \A e \in Events : /\ e.id \in Nat /\ e.user \in Users \cup {None}
                       /\ e.type = "pair.claimed" => e.from \in Mobiles
  /\ \A s \in Starts : s.cfg \in Configs /\ s.left \in [Budgets -> Nat]

VARIABLES cfg,      \* the channel's section: its fields, and those per account
          buckets,  \* per account: the mobiles paired, and the mobile of a name
          runs,     \* one record per call of startAccount
          status,   \* what the gateway shows of the account
          dispatched,   \* the messages given to the agent
          out,      \* the signals posted that matter below: mirrors, pongs, sends
          paired,   \* per user, the mobile a claim or a listing last named
          left      \* what is left of the budget

vars == <<cfg, buckets, runs, status, dispatched, out, paired, left>>

---------------------------------------------------------------------------
\* Configuration

\* `{...channelSection, ...accountSection}': an account without a section of
\* its own has that of accounts.default
AccountSection(c, a) ==
  IF c.accounts[a] # None THEN c.accounts[a]
  ELSE IF c.accounts[DefaultAccount] # None THEN c.accounts[DefaultAccount] ELSE Unset

MergeConfig(top, own) == [f \in DOMAIN top |-> IF own[f] # None THEN own[f] ELSE top[f]]

ResolveAccount(c, a) ==
  LET merged == MergeConfig(c.top, AccountSection(c, a))
  IN  [enabled |-> merged.enabled # FALSE, server |-> merged.server, device |-> merged.device]

Configured(account) == account.server # None /\ account.device # None

ListAccountIds(c) ==
  LET ids == {a \in Accounts : c.accounts[a] # None} IN IF ids # {} THEN ids ELSE {DefaultAccount}

SetAccountEnabled(c, a, on) ==
  IF a = DefaultAccount THEN [c EXCEPT !.top.enabled = on]
  ELSE [c EXCEPT !.accounts[a] = [(IF @ = None THEN Unset ELSE @) EXCEPT !.enabled = on]]

---------------------------------------------------------------------------
\* The caches of mobiles and aliases

RememberMobilePeer(bs, a, m, u) ==
  LET user == IF u # None THEN u ELSE bs[a].peers[m]
  IN  [bs EXCEPT ![a].peers[m] = user,
                 ![a].aliases = [n \in DOMAIN @ |-> IF n \in {m, user} \ {None} THEN m ELSE @[n]]]

\* formatPeerDisplayName
PeerName(bs, a, m) == IF bs[a].peers[m] # None THEN Display(bs[a].peers[m], m) ELSE m

Lookup(a, n) == buckets[a].aliases[n]

\* normalizeMobileTarget: a mobile id as it is, a name as the default account
\* knows it, as any account does, or unchanged
Targets(to) ==
  LET others == {Lookup(a, to) : a \in Accounts} \ {None}
  IN  IF to \in Mobiles THEN {to}
      ELSE IF Lookup(DefaultAccount, to) # None THEN {Lookup(DefaultAccount, to)}
      ELSE IF others # {} THEN others ELSE {to}

\* fetchActiveBindings: every binding listed is remembered; of the users of one
\* mobile the last listed stays, and the list has the order of a Go map
RememberBindings(a) ==
  LET bound == {b.mobile : b \in Bindings}
      Of(user) == {b.mobile : b \in {c \in Bindings : c.user = user}}
  IN  /\ \E last \in [bound -> Bindings] :
           /\ \A m \in bound : last[m].mobile = m
           /\ buckets' = [buckets EXCEPT
                ![a].peers = [m \in DOMAIN @ |-> IF m \in bound THEN last[m].user ELSE @[m]],
                ![a].aliases = [n \in DOMAIN @ |-> IF n \in bound THEN n
                                                   ELSE IF Of(n) # {} THEN CHOOSE m \in Of(n) : TRUE
                                                   ELSE @[n]]]
      /\ paired' = [u \in Users |-> IF Of(u) # {} THEN CHOOSE m \in Of(u) : TRUE ELSE paired[u]]

ListCachedPeers(a) == {m \in Parties : buckets[a].aliases[m] = m}

---------------------------------------------------------------------------
Init ==
  /\ \E s \in Starts : cfg = s.cfg /\ left = s.left
  /\ buckets = [a \in Accounts |-> [peers |-> [m \in Parties |-> None],
                                    aliases |-> [n \in Parties \cup Names |-> None]]]
  /\ runs = <<>> /\ dispatched = <<>> /\ out = {} /\ paired = [u \in Users |-> None]
  /\ status = [connected |-> FALSE, busy |-> FALSE, attempts |-> 0, error |-> FALSE]

Uses(f) == left[f] > 0 /\ left' = [left EXCEPT ![f] = @ - 1]
Post(type, device, to) == [type |-> type, device |-> device, to |-> to]
Posted(signal) == out' \in {out, out \cup {signal}}    \* the POST may fail
Down == [status EXCEPT !.connected = FALSE, !.busy = FALSE]

\* The loop of startAccount opens a socket; buildWsUrl throws without a server.
OpenSocket(run) ==
  IF run.account.server = None THEN [run EXCEPT !.phase = "thrown"]
  ELSE [run EXCEPT !.phase = "socket", !.sock = "connecting", !.device = run.account.device]

\* setAccountEnabled, and an edit of the device in the settings
Toggle(a, on) ==
  /\ Uses("edits") /\ cfg' = SetAccountEnabled(cfg, a, on)
  /\ UNCHANGED <<buckets, runs, status, dispatched, out, paired>>

EditDevice(d) ==
  /\ Uses("edits") /\ cfg' = [cfg EXCEPT !.top.device = d]
  /\ UNCHANGED <<buckets, runs, status, dispatched, out, paired>>

StartAccount ==
  LET account == ResolveAccount(cfg, Account)
      parked == ~account.enabled \/ ~Configured(account)
  IN  /\ \A r \in 1..Len(runs) : runs[r].aborted
      /\ runs # <<>> => runs[Len(runs)].version # left.edits
      /\ runs' = Append(runs, [account |-> account, aborted |-> FALSE, version |-> left.edits,
                               phase |-> IF parked THEN "parked" ELSE "bindings",
                               sock |-> "none", device |-> None, attempt |-> 0,
                               seen |-> <<>>, names |-> [m \in Parties |-> None], log |-> <<>>])
      /\ UNCHANGED <<cfg, buckets, status, dispatched, out, paired, left>>

\* The first fetch of the bindings settles, and the loop is entered
BindingsFetched(r) ==
  LET run == runs[r]
      next(names) == IF run.aborted THEN [run EXCEPT !.phase = "ended", !.names = names]
                     ELSE OpenSocket([run EXCEPT !.names = names])
  IN  /\ run.phase = "bindings"
      /\ \/ /\ RememberBindings(Account)
            /\ LET named == [m \in Parties |-> IF \E b \in Bindings : b.mobile = m
                                                 THEN PeerName(buckets', Account, m) ELSE None]
               IN  runs' = [runs EXCEPT ![r] = next(named)]
         \/ runs' = [runs EXCEPT ![r] = next(run.names)] /\ UNCHANGED <<buckets, paired>>
      /\ status' = [Down EXCEPT !.attempts = 0, !.error = FALSE]
      /\ UNCHANGED <<cfg, dispatched, out, left>>

SocketOpens(r) ==
  /\ runs[r].phase = "socket" /\ runs[r].sock = "connecting"
  /\ runs' = [runs EXCEPT ![r].sock = "open", ![r].attempt = 0]
  /\ status' = [connected |-> TRUE, busy |-> FALSE, attempts |-> 0, error |-> FALSE]
  /\ UNCHANGED <<cfg, buckets, dispatched, out, paired, left>>

\* The close event; unless the run was aborted it goes on to its backoff
SocketCloses(r) ==
  LET run == runs[r]
  IN  /\ run.sock \in {"connecting", "open", "closing"}
      /\ IF run.sock = "closing" THEN UNCHANGED left ELSE Uses("faults")
      /\ IF run.phase = "socket"
           THEN /\ runs' = [runs EXCEPT ![r].sock = "closed", ![r].phase = "sleep",
                                        ![r].attempt = @ + 1]
                /\ status' = [connected |-> FALSE, busy |-> TRUE,
                              attempts |-> run.attempt + 1, error |-> TRUE]
           ELSE runs' = [runs EXCEPT ![r].sock = "closed"] /\ status' = Down
      /\ UNCHANGED <<cfg, buckets, dispatched, out, paired>>

\* sleepWithAbort resolves: the next turn of the loop
Wake(r) ==
  LET run == OpenSocket(runs[r])
  IN  /\ runs[r].phase = "sleep"
      /\ runs' = [runs EXCEPT ![r] = run]
      /\ status' = IF run.phase = "thrown" THEN status
                   ELSE [status EXCEPT !.connected = FALSE, !.busy = run.attempt > 0]
      /\ UNCHANGED <<cfg, buckets, dispatched, out, paired, left>>

\* Faulty: an abort resolves the loop and leaves the socket.
StoppedOpen(run) ==
  [run EXCEPT !.aborted = TRUE, !.phase = IF @ \in {"bindings", "thrown"} THEN @ ELSE "ended"]
Stopped(run) ==
  [run EXCEPT !.aborted = TRUE,
              !.phase = IF @ \in {"bindings", "thrown"} THEN @ ELSE "ended",
              !.sock = IF @ \in {"connecting", "open"} THEN "closing" ELSE @]

\* Faulty: the end of the loop leaves the status to the close event.
AbortUnshown(r) ==
  /\ ~runs[r].aborted /\ runs[r].version # left.edits
  /\ runs' = [runs EXCEPT ![r] = Stopped(runs[r])]
  /\ UNCHANGED <<cfg, buckets, status, dispatched, out, paired, left>>
\* The gateway stops the account, to start it with its new configuration
Abort(r) ==
  LET run == runs[r]
  IN  /\ ~run.aborted /\ run.version # left.edits
      /\ runs' = [runs EXCEPT ![r] = Stopped(run)]
      /\ status' = IF run.phase \in {"socket", "sleep"} THEN Down ELSE status
      /\ UNCHANGED <<cfg, buckets, dispatched, out, paired, left>>

---------------------------------------------------------------------------
\* The message event

\* Faulty: one place fewer.
RememberFewer(seen, id) ==
  IF id = 0 \/ Contains(seen, id) THEN seen
  ELSE IF Len(seen) < MaxSeen - 1 THEN Append(seen, id) ELSE Append(Tail(seen), id)
\* rememberEventId: a bounded set in order of arrival, the oldest goes first
RememberEventId(seen, id) ==
  IF id = 0 \/ Contains(seen, id) THEN seen
  ELSE IF Len(seen) < MaxSeen THEN Append(seen, id) ELSE Append(Tail(seen), id)

\* pair.claimed
Claimed(r, e) ==
  LET bs == RememberMobilePeer(buckets, Account, e.from, e.user)
  IN  /\ buckets' = bs
      /\ paired' = [u \in Users |-> IF u = e.user THEN e.from ELSE paired[u]]
      /\ UNCHANGED <<dispatched, out>>

\* channel.ping: the pong names the device of the account as it is now
Pinged(r, e) == /\ Posted(Post("channel.pong", runs[r].account.device, e.from))
                /\ UNCHANGED <<buckets, paired, dispatched>>

\* text of a mobile goes to the agent, whatever its type; the user it names
\* is read only when this run has no name for the mobile yet
Inbound(r, e) ==
  LET new == runs[r].names[e.from] = None
  IN  /\ buckets' = IF new THEN RememberMobilePeer(buckets, Account, e.from, e.user) ELSE buckets
      /\ dispatched' = Append(dispatched, [run |-> r, e |-> e, device |-> runs[r].account.device,
                                 at |-> "load"])
      /\ UNCHANGED <<paired, out>>

\* the handler goes on with an event it has not seen, without `kind'
Handled(e) == e.type # "kind"
Dispatchable(e) == e.type = "text" /\ e.from \in Mobiles

Message(r, e) ==
  LET run == runs[r]
      fresh == e.id = 0 \/ ~Contains(run.seen, e.id)
      does == fresh /\ Handled(e)
      text == does /\ Dispatchable(e)
  IN  /\ run.sock = "open" /\ Uses("events")
      /\ e.from \notin Mobiles => Post("agent.reply", run.device, run.device) \in out
      /\ CASE does /\ e.type = "pair.claimed" -> Claimed(r, e)
           [] does /\ e.type = "channel.ping" -> Pinged(r, e)
           [] text -> Inbound(r, e)
           [] OTHER -> UNCHANGED <<buckets, paired, dispatched, out>>
      /\ runs' = [runs EXCEPT ![r].seen = RememberEventId(@, e.id),
                              ![r].log = Append(@, [id |-> e.id, text |-> text]),
                              ![r].names = IF \/ does /\ e.type = "pair.claimed"
                                              \/ text /\ @[e.from] = None
                                             THEN [@ EXCEPT ![e.from] = PeerName(buckets', Account, e.from)]
                                             ELSE @]
      /\ UNCHANGED <<cfg, status>>

\* dispatchInboundToAgent, once the configuration is loaded: the peer is
\* remembered with the name it is shown by
AgentStarts(k) ==
  LET task == dispatched[k]
      shown == runs[task.run].names[task.e.from]
  IN  /\ task.at = "load" /\ Uses("agent")
      /\ \/ /\ buckets' = RememberMobilePeer(buckets, Account, task.e.from,
                                             IF shown \in Names THEN shown ELSE None)
            /\ dispatched' = [dispatched EXCEPT ![k].at = "agent"]
         \/ dispatched' = [dispatched EXCEPT ![k].at = "done"] /\ UNCHANGED buckets
      /\ UNCHANGED <<cfg, runs, status, out, paired>>

\* deliver, sendToMobile: the configuration is read again, and replaces the
\* account of the whole run; with no reply the run of the agent is over
Reply(k) ==
  LET task == dispatched[k]
      account == ResolveAccount(cfg, Account)
  IN  /\ task.at = "agent"
      /\ \/ /\ runs' = [runs EXCEPT ![task.run].account = account]
            /\ IF account.enabled /\ Configured(account)
                 THEN \E at \in {"mirror", "done"} : dispatched' = [dispatched EXCEPT ![k].at = at]
                 ELSE dispatched' = [dispatched EXCEPT ![k].at = "done"]
         \/ dispatched' = [dispatched EXCEPT ![k].at = "done"] /\ UNCHANGED runs
      /\ UNCHANGED <<cfg, buckets, status, out, paired, left>>

\* the reply is shown to the desktop too: the socket of the run receives it
Mirror(k) ==
  /\ dispatched[k].at = "mirror" /\ dispatched' = [dispatched EXCEPT ![k].at = "done"]
  /\ Posted(Post("agent.reply", dispatched[k].device, dispatched[k].device))
  /\ UNCHANGED <<cfg, buckets, runs, status, paired, left>>

---------------------------------------------------------------------------
\* The agent's own operations

ListPeers(a) ==
  /\ Uses("sends")
  /\ IF Configured(ResolveAccount(cfg, a))
       THEN RememberBindings(a) \/ UNCHANGED <<buckets, paired>>
       ELSE UNCHANGED <<buckets, paired>>
  /\ UNCHANGED <<cfg, runs, status, dispatched, out>>

SendText(a, to) ==
  LET account == ResolveAccount(cfg, a)
  IN  /\ Uses("sends") /\ Configured(account)
      /\ \E m \in Targets(to) : Posted([type |-> "sent", device |-> account.device, user |-> to, to |-> m,
                                          paired |-> IF to \in Users THEN paired[to] ELSE to])
      /\ UNCHANGED <<cfg, buckets, runs, status, dispatched, paired>>

---------------------------------------------------------------------------
Editing == \/ \E a \in Accounts, on \in BOOLEAN : Toggle(a, on)
           \/ \E d \in Devices : EditDevice(d)
Running(r) == BindingsFetched(r) \/ SocketOpens(r) \/ Wake(r) \/ Abort(r)
Working(k) == AgentStarts(k) \/ Reply(k) \/ Mirror(k)
Asking == \E a \in Accounts : ListPeers(a) \/ \E to \in Mobiles \cup Users : SendText(a, to)

Next == \/ Editing \/ StartAccount \/ Asking
        \/ \E r \in 1..Len(runs) : Running(r) \/ SocketCloses(r) \/ \E e \in Events : Message(r, e)
        \/ \E k \in 1..Len(dispatched) : Working(k)

Spec == Init /\ [][Next]_vars

\* The gateway restarts an account whose configuration changed; fetches
\* settle, timers fire, the relay accepts connections, sockets close.
FairSpec ==
  /\ Spec /\ WF_vars(StartAccount)
  /\ \A r \in 1..4 : /\ WF_vars(r <= Len(runs) /\ Running(r))
                     /\ WF_vars(r <= Len(runs) /\ SocketCloses(r) /\ runs[r].sock = "closing")

---------------------------------------------------------------------------
\* rememberEventId (channel.ts:274): the relay may push an event again, to
\* this socket or the next; within one start it reaches the agent twice only
\* after MAX_SEEN_EVENT_IDS other events.
DispatchedOnce ==
  \A r \in 1..Len(runs) : LET log == runs[r].log IN
    \A i, j \in 1..Len(log) :
      i < j /\ log[i].text /\ log[j].text /\ log[i].id = log[j].id /\ log[i].id # 0
        => Cardinality({log[k].id : k \in i..j} \ {0, log[i].id}) >= MaxSeen

\* The close handler (channel.ts:1016), the abort and the end of a run (1058)
\* write one status for all the runs of an account, which overlap: whatever
\* order they come in, it never shows a connection that is not there.
ShownIsThere ==
  status.connected => \E r \in 1..Len(runs) : runs[r].sock = "open" /\ ~runs[r].aborted

\* "Replies here are delivered to the paired mobile device" (channel.ts:1070,
\* the hint given to the agent): text for a user goes to the mobile the user is
\* paired with, as a claim or the server's list last said.  VIOLATED:
\* normalizeMobileTarget (406) asks the cache of the default account first,
\* which keeps the user's former mobile when a claim (main.go:742) gives the
\* user another one and the socket of another account hears of it.
ReachesPaired == \A s \in out : s.type = "sent" /\ s.paired # None => s.to = s.paired

\* startAccount (channel.ts:854): through failures and edits, in the end the
\* relay is connected as the configured device, or not at all when the
\* account is disabled or not configured.
Wanted == LET a == ResolveAccount(cfg, Account) IN a.enabled /\ Configured(a)
Live(r) == runs[r].sock \in {"connecting", "open", "closing"}
FollowsConfig ==
  <>[](IF Wanted THEN \E r \in 1..Len(runs) : /\ runs[r].sock = "open"
                                             /\ runs[r].device = ResolveAccount(cfg, Account).device
       ELSE \A r \in 1..Len(runs) : ~Live(r))
=============================================================================
