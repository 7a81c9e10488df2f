---------------------------- MODULE PeerChannel ----------------------------
(***************************************************************************)
(* PairV2PeerChannel of packages/pair-sdk/src/peer.ts: one end of a direct *)
(* WebRTC link, with the RTCPeerConnections it makes and abandons, its     *)
(* data channel and the mutual hello that authenticates it.  Every await   *)
(* on WebRTC or on the relay is a point where other events run.  (The      *)
(* awaits on signatures are not: tweetnacl signs and verifies              *)
(* synchronously, so their continuation runs before the next event.)       *)
(*                                                                         *)
(* The other end and WebRTC are external, and do what this class relies    *)
(* on: an offer is answered in time or never, signals arrive in any order, *)
(* a link comes up when both ends hold the same session.                   *)
(***************************************************************************)
EXTENDS Naturals, Sequences, FiniteSets

CONSTANTS MaxPeers,   \* RTCPeerConnections this end may make
          MaxOffers,  \* offers this end may make
          MaxTheirs,  \* offers the other end may make
          MaxIce,     \* ICE candidates the other end may send
          MaxFaults   \* failed emits, repeated signals, broken links, closes

ASSUME PeerBounds == /\ MaxPeers \in Nat \ {0} /\ MaxOffers \in Nat \ {0}
                     /\ MaxTheirs \in Nat /\ MaxIce \in Nat /\ MaxFaults \in Nat

VARIABLES self,     \* the fields of the object, and the connections it made
          dial,     \* connect() in progress
          handler,  \* the signal handler in progress: signalChain runs one
          wire,     \* signals on their way to this end
          sent,     \* signals this end emitted
          theirs,   \* the session the other end holds
          made,     \* offers made by this end, offers and candidates by the other,
                    \* and the last offer the other end took
          said,     \* per connection: what this end sent over its channel
          heard,    \* per connection: what was accepted from its channel
          faults    \* faults so far

vars == <<self, dial, handler, wire, sent, theirs, made, said, heard, faults>>

Peers == 1..MaxPeers
Mine  == 1..MaxOffers                               \* sessions this end offers
Theirs == (MaxOffers + 1)..(MaxOffers + MaxTheirs)  \* and the other end
Sessions == Mine \cup Theirs
Signals == [type : {"offer"}, s : Sessions] \cup [type : {"answer"}, s : Sessions]
              \cup [type : {"ice"}, s : Sessions]
Signal(type, s) == [type |-> type, s |-> s]
Idle == [peer |-> 0, s |-> 0, at |-> "idle"]
\* capabilities that include the app's messages, or do not
Messages == {"hello", "forged", "capabilities", "narrow", "app"}


Negotiating(state) == state \in {"connecting", "channel-open", "verifying"}

\* The current data channel is the one of connection o.channel.
ChannelOpen(o) == o.channel # 0 /\ o.pcs[o.channel].chan = "open"

IsReady(o) == o.state = "connected" /\ ChannelOpen(o) /\ o.verified

Fresh == [local |-> 0, remote |-> 0, signaling |-> "stable", conn |-> "none", chan |-> "none",
          via |-> 0]   \* the session the channel opened on

---------------------------------------------------------------------------
\* What the methods do to the object

\* Faulty: a new connection inherits the verification of the last one.
ClearedUnverified(o) == [o EXCEPT !.pending = {}, !.helloSent = FALSE, !.capsSent = FALSE,
                                  !.caps = "unknown"]

Cleared(o) == [o EXCEPT !.pending = {}, !.verified = FALSE, !.helloSent = FALSE,
                        !.capsSent = FALSE, !.caps = "unknown"]

\* Faulty: the fields are cleared, the connection is not closed.
DisposedUnclosed(o, state) == [Cleared(o) EXCEPT !.peer = 0, !.channel = 0, !.state = state]

Disposed(o, state) ==
  LET closed == [p \in Peers |->
                   IF p \in {o.peer, o.channel}
                     THEN [o.pcs[p] EXCEPT !.conn = IF p = o.peer THEN "closed" ELSE @,
                                           !.chan = IF @ = "none" THEN @ ELSE "closed"]
                     ELSE o.pcs[p]]
  IN  [Cleared(o) EXCEPT !.pcs = closed, !.peer = 0, !.channel = 0, !.state = state]

EnsurePeer(o, recreate) ==
  LET base == IF recreate THEN Disposed(o, "connecting") ELSE o
  IN  IF base.peer # 0 THEN base
      ELSE [Cleared(base) EXCEPT !.pending = base.pending, !.count = @ + 1,
                                 !.peer = base.count + 1, !.state = "connecting",
                                 !.pcs[base.count + 1].conn = "new"]

CanMake(o) == o.count < MaxPeers

RecreateForOffer(o, s) ==
  /\ o.peer # 0 /\ o.pcs[o.peer].remote # s
  /\ o.pcs[o.peer].remote # 0 \/ o.pcs[o.peer].local # 0 \/ o.channel # 0

RecreateForConnect(o) ==
  /\ o.peer # 0
  /\ \/ o.pcs[o.peer].conn \in {"failed", "closed", "disconnected"}
     \/ o.channel # 0 /\ o.pcs[o.channel].chan = "closed"

AttachChannel(o, p) ==
  [o EXCEPT !.channel = p, !.pcs[p].chan = "connecting"]

\* sendHello and sendCapabilitiesIfReady: the object after them
SendsHello(o) == ChannelOpen(o) /\ ~o.helloSent
SendHello(o) ==
  IF SendsHello(o)
    THEN [o EXCEPT !.helloSent = TRUE, !.state = IF o.verified THEN "connected" ELSE "verifying"]
    ELSE o

SendsCapabilities(o) == ChannelOpen(o) /\ o.helloSent /\ o.verified /\ ~o.capsSent
SendCapabilities(o) == IF SendsCapabilities(o) THEN [o EXCEPT !.capsSent = TRUE] ELSE o

FlushCandidates(o) ==
  IF o.peer # 0 /\ o.pcs[o.peer].remote # 0
    THEN [o EXCEPT !.pending = {}, !.added = @ \cup {<<o.peer, c>> : c \in o.pending}]
    ELSE o

---------------------------------------------------------------------------
Init ==
  /\ self = [state |-> "idle", peer |-> 0, channel |-> 0, count |-> 0,
             helloSent |-> FALSE, capsSent |-> FALSE, verified |-> FALSE, caps |-> "unknown",
             closedByUser |-> FALSE, pending |-> {}, added |-> {},
             pcs |-> [p \in Peers |-> Fresh]]
  /\ dial = Idle /\ handler = Idle
  /\ wire = {} /\ sent = {} /\ theirs = 0
  /\ made = [offers |-> 0, theirs |-> 0, ice |-> 0, taken |-> 0]
  /\ said = [p \in Peers |-> <<>>] /\ heard = [p \in Peers |-> {}]
  /\ faults = 0

Fault == faults < MaxFaults /\ faults' = faults + 1
Environment == <<wire, sent, theirs, made>>
Talk == <<said, heard>>

\* connect(), called as SessionsContext.tsx does: not while negotiating
Dial ==
  LET again == RecreateForConnect(self)
      o == [EnsurePeer(self, again) EXCEPT !.closedByUser = FALSE, !.state = "connecting"]
  IN  /\ dial = Idle /\ ~IsReady(self) /\ ~Negotiating(self.state)
      /\ self.peer = 0 \/ again => CanMake(self)
      /\ self' = IF o.channel = 0 THEN AttachChannel(o, o.peer) ELSE o
      /\ dial' = [peer |-> o.peer, s |-> 0, at |-> "offer"]
      /\ UNCHANGED <<handler, Environment, Talk, faults>>

\* createOffer and setLocalDescription settle; they throw on a closed connection
OfferMade ==
  /\ dial.at = "offer"
  /\ IF self.pcs[dial.peer].conn = "closed"
       THEN dial' = Idle /\ UNCHANGED <<self, made>>
       ELSE /\ made.offers < MaxOffers
            /\ made' = [made EXCEPT !.offers = @ + 1]
            /\ self' = [self EXCEPT !.pcs[dial.peer].local = made.offers + 1,
                                    !.pcs[dial.peer].signaling = "have-local-offer"]
            /\ dial' = [dial EXCEPT !.s = made.offers + 1, !.at = "emit"]
  /\ UNCHANGED <<handler, wire, sent, theirs, Talk, faults>>

\* the POST of the offer succeeds, or connect() rejects
OfferEmitted ==
  /\ dial.at = "emit" /\ dial' = Idle
  /\ \/ sent' = sent \cup {Signal("offer", dial.s)} /\ UNCHANGED faults
     \/ Fault /\ UNCHANGED sent
  /\ UNCHANGED <<self, handler, wire, theirs, made, Talk>>

\* handleSignal: the relay delivers a signal, sometimes more than once
Take(signal) ==
  /\ handler = Idle /\ signal \in wire
  /\ \/ wire' = wire \ {signal} /\ UNCHANGED faults
     \/ UNCHANGED wire /\ Fault

TakeOffer(s) ==
  LET again == RecreateForOffer(self, s)
      o == [EnsurePeer(self, again) EXCEPT !.closedByUser = FALSE, !.state = "connecting"]
      same == o.pcs[o.peer].remote = s
      answered == same /\ o.pcs[o.peer].local = s
  IN  /\ Take(Signal("offer", s))
      /\ self.peer = 0 \/ again => CanMake(self)
      /\ self' = IF same /\ ~answered THEN FlushCandidates(o) ELSE o
      /\ handler' = [peer |-> o.peer, s |-> s,
                     at |-> IF answered THEN "emit" ELSE IF same THEN "answer" ELSE "remote"]
      /\ UNCHANGED <<dial, sent, theirs, made, Talk>>

\* setRemoteDescription(offer) settles; the candidates queued are those of
\* whatever connection is current by now
RemoteSet ==
  /\ handler.at = "remote"
  /\ IF self.pcs[handler.peer].conn = "closed"
       THEN handler' = Idle /\ UNCHANGED self
       ELSE /\ self' = FlushCandidates([self EXCEPT !.pcs[handler.peer].remote = handler.s,
                                         !.pcs[handler.peer].signaling = "have-remote-offer"])
            /\ handler' = [handler EXCEPT !.at = "answer"]
  /\ UNCHANGED <<dial, Environment, Talk, faults>>

AnswerMade ==
  /\ handler.at = "answer"
  /\ IF self.pcs[handler.peer].conn = "closed"
       THEN handler' = Idle /\ UNCHANGED self
       ELSE /\ self' = [self EXCEPT !.pcs[handler.peer].local = handler.s,
                                    !.pcs[handler.peer].signaling = "stable"]
            /\ handler' = [handler EXCEPT !.at = "emit"]
  /\ UNCHANGED <<dial, Environment, Talk, faults>>

AnswerEmitted ==
  /\ handler.at = "emit" /\ handler' = Idle
  /\ \/ sent' = sent \cup {Signal("answer", handler.s)} /\ UNCHANGED faults
     \/ Fault /\ UNCHANGED sent
  /\ UNCHANGED <<self, dial, wire, theirs, made, Talk>>

\* an answer creates a connection when there is none
TakeAnswer(s) ==
  LET o == EnsurePeer(self, FALSE)
  IN  /\ Take(Signal("answer", s))
      /\ self.peer = 0 => CanMake(self)
      /\ self' = o
      /\ handler' = [peer |-> o.peer, s |-> s, at |-> "apply"]
      /\ UNCHANGED <<dial, sent, theirs, made, Talk>>

AnswerApplied ==
  /\ handler.at = "apply" /\ handler' = Idle
  /\ IF self.pcs[handler.peer].conn = "closed"
        \/ self.pcs[handler.peer].signaling # "have-local-offer"
       THEN UNCHANGED self
       ELSE self' = FlushCandidates([self EXCEPT !.pcs[handler.peer].remote = handler.s,
                                                 !.pcs[handler.peer].signaling = "stable"])
  /\ UNCHANGED <<dial, Environment, Talk, faults>>

TakeIce(s) ==
  LET o == EnsurePeer(self, FALSE)
  IN  /\ Take(Signal("ice", s))
      /\ self.peer = 0 => CanMake(self)
      /\ self' = IF o.pcs[o.peer].remote # 0
                   THEN [o EXCEPT !.added = @ \cup {<<o.peer, s>>}]
                   ELSE [o EXCEPT !.pending = @ \cup {s}]
      /\ UNCHANGED <<dial, handler, sent, theirs, made, Talk>>

\* close()
Close ==
  /\ Fault
  /\ self' = [Disposed(self, "disconnected") EXCEPT !.closedByUser = TRUE]
  /\ UNCHANGED <<dial, handler, Environment, Talk>>

---------------------------------------------------------------------------
\* The other end (external)

RemoteAnswers(s) ==
  /\ Signal("offer", s) \in sent /\ s > made.taken
  /\ theirs' = s /\ made' = [made EXCEPT !.taken = s]
  /\ wire' = wire \cup {Signal("answer", s)}
  /\ UNCHANGED <<self, dial, handler, sent, Talk, faults>>

RemoteOffers ==
  LET s == MaxOffers + made.theirs + 1
  IN  /\ made.theirs < MaxTheirs
      /\ theirs' = s /\ made' = [made EXCEPT !.theirs = @ + 1]
      /\ wire' = wire \cup {Signal("offer", s)}
      /\ UNCHANGED <<self, dial, handler, sent, Talk, faults>>

RemoteIce ==
  /\ theirs # 0 /\ made.ice < MaxIce
  /\ made' = [made EXCEPT !.ice = @ + 1]
  /\ wire' = wire \cup {Signal("ice", theirs)}
  /\ UNCHANGED <<self, dial, handler, sent, theirs, Talk, faults>>

\* Both ends hold the session of connection p
Linked(p) ==
  LET pc == self.pcs[p]
  IN  /\ pc.local # 0 /\ pc.local = pc.remote /\ pc.local = theirs
      /\ pc.local \in Theirs => Signal("answer", pc.local) \in sent

\* A link that came up lasts until the other end replaces its session, even
\* while this end offers another one on the same connection.
Alive(p) == IF self.pcs[p].via = 0 THEN Linked(p) ELSE self.pcs[p].via = theirs

---------------------------------------------------------------------------
\* Callbacks.  Those of an abandoned connection were set to null, or find
\* that they are not current.

\* ondatachannel, at an end that answered
ChannelArrives ==
  LET p == self.peer
  IN  /\ p # 0 /\ Linked(p) /\ self.pcs[p].chan = "none" /\ p # self.channel
      /\ self' = AttachChannel(self, p)
      /\ UNCHANGED <<dial, handler, Environment, Talk, faults>>

\* onopen
ChannelOpens ==
  LET p == self.channel
      o == [self EXCEPT !.pcs[p].chan = "open", !.pcs[p].conn = "connected",
                        !.pcs[p].via = theirs, !.state = "channel-open"]
  IN  /\ p # 0 /\ p = self.peer /\ Linked(p) /\ self.pcs[p].chan = "connecting"
      /\ self' = SendCapabilities(SendHello(o))
      /\ said' = [said EXCEPT ![p] = @ \o (IF SendsHello(o) THEN <<"hello">> ELSE <<>>)]
      /\ UNCHANGED <<dial, handler, Environment, heard, faults>>

\* onmessage: the hello of the trusted peer, who says it once on a connection
HearHello ==
  LET p == self.channel
      v == [self EXCEPT !.verified = TRUE]
      o == [SendHello(v) EXCEPT !.state = "connected"]
  IN  /\ ChannelOpen(self) /\ p = self.peer /\ "hello" \notin heard[p]
      /\ self' = SendCapabilities(o)
      /\ said' = [said EXCEPT ![p] = @ \o (IF SendsHello(v) THEN <<"hello">> ELSE <<>>)
                                       \o (IF SendsCapabilities(o) THEN <<"capabilities">> ELSE <<>>)]
      /\ heard' = [heard EXCEPT ![p] = @ \cup {"hello"}]
      /\ UNCHANGED <<dial, handler, Environment, faults>>

Takes(m) == self.verified /\ m # "forged"

\* onmessage: anything else is ignored before the hello; a hello that is not
\* the trusted peer's is rejected always
HearOther(m) ==
  LET p == self.channel
  IN  /\ ChannelOpen(self) /\ p = self.peer /\ m \in Messages \ {"hello"}
      /\ self' = IF Takes(m) /\ m \in {"capabilities", "narrow"}
                 THEN [self EXCEPT !.caps = m] ELSE self
      /\ heard' = IF Takes(m) THEN [heard EXCEPT ![p] = @ \cup {"more"}] ELSE heard
      /\ UNCHANGED <<dial, handler, Environment, said, faults>>

\* sendAppMessage
SendApp ==
  /\ IsReady(self) /\ self.caps # "narrow" /\ Len(said[self.channel]) < 3
  /\ said' = [said EXCEPT ![self.channel] = Append(@, "app")]
  /\ UNCHANGED <<self, dial, handler, Environment, heard, faults>>

\* onclose: the other end replaced its session, or the link broke
ChannelCloses ==
  LET p == self.channel
      o == [self EXCEPT !.pcs[p].chan = "closed", !.channel = 0]
  IN  /\ p # 0 /\ p = self.peer /\ self.pcs[p].chan = "open"
      /\ IF Alive(p) THEN Fault ELSE UNCHANGED faults
      /\ self' = IF self.closedByUser THEN o ELSE Disposed(o, "disconnected")
      /\ UNCHANGED <<dial, handler, Environment, Talk>>

\* connectionState or iceConnectionState becomes failed: the link broke, or
\* the descriptions are of different sessions and never connect; onerror of
\* the channel does the same
ConnectionFails ==
  LET p == self.peer
  IN  /\ p # 0 /\ self.pcs[p].local # 0 /\ self.pcs[p].remote # 0
      /\ IF Alive(p) THEN Fault ELSE UNCHANGED faults
      /\ self' = Disposed(self, "failed")
      /\ UNCHANGED <<dial, handler, Environment, Talk>>

\* connectionState becomes disconnected, and perhaps connected again: the
\* state is not set back
ConnectionWavers ==
  LET p == self.peer
  IN  /\ p # 0 /\ self.pcs[p].conn \in {"connected", "disconnected"}
      /\ \/ /\ self.pcs[p].conn = "connected" /\ Fault
            /\ self' = [self EXCEPT !.pcs[p].conn = "disconnected", !.state = "disconnected"]
         \/ /\ self.pcs[p].conn = "disconnected" /\ UNCHANGED faults
            /\ self' = [self EXCEPT !.pcs[p].conn = "connected"]
      /\ UNCHANGED <<dial, handler, Environment, Talk>>

---------------------------------------------------------------------------
Dialing == Dial \/ OfferMade \/ OfferEmitted
Handling == RemoteSet \/ AnswerMade \/ AnswerEmitted \/ AnswerApplied
Taking == \E s \in Sessions : TakeOffer(s) \/ TakeAnswer(s) \/ TakeIce(s)
Remote == (\E s \in Mine : RemoteAnswers(s)) \/ RemoteOffers \/ RemoteIce
Opening == ChannelArrives \/ ChannelOpens
Talking == HearHello \/ SendApp \/ \E m \in Messages : HearOther(m)
Breaking == ChannelCloses \/ ConnectionFails \/ ConnectionWavers \/ Close

Next == Dialing \/ Handling \/ Taking \/ Remote \/ Opening \/ Talking \/ Breaking

Spec == Init /\ [][Next]_vars

\* The timers of the sessions try again for ever, promises settle, the relay
\* delivers, the other end answers, greets, and leaves a session it replaced.
FairSpec ==
  /\ Spec
  /\ WF_vars(Dial) /\ WF_vars(OfferMade) /\ WF_vars(OfferEmitted) /\ WF_vars(Handling)
  /\ \A s \in Sessions : /\ WF_vars(TakeOffer(s)) /\ SF_vars(TakeAnswer(s))
                         /\ WF_vars(RemoteAnswers(s))
  /\ WF_vars(Opening)
  /\ WF_vars(HearHello)
  /\ WF_vars((ChannelCloses \/ ConnectionFails) /\ faults' = faults)

---------------------------------------------------------------------------
\* isReady() (peer.ts:251) means that hellos went both ways over this very
\* channel, however many connections were abandoned before it.
ReadyIsMutual ==
  IsReady(self) => /\ self.peer = self.channel
                   /\ "hello" \in heard[self.channel]
                   /\ \E k \in 1..Len(said[self.channel]) : said[self.channel][k] = "hello"

\* ensurePeer and disposePeer (peer.ts:505, 820): a connection that is not
\* the current one has been closed, with its channel; none is leaked.
NoLeakedConnection ==
  \A p \in Peers \ {self.peer} :
    /\ self.pcs[p].conn \in {"none", "closed"}
    /\ self.pcs[p].chan \in {"none", "closed"}

\* The state says that the connection is being negotiated, so that nothing
\* dials (SessionsContext.tsx:1448), but nothing negotiates it: a late answer
\* or candidate made it (peer.ts:484, 495), its offer could not be sent, or it
\* is up, and a repeated offer put the state back (peer.ts:457) after the
\* hello that would have set it.
Stranded ==
  /\ self.peer # 0 /\ Negotiating(self.state) /\ dial = Idle /\ handler = Idle
  /\ LET pc == self.pcs[self.peer]
     IN  \/ pc.local = 0 /\ pc.remote = 0
         \/ pc.signaling = "have-local-offer" /\ Signal("offer", pc.local) \notin sent
         \/ pc.signaling = "stable" /\ self.verified

\* The next step is one that the bounds of the model forbid.
Exhausted ==
  \/ dial.at = "offer" /\ made.offers = MaxOffers
  \/ /\ self.count = MaxPeers
     /\ \/ self.peer = 0
        \/ ~IsReady(self) /\ ~Negotiating(self.state) /\ RecreateForConnect(self)
        \/ \E s \in Sessions : Signal("offer", s) \in wire /\ RecreateForOffer(self, s)


=============================================================================
