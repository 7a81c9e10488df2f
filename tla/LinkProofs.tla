---------------------------- MODULE LinkProofs ----------------------------
(***************************************************************************)
(* Proofs about the two links of the desktop, for any number of            *)
(* connections, offers, late signals, commands and faults, and about the   *)
(* desktop shell over them, for any models, servers, channels and calls.   *)
(*                                                                         *)
(* PeerChannel: no connection is leaked, and a ready channel is one over   *)
(* which hellos went both ways.  Every method replaces the object as a     *)
(* whole, so the lemmas are about what a method makes of an object that is *)
(* tidy: its channel is that of its current connection, and every other    *)
(* connection is closed.                                                   *)
(*                                                                         *)
(* DesktopLink: no task is leaked, and a link shown as connected has a     *)
(* stream of its generation.  The handles kept are of the current          *)
(* generation or none, and a task belongs to a handle or to a connect that *)
(* is about to store it; a connect that stores its handles finds that it   *)
(* is still the current one, so it drops no handle of a running task.      *)
(*                                                                         *)
(* SetupForm and PairPanel: a form filled from a configuration shows it    *)
(* until it is edited, and a form that shows a configuration saves it.  A  *)
(* snapshot on its way to the panel is of an earlier version of the        *)
(* backend, or is the backend; and the newest version is shown or on its   *)
(* way, unless the panel is excused.                                       *)
(***************************************************************************)
EXTENDS PeerChannel, DesktopLink, PairPanel, TLAPS

Over == {"none", "closed"}
States == {"idle", "connecting", "channel-open", "verifying", "connected",
           "disconnected", "failed"}
Connections == [local : Nat, remote : Nat, via : Nat,
                signaling : {"stable", "have-local-offer", "have-remote-offer"},
                conn : {"none", "new", "connected", "disconnected", "closed"},
                chan : {"none", "connecting", "open", "closed"}]
Objects == [state : States, peer : 0..MaxPeers, channel : 0..MaxPeers, count : Nat,
            helloSent : BOOLEAN, capsSent : BOOLEAN, verified : BOOLEAN,
            caps : {"unknown", "capabilities", "narrow"}, closedByUser : BOOLEAN,
            pending : SUBSET Nat, added : SUBSET (Nat \X Nat),
            pcs : [Peers -> Connections]]
Calls == [peer : 0..MaxPeers, s : Nat,
          at : {"idle", "offer", "emit", "remote", "answer", "apply"}]

Quiet(o) == \A p \in Peers \ {o.peer} : o.pcs[p].conn \in Over /\ o.pcs[p].chan \in Over

Tidy(o) == o \in Objects /\ o.channel \in {0, o.peer} /\ Quiet(o)

\* o continues the hello of q, on the same connection, or has begun anew.
Continues(o, q) ==
    \/ o.peer = q.peer /\ o.verified = q.verified /\ o.helloSent = q.helloSent
    \/ ~o.verified /\ ~o.helloSent

-----------------------------------------------------------------------------
(* The methods.                                                            *)

(* Clearing the flags touches no connection.                               *)
LEMMA ClearedTidy ==
    ASSUME NEW o, Tidy(o)
    PROVE  /\ Tidy(Cleared(o))
           /\ Cleared(o).peer = o.peer /\ Cleared(o).channel = o.channel
           /\ Cleared(o).count = o.count /\ Cleared(o).pcs = o.pcs
           /\ ~Cleared(o).verified /\ ~Cleared(o).helloSent
BY DEF Tidy, Objects, Quiet, Cleared

(* Disposing leaves every connection closed.                               *)
LEMMA DisposedTidy ==
    ASSUME NEW o, Tidy(o), NEW to \in States
    PROVE  LET d == Disposed(o, to)
           IN  /\ Tidy(d) /\ d.peer = 0 /\ d.count = o.count
               /\ ~d.verified /\ ~d.helloSent
<1>. DEFINE closed == [p \in Peers |->
                   IF p \in {o.peer, o.channel}
                     THEN [o.pcs[p] EXCEPT !.conn = IF p = o.peer THEN "closed" ELSE @,
                                           !.chan = IF @ = "none" THEN @ ELSE "closed"]
                     ELSE o.pcs[p]]
            d == Disposed(o, to)
<1>0. \A p \in Peers : o.pcs[p] \in Connections
  BY DEF Tidy, Objects
<1>1. closed \in [Peers -> Connections]
  <2>1. ASSUME NEW p \in Peers  PROVE closed[p] \in Connections
    <3>1. o.pcs[p] \in Connections
      BY <1>0
    <3>. QED
      BY <3>1 DEF Connections
  <2>. QED
    BY <2>1
<1>2. \A p \in Peers : closed[p].conn \in Over /\ closed[p].chan \in Over
  <2>. SUFFICES ASSUME NEW p \in Peers
                PROVE  closed[p].conn \in Over /\ closed[p].chan \in Over
    OBVIOUS
  <2>1. CASE p = o.peer
    BY <1>0, <2>1 DEF Connections, Over
  <2>2. CASE p # o.peer
    <3>1. p # o.channel
      BY <2>2, PeerBounds DEF Tidy, Peers
    <3>. QED
      BY <2>2, <3>1 DEF Tidy, Quiet
  <2>. QED
    BY <2>1, <2>2
<1>3. d = [Cleared(o) EXCEPT !.pcs = closed, !.peer = 0, !.channel = 0, !.state = to]
  BY DEF Disposed
<1>. HIDE DEF closed, d
<1>4. Cleared(o) \in Objects /\ Cleared(o).count = o.count
      /\ ~Cleared(o).verified /\ ~Cleared(o).helloSent
  BY ClearedTidy DEF Tidy
<1>5. /\ d \in Objects /\ d.peer = 0 /\ d.channel = 0 /\ d.pcs = closed /\ d.count = o.count
      /\ ~d.verified /\ ~d.helloSent
  <2>. DEFINE c == Cleared(o)
  <2>1. c \in Objects /\ c.count = o.count /\ ~c.verified /\ ~c.helloSent
    BY <1>4
  <2>2. d = [c EXCEPT !.pcs = closed, !.peer = 0, !.channel = 0, !.state = to]
    BY <1>3
  <2>. HIDE DEF c
  <2>3. /\ d.peer = 0 /\ d.channel = 0 /\ d.pcs = closed /\ d.state = to
        /\ d.count = c.count /\ d.verified = c.verified /\ d.helloSent = c.helloSent
    BY <2>1, <2>2 DEF Objects
  <2>4. 0 \in 0..MaxPeers
    BY PeerBounds
  <2>5. d \in Objects
    BY <1>1, <2>1, <2>2, <2>4 DEF Objects
  <2>. QED
    BY <2>1, <2>3, <2>5
<1>. QED
  BY <1>2, <1>5 DEF Tidy, Quiet, d

(* ensurePeer makes the current connection the only one.                   *)
LEMMA EnsureTidy ==
    ASSUME NEW o, Tidy(o), NEW again \in BOOLEAN, o.peer = 0 \/ again => CanMake(o)
    PROVE  LET e == EnsurePeer(o, again)
           IN  Tidy(e) /\ e.peer \in Peers /\ Continues(e, o)
<1>. DEFINE b == IF again THEN Disposed(o, "connecting") ELSE o
            e == EnsurePeer(o, again)
<1>1. /\ Tidy(b) /\ b.count = o.count
      /\ again => b.peer = 0
      /\ ~again => b = o
  BY DisposedTidy DEF States
<1>2. e = IF b.peer # 0 THEN b
          ELSE [Cleared(b) EXCEPT !.pending = b.pending, !.count = @ + 1,
                                  !.peer = b.count + 1, !.state = "connecting",
                                  !.pcs[b.count + 1].conn = "new"]
  BY DEF EnsurePeer
<1>. HIDE DEF b, e
<1>3. CASE b.peer # 0
  <2>1. e = o
    BY <1>1, <1>2, <1>3
  <2>. QED
    BY <1>1, <1>3, <2>1 DEF Tidy, Objects, Peers, Continues, e
<1>4. CASE b.peer = 0
  <2>. DEFINE c == Cleared(b)
              n == b.count + 1
  <2>1. n \in Peers
    BY <1>1, <1>4, PeerBounds DEF CanMake, Peers, Tidy, Objects
  <2>2. /\ c \in Objects /\ c.channel = 0 /\ c.peer = 0 /\ c.pcs = b.pcs /\ c.count = b.count
        /\ ~c.verified /\ ~c.helloSent /\ b.pending \subseteq Nat
        /\ \A p \in Peers : c.pcs[p].conn \in Over /\ c.pcs[p].chan \in Over
    <3>1. b.channel = 0 /\ b.pending \subseteq Nat
          /\ \A p \in Peers : b.pcs[p].conn \in Over /\ b.pcs[p].chan \in Over
      BY <1>1, <1>4, PeerBounds DEF Tidy, Quiet, Peers, Objects
    <3>. QED
      BY <1>1, <1>4, <3>1, ClearedTidy DEF Tidy
  <2>3. e = [c EXCEPT !.pending = b.pending, !.count = @ + 1, !.peer = n,
                      !.state = "connecting", !.pcs[n].conn = "new"]
    BY <1>2, <1>4
  <2>. HIDE DEF c, n
  <2>4. /\ e.peer = n /\ e.channel = 0 /\ e.verified = c.verified /\ e.helloSent = c.helloSent
        /\ e.pcs = [c.pcs EXCEPT ![n].conn = "new"]
    BY <2>2, <2>3 DEF Objects
  <2>5. c.pcs[n] \in Connections /\ [c.pcs[n] EXCEPT !.conn = "new"] \in Connections
    BY <2>1, <2>2 DEF Objects, Connections
  <2>6. e.pcs \in [Peers -> Connections] /\ \A p \in Peers \ {n} : e.pcs[p] = c.pcs[p]
    BY <2>1, <2>2, <2>4, <2>5 DEF Objects
  <2>7. e \in Objects
    <3>1. n \in 0..MaxPeers /\ c.count + 1 \in Nat
      BY <2>1, <2>2, PeerBounds DEF Peers, Objects
    <3>2. e = [c EXCEPT !.pending = b.pending, !.count = @ + 1, !.peer = n,
                        !.state = "connecting", !.pcs = e.pcs]
      BY <2>2, <2>3, <2>4 DEF Objects
    <3>. QED
      BY <2>2, <2>6, <3>1, <3>2 DEF Objects, States
  <2>. QED
    BY <2>1, <2>2, <2>4, <2>6, <2>7 DEF Tidy, Quiet, Continues, e
<1>. QED
  BY <1>3, <1>4

\* n differs from o in nothing that the hello depends on.
Same(n, o) == n.peer = o.peer /\ n.verified = o.verified /\ n.helloSent = o.helloSent

(* Changing one connection, unless that revives an abandoned one.          *)
LEMMA ChangedTidy ==
    ASSUME NEW o, Tidy(o), NEW n \in Objects, NEW p \in Peers, NEW pc \in Connections,
           p = o.peer \/ (pc.conn \in Over /\ pc.chan \in Over),
           n.pcs = [o.pcs EXCEPT ![p] = pc],
           n.peer = o.peer, n.channel = o.channel
    PROVE  Tidy(n)
<1>1. \A q \in Peers : n.pcs[q] = IF q = p THEN pc ELSE o.pcs[q]
  BY DEF Tidy, Objects
<1>. QED
  BY <1>1 DEF Tidy, Quiet

(* createDataChannel or ondatachannel on the current connection.           *)
LEMMA AttachTidy ==
    ASSUME NEW o, Tidy(o), o.peer \in Peers
    PROVE  Tidy(AttachChannel(o, o.peer)) /\ Same(AttachChannel(o, o.peer), o)
<1>. DEFINE p == o.peer
            n == AttachChannel(o, p)
            pc == [o.pcs[p] EXCEPT !.chan = "connecting"]
<1>1. o.pcs[p] \in Connections /\ pc \in Connections
  BY DEF Tidy, Objects, Connections
<1>2. n = [o EXCEPT !.channel = p, !.pcs = [o.pcs EXCEPT ![p] = pc]]
  BY DEF AttachChannel, Tidy, Objects
<1>3. [o.pcs EXCEPT ![p] = pc] \in [Peers -> Connections]
  BY <1>1 DEF Tidy, Objects
<1>. HIDE DEF n, pc
<1>4. /\ n.pcs = [o.pcs EXCEPT ![p] = pc] /\ n.channel = p
      /\ n.peer = p /\ n.verified = o.verified /\ n.helloSent = o.helloSent
  BY <1>2 DEF Tidy, Objects
<1>5. n \in Objects
  BY <1>2, <1>3 DEF Tidy, Objects
<1>6. \A q \in Peers \ {p} : n.pcs[q] = o.pcs[q]
  BY <1>4 DEF Tidy, Objects
<1>. QED
  BY <1>4, <1>5, <1>6 DEF Tidy, Quiet, Same, n

(* sendHello sets its flag if the channel is open.                         *)
LEMMA HelloTidy ==
    ASSUME NEW o, Tidy(o)
    PROVE  LET n == SendHello(o)
           IN  /\ Tidy(n) /\ n.peer = o.peer /\ n.verified = o.verified
               /\ n.helloSent = (o.helloSent \/ SendsHello(o))
<1>. DEFINE to == IF o.verified THEN "connected" ELSE "verifying"
            n  == [o EXCEPT !.helloSent = TRUE, !.state = to]
<1>1. CASE ~SendsHello(o)
  <2>1. SendHello(o) = o
    BY <1>1 DEF SendHello
  <2>2. o.helloSent \in BOOLEAN
    BY DEF Tidy, Objects
  <2>. QED
    BY <1>1, <2>1, <2>2
<1>2. CASE SendsHello(o)
  <2>1. SendHello(o) = n
    BY <1>2 DEF SendHello
  <2>2. to \in States
    BY DEF States
  <2>. HIDE DEF to
  <2>3. n \in Objects
    BY <2>2 DEF Tidy, Objects
  <2>4. /\ n.peer = o.peer /\ n.channel = o.channel /\ n.pcs = o.pcs
        /\ n.verified = o.verified /\ n.helloSent
    BY DEF Tidy, Objects
  <2>. HIDE DEF n
  <2>. QED
    BY <1>2, <2>1, <2>3, <2>4 DEF Tidy, Quiet
<1>. QED
  BY <1>1, <1>2

(* sendCapabilitiesIfReady changes no more than its flag.                  *)
LEMMA CapabilitiesTidy ==
    ASSUME NEW o, Tidy(o)
    PROVE  Tidy(SendCapabilities(o)) /\ Same(SendCapabilities(o), o)
BY DEF SendCapabilities, Tidy, Objects, Quiet, Same

(* The flush of candidates changes no more than their sets.                *)
LEMMA FlushTidy ==
    ASSUME NEW o, Tidy(o)
    PROVE  Tidy(FlushCandidates(o)) /\ Same(FlushCandidates(o), o)
<1>1. {<<o.peer, c>> : c \in o.pending} \subseteq Nat \X Nat
  BY PeerBounds DEF Tidy, Objects
<1>. DEFINE more == {<<o.peer, c>> : c \in o.pending}
<1>. HIDE DEF more
<1>2. more \subseteq Nat \X Nat /\ FlushCandidates(o) \in {o, [o EXCEPT !.pending = {}, !.added = @ \cup more]}
  BY <1>1 DEF FlushCandidates, more
<1>. QED
  BY <1>2 DEF Tidy, Objects, Quiet, Same

-----------------------------------------------------------------------------
(* The steps.                                                              *)

\* What was sent and heard over the current connection.
Greeted(o, spoken, listened) ==
    /\ o.verified => o.helloSent /\ o.peer \in Peers /\ "hello" \in listened[o.peer]
    /\ o.helloSent => /\ o.peer \in Peers
                      /\ \E k \in 1..Len(spoken[o.peer]) : spoken[o.peer][k] = "hello"

CallsOK ==
    /\ dial \in Calls /\ handler \in Calls
    /\ dial.at # "idle" => dial.peer \in Peers
    /\ handler.at # "idle" => handler.peer \in Peers
    /\ theirs \in Nat
    /\ made \in [offers : Nat, theirs : Nat, ice : Nat, taken : Nat]

TalkOK == said \in [Peers -> Seq(Messages)] /\ heard \in [Peers -> SUBSET (Messages \cup {"more"})]

IInv == CallsOK /\ TalkOK /\ Tidy(self) /\ Greeted(self, said, heard)

(* A hello that is continued on its connection, or begun anew, is one.     *)
LEMMA GreetedContinues ==
    ASSUME NEW o, NEW n, NEW spoken, NEW listened, Greeted(o, spoken, listened), Continues(n, o)
    PROVE  Greeted(n, spoken, listened)
BY DEF Greeted, Continues

(* The object begins closed.                                               *)
LEMMA InitInv == Init => IInv
<1>. SUFFICES ASSUME Init  PROVE IInv
  OBVIOUS
<1>1. Fresh \in Connections /\ Fresh.conn = "none" /\ Fresh.chan = "none"
  BY DEF Fresh, Connections
<1>. DEFINE none == [p \in Peers |-> Fresh]
<1>2. none \in [Peers -> Connections] /\ \A p \in Peers : none[p] = Fresh
  BY <1>1
<1>. HIDE DEF none
<1>3. 0 \in 0..MaxPeers
  BY PeerBounds
<1>4. self = [state |-> "idle", peer |-> 0, channel |-> 0, count |-> 0,
              helloSent |-> FALSE, capsSent |-> FALSE, verified |-> FALSE, caps |-> "unknown",
              closedByUser |-> FALSE, pending |-> {}, added |-> {}, pcs |-> none]
  BY DEF Init, none
<1>5. self \in Objects
  BY <1>2, <1>3, <1>4 DEF Objects, States
<1>6. Tidy(self)
  BY <1>1, <1>2, <1>4, <1>5 DEF Tidy, Quiet, Over
<1>7. Greeted(self, said, heard)
  BY <1>4 DEF Greeted
<1>8. CallsOK /\ TalkOK
  BY <1>3 DEF Init, CallsOK, TalkOK, Calls, Idle
<1>. QED
  BY <1>6, <1>7, <1>8 DEF IInv

(* A step that says and hears nothing keeps the invariant if it leaves a   *)
(* tidy object that continues the hello.                                   *)
LEMMA Silent ==
    ASSUME IInv, Tidy(self'), Continues(self', self), CallsOK', UNCHANGED Talk
    PROVE  IInv'
BY GreetedContinues DEF IInv, TalkOK, Talk, Greeted, Continues

(* A new attempt: ensurePeer, with the state set to connecting.         *)
LEMMA AttemptTidy ==
    ASSUME NEW o, Tidy(o), NEW again \in BOOLEAN, o.peer = 0 \/ again => CanMake(o)
    PROVE  LET n == [EnsurePeer(o, again) EXCEPT !.closedByUser = FALSE, !.state = "connecting"]
           IN  Tidy(n) /\ n.peer \in Peers /\ Continues(n, o)
<1>. DEFINE e == EnsurePeer(o, again)
<1>1. Tidy(e) /\ e.peer \in Peers /\ Continues(e, o)
  BY EnsureTidy
<1>. HIDE DEF e
<1>. DEFINE n == [e EXCEPT !.closedByUser = FALSE, !.state = "connecting"]
<1>2. Tidy(n) /\ Same(n, e)
  BY <1>1 DEF Tidy, Objects, Quiet, Same, States
<1>. QED
  BY <1>1, <1>2 DEF Continues, Same, e

(* connect() begins with a current connection that has a channel.          *)
LEMMA DialKeeps == IInv /\ Dial => IInv'
<1>. SUFFICES ASSUME IInv, Dial  PROVE IInv'
  OBVIOUS
<1>. DEFINE again == RecreateForConnect(self)
            o == [EnsurePeer(self, again) EXCEPT !.closedByUser = FALSE, !.state = "connecting"]
<1>1. /\ self.peer = 0 \/ again => CanMake(self)
      /\ self' = IF o.channel = 0 THEN AttachChannel(o, o.peer) ELSE o
      /\ dial' = [peer |-> o.peer, s |-> 0, at |-> "offer"]
      /\ UNCHANGED <<handler, Environment, Talk, faults>>
  BY DEF Dial
<1>2. again \in BOOLEAN
  BY DEF RecreateForConnect
<1>3. Tidy(o) /\ o.peer \in Peers /\ Continues(o, self)
  BY <1>1, <1>2, AttemptTidy DEF IInv
<1>. HIDE DEF o, again
<1>4. Tidy(self') /\ Continues(self', self)
  BY <1>1, <1>3, AttachTidy DEF Continues, Same
<1>5. CallsOK'
  BY <1>1, <1>3, PeerBounds DEF IInv, CallsOK, Calls, Peers, Environment
<1>. QED
  BY <1>1, <1>4, <1>5, Silent

(* The rest of connect().                                                  *)
LEMMA OfferKeeps == IInv /\ (OfferMade \/ OfferEmitted) => IInv'
<1>. SUFFICES ASSUME IInv, OfferMade \/ OfferEmitted  PROVE IInv'
  OBVIOUS
<1>1. CASE OfferEmitted
  <2>1. UNCHANGED <<self, handler, theirs, made, Talk>> /\ dial' = Idle
    BY <1>1 DEF OfferEmitted
  <2>2. CallsOK'
    BY <2>1, PeerBounds DEF IInv, CallsOK, Calls, Idle
  <2>. QED
    BY <2>1, <2>2, Silent DEF IInv, Continues
<1>2. CASE OfferMade
  <2>. DEFINE p == dial.peer
              n == made.offers + 1
              pc == [self.pcs[p] EXCEPT !.local = n, !.signaling = "have-local-offer"]
  <2>1. CASE self.pcs[p].conn = "closed"
    <3>1. UNCHANGED <<self, made, handler, theirs, Talk>> /\ dial' = Idle
      BY <1>2, <2>1 DEF OfferMade
    <3>2. CallsOK'
      BY <3>1, PeerBounds DEF IInv, CallsOK, Calls, Idle
    <3>. QED
      BY <3>1, <3>2, Silent DEF IInv, Continues
  <2>2. CASE self.pcs[p].conn # "closed"
    <3>1. /\ p \in Peers /\ self \in Objects /\ self.pcs[p] \in Connections
          /\ self.pcs \in [Peers -> Connections] /\ n \in Nat /\ dial \in Calls
      BY <1>2 DEF IInv, Tidy, Objects, OfferMade, CallsOK, n
    <3>0. OfferMade /\ self.pcs[p].conn # "closed"
      BY <1>2, <2>2
    <3>. HIDE DEF n
    <3>2. /\ pc \in Connections /\ pc.conn = self.pcs[p].conn /\ pc.chan = self.pcs[p].chan
      BY <3>1 DEF Connections
    <3>3. /\ self' = [self EXCEPT !.pcs = [self.pcs EXCEPT ![p] = pc]]
          /\ made' = [made EXCEPT !.offers = @ + 1]
          /\ dial' = [dial EXCEPT !.s = n, !.at = "emit"]
          /\ UNCHANGED <<handler, theirs, Talk>>
      <4>1. /\ self' = [self EXCEPT !.pcs[p].local = n,
                                    !.pcs[p].signaling = "have-local-offer"]
            /\ made' = [made EXCEPT !.offers = @ + 1]
            /\ dial' = [dial EXCEPT !.s = n, !.at = "emit"]
            /\ UNCHANGED <<handler, theirs, Talk>>
        BY <3>0 DEF OfferMade, n
      <4>2. [self EXCEPT !.pcs[p].local = n, !.pcs[p].signaling = "have-local-offer"]
              = [self EXCEPT !.pcs = [self.pcs EXCEPT ![p] = pc]]
        BY <3>1 DEF Objects
      <4>. QED
        BY <4>1, <4>2
    <3>4. [self.pcs EXCEPT ![p] = pc] \in [Peers -> Connections]
      BY <3>1, <3>2
    <3>. HIDE DEF pc, p
    <3>5. /\ self' \in Objects /\ self'.pcs = [self.pcs EXCEPT ![p] = pc]
          /\ self'.channel = self.channel /\ Same(self', self)
      BY <3>1, <3>3, <3>4 DEF Objects, Same
    <3>6. Tidy(self')
      BY <3>1, <3>2, <3>5, ChangedTidy DEF IInv, Tidy, Quiet, Same
    <3>7. CallsOK'
      <4>1. /\ dial' \in Calls /\ dial'.peer = dial.peer
        BY <3>1, <3>3 DEF Calls
      <4>2. made' \in [offers : Nat, theirs : Nat, ice : Nat, taken : Nat]
        BY <3>3 DEF IInv, CallsOK
      <4>. QED
        BY <3>1, <3>3, <4>1, <4>2 DEF IInv, CallsOK, p
    <3>. QED
      BY <3>3, <3>5, <3>6, <3>7, Silent DEF Continues, Same
  <2>. QED
    BY <2>1, <2>2
<1>. QED
  BY <1>1, <1>2

(* A signal is taken: perhaps with a new connection.                       *)
LEMMA TakeKeeps ==
    ASSUME IInv, NEW s \in Sessions, TakeOffer(s) \/ TakeAnswer(s) \/ TakeIce(s)
    PROVE  IInv'
<1>0. s \in Nat /\ 0 \in 0..MaxPeers /\ Peers \subseteq 0..MaxPeers
  BY PeerBounds DEF Sessions, Mine, Theirs, Peers
<1>1. CASE TakeOffer(s)
  <2>. DEFINE again == RecreateForOffer(self, s)
              o == [EnsurePeer(self, again) EXCEPT !.closedByUser = FALSE, !.state = "connecting"]
  <2>1. /\ self.peer = 0 \/ again => CanMake(self)
        /\ self' \in {o, FlushCandidates(o)}
        /\ handler'.peer = o.peer /\ handler' \in [peer : {o.peer}, s : {s}, at : {"emit", "answer", "remote"}]
        /\ UNCHANGED <<dial, theirs, made, Talk>>
    BY <1>1 DEF TakeOffer
  <2>2. again \in BOOLEAN
    BY DEF RecreateForOffer
  <2>3. Tidy(o) /\ o.peer \in Peers /\ Continues(o, self)
    BY <2>1, <2>2, AttemptTidy DEF IInv
  <2>. HIDE DEF o, again
  <2>4. Tidy(self') /\ Continues(self', self)
    BY <2>1, <2>3, FlushTidy DEF Continues, Same
  <2>5. CallsOK'
    BY <1>0, <2>1, <2>3 DEF IInv, CallsOK, Calls
  <2>. QED
    BY <2>1, <2>4, <2>5, Silent
<1>. DEFINE o == EnsurePeer(self, FALSE)
<1>2. ASSUME self.peer = 0 => CanMake(self)
      PROVE  Tidy(o) /\ o.peer \in Peers /\ Continues(o, self)
  BY <1>2, EnsureTidy DEF IInv
<1>3. CASE TakeAnswer(s)
  <2>1. /\ self.peer = 0 => CanMake(self)
        /\ self' = o /\ handler' = [peer |-> o.peer, s |-> s, at |-> "apply"]
        /\ UNCHANGED <<dial, theirs, made, Talk>>
    BY <1>3 DEF TakeAnswer
  <2>2. CallsOK'
    BY <1>0, <1>2, <2>1 DEF IInv, CallsOK, Calls
  <2>. QED
    BY <1>2, <2>1, <2>2, Silent
<1>4. CASE TakeIce(s)
  <2>1. /\ self.peer = 0 => CanMake(self)
        /\ self' \in {[o EXCEPT !.added = @ \cup {<<o.peer, s>>}], [o EXCEPT !.pending = @ \cup {s}]}
        /\ UNCHANGED <<dial, handler, theirs, made, Talk>>
    BY <1>4 DEF TakeIce
  <2>2. Tidy(o) /\ o.peer \in Peers /\ Continues(o, self)
    BY <1>2, <2>1
  <2>. HIDE DEF o
  <2>3. /\ Tidy([o EXCEPT !.added = @ \cup {<<o.peer, s>>}])
        /\ Same([o EXCEPT !.added = @ \cup {<<o.peer, s>>}], o)
    BY <1>0, <2>2 DEF Tidy, Objects, Quiet, Same
  <2>4. /\ Tidy([o EXCEPT !.pending = @ \cup {s}])
        /\ Same([o EXCEPT !.pending = @ \cup {s}], o)
    BY <1>0, <2>2 DEF Tidy, Objects, Quiet, Same
  <2>5. Tidy(self') /\ Continues(self', self)
    BY <2>1, <2>2, <2>3, <2>4 DEF Same, Continues
  <2>6. CallsOK'
    BY <2>1 DEF IInv, CallsOK
  <2>. QED
    BY <2>1, <2>5, <2>6, Silent
<1>. QED
  BY <1>1, <1>3, <1>4

(* New descriptions of a connection neither open nor close it.             *)
LEMMA DescribedTidy ==
    ASSUME NEW o, Tidy(o), NEW p \in Peers, NEW v \in Nat,
           NEW w \in {"stable", "have-local-offer", "have-remote-offer"}
    PROVE  LET l == [o EXCEPT !.pcs[p].local = v, !.pcs[p].signaling = w]
               r == [o EXCEPT !.pcs[p].remote = v, !.pcs[p].signaling = w]
           IN  Tidy(l) /\ Same(l, o) /\ Tidy(r) /\ Same(r, o)
<1>1. o \in Objects /\ o.pcs \in [Peers -> Connections] /\ o.pcs[p] \in Connections
  BY DEF Tidy, Objects
<1>2. ASSUME NEW pc \in Connections, pc.conn = o.pcs[p].conn, pc.chan = o.pcs[p].chan,
             NEW n, n = [o EXCEPT !.pcs = [o.pcs EXCEPT ![p] = pc]]
      PROVE  Tidy(n) /\ Same(n, o)
  <2>1. [o.pcs EXCEPT ![p] = pc] \in [Peers -> Connections]
    BY <1>1
  <2>2. /\ n \in Objects /\ n.pcs = [o.pcs EXCEPT ![p] = pc]
        /\ n.channel = o.channel /\ Same(n, o)
    BY <1>1, <1>2, <2>1 DEF Objects, Same
  <2>. QED
    BY <1>2, <2>2, ChangedTidy DEF Tidy, Quiet, Same
<1>3. /\ [o.pcs[p] EXCEPT !.local = v, !.signaling = w] \in Connections
      /\ [o.pcs[p] EXCEPT !.remote = v, !.signaling = w] \in Connections
  BY <1>1 DEF Connections
<1>4. [o EXCEPT !.pcs[p].local = v, !.pcs[p].signaling = w]
        = [o EXCEPT !.pcs = [o.pcs EXCEPT ![p] = [o.pcs[p] EXCEPT !.local = v, !.signaling = w]]]
  BY <1>1 DEF Objects
<1>5. [o EXCEPT !.pcs[p].remote = v, !.pcs[p].signaling = w]
        = [o EXCEPT !.pcs = [o.pcs EXCEPT ![p] = [o.pcs[p] EXCEPT !.remote = v, !.signaling = w]]]
  BY <1>1 DEF Objects
<1>6. /\ [o.pcs[p] EXCEPT !.local = v, !.signaling = w].conn = o.pcs[p].conn
      /\ [o.pcs[p] EXCEPT !.local = v, !.signaling = w].chan = o.pcs[p].chan
      /\ [o.pcs[p] EXCEPT !.remote = v, !.signaling = w].conn = o.pcs[p].conn
      /\ [o.pcs[p] EXCEPT !.remote = v, !.signaling = w].chan = o.pcs[p].chan
  BY <1>1 DEF Connections
<1>. QED
  BY <1>2, <1>3, <1>4, <1>5, <1>6

(* The handler of an offer or an answer goes on.                           *)
LEMMA HandlingKeeps == IInv /\ Handling => IInv'
<1>. SUFFICES ASSUME IInv, Handling  PROVE IInv'
  OBVIOUS
<1>. DEFINE p == handler.peer
<1>1. /\ p \in Peers /\ handler.s \in Nat /\ handler \in Calls /\ Tidy(self)
      /\ UNCHANGED <<dial, theirs, made, Talk>>
  BY DEF IInv, CallsOK, Calls, Handling, RemoteSet, AnswerMade, AnswerEmitted, AnswerApplied,
         Environment
<1>2. /\ handler' \in Calls
      /\ handler'.at # "idle" => handler'.peer \in Peers
  <2>1. handler' \in {Idle, [handler EXCEPT !.at = "answer"], [handler EXCEPT !.at = "emit"]}
    BY DEF Handling, RemoteSet, AnswerMade, AnswerEmitted, AnswerApplied
  <2>2. Idle \in Calls /\ Idle.at = "idle"
    BY PeerBounds DEF Idle, Calls
  <2>3. /\ [handler EXCEPT !.at = "answer"] \in Calls /\ [handler EXCEPT !.at = "answer"].peer = p
        /\ [handler EXCEPT !.at = "emit"] \in Calls /\ [handler EXCEPT !.at = "emit"].peer = p
    BY <1>1 DEF Calls
  <2>. QED
    BY <1>1, <2>1, <2>2, <2>3
<1>3. CallsOK'
  BY <1>1, <1>2 DEF IInv, CallsOK
<1>. DEFINE r(w) == [self EXCEPT !.pcs[p].remote = handler.s, !.pcs[p].signaling = w]
            l == [self EXCEPT !.pcs[p].local = handler.s, !.pcs[p].signaling = "stable"]
<1>4. /\ Tidy(l) /\ Same(l, self)
      /\ Tidy(r("stable")) /\ Same(r("stable"), self)
      /\ Tidy(r("have-remote-offer")) /\ Same(r("have-remote-offer"), self)
  BY <1>1, DescribedTidy
<1>5. self' \in {self, l, FlushCandidates(r("stable")), FlushCandidates(r("have-remote-offer"))}
  <2>1. CASE RemoteSet
    BY <2>1 DEF RemoteSet
  <2>2. CASE AnswerMade
    BY <2>2 DEF AnswerMade
  <2>3. CASE AnswerEmitted \/ AnswerApplied
    BY <2>3 DEF AnswerEmitted, AnswerApplied
  <2>. QED
    BY <2>1, <2>2, <2>3 DEF Handling
<1>. HIDE DEF l, r
<1>6. Tidy(self') /\ Same(self', self)
  BY <1>1, <1>4, <1>5, FlushTidy DEF Same
<1>. QED
  BY <1>1, <1>3, <1>6, Silent DEF Same, Continues

(* The other end touches no object.                                        *)
LEMMA RemoteKeeps == IInv /\ Remote => IInv'
<1>. SUFFICES ASSUME IInv, Remote  PROVE IInv'
  OBVIOUS
<1>1. /\ UNCHANGED <<self, dial, handler, Talk>>
      /\ theirs' \in Nat
      /\ made' \in [offers : Nat, theirs : Nat, ice : Nat, taken : Nat]
  BY PeerBounds DEF Remote, RemoteAnswers, RemoteOffers, RemoteIce, IInv, CallsOK, Mine
<1>2. CallsOK'
  BY <1>1 DEF IInv, CallsOK
<1>. QED
  BY <1>1, <1>2, Silent DEF IInv, Continues

(* A connection that closes or fails, or close().                          *)
LEMMA BreakingKeeps == IInv /\ Breaking => IInv'
<1>. SUFFICES ASSUME IInv, Breaking  PROVE IInv'
  OBVIOUS
<1>1. UNCHANGED <<dial, handler, theirs, made, Talk>>
  BY DEF Breaking, Close, ChannelCloses, ConnectionFails, ConnectionWavers, Environment
<1>2. CallsOK'
  BY <1>1 DEF IInv, CallsOK
<1>3. Tidy(self) /\ self \in Objects /\ \A p \in Peers : self.pcs[p] \in Connections
  BY DEF IInv, Tidy, Objects
<1>4. CASE Close
  <2>. DEFINE d == Disposed(self, "disconnected")
  <2>1. Tidy(d) /\ ~d.verified /\ ~d.helloSent
    BY <1>3, DisposedTidy DEF States
  <2>2. self' = [d EXCEPT !.closedByUser = TRUE]
    BY <1>4 DEF Close
  <2>. HIDE DEF d
  <2>3. Tidy(self') /\ Same(self', d)
    BY <2>1, <2>2 DEF Tidy, Objects, Quiet, Same
  <2>. QED
    BY <1>1, <1>2, <2>1, <2>3, Silent DEF Same, Continues
<1>5. CASE ConnectionFails
  <2>1. self' = Disposed(self, "failed")
    BY <1>5 DEF ConnectionFails
  <2>2. Tidy(self') /\ ~self'.verified /\ ~self'.helloSent
    BY <1>3, <2>1, DisposedTidy DEF States
  <2>. QED
    BY <1>1, <1>2, <2>2, Silent DEF Continues
<1>6. CASE ChannelCloses
  <2>. DEFINE p == self.channel
              pc == [self.pcs[p] EXCEPT !.chan = "closed"]
              o == [self EXCEPT !.pcs[p].chan = "closed", !.channel = 0]
  <2>1. p = self.peer /\ p \in Peers /\ self' \in {o, Disposed(o, "disconnected")}
    BY <1>3, <1>6 DEF ChannelCloses, Objects, Peers
  <2>2. pc \in Connections /\ [self.pcs EXCEPT ![p] = pc] \in [Peers -> Connections]
    BY <1>3, <2>1 DEF Connections, Objects
  <2>3. o = [self EXCEPT !.pcs = [self.pcs EXCEPT ![p] = pc], !.channel = 0]
    BY <1>3, <2>1 DEF Objects
  <2>. HIDE DEF p, pc, o
  <2>4. /\ o \in Objects /\ o.pcs = [self.pcs EXCEPT ![p] = pc] /\ o.channel = 0 /\ Same(o, self)
    <3>1. 0 \in 0..MaxPeers
      BY PeerBounds
    <3>. QED
      BY <1>3, <2>2, <2>3, <3>1 DEF Objects, Same
  <2>5. \A q \in Peers \ {p} : o.pcs[q] = self.pcs[q]
    BY <1>3, <2>4 DEF Objects
  <2>6. Tidy(o)
    BY <1>3, <2>1, <2>4, <2>5 DEF Tidy, Quiet, Same
  <2>7. Tidy(self') /\ Continues(self', self)
    BY <2>1, <2>4, <2>6, DisposedTidy DEF Same, Continues, States
  <2>. QED
    BY <1>1, <1>2, <2>7, Silent
<1>7. CASE ConnectionWavers
  <2>. DEFINE p == self.peer
  <2>1. PICK c \in {"connected", "disconnected"}, st \in States :
             p \in Peers /\ self' = [self EXCEPT !.pcs[p].conn = c, !.state = st]
    <3>1. p \in Peers
      BY <1>3, <1>7 DEF ConnectionWavers, Objects, Peers
    <3>2. CASE self' = [self EXCEPT !.pcs[p].conn = "disconnected", !.state = "disconnected"]
      BY <3>1, <3>2 DEF States
    <3>3. CASE self' = [self EXCEPT !.pcs[p].conn = "connected"]
      <4>1. self' = [self EXCEPT !.pcs[p].conn = "connected", !.state = self.state]
        BY <1>3, <3>3 DEF Objects
      <4>. QED
        BY <1>3, <3>1, <4>1 DEF Objects
    <3>. QED
      BY <1>7, <3>2, <3>3 DEF ConnectionWavers
  <2>. DEFINE pc == [self.pcs[p] EXCEPT !.conn = c]
  <2>2. pc \in Connections /\ [self.pcs EXCEPT ![p] = pc] \in [Peers -> Connections]
    BY <1>3, <2>1 DEF Connections, Objects
  <2>3. self' = [self EXCEPT !.pcs = [self.pcs EXCEPT ![p] = pc], !.state = st]
    BY <1>3, <2>1 DEF Objects
  <2>. HIDE DEF pc
  <2>4. /\ self' \in Objects /\ self'.pcs = [self.pcs EXCEPT ![p] = pc]
        /\ self'.channel = self.channel /\ Same(self', self)
    BY <1>3, <2>2, <2>3 DEF Objects, Same
  <2>5. Tidy(self')
    BY <1>3, <2>1, <2>2, <2>4, ChangedTidy DEF Same
  <2>. QED
    BY <1>1, <1>2, <2>4, <2>5, Silent DEF Same, Continues
<1>. QED
  BY <1>4, <1>5, <1>6, <1>7 DEF Breaking

\* A hello is among what was said.
Hello(q) == \E k \in 1..Len(q) : q[k] = "hello"

(* What was said stays said.                                               *)
LEMMA SaidMore ==
    ASSUME NEW q \in Seq(Messages), NEW r \in Seq(Messages)
    PROVE  /\ q \o r \in Seq(Messages)
           /\ Hello(q) => Hello(q \o r)
           /\ Hello(r) => Hello(q \o r)
<1>1. /\ q \o r \in Seq(Messages) /\ Len(q \o r) = Len(q) + Len(r)
      /\ Len(q) \in Nat /\ Len(r) \in Nat
  OBVIOUS
<1>2. \A k \in 1..Len(q) : k \in 1..Len(q \o r) /\ (q \o r)[k] = q[k]
  BY <1>1
<1>3. \A k \in 1..Len(r) : Len(q) + k \in 1..Len(q \o r) /\ (q \o r)[Len(q) + k] = r[k]
  BY <1>1
<1>4. Hello(q) => Hello(q \o r)
  BY <1>2 DEF Hello
<1>5. Hello(r) => Hello(q \o r)
  BY <1>3 DEF Hello
<1>. QED
  BY <1>1, <1>4, <1>5

(* The pieces that are said.                                               *)
LEMMA Pieces ==
    ASSUME NEW b \in BOOLEAN
    PROVE  /\ (IF b THEN <<"hello">> ELSE <<>>) \in Seq(Messages)
           /\ b => Hello(IF b THEN <<"hello">> ELSE <<>>)
           /\ (IF b THEN <<"capabilities">> ELSE <<>>) \in Seq(Messages)
<1>1. <<"hello">> \in Seq(Messages) /\ <<"capabilities">> \in Seq(Messages) /\ <<>> \in Seq(Messages)
  BY DEF Messages
<1>2. Hello(<<"hello">>)
  BY DEF Hello
<1>. QED
  BY <1>1, <1>2

(* A channel arrives, or opens and greets.                                 *)
LEMMA OpeningKeeps == IInv /\ Opening => IInv'
<1>. SUFFICES ASSUME IInv, Opening  PROVE IInv'
  OBVIOUS
<1>1. UNCHANGED <<dial, handler, theirs, made>>
  BY DEF Opening, ChannelArrives, ChannelOpens, Environment
<1>2. CallsOK'
  BY <1>1 DEF IInv, CallsOK
<1>3. /\ Tidy(self) /\ self \in Objects /\ \A p \in Peers : self.pcs[p] \in Connections
      /\ theirs \in Nat
  BY DEF IInv, Tidy, Objects, CallsOK
<1>4. CASE ChannelArrives
  <2>1. /\ self.peer \in Peers /\ self' = AttachChannel(self, self.peer) /\ UNCHANGED Talk
    BY <1>3, <1>4 DEF ChannelArrives, Objects, Peers
  <2>. QED
    BY <1>2, <1>3, <2>1, AttachTidy, Silent DEF Same, Continues
<1>5. CASE ChannelOpens
  <2>. DEFINE p == self.channel
              o == [self EXCEPT !.pcs[p].chan = "open", !.pcs[p].conn = "connected",
                                !.pcs[p].via = theirs, !.state = "channel-open"]
              pc == [self.pcs[p] EXCEPT !.chan = "open", !.conn = "connected", !.via = theirs]
              piece == IF SendsHello(o) THEN <<"hello">> ELSE <<>>
  <2>1. /\ p \in Peers /\ p = self.peer
        /\ self' = SendCapabilities(SendHello(o))
        /\ said' = [said EXCEPT ![p] = @ \o piece]
        /\ heard' = heard
    BY <1>3, <1>5 DEF ChannelOpens, Objects, Peers
  <2>2. pc \in Connections /\ [self.pcs EXCEPT ![p] = pc] \in [Peers -> Connections]
    <3>1. self.pcs[p] \in Connections
      BY <1>3, <2>1
    <3>2. pc \in Connections
      BY <1>3, <3>1 DEF Connections
    <3>. HIDE DEF pc
    <3>. QED
      BY <1>3, <3>2 DEF Objects
  <2>3. o = [self EXCEPT !.pcs = [self.pcs EXCEPT ![p] = pc], !.state = "channel-open"]
    <3>1. [self.pcs EXCEPT ![p] = pc]
            = [self.pcs EXCEPT ![p].chan = "open", ![p].conn = "connected", ![p].via = theirs]
      OBVIOUS
    <3>. QED
      BY <3>1
  <2>0. SendsHello(o) \in BOOLEAN
    BY DEF SendsHello, ChannelOpen
  <2>4. piece \in Seq(Messages) /\ (SendsHello(o) => Hello(piece))
    BY <2>0, Pieces
  <2>. HIDE DEF p, pc, o, piece
  <2>5. /\ o \in Objects /\ o.pcs = [self.pcs EXCEPT ![p] = pc]
        /\ o.channel = self.channel /\ Same(o, self)
    BY <1>3, <2>2, <2>3 DEF Objects, Same, States
  <2>6. Tidy(o)
    BY <1>3, <2>1, <2>2, <2>5, ChangedTidy DEF Same
  <2>7. /\ Tidy(self') /\ self'.peer = p /\ self'.verified = self.verified
        /\ self'.helloSent = (self.helloSent \/ SendsHello(o))
    BY <2>1, <2>5, <2>6, HelloTidy, CapabilitiesTidy DEF Same
  <2>8. /\ said'[p] \in Seq(Messages) /\ said' \in [Peers -> Seq(Messages)]
        /\ Hello(said[p]) \/ SendsHello(o) => Hello(said'[p])
    <3>1. said \in [Peers -> Seq(Messages)] /\ said[p] \in Seq(Messages)
      BY <2>1 DEF IInv, TalkOK
    <3>2. said[p] \o piece \in Seq(Messages)
          /\ (Hello(said[p]) \/ SendsHello(o) => Hello(said[p] \o piece))
      BY <2>4, <3>1, SaidMore
    <3>. QED
      BY <2>1, <3>1, <3>2
  <2>9. Greeted(self', said', heard')
    BY <2>1, <2>7, <2>8 DEF IInv, Greeted, Hello
  <2>. QED
    BY <1>2, <2>1, <2>7, <2>8, <2>9 DEF IInv, TalkOK
<1>. QED
  BY <1>4, <1>5 DEF Opening

(* A hello is heard, and answered if that was not done.                    *)
LEMMA HelloKeeps == IInv /\ HearHello => IInv'
<1>. SUFFICES ASSUME IInv, HearHello  PROVE IInv'
  OBVIOUS
<1>1. UNCHANGED <<dial, handler, theirs, made>>
  BY DEF HearHello, Environment
<1>2. CallsOK'
  BY <1>1 DEF IInv, CallsOK
<1>. DEFINE p == self.channel
            v == [self EXCEPT !.verified = TRUE]
            o == [SendHello(v) EXCEPT !.state = "connected"]
            first == IF SendsHello(v) THEN <<"hello">> ELSE <<>>
            second == IF SendsCapabilities(o) THEN <<"capabilities">> ELSE <<>>
<1>3. Tidy(self) /\ self \in Objects
  BY DEF IInv, Tidy
<1>4. /\ p \in Peers /\ p = self.peer /\ ChannelOpen(self)
      /\ self' = SendCapabilities(o)
      /\ said' = [said EXCEPT ![p] = @ \o first \o second]
      /\ heard' = [heard EXCEPT ![p] = @ \cup {"hello"}]
  BY <1>3 DEF HearHello, ChannelOpen, Objects, Peers
<1>5. /\ Tidy(v) /\ v.peer = p /\ v.verified /\ v.helloSent = self.helloSent /\ ChannelOpen(v)
  BY <1>3, <1>4 DEF Tidy, Objects, Quiet, ChannelOpen
<1>6. /\ first \in Seq(Messages) /\ second \in Seq(Messages)
      /\ SendsHello(v) => Hello(first)
  <2>1. SendsHello(v) \in BOOLEAN /\ SendsCapabilities(o) \in BOOLEAN
    BY DEF SendsHello, SendsCapabilities, ChannelOpen
  <2>. QED
    BY <2>1, Pieces
<1>7. SendsHello(v) = ~self.helloSent
  BY <1>3, <1>5 DEF SendsHello, Objects
<1>. DEFINE h == SendHello(v)
<1>8. Tidy(h) /\ h.peer = p /\ h.verified /\ h.helloSent
  BY <1>3, <1>5, <1>7, HelloTidy DEF Objects
<1>. HIDE DEF h, v, first, second
<1>9. Tidy(o) /\ o.peer = p /\ o.verified /\ o.helloSent
  <2>1. o = [h EXCEPT !.state = "connected"]
    BY DEF h
  <2>. HIDE DEF o
  <2>. QED
    BY <1>8, <2>1 DEF Tidy, Objects, Quiet, States
<1>. HIDE DEF p, o
<1>10. Tidy(self') /\ self'.peer = p /\ self'.verified /\ self'.helloSent
  BY <1>4, <1>9, CapabilitiesTidy DEF Same
<1>11. said' \in [Peers -> Seq(Messages)] /\ Hello(said'[p])
  <2>1. said \in [Peers -> Seq(Messages)] /\ said[p] \in Seq(Messages)
    BY <1>4 DEF IInv, TalkOK
  <2>2. Hello(said[p]) \/ Hello(first)
    BY <1>3, <1>4, <1>6, <1>7 DEF IInv, Greeted, Hello, Objects
  <2>3. said[p] \o first \in Seq(Messages) /\ Hello(said[p] \o first)
    BY <1>6, <2>1, <2>2, SaidMore
  <2>4. said[p] \o first \o second \in Seq(Messages) /\ Hello(said[p] \o first \o second)
    BY <1>6, <2>3, SaidMore
  <2>. QED
    BY <1>4, <2>1, <2>4
<1>12. "hello" \in heard'[p] /\ heard' \in [Peers -> SUBSET (Messages \cup {"more"})]
  BY <1>4 DEF IInv, TalkOK, Messages
<1>13. Greeted(self', said', heard')
  BY <1>4, <1>10, <1>11, <1>12 DEF Greeted, Hello
<1>. QED
  BY <1>2, <1>10, <1>11, <1>12, <1>13 DEF IInv, TalkOK

(* Other messages come and go.                                             *)
LEMMA TalkKeeps ==
    ASSUME IInv, SendApp \/ \E m \in Messages : HearOther(m)
    PROVE  IInv'
<1>1. UNCHANGED <<dial, handler, theirs, made>>
  BY DEF SendApp, HearOther, Environment
<1>2. CallsOK'
  BY <1>1 DEF IInv, CallsOK
<1>3. Tidy(self) /\ self \in Objects
  BY DEF IInv, Tidy
<1>4. CASE SendApp
  <2>. DEFINE p == self.channel
  <2>1. self' = self /\ heard' = heard /\ p \in Peers /\ said' = [said EXCEPT ![p] = Append(@, "app")]
    BY <1>3, <1>4 DEF SendApp, IsReady, ChannelOpen, Objects, Peers
  <2>2. said \in [Peers -> Seq(Messages)] /\ "app" \in Messages
    BY DEF IInv, TalkOK, Messages
  <2>. HIDE DEF p
  <2>3. said' \in [Peers -> Seq(Messages)]
    BY <2>1, <2>2
  <2>4. \A q \in Peers : Hello(said[q]) => Hello(said'[q])
    <3>1. Hello(said[p]) => Hello(Append(said[p], "app"))
      BY <2>1, <2>2 DEF Hello
    <3>. QED
      BY <2>1, <2>2, <3>1
  <2>5. Greeted(self', said', heard')
    BY <2>1, <2>4 DEF IInv, Greeted, Hello
  <2>. QED
    BY <1>2, <1>3, <2>1, <2>3, <2>5 DEF IInv, TalkOK
<1>5. ASSUME NEW m \in Messages, HearOther(m)  PROVE IInv'
  <2>1. /\ self' \in {self, [self EXCEPT !.caps = m]}
        /\ self' # self => m \in {"capabilities", "narrow"}
        /\ heard' \in {heard, [heard EXCEPT ![self.channel] = @ \cup {"more"}]}
        /\ said' = said
    BY <1>5 DEF HearOther
  <2>2. Tidy(self') /\ Same(self', self)
    BY <1>3, <2>1 DEF Tidy, Objects, Quiet, Same
  <2>3. /\ heard' \in [Peers -> SUBSET (Messages \cup {"more"})]
        /\ \A q \in Peers : heard[q] \subseteq heard'[q]
    <3>1. heard \in [Peers -> SUBSET (Messages \cup {"more"})]
      BY DEF IInv, TalkOK
    <3>2. CASE heard' = heard
      BY <3>1, <3>2
    <3>3. CASE heard' = [heard EXCEPT ![self.channel] = @ \cup {"more"}]
      <4>. DEFINE c == self.channel
      <4>. HIDE DEF c
      <4>1. heard' = [heard EXCEPT ![c] = heard[c] \cup {"more"}]
        BY <3>3 DEF c
      <4>2. \A q \in Peers : heard'[q] = IF q = c THEN heard[q] \cup {"more"} ELSE heard[q]
        BY <3>1, <4>1
      <4>3. heard' = [q \in Peers |-> heard'[q]]
        BY <3>1, <4>1
      <4>4. \A q \in Peers : heard[q] \subseteq heard'[q] /\ heard'[q] \in SUBSET (Messages \cup {"more"})
        BY <3>1, <4>2
      <4>. QED
        BY <4>3, <4>4
    <3>. QED
      BY <2>1, <3>2, <3>3
  <2>4. Greeted(self', said', heard')
    BY <2>1, <2>2, <2>3 DEF IInv, Greeted, Same
  <2>. QED
    BY <1>2, <2>1, <2>2, <2>3, <2>4 DEF IInv, TalkOK
<1>. QED
  BY <1>4, <1>5

-----------------------------------------------------------------------------
(* The theorems.                                                           *)

(* A tidy object that continues its hello, in every reachable state.    *)
THEOREM PeerInvariance == Spec => []IInv
<1>1. IInv /\ [Next]_vars => IInv'
  <2>. SUFFICES ASSUME IInv, [Next]_vars  PROVE IInv'
    OBVIOUS
  <2>1. CASE Dialing
    BY <2>1, DialKeeps, OfferKeeps DEF Dialing
  <2>2. CASE Handling
    BY <2>2, HandlingKeeps
  <2>3. CASE Taking
    BY <2>3, TakeKeeps DEF Taking
  <2>4. CASE Remote
    BY <2>4, RemoteKeeps
  <2>5. CASE Opening
    BY <2>5, OpeningKeeps
  <2>6. CASE Talking
    BY <2>6, HelloKeeps, TalkKeeps DEF Talking
  <2>7. CASE Breaking
    BY <2>7, BreakingKeeps
  <2>8. CASE UNCHANGED vars
    BY <2>8 DEF vars, IInv, CallsOK, TalkOK, Greeted
  <2>. QED
    BY <2>1, <2>2, <2>3, <2>4, <2>5, <2>6, <2>7, <2>8 DEF Next
<1>. QED
  BY InitInv, <1>1, PTL DEF Spec

(* No connection is leaked (peer.ts:505, 820).                             *)
THEOREM NothingLeaked == Spec => []NoLeakedConnection
<1>1. IInv => NoLeakedConnection
  BY DEF IInv, Tidy, Quiet, NoLeakedConnection, Over
<1>. QED
  BY PeerInvariance, <1>1, PTL

(* A ready channel is mutual (peer.ts:251).                                *)
THEOREM ReadyMeansMutual == Spec => []ReadyIsMutual
<1>1. IInv => ReadyIsMutual
  BY DEF IInv, Tidy, Greeted, ReadyIsMutual, IsReady, ChannelOpen
<1>. QED
  BY PeerInvariance, <1>1, PTL


-----------------------------------------------------------------------------
(* The desktop's link to the pairing server.                               *)

Awaits == {"cancel", "check", "begin", "announce", "install", "failed", "dialing",
           "reading", "ended", "waiting", "sending", "cancelling", "arming"}
Flows == [kind : {"stream", "beat"}, gen : 1..MaxGen, at : Awaits]
Connects == [kind : {"connect"}, name : [command : Nat] \cup Timers, gen : 0..MaxGen, at : Awaits]

TypeOK ==
    /\ MaxGen \in Nat
    /\ tasks \subseteq Flows \cup Connects \cup Timers
    /\ timer \subseteq Timers
    /\ opens \in Nat
    /\ generation \in 0..MaxGen
    /\ \A c \in tasks \cap Connects : c.at \notin {"cancel", "check", "begin"} => c.gen # 0

\* Both handles are of the current generation, or none is kept.
HandlesCurrent == sseTask = heartbeatTask /\ sseTask \in {0, generation}

\* Who can abort the flow t, if anybody.
Owned(t, ts) ==
    \/ t.gen = sseTask
    \/ \E c \in ts : c.kind = "connect" /\ c.at = "install" /\ c.gen = t.gen

-----------------------------------------------------------------------------
(* Records of tasks.                                                       *)

(* The kinds of tasks are told apart by their field.                       *)
LEMMA Kinds ==
    /\ \A t \in Flows : t.kind \in {"stream", "beat"} /\ t.gen \in 1..MaxGen
    /\ \A t \in Connects : t.kind = "connect" /\ t.gen \in 0..MaxGen
    /\ \A t \in Timers : t.kind = "timer" /\ t.gen \in 1..MaxGen
BY DEF Flows, Connects, Timers

(* A task of the link has the type of its kind.                            *)
LEMMA KindOf ==
    ASSUME TypeOK, NEW t \in tasks
    PROVE  /\ t.kind \in {"stream", "beat"} => t \in Flows
           /\ t.kind = "connect" => t \in Connects
           /\ t.kind = "timer" => t \in Timers
BY Kinds DEF TypeOK

(* A task that goes on to its next await keeps its kind and generation.    *)
LEMMA MovedTask ==
    ASSUME TypeOK, NEW t \in tasks, t.kind # "timer", NEW at \in Awaits
    PROVE  LET u == [t EXCEPT !.at = at]
           IN  /\ u.kind = t.kind /\ u.gen = t.gen /\ u.at = at
               /\ t \in Flows => u \in Flows
               /\ t \in Connects => u \in Connects
               /\ Moved(t, at) = (tasks \ {t}) \cup {u}
BY KindOf, Kinds DEF Flows, Connects, Moved, TypeOK

(* With both handles equal, owning a flow is owning it by its generation.  *)
LEMMA OwnedFlows ==
    ASSUME HandlesCurrent, TypeOK
    PROVE  TasksOwned <=> \A t \in tasks : t.kind \in {"stream", "beat"} => Owned(t, tasks)
BY DEF TasksOwned, Owned, Kept, HandlesCurrent

(* The first three parts of the invariant speak of tasks and handles.      *)
Tasks == TypeOK /\ HandlesCurrent /\ TasksOwned

LinkIInv == Tasks /\ ConnectedMeansStream

(* Owning every flow in the next state, by its generation.                 *)
LEMMA OwnedNext ==
    ASSUME HandlesCurrent',
           \A t \in tasks' : t.kind \in {"stream", "beat"} =>
              \/ t.gen = sseTask'
              \/ \E c \in tasks' : c.kind = "connect" /\ c.at = "install" /\ c.gen = t.gen
    PROVE  TasksOwned'
BY DEF TasksOwned, Kept, HandlesCurrent

(* A task that goes on or ends, and takes the kept timer along or not,     *)
(* leaves every flow with its owner, unless it is a connect about to store *)
(* the handles.                                                            *)
LEMMA MoveKeeps ==
    ASSUME Tasks, UNCHANGED <<generation, sseTask, heartbeatTask, opens>>,
           NEW t \in tasks, t.kind # "timer", t.at # "install", NEW at \in Awaits,
           at \notin {"cancel", "check", "begin"} => t.gen # 0,
           tasks' = Moved(t, at) \/ tasks' = Ended(t) \/ tasks' = Moved(t, at) \ timer,
           timer' = timer \/ timer' = {}
    PROVE  Tasks'
<1> DEFINE u == [t EXCEPT !.at = at]
<1>1. /\ u.kind = t.kind /\ u.gen = t.gen /\ u.at = at
      /\ u \in Flows \cup Connects
      /\ Moved(t, at) = (tasks \ {t}) \cup {u}
  <2>1. t \in Flows \cup Connects
    BY Kinds DEF Tasks, TypeOK
  <2> QED BY <2>1, MovedTask DEF Tasks
<1> HIDE DEF u
<1>2. tasks' \subseteq (tasks \ {t}) \cup {u}
  BY <1>1 DEF Ended
<1>3. TypeOK'
  BY <1>1, <1>2 DEF Tasks, TypeOK
<1>4. HandlesCurrent'
  BY DEF Tasks, HandlesCurrent
<1>5. \A c \in tasks : c.kind = "connect" /\ c.at = "install" => c \in tasks'
  BY <1>1, Kinds DEF Tasks, TypeOK, Ended
<1>6. \A f \in tasks : f.kind \in {"stream", "beat"} => Owned(f, tasks)
  BY OwnedFlows DEF Tasks
<1>7. ASSUME NEW f \in tasks', f.kind \in {"stream", "beat"}
      PROVE  \/ f.gen = sseTask'
             \/ \E c \in tasks' : c.kind = "connect" /\ c.at = "install" /\ c.gen = f.gen
  <2>1. PICK g \in tasks : g.kind = f.kind /\ g.gen = f.gen
    BY <1>1, <1>2, <1>7
  <2> QED BY <1>5, <1>6, <1>7, <2>1 DEF Owned
<1>8. TasksOwned'
  BY <1>4, <1>7, OwnedNext
<1> QED BY <1>3, <1>4, <1>8 DEF Tasks

(* A step that adds a connect or a timer to the tasks, perhaps in the      *)
(* place of a timer or of a task whose failure was handled.                *)
LEMMA SpawnKeeps ==
    ASSUME Tasks, UNCHANGED <<generation, sseTask, heartbeatTask>>, opens' \in Nat,
           NEW u \in Timers \cup {c \in Connects : c.at \in {"cancel", "check"}},
           tasks' \subseteq tasks \cup {u}, timer' \subseteq Timers,
           \A c \in tasks : c.kind = "connect" /\ c.at = "install" => c \in tasks'
    PROVE  Tasks'
<1>1. TypeOK'
  BY Kinds DEF Tasks, TypeOK
<1>2. HandlesCurrent'
  BY DEF Tasks, HandlesCurrent
<1>3. \A f \in tasks : f.kind \in {"stream", "beat"} => Owned(f, tasks)
  BY OwnedFlows DEF Tasks
<1>4. ASSUME NEW f \in tasks', f.kind \in {"stream", "beat"}
      PROVE  \/ f.gen = sseTask'
             \/ \E c \in tasks' : c.kind = "connect" /\ c.at = "install" /\ c.gen = f.gen
  <2>1. f \in tasks
    BY <1>4, Kinds
  <2> QED BY <1>3, <1>4, <2>1 DEF Owned
<1>5. TasksOwned'
  BY <1>2, <1>4, OwnedNext
<1> QED BY <1>1, <1>2, <1>5 DEF Tasks

-----------------------------------------------------------------------------
(* The steps, as far as tasks and handles are concerned.                   *)

(* Closing aborts what the handles name, and forgets them.                 *)
LEMMA CloseKeeps == Tasks /\ UserClose => Tasks'
<1> SUFFICES ASSUME Tasks, UserClose PROVE Tasks'
  OBVIOUS
<1>1. /\ tasks' = (tasks \ Kept) \ timer
      /\ sseTask' = 0 /\ heartbeatTask' = 0 /\ timer' = {}
      /\ generation' = generation /\ opens' = opens
  BY DEF UserClose
<1>2. TypeOK' /\ HandlesCurrent'
  BY <1>1 DEF Tasks, TypeOK, HandlesCurrent
<1>3. \A f \in tasks : f.kind \in {"stream", "beat"} => f \in Kept \/ Owned(f, tasks \ Kept)
  BY DEF Tasks, TasksOwned, Owned, Kept
<1>4. \A c \in timer : c.kind = "timer"
  BY Kinds DEF Tasks, TypeOK
<1>5. \A f \in tasks' : f.kind \in {"stream", "beat"} =>
          \E c \in tasks' : c.kind = "connect" /\ c.at = "install" /\ c.gen = f.gen
  BY <1>1, <1>4 DEF Tasks, TasksOwned, Kept
<1> QED BY <1>2, <1>5, OwnedNext DEF Tasks

(* A connect that begins aborts what the handles name, too.                *)
LEMMA BeginKeeps ==
    ASSUME Tasks, NEW t \in tasks, t.kind = "connect", Begin(t)
    PROVE  Tasks'
<1> DEFINE n == Connect(t.name, generation', "announce")
<1>1. /\ t.at = "begin"
      /\ tasks' = (Ended(t) \ Kept) \cup {n}
      /\ sseTask' = 0 /\ heartbeatTask' = 0 /\ timer' = timer /\ opens' = opens
  BY DEF Begin, bounds
<1>2. generation' \in 1..MaxGen
  BY DEF Begin, Unused
<1>3. n \in Connects /\ n.kind = "connect" /\ n.gen # 0
  <2>1. t.name \in [command : Nat] \cup Timers
    BY KindOf DEF Tasks, Connects
  <2> QED BY <1>2, <2>1 DEF Tasks, TypeOK, Connect, Connects, Awaits
<1> HIDE DEF n
<1>4. TypeOK' /\ HandlesCurrent'
  BY <1>1, <1>2, <1>3 DEF Tasks, TypeOK, HandlesCurrent, Ended
<1>5. \A f \in tasks' : f.kind \in {"stream", "beat"} =>
          \E c \in tasks' : c.kind = "connect" /\ c.at = "install" /\ c.gen = f.gen
  BY <1>1, <1>3 DEF Tasks, TasksOwned, Kept, Ended
<1> QED BY <1>4, <1>5, OwnedNext DEF Tasks

(* A connect spawns its two flows and will store their handles.            *)
LEMMA AnnounceKeeps ==
    ASSUME Tasks, NEW t \in tasks, t.kind = "connect", Announce(t), reachable
    PROVE  Tasks'
<1> DEFINE u == [t EXCEPT !.at = "install"]
           s == Stream(t.gen, "dialing")
           b == Beat(t.gen, "waiting")
<1>1. /\ t.at = "announce" /\ t \in Connects /\ t.gen \in 1..MaxGen
      /\ UNCHANGED <<generation, sseTask, heartbeatTask, timer, opens>>
  <2>1. t \in Connects
    BY KindOf DEF Tasks
  <2> QED BY <2>1, Kinds DEF Announce, Tasks, TypeOK, state, bounds
<1>2. /\ u \in Connects /\ u.kind = "connect" /\ u.gen = t.gen /\ u.at = "install"
      /\ tasks' = ((tasks \ {t}) \cup {u}) \cup {s, b}
  BY <1>1, MovedTask DEF Tasks, Announce, Awaits
<1>3. /\ s \in Flows /\ b \in Flows /\ s.gen = t.gen /\ b.gen = t.gen
      /\ s.kind = "stream" /\ b.kind = "beat"
  BY <1>1 DEF Stream, Beat, Flows, Awaits
<1> HIDE DEF u, s, b
<1>4. TypeOK'
  BY <1>1, <1>2, <1>3, Kinds DEF Tasks, TypeOK
<1>5. HandlesCurrent'
  BY <1>1 DEF Tasks, HandlesCurrent
<1>6. \A f \in tasks : f.kind \in {"stream", "beat"} => Owned(f, tasks)
  BY OwnedFlows DEF Tasks
<1>7. \A f \in tasks' : f.kind \in {"stream", "beat"} =>
          \/ f.gen = sseTask'
          \/ \E c \in tasks' : c.kind = "connect" /\ c.at = "install" /\ c.gen = f.gen
  BY <1>1, <1>2, <1>3, <1>6 DEF Owned
<1> QED BY <1>4, <1>5, <1>7, OwnedNext DEF Tasks

(* The handles stored replace none that still names a task: they are those *)
(* of this generation already, or there are none.                          *)
LEMMA InstallKeeps ==
    ASSUME Tasks, NEW t \in tasks, t.kind = "connect", Install(t)
    PROVE  Tasks'
<1>1. /\ t.at = "install" /\ UNCHANGED <<generation, timer, opens>>
      /\ tasks' \subseteq tasks /\ t.gen # 0
  <2>1. t \in Connects
    BY KindOf DEF Tasks
  <2> QED BY <2>1 DEF Install, bounds, Ended, Tasks, TypeOK
<1>2. TypeOK'
  BY <1>1 DEF Tasks, TypeOK
<1>3. \A f \in tasks : f.kind \in {"stream", "beat"} => f.gen # 0 /\ Owned(f, tasks)
  BY OwnedFlows, KindOf, Kinds DEF Tasks
<1>4. CASE Current(t.gen)
  <2>1. sseTask' = t.gen /\ heartbeatTask' = t.gen /\ tasks' = tasks \ {t} /\ t.gen = generation
    BY <1>4 DEF Install, Current, Ended
  <2>2. HandlesCurrent'
    BY <1>1, <2>1 DEF HandlesCurrent
  <2>3. \A f \in tasks' : f.kind \in {"stream", "beat"} =>
            \/ f.gen = sseTask'
            \/ \E c \in tasks' : c.kind = "connect" /\ c.at = "install" /\ c.gen = f.gen
    BY <1>3, <2>1 DEF Owned, Tasks, HandlesCurrent
  <2> QED BY <1>2, <2>2, <2>3, OwnedNext DEF Tasks
<1>5. CASE ~Current(t.gen)
  <2>1. /\ UNCHANGED <<sseTask, heartbeatTask>>
        /\ tasks' = {f \in tasks \ {t} : f.kind \in {"stream", "beat"} => f.gen # t.gen}
    BY <1>5 DEF Install, Ended
  <2>2. HandlesCurrent'
    BY <1>1, <2>1 DEF Tasks, HandlesCurrent
  <2>3. \A f \in tasks' : f.kind \in {"stream", "beat"} =>
            \/ f.gen = sseTask'
            \/ \E c \in tasks' : c.kind = "connect" /\ c.at = "install" /\ c.gen = f.gen
    BY <1>3, <2>1 DEF Owned
  <2> QED BY <1>2, <2>2, <2>3, OwnedNext DEF Tasks
<1> QED BY <1>4, <1>5

(* Every step keeps the flows owned.                                       *)
LEMMA TasksStep == Tasks /\ [LinkNext]_linkVars => Tasks'
<1> SUFFICES ASSUME Tasks, [LinkNext]_linkVars PROVE Tasks'
  OBVIOUS
<1>1. CASE UserOpen
  <2>1. /\ tasks' = tasks \cup {Connect([command |-> opens + 1], 0, "cancel")}
        /\ UNCHANGED <<generation, sseTask, heartbeatTask, timer>> /\ opens' \in Nat
    BY <1>1 DEF UserOpen, Tasks, TypeOK
  <2>2. Connect([command |-> opens + 1], 0, "cancel") \in Connects
    BY DEF Connect, Connects, Awaits, Tasks, TypeOK
  <2>3. Connect([command |-> opens + 1], 0, "cancel").at = "cancel"
    BY DEF Connect
  <2>4. timer' \subseteq Timers
    BY <2>1 DEF Tasks, TypeOK
  <2> QED BY <2>1, <2>2, <2>3, <2>4, SpawnKeeps
<1>2. CASE UserClose
  BY <1>2, CloseKeeps
<1>3. ASSUME NEW t \in tasks, t.kind = "connect",
             CancelTimer(t) \/ Check(t) \/ (Announce(t) /\ ~reachable)
      PROVE  Tasks'
  <2>1. UNCHANGED <<generation, sseTask, heartbeatTask, opens>> /\ t.at # "install"
    BY <1>3 DEF CancelTimer, Check, Announce, state, bounds
  <2>2. CASE CancelTimer(t)
    BY <1>3, <2>1, <2>2, MoveKeeps DEF CancelTimer, Awaits
  <2>3. CASE Check(t)
    BY <1>3, <2>1, <2>3, MoveKeeps DEF Check, Awaits, state
  <2>4. CASE Announce(t) /\ ~reachable
    <3>1. t.gen # 0
      BY <1>3, <2>4, KindOf DEF Announce, Tasks, TypeOK
    <3> QED BY <1>3, <2>1, <2>4, <3>1, MoveKeeps DEF Announce, Awaits, state
  <2> QED BY <1>3, <2>2, <2>3, <2>4
<1>4. ASSUME NEW t \in tasks, t.kind = "stream", DialStream(t) \/ StreamEnds(t)
      PROVE  Tasks'
  <2>1. UNCHANGED <<generation, sseTask, heartbeatTask, timer, opens>> /\ t.at # "install"
    BY <1>4 DEF DialStream, StreamEnds, state, bounds
  <2>2. PICK at \in {"failed", "reading", "ended"} : tasks' = Moved(t, at) \/ tasks' = Ended(t)
    BY <1>4 DEF DialStream, StreamEnds
  <2>3. t.gen # 0
    BY <1>4, KindOf, Kinds DEF Tasks
  <2> QED BY <1>4, <2>1, <2>2, <2>3, MoveKeeps DEF Awaits
<1>5. ASSUME NEW t \in tasks, t.kind = "beat", BeatDue(t) \/ SendBeat(t)
      PROVE  Tasks'
  <2>1. UNCHANGED <<generation, sseTask, heartbeatTask, timer, opens>> /\ t.at # "install"
    BY <1>5 DEF BeatDue, SendBeat, state, bounds
  <2>2. PICK at \in {"sending", "waiting", "failed"} : tasks' = Moved(t, at) \/ tasks' = Ended(t)
    BY <1>5 DEF BeatDue, SendBeat
  <2>3. t.gen # 0
    BY <1>5, KindOf, Kinds DEF Tasks
  <2> QED BY <1>5, <2>1, <2>2, <2>3, MoveKeeps DEF Awaits
<1>6. ASSUME NEW t \in tasks, t.kind # "timer", HandleFailure(t) \/ CancelOther(t)
      PROVE  Tasks'
  <2>1. /\ UNCHANGED <<generation, sseTask, heartbeatTask, opens>> /\ t.at # "install"
        /\ timer' = timer \/ timer' = {}
    BY <1>6 DEF HandleFailure, CancelOther, bounds
  <2>2. PICK at \in {"cancelling", "arming"} :
            tasks' = Moved(t, at) \/ tasks' = Ended(t) \/ tasks' = Moved(t, at) \ timer
    BY <1>6 DEF HandleFailure, CancelOther
  <2>3. t.at \in {"failed", "cancelling"}
    BY <1>6 DEF HandleFailure, CancelOther
  <2>4. t.gen # 0
    BY <1>6, <2>3, Kinds DEF Tasks, TypeOK
  <2> QED BY <1>6, <2>1, <2>2, <2>4, MoveKeeps DEF Awaits
<1>7. ASSUME NEW t \in tasks, t.kind # "timer", Arm(t)
      PROVE  Tasks'
  <2>1. /\ UNCHANGED <<generation, sseTask, heartbeatTask, opens>> /\ t.at = "arming"
        /\ tasks' = (tasks \ {t}) \cup {TimerOf(t)} /\ timer' = {TimerOf(t)}
    BY <1>7 DEF Arm, Ended, bounds
  <2>2. TimerOf(t) \in Timers
    <3>1. t \in Flows \cup (Connects \cap tasks)
      BY <1>7, Kinds DEF Tasks, TypeOK
    <3>2. t.gen \in 0..MaxGen /\ t.gen # 0 /\ t.kind \in {"stream", "beat", "connect"}
      BY <2>1, <3>1, Kinds DEF Tasks, TypeOK
    <3>3. t.gen \in 1..MaxGen
      BY <3>2 DEF Tasks, TypeOK
    <3> QED BY <3>2, <3>3 DEF TimerOf, Timers
  <2>3. opens' \in Nat
    BY <2>1 DEF Tasks, TypeOK
  <2> QED BY <2>1, <2>2, <2>3, SpawnKeeps
<1>8. ASSUME NEW t \in tasks, Fire(t)
      PROVE  Tasks'
  <2>1. /\ UNCHANGED <<generation, sseTask, heartbeatTask, timer, opens>> /\ t.kind = "timer"
        /\ \/ tasks' = (tasks \ {t}) \cup {Connect(t, 0, "check")}
           \/ tasks' = tasks \ {t}
    BY <1>8 DEF Fire, Ended, state, bounds
  <2>2. Connect(t, 0, "check") \in Connects /\ Connect(t, 0, "check").at = "check"
    <3>1. t \in Timers
      BY <2>1, KindOf DEF Tasks
    <3> QED BY <3>1 DEF Tasks, TypeOK, Connect, Connects, Awaits
  <2>3. opens' \in Nat /\ timer' \subseteq Timers
    BY <2>1 DEF Tasks, TypeOK
  <2> QED BY <2>1, <2>2, <2>3, SpawnKeeps
<1>9. CASE UNCHANGED <<state, tasks, opens>>
  BY <1>9 DEF state, Tasks, TypeOK, HandlesCurrent, TasksOwned, Kept
<1>10. ASSUME NEW t \in tasks, Step(t)
       PROVE  Tasks'
  BY <1>3, <1>4, <1>5, <1>6, <1>7, <1>8, <1>10, BeginKeeps, AnnounceKeeps, InstallKeeps DEF Step
<1> QED BY <1>1, <1>2, <1>4, <1>9, <1>10 DEF LinkNext, Outage, Recover, linkVars, state, bounds

-----------------------------------------------------------------------------
(* What the window shows.                                                  *)

Reported == {"reading", "failed", "ended"}

(* A step that takes nothing away from the current stream.                 *)
LEMMA ShownKept ==
    ASSUME ConnectedMeansStream, UNCHANGED <<generation, open>>,
           link' = "connected" => link = "connected",
           \A at \in Reported : Stream(generation, at) \in tasks =>
                                Stream(generation, at) \in tasks'
    PROVE  ConnectedMeansStream'
BY DEF ConnectedMeansStream, Reported, Stream

(* Only the stream's own steps take it away, and they set the state: a     *)
(* failure of the current generation disconnects, one of an older is about *)
(* another record.                                                         *)
LEMMA ConnectedStep == Tasks /\ ConnectedMeansStream /\ [LinkNext]_linkVars => ConnectedMeansStream'
<1> SUFFICES ASSUME Tasks, ConnectedMeansStream, [LinkNext]_linkVars PROVE ConnectedMeansStream'
  OBVIOUS
<1>1. \A at : /\ Stream(generation, at).kind = "stream" /\ Stream(generation, at).at = at
              /\ Stream(generation, at).gen = generation
  BY DEF Stream
<1>2. \A at : Stream(generation, at) \notin timer
  BY <1>1, Kinds DEF Tasks, TypeOK
<1>3. CASE UserOpen
  BY <1>3 DEF UserOpen, ConnectedMeansStream, Stream
<1>4. CASE UserClose
  BY <1>4 DEF UserClose, ConnectedMeansStream
<1>5. ASSUME NEW t \in tasks, UNCHANGED <<generation, open, link>>,
             (tasks \ {t}) \ timer \subseteq tasks',
             t.kind # "stream" \/ t.at \notin Reported
      PROVE  ConnectedMeansStream'
  BY <1>1, <1>2, <1>5, ShownKept
<1>6. ASSUME NEW t \in tasks, t.kind = "connect", Begin(t)
      PROVE  ConnectedMeansStream'
  BY <1>6 DEF Begin, ConnectedMeansStream
<1>7. ASSUME NEW t \in tasks, t.kind = "connect",
             CancelTimer(t) \/ Check(t) \/ Announce(t)
      PROVE  ConnectedMeansStream'
  BY <1>5, <1>7 DEF CancelTimer, Check, Announce, Moved, Ended, state
<1>8. ASSUME NEW t \in tasks, t.kind = "connect", Install(t)
      PROVE  ConnectedMeansStream'
  <2>1. UNCHANGED <<generation, open, link>>
    BY <1>8 DEF Install
  <2>2. \A at : Stream(generation, at) \in tasks => Stream(generation, at) \in tasks'
    BY <1>1, <1>8 DEF Install, Current, Ended
  <2> QED BY <2>1, <2>2, ShownKept
<1>9. ASSUME NEW t \in tasks, t.kind = "stream", NEW at
      PROVE  [t EXCEPT !.at = at] = Stream(t.gen, at)
  <2>1. t \in Flows
    BY <1>9, KindOf DEF Tasks
  <2> QED BY <1>9, <2>1 DEF Flows, Stream
<1>10. ASSUME NEW t \in tasks, t.kind = "stream", DialStream(t)
       PROVE  ConnectedMeansStream'
  <2>1. UNCHANGED <<generation, open>> /\ t.at = "dialing"
    BY <1>10 DEF DialStream
  <2>2. CASE link' = link
    BY <1>5, <1>10, <2>1, <2>2 DEF DialStream, Moved, Ended, Reported
  <2>3. CASE reachable /\ Active(t.gen)
    <3>1. tasks' = (tasks \ {t}) \cup {Stream(t.gen, "reading")} /\ t.gen = generation /\ open
      BY <1>9, <1>10, <2>3 DEF DialStream, Moved, Active, Current
    <3> QED BY <2>1, <3>1 DEF ConnectedMeansStream, Stream
  <2> QED BY <1>10, <2>2, <2>3 DEF DialStream
<1>11. ASSUME NEW t \in tasks, t.kind = "stream", StreamEnds(t)
       PROVE  ConnectedMeansStream'
  <2>1. PICK at \in {"failed", "ended"} : tasks' = (tasks \ {t}) \cup {Stream(t.gen, at)}
    BY <1>9, <1>11 DEF StreamEnds, Moved
  <2>2. UNCHANGED <<generation, open, link>>
    BY <1>11 DEF StreamEnds, state
  <2>3. \A x : Stream(generation, x) \in tasks =>
            Stream(generation, x) \in tasks' \/ Stream(generation, at) \in tasks'
    BY <1>1, <2>1
  <2> QED BY <2>1, <2>2, <2>3 DEF ConnectedMeansStream, Stream
<1>12. ASSUME NEW t \in tasks, t.kind = "beat", BeatDue(t) \/ SendBeat(t)
       PROVE  ConnectedMeansStream'
  BY <1>5, <1>12 DEF BeatDue, SendBeat, Moved, Ended, state
<1>13. ASSUME NEW t \in tasks, HandleFailure(t)
       PROVE  ConnectedMeansStream'
  <2>1. CASE Current(t.gen)
    BY <1>13, <2>1 DEF HandleFailure, ConnectedMeansStream
  <2>2. CASE ~Current(t.gen)
    <3>1. UNCHANGED <<generation, open, link>> /\ tasks' = tasks \ {t}
      BY <1>13, <2>2 DEF HandleFailure, Ended
    <3>2. \A at : Stream(generation, at) \in tasks => Stream(generation, at) \in tasks'
      BY <1>1, <2>2, <3>1 DEF Current
    <3> QED BY <3>1, <3>2, ShownKept
  <2> QED BY <2>1, <2>2
<1>14. ASSUME NEW t \in tasks, CancelOther(t) \/ Arm(t)
       PROVE  ConnectedMeansStream'
  BY <1>5, <1>14 DEF CancelOther, Arm, Moved, Ended, Reported
<1>15. ASSUME NEW t \in tasks, Fire(t)
       PROVE  ConnectedMeansStream'
  BY <1>5, <1>15 DEF Fire, Ended, state
<1>16. CASE UNCHANGED <<state, tasks>>
  BY <1>16 DEF state, ConnectedMeansStream
<1> QED BY <1>3, <1>4, <1>6, <1>7, <1>8, <1>10, <1>11, <1>12, <1>13, <1>14, <1>15, <1>16
        DEF LinkNext, Step, Outage, Recover, linkVars

-----------------------------------------------------------------------------
(* The link starts in it.                                                  *)
LEMMA LinkInitInv == LinkInit => LinkIInv
BY LinkAssumption DEF LinkInit, LinkIInv, Tasks, TypeOK, HandlesCurrent,
       TasksOwned, ConnectedMeansStream

(* The inductive invariant of the link.                                    *)
THEOREM LinkInvariance == LinkSpec => []LinkIInv
<1>1. LinkIInv /\ [LinkNext]_linkVars => LinkIInv'
  BY TasksStep, ConnectedStep DEF LinkIInv
<1> QED BY <1>1, LinkInitInv, PTL DEF LinkSpec

(* No stream or heartbeat runs that nobody can abort, however many         *)
(* connects overlap (signal.rs:246).                                       *)
THEOREM NoLeakedTask == LinkSpec => []TasksOwned
<1>1. LinkIInv => TasksOwned
  BY DEF LinkIInv, Tasks
<1> QED BY <1>1, LinkInvariance, PTL

(* A link shown as connected has a stream of its own generation            *)
(* (signal.rs:298).                                                        *)
THEOREM NoFalseConnected == LinkSpec => []ConnectedMeansStream
<1>1. LinkIInv => ConnectedMeansStream
  BY DEF LinkIInv
<1> QED BY <1>1, LinkInvariance, PTL

-----------------------------------------------------------------------------
(***************************************************************************)
(* The desktop shell (SetupForm and PairPanel).                            *)
(***************************************************************************)

Providers == {"openai", "codex", "bedrock", "custom"}
Presets == {"openai", "codex", "bedrock", "ollama", "cloudflare", "custom"}
Gateways == {"ollama", "cloudflare", "custom"}
Places == Servers \cup {Blank, Default}
Forms == [preset : Presets, key : Keys, url : Urls \cup {Blank}, account : {Blank, "account"},
          model : Models \cup {Blank}, mode : Modes \cup {Blank}, headers : Headers]
Memories == [Gateways \X Models -> Modes \cup {Blank}]
Files == Configurations \cup {NoConfig}
Payloads ==
    {p \in [provider : Providers, model : Models, url : Urls \cup {Blank}, key : Keys,
            mode : Modes \cup {Blank}, headers : Headers, server : Places] :
       IF p.provider = "custom" THEN p.mode # Blank ELSE p.url = Blank}
Savable(p) == p.model # Blank => p \in Payloads

(* What a pending command carries.                                         *)
FormCall(c) ==
    /\ c = Call(c.op, c.at, c.arg)
    /\ c.op = "fetch" => c.arg.url \in Urls
    /\ c.op \in {"enter", "summary"} /\ c.at \in {"auth", "save"} => Savable(c.arg.payload)
    /\ c.op = "summary" /\ c.at = "read" => c.arg.mode \in Modes
    /\ c.op = "pair" /\ c.at = "save" => Savable(c.arg)
    /\ c.op \in {"load", "reconf", "pair", "refresh"} /\ c.at = "raw" => c.arg \in Files

FormTypeOK ==
    /\ disk \in Files /\ raw \in Files /\ pairRaw \in Files /\ hydrated \in Files
    /\ draftUrl \in Places
    /\ form \in Forms /\ memory \in Memories
    /\ offered \in Urls \cup {Blank}
    /\ \A c \in calls : FormCall(c)

(* The form f, with the modes remembered in mem, shows the configuration r. *)
ShowsConfig(f, mem, r) ==
    /\ f.preset = detectProviderPresetId(r) /\ f.key = r.key /\ f.model = r.model
    /\ IF r.provider = "custom"
         THEN /\ f.mode = r.mode /\ mem[<<f.preset, f.model>>] = r.mode
              /\ f.headers = IF r.headers = Blank THEN "default" ELSE r.headers
              /\ IF f.preset = "cloudflare"
                   THEN f.account = "account" /\ f.url \in CloudUrls
                   ELSE f.url = r.url
         ELSE f.mode = Blank /\ f.headers = Blank

FormIInv == FormTypeOK /\ (hydrated # NoConfig => ShowsConfig(form, memory, hydrated))

Snapshots == [server : Places, version : Nat, open : BOOLEAN, channels : [Chans -> ChannelStates]]

(* The call's answer is on its way, with a snapshot.                       *)
Carries(c) ==
    \/ c.op = "pair" /\ c.at \in {"answer", "sent"}
    \/ c.op \in {"pair", "refresh"} /\ c.at = "reloaded"

(* The snapshot x is of an earlier version than the backend b, or is it.   *)
Taken(x, b) == x.version =< b.version /\ (x.version = b.version => x = b)

PanelCallOK(c) ==
    /\ Carries(c) => c.arg \in Snapshots /\ Taken(c.arg, be)
    /\ c.op = "pair" /\ c.at \in {"approve", "delete"} => c.arg \in Chans
    /\ c.op = "pair" /\ c.at = "send" => c.arg.to \in Chans /\ c.arg.text = c.arg.to

PanelTypeOK ==
    /\ be \in Snapshots /\ events \in Seq(Snapshots)
    /\ panel \in [channels : [Chans -> ChannelStates], version : Nat, open : BOOLEAN]
    /\ chat \in [active : Chans \cup {Blank}, open : BOOLEAN, draft : Chans \cup {Blank}]
    /\ listening \in BOOLEAN /\ behind \in BOOLEAN

Agrees ==
    /\ panel.open = (be.open /\ be.server # Blank)
    /\ \A ch \in Chans :
         /\ panel.channels[ch].status = be.channels[ch].status
         /\ panel.channels[ch].peer => be.channels[ch].peer

(* The backend's newest state is shown, or on its way to the panel.        *)
Coming ==
    \/ panel.version = be.version
    \/ events # <<>> /\ events[Len(events)].version = be.version
    \/ \E c \in calls : \/ c.op = "pair" /\ c.at = "get"
                        \/ Carries(c) /\ c.arg.version = be.version

Conversing ==
    /\ chat.draft \in {Blank, chat.active}
    /\ chat.open => chat.active # Blank /\ Listed(panel, chat.active)

PanelIInv ==
    /\ PanelTypeOK
    /\ \A c \in calls : PanelCallOK(c)
    /\ \A i \in DOMAIN events : Taken(events[i], be)
    /\ panel.version =< be.version /\ (panel.version = be.version => Agrees)
    /\ behind \/ Coming
    /\ Conversing

DeskIInv == FormIInv /\ PanelIInv

-----------------------------------------------------------------------------
(* The form's operators.                                                   *)

(* An empty field is told apart from every preset, provider, Cloudflare    *)
(* route and default (setup-controller.ts and the form's selects).         *)
LEMMA BlankOnly ==
    /\ Blank \notin Presets \cup Providers \cup CloudUrls
    /\ Blank \notin {"account", "default", "openai-responses", "url_ollama"}
BY Zenon DEF Blank, Presets, Providers, CloudUrls

(* The table of presets (provider-presets.ts): which are gateways, the     *)
(* provider each is saved as, and its URL and key.                         *)
LEMMA PresetTable ==
    /\ DOMAIN PROVIDER_PRESETS = Presets
    /\ \A p \in Presets :
         /\ IsGateway(p) <=> p \in Gateways
         /\ PROVIDER_PRESETS[p].runtime = IF p \in Gateways THEN "custom" ELSE p
         /\ PROVIDER_PRESETS[p].url \in Urls \cup {Blank}
         /\ PROVIDER_PRESETS[p].auto \in Keys
         /\ isCloudflarePreset(p) <=> p = "cloudflare"
<1>1. DOMAIN PROVIDER_PRESETS = Presets
  BY DEF PROVIDER_PRESETS, Presets
<1>2. \A p \in Presets : PROVIDER_PRESETS[p].auto \in Keys
  BY <1>1 DEF Keys
<1>3. /\ PROVIDER_PRESETS["openai"] = builtinProvider("openai")
      /\ PROVIDER_PRESETS["codex"] = managedAuthProvider("codex")
      /\ PROVIDER_PRESETS["bedrock"] = awsCredentialProvider("bedrock")
      /\ PROVIDER_PRESETS["ollama"] = ollama
      /\ PROVIDER_PRESETS["cloudflare"] = gatewayProvider(Blank)
      /\ PROVIDER_PRESETS["custom"] = gatewayProvider(Blank)
  BY DEF PROVIDER_PRESETS
<1>4. ollama.gateway = TRUE /\ ollama.runtime = "custom" /\ ollama.url \in Urls
  BY DEF ollama, gatewayProvider, Urls
<1>5. ASSUME NEW p \in Presets
      PROVE  /\ IsGateway(p) <=> p \in Gateways
             /\ PROVIDER_PRESETS[p].runtime = IF p \in Gateways THEN "custom" ELSE p
             /\ PROVIDER_PRESETS[p].url \in Urls \cup {Blank}
             /\ isCloudflarePreset(p) <=> p = "cloudflare"
  BY <1>3, <1>4 DEF Presets, Gateways, IsGateway, isCloudflarePreset, builtinProvider,
     gatewayProvider, managedAuthProvider, awsCredentialProvider
<1>. QED
  BY <1>1, <1>2, <1>5

(* A configuration is shown under a preset of its own kind                 *)
(* (detectProviderPresetId).                                               *)
LEMMA Detected ==
    ASSUME NEW r \in Files
    PROVE  /\ detectProviderPresetId(r) \in Presets
           /\ r.provider = "custom" <=> detectProviderPresetId(r) \in Gateways
           /\ r # NoConfig /\ r.provider # "custom" => detectProviderPresetId(r) = r.provider
           /\ detectProviderPresetId(r) = "cloudflare" => r.url \in CloudUrls
<1>1. CASE r = NoConfig
  BY <1>1 DEF NoConfig, detectProviderPresetId, Presets, Gateways
<1>2. CASE r \in Configurations
  <2>1. r.provider \in Providers
    BY <1>2 DEF Configurations, Providers
  <2>2. CASE r.provider = "custom"
    BY <2>2 DEF detectProviderPresetId, Presets, Gateways
  <2>3. CASE r.provider # "custom"
    BY <2>1, <2>3, BlankOnly DEF detectProviderPresetId, Presets, Gateways, Providers
  <2>. QED
    BY <2>2, <2>3
<1>. QED
  BY <1>1, <1>2 DEF Files

(* Two forms alike but for the URL and the mode.                           *)
Others(f, g) ==
    /\ f.preset = g.preset /\ f.key = g.key /\ f.account = g.account
    /\ f.model = g.model /\ f.headers = g.headers

(* A remembered mode is a mode, or none.                                   *)
LEMMA ModeOf ==
    ASSUME NEW f \in Forms, NEW mem \in Memories
    PROVE  Remembered(f, mem) \in Modes \cup {Blank}
BY PresetTable DEF Remembered, Forms, Memories

(* Showing the remembered mode touches the mode alone.                     *)
LEMMA SyncTyped ==
    ASSUME NEW f \in Forms, NEW mem \in Memories, NEW clear \in BOOLEAN
    PROVE  /\ SyncMode(f, mem, clear) \in Forms
           /\ Others(SyncMode(f, mem, clear), f) /\ SyncMode(f, mem, clear).url = f.url
<1>. DEFINE mode == CASE ~IsGateway(f.preset) -> Blank
                      [] Remembered(f, mem) # Blank -> Remembered(f, mem)
                      [] OTHER -> IF clear THEN Blank ELSE f.mode
<1>1. mode \in Modes \cup {Blank}
  <2>1. CASE ~IsGateway(f.preset)
    BY <2>1, ModeOf
  <2>2. CASE IsGateway(f.preset) /\ Remembered(f, mem) # Blank
    BY <2>2, ModeOf
  <2>3. CASE IsGateway(f.preset) /\ Remembered(f, mem) = Blank
    BY <2>3 DEF Forms
  <2>. QED
    BY <2>1, <2>2, <2>3
<1>2. SyncMode(f, mem, clear) = [f EXCEPT !.mode = mode]
  BY DEF SyncMode
<1>. HIDE DEF mode
<1>. QED
  BY <1>1, <1>2 DEF Forms, Others

(* Building the Cloudflare URL from the account touches the URL alone, and *)
(* only for Cloudflare.                                                    *)
LEMMA ResolveTyped ==
    ASSUME NEW f \in Forms
    PROVE  /\ Resolve(f) \in Forms
           /\ Others(Resolve(f), f) /\ Resolve(f).mode = f.mode
           /\ f.preset # "cloudflare" => Resolve(f) = f
           /\ f.preset = "cloudflare" /\ f.account # Blank => Resolve(f).url \in CloudUrls
<1>. DEFINE u == buildCloudflareBaseUrl(f.account, f.mode)
<1>1. u \in Urls \cup {Blank} /\ (f.account # Blank => u \in CloudUrls)
  BY DEF buildCloudflareBaseUrl, cloudflareRouteByApiMode, Urls, CloudUrls
<1>2. Resolve(f) = IF f.preset = "cloudflare" THEN [f EXCEPT !.url = u] ELSE f
  BY DEF Resolve, isCloudflarePreset
<1>. HIDE DEF u
<1>. QED
  BY <1>1, <1>2 DEF Forms, Others

(* Another model leaves a well-formed form (setModelValue).                *)
LEMMA ModelTyped ==
    ASSUME NEW f \in Forms, NEW mem \in Memories, NEW m \in Models \cup {Blank}
    PROVE  setModelValue(f, m, mem) \in Forms
<1>1. [f EXCEPT !.model = m] \in Forms
  BY DEF Forms
<1>. QED
  BY <1>1, SyncTyped DEF setModelValue

(* Remembering a mode leaves a well-formed memory.                         *)
LEMMA RememberTyped ==
    ASSUME NEW f \in Forms, NEW mem \in Memories, NEW p
    PROVE  Remember(p, f, mem) \in Memories
BY DEF Remember, Forms, Memories

(* Applying a preset leaves a well-formed form (applyProviderPreset).      *)
LEMMA PresetTyped ==
    ASSUME NEW f \in Forms, NEW mem \in Memories, NEW p \in Presets, NEW hydrate \in BOOLEAN
    PROVE  /\ applyProviderPreset(f, p, mem, hydrate) \in Forms
           /\ applyProviderPreset(f, p, mem, hydrate).preset = p
<1>. DEFINE url == PresetUrl(f, p, hydrate)
            parsed == isCloudflarePreset(p) /\ hydrate /\ url # Blank
            h == [f EXCEPT !.preset = p, !.url = url,
                           !.account = IF parsed THEN parseCloudflareBaseUrl(url) ELSE @]
            g == applyDefaultCustomHeadersIfNeeded(Resolve(h))
<1>1. CASE ~IsGateway(p)
  <2>1. Plain(f, p) \in Forms /\ Plain(f, p).preset = p
    BY DEF Plain, Forms, Headers
  <2>. QED
    BY <1>1, <2>1 DEF applyProviderPreset
<1>2. CASE IsGateway(p)
  <2>1. url \in Urls \cup {Blank}
    BY PresetTable DEF PresetUrl, Forms
  <2>2. parseCloudflareBaseUrl(url) \in {Blank, "account"}
    BY DEF parseCloudflareBaseUrl
  <2>3. h \in Forms /\ h.preset = p
    <3>. HIDE DEF url, parsed
    <3>. QED
      BY <2>1, <2>2 DEF Forms
  <2>. HIDE DEF h
  <2>4. Resolve(h) \in Forms /\ Resolve(h).preset = p
    BY <2>3, ResolveTyped DEF Others
  <2>5. g \in Forms /\ g.preset = p
    BY <2>4 DEF applyDefaultCustomHeadersIfNeeded, Forms, Headers
  <2>. HIDE DEF g
  <2>6. SyncMode(g, mem, TRUE) \in Forms /\ SyncMode(g, mem, TRUE).preset = p
    BY <2>5, SyncTyped DEF Others
  <2>7. applyProviderPreset(f, p, mem, hydrate)
          = Resolve(IF hydrate /\ g.mode # Blank THEN g ELSE SyncMode(g, mem, TRUE))
    BY <1>2 DEF applyProviderPreset, g, h
  <2>. DEFINE k == IF hydrate /\ g.mode # Blank THEN g ELSE SyncMode(g, mem, TRUE)
  <2>8. k \in Forms /\ k.preset = p
    BY <2>5, <2>6
  <2>. HIDE DEF k
  <2>9. Resolve(k) \in Forms /\ Resolve(k).preset = p
    BY <2>8, ResolveTyped DEF Others
  <2>. QED
    BY <2>7, <2>9 DEF k
<1>. QED
  BY <1>1, <1>2
-----------------------------------------------------------------------------
(* Saving a form.                                                          *)

(* The key saved is the one typed, or one that is known                    *)
(* (buildSetupPayload).                                                    *)
LEMMA KeyTyped ==
    ASSUME NEW f \in Forms, NEW r \in Files
    PROVE  /\ EffectiveKey(f, r) \in Keys
           /\ f.key # Blank => EffectiveKey(f, r) = f.key
<1>1. f.key \in Keys /\ PROVIDER_PRESETS[f.preset].auto \in Keys
  BY PresetTable DEF Forms
<1>2. Blank \in Keys
  BY DEF Keys
<1>3. r.key \in Keys
  BY <1>2 DEF Files, Configurations, NoConfig
<1>4. FallbackKey(f.preset, r) \in Keys
  BY <1>2, <1>3 DEF FallbackKey
<1>. QED
  BY <1>1, <1>4 DEF EffectiveKey

(* What a form that passes the checks sends can be saved.                  *)
LEMMA CompleteSavable ==
    ASSUME NEW f \in Forms, NEW r \in Files, Complete(f, r)
    PROVE  Savable(Payload(f, r))
<1>. DEFINE g == Resolve(f)
<1>1. g \in Forms
  BY ResolveTyped
<1>2. EffectiveKey(g, r) \in Keys
  BY <1>1, KeyTyped
<1>3. /\ g.model \in Models
      /\ IsGateway(g.preset) => g.mode # Blank
  BY <1>1 DEF Complete, Forms
<1>. HIDE DEF g
<1>4. /\ PROVIDER_PRESETS[g.preset].runtime \in Providers
      /\ PROVIDER_PRESETS[g.preset].runtime = "custom" <=> IsGateway(g.preset)
  BY <1>1, PresetTable DEF Forms, Presets, Gateways, Providers
<1>. DEFINE p == [provider |-> PROVIDER_PRESETS[g.preset].runtime, model |-> g.model,
                  url |-> IF IsGateway(g.preset) THEN g.url ELSE Blank,
                  key |-> EffectiveKey(g, r),
                  mode |-> IF IsGateway(g.preset) THEN g.mode ELSE Blank,
                  headers |-> IF IsGateway(g.preset) THEN g.headers ELSE Blank,
                  server |-> Blank]
<1>5. EffectiveKey(f, r) = EffectiveKey(g, r)
  BY ResolveTyped DEF EffectiveKey, Others, g
<1>6. Payload(f, r) = p
  BY <1>5 DEF Payload, g
<1>7. p \in Payloads
  BY <1>1, <1>2, <1>3, <1>4 DEF Payloads, Forms, Places, Headers
<1>. QED
  BY <1>6, <1>7 DEF Savable

(* What the Rust side accepts it can read back.                            *)
LEMMA StoredFile ==
    ASSUME NEW p, Savable(p), Acceptable(p), disk \in Files
    PROVE  Stored(p) \in Configurations
<1>1. p \in Payloads /\ p.key # Blank /\ (p.provider = "custom" => p.url # Blank)
  BY DEF Savable, Acceptable
<1>2. disk.server \in Places
  BY DEF Files, Configurations, NoConfig, Places
<1>3. Blank \in Headers
  BY DEF Headers
<1>4. "openai-responses" \in Modes
  BY FormAssumption
<1>. QED
  BY <1>1, <1>2, <1>3, <1>4 DEF Stored, Payloads, Configurations, Providers, Places

(* Another mode, or another server, leaves a file that can be saved.       *)
LEMMA FileSavable ==
    ASSUME NEW r \in Files
    PROVE  /\ \A m \in Modes : r.provider = "custom" => Savable([r EXCEPT !.mode = m])
           /\ \A s \in Places : Savable([r EXCEPT !.server = s])
<1>1. CASE r = NoConfig
  BY <1>1, BlankOnly DEF NoConfig, Savable
<1>2. CASE r \in Configurations
  BY <1>2, FormAssumption, BlankOnly
     DEF Savable, Payloads, Configurations, Providers, Places
<1>. QED
  BY <1>1, <1>2 DEF Files

-----------------------------------------------------------------------------
(* Showing a configuration.                                                *)

(* Building the Cloudflare URL again changes nothing that is shown.        *)
LEMMA ResolveShows ==
    ASSUME NEW f \in Forms, NEW mem \in Memories, NEW r \in Configurations,
           ShowsConfig(f, mem, r)
    PROVE  ShowsConfig(Resolve(f), mem, r)
BY ResolveTyped, BlankOnly DEF ShowsConfig, Others

(* Nor does showing the remembered mode, which is the configuration's.     *)
LEMMA SyncShows ==
    ASSUME NEW f \in Forms, NEW mem \in Memories, NEW r \in Configurations,
           NEW clear \in BOOLEAN, ShowsConfig(f, mem, r)
    PROVE  ShowsConfig(SyncMode(f, mem, clear), mem, r)
<1>1. r \in Files /\ r.mode \in Modes /\ r.model \in Models
  BY DEF Files, Configurations
<1>2. IsGateway(f.preset) <=> r.provider = "custom"
  BY <1>1, Detected, PresetTable DEF ShowsConfig, Forms
<1>3. r.provider = "custom" => Remembered(f, mem) = r.mode /\ r.mode # Blank
  BY <1>1, <1>2, FormAssumption DEF Remembered, ShowsConfig
<1>4. SyncMode(f, mem, clear).mode = IF r.provider = "custom" THEN r.mode ELSE Blank
  <2>1. CASE r.provider = "custom"
    BY <1>2, <1>3, <2>1 DEF SyncMode, Forms
  <2>2. CASE r.provider # "custom"
    <3>1. ~IsGateway(f.preset) /\ Remembered(f, mem) = Blank
      BY <1>2, <2>2 DEF Remembered
    <3>. QED
      BY <2>2, <3>1 DEF SyncMode, Forms
  <2>. QED
    BY <2>1, <2>2
<1>5. Others(SyncMode(f, mem, clear), f) /\ SyncMode(f, mem, clear).url = f.url
  BY SyncTyped
<1>. QED
  BY <1>4, <1>5 DEF ShowsConfig, Others

(* Nor does applying the form's own preset again, as a change of language  *)
(* does.                                                                   *)
LEMMA PresetShows ==
    ASSUME NEW f \in Forms, NEW mem \in Memories, NEW r \in Configurations,
           ShowsConfig(f, mem, r)
    PROVE  ShowsConfig(applyProviderPreset(f, f.preset, mem, TRUE), mem, r)
<1>1. r \in Files /\ r.mode \in Modes
  BY DEF Files, Configurations
<1>2. f.preset \in Presets /\ (IsGateway(f.preset) <=> r.provider = "custom")
  BY <1>1, Detected, PresetTable DEF ShowsConfig, Forms
<1>3. CASE r.provider # "custom"
  BY <1>2, <1>3 DEF applyProviderPreset, Plain, ShowsConfig, Forms
<1>4. CASE r.provider = "custom"
  <2>. DEFINE url == PresetUrl(f, f.preset, TRUE)
              parsed == isCloudflarePreset(f.preset) /\ TRUE /\ url # Blank
              h == [f EXCEPT !.preset = f.preset, !.url = url,
                             !.account = IF parsed THEN parseCloudflareBaseUrl(url) ELSE @]
              g == applyDefaultCustomHeadersIfNeeded(Resolve(h))
  <2>1. url = f.url
    BY DEF PresetUrl
  <2>2. parsed => parseCloudflareBaseUrl(url) = "account"
    <3>1. isCloudflarePreset(f.preset) => f.preset = "cloudflare"
      BY <1>2, PresetTable
    <3>2. f.preset = "cloudflare" => f.url \in CloudUrls
      BY <1>4 DEF ShowsConfig
    <3>. QED
      BY <2>1, <3>1, <3>2 DEF parseCloudflareBaseUrl
  <2>3. h \in Forms /\ ShowsConfig(h, mem, r)
    <3>. HIDE DEF url, parsed
    <3>. QED
      BY <1>4, <2>1, <2>2 DEF Forms, ShowsConfig
  <2>. HIDE DEF h
  <2>4. Resolve(h) \in Forms /\ ShowsConfig(Resolve(h), mem, r)
    BY <2>3, ResolveTyped, ResolveShows
  <2>5. g = Resolve(h)
    <3>1. Resolve(h).preset = f.preset /\ Resolve(h).headers # Blank
      BY <1>4, <2>4, BlankOnly DEF ShowsConfig
    <3>. QED
      BY <1>2, <1>4, <2>4, <3>1 DEF applyDefaultCustomHeadersIfNeeded, Forms
  <2>6. g.mode # Blank
    BY <1>1, <1>4, <2>4, <2>5, FormAssumption DEF ShowsConfig
  <2>7. applyProviderPreset(f, f.preset, mem, TRUE) = Resolve(g)
    BY <1>2, <1>4, <2>6 DEF applyProviderPreset, h
  <2>. QED
    BY <2>4, <2>5, <2>7, ResolveShows
<1>. QED
  BY <1>3, <1>4

(* Filling the form leaves it and the memory well-formed                   *)
(* (hydrateSetupForm).                                                     *)
LEMMA HydratedTyped ==
    ASSUME NEW r \in Files, NEW withKey \in BOOLEAN, form \in Forms, memory \in Memories
    PROVE  /\ Inputs(r) \in Forms /\ Inputs(r).preset = detectProviderPresetId(r)
           /\ HydratedMemory(r) \in Memories
           /\ HydratedForm(r, withKey) \in Forms
<1>. DEFINE p == detectProviderPresetId(r)
            url == IF r.url # Blank THEN r.url ELSE PROVIDER_PRESETS[p].url
            f == applyProviderPreset(form, p, memory, TRUE)
            g == [Resolve(Inputs(r)) EXCEPT !.key = IF withKey THEN r.key ELSE Blank]
<1>1. /\ r.model \in Models \cup {Blank} /\ r.mode \in Modes \cup {Blank}
      /\ r.headers \in Headers /\ r.key \in Keys /\ r.url \in Urls \cup {Blank}
  BY DEF Files, Configurations, NoConfig, Headers, Keys
<1>2. p \in Presets /\ f \in Forms /\ f.preset = p
  BY Detected, PresetTyped
<1>3. url \in Urls \cup {Blank} /\ parseCloudflareBaseUrl(url) \in {Blank, "account"}
  BY <1>1, <1>2, PresetTable DEF parseCloudflareBaseUrl
<1>4. Inputs(r) \in Forms /\ Inputs(r).preset = p
  <2>1. Inputs(r) =
          [f EXCEPT !.model = r.model,
                    !.url = IF IsGateway(p) THEN url ELSE Blank,
                    !.mode = IF IsGateway(p) THEN r.mode ELSE Blank,
                    !.headers = IF ~IsGateway(p) THEN Blank
                                ELSE IF r.headers = Blank THEN "default" ELSE r.headers,
                    !.account = IF isCloudflarePreset(p) THEN parseCloudflareBaseUrl(url) ELSE @]
    BY DEF Inputs
  <2>. HIDE DEF p, url, f
  <2>. QED
    BY <1>1, <1>2, <1>3, <2>1 DEF Forms, Headers
<1>5. HydratedMemory(r) \in Memories
  BY <1>4, RememberTyped DEF HydratedMemory
<1>6. Blank \in Keys
  BY DEF Keys
<1>7. g \in Forms
  BY <1>1, <1>4, <1>6, ResolveTyped DEF Forms
<1>8. HydratedForm(r, withKey)
        = SyncMode(applyProviderPreset(g, g.preset, HydratedMemory(r), TRUE),
                   HydratedMemory(r), FALSE)
  BY DEF HydratedForm, renderModelSuggestions
<1>. HIDE DEF g
<1>9. applyProviderPreset(g, g.preset, HydratedMemory(r), TRUE) \in Forms
  BY <1>5, <1>7, PresetTyped DEF Forms
<1>. QED
  BY <1>4, <1>5, <1>8, <1>9, SyncTyped

(* A form filled from a configuration shows it.                            *)
LEMMA HydratedShows ==
    ASSUME NEW r \in Configurations, form \in Forms, memory \in Memories
    PROVE  ShowsConfig(HydratedForm(r, TRUE), HydratedMemory(r), r)
<1>. DEFINE p == detectProviderPresetId(r)
            mem == HydratedMemory(r)
            i == Inputs(r)
            f == [Resolve(i) EXCEPT !.key = IF TRUE THEN r.key ELSE Blank]
<1>1. r \in Files /\ r.model \in Models /\ r.mode \in Modes /\ r.key \in Keys
  BY DEF Files, Configurations
<1>2. p \in Presets /\ (IsGateway(p) <=> r.provider = "custom")
  BY <1>1, Detected, PresetTable
<1>3. i \in Forms /\ i.preset = p /\ mem \in Memories
  BY <1>1, HydratedTyped
<1>4. /\ i.model = r.model
      /\ i.mode = IF r.provider = "custom" THEN r.mode ELSE Blank
      /\ i.headers = IF r.provider # "custom" THEN Blank
                     ELSE IF r.headers = Blank THEN "default" ELSE r.headers
      /\ r.provider = "custom" => i.url = r.url
      /\ p = "cloudflare" => i.account = "account"
  <2>. DEFINE url == IF r.url # Blank THEN r.url ELSE PROVIDER_PRESETS[p].url
              a == applyProviderPreset(form, p, memory, TRUE)
  <2>1. a \in Forms
    BY <1>2, PresetTyped
  <2>2. r.provider = "custom" => url = r.url
    BY DEF Configurations
  <2>3. p = "cloudflare" => isCloudflarePreset(p) /\ parseCloudflareBaseUrl(url) = "account"
    BY <1>1, <1>2, <2>2, Detected, PresetTable DEF parseCloudflareBaseUrl, Gateways
  <2>4. i =
          [a EXCEPT !.model = r.model,
                    !.url = IF IsGateway(p) THEN url ELSE Blank,
                    !.mode = IF IsGateway(p) THEN r.mode ELSE Blank,
                    !.headers = IF ~IsGateway(p) THEN Blank
                                ELSE IF r.headers = Blank THEN "default" ELSE r.headers,
                    !.account = IF isCloudflarePreset(p) THEN parseCloudflareBaseUrl(url) ELSE @]
    BY DEF Inputs
  <2>. HIDE DEF i, a, url, p
  <2>. QED
    BY <1>2, <2>1, <2>2, <2>3, <2>4 DEF Forms
<1>5. r.provider = "custom" => mem[<<p, r.model>>] = r.mode
  <2>1. SUFFICES ASSUME r.provider = "custom"  PROVE mem[<<p, r.model>>] = r.mode
    OBVIOUS
  <2>2. i.mode = r.mode /\ i.mode # Blank /\ i.model # Blank
    BY <1>1, <1>4, <2>1, FormAssumption
  <2>3. mem = [memory EXCEPT ![<<p, i.model>>] = i.mode]
    BY <1>2, <2>1, <2>2 DEF HydratedMemory, Remember
  <2>4. <<p, r.model>> \in Gateways \X Models
    BY <1>1, <1>2, <2>1, PresetTable
  <2>. QED
    BY <1>4, <2>2, <2>3, <2>4 DEF Memories
<1>. HIDE DEF i, p
<1>6. Resolve(i) \in Forms /\ Others(Resolve(i), i) /\ Resolve(i).mode = i.mode
  BY <1>3, ResolveTyped
<1>7. f \in Forms
  BY <1>1, <1>6 DEF Forms
<1>8. /\ f.preset = p /\ f.model = r.model /\ f.key = r.key /\ f.mode = i.mode
      /\ f.headers = i.headers /\ f.account = i.account /\ f.url = Resolve(i).url
  BY <1>3, <1>4, <1>6 DEF Forms, Others
<1>. HIDE DEF f, mem
<1>9. ShowsConfig(f, mem, r)
  BY <1>2, <1>3, <1>4, <1>5, <1>8, ResolveTyped, BlankOnly DEF ShowsConfig, p
<1>10. HydratedForm(r, TRUE) = SyncMode(applyProviderPreset(f, f.preset, mem, TRUE), mem, FALSE)
  BY DEF HydratedForm, renderModelSuggestions, f, mem, i
<1>11. /\ applyProviderPreset(f, f.preset, mem, TRUE) \in Forms
       /\ ShowsConfig(applyProviderPreset(f, f.preset, mem, TRUE), mem, r)
  BY <1>3, <1>7, <1>9, PresetTyped, PresetShows DEF Forms
<1>. QED
  BY <1>3, <1>10, <1>11, SyncShows DEF mem

(* A configuration is its fields.                                          *)
LEMMA FileFields ==
    ASSUME NEW r \in Configurations
    PROVE  r = [provider |-> r.provider, model |-> r.model, url |-> r.url, key |-> r.key,
                mode |-> r.mode, headers |-> r.headers, server |-> r.server]
<1>1. r \in [provider : Providers, model : Models, url : Urls \cup {Blank},
             key : Keys \ {Blank}, mode : Modes, headers : Headers, server : Places]
  BY DEF Configurations, Providers, Places
<1>. QED
  BY <1>1, Zenon

(* What saving makes of a payload without a server, field by field.        *)
LEMMA StoredIs ==
    ASSUME NEW a, NEW b, NEW c, NEW d, NEW e, NEW h
    PROVE  Stored([provider |-> a, model |-> b, url |-> c, key |-> d, mode |-> e,
                   headers |-> h, server |-> Blank])
             = [provider |-> a, model |-> b, url |-> c, key |-> d,
                mode |-> IF a = "custom" THEN e ELSE "openai-responses",
                headers |-> IF a = "custom" THEN h ELSE Blank, server |-> disk.server]
<1>. DEFINE c1 == [provider |-> a, model |-> b, url |-> c, key |-> d, mode |-> e,
                   headers |-> h, server |-> Blank]
<1>1. Stored(c1) = [c1 EXCEPT !.mode = IF c1.provider = "custom" THEN c1.mode
                                       ELSE "openai-responses",
                      !.headers = IF c1.provider = "custom" THEN c1.headers ELSE Blank,
                      !.server = IF c1.server = Blank THEN disk.server ELSE c1.server]
  BY DEF Stored
<1>. QED
  BY <1>1

(* What two configurations are compared by, field by field.                *)
LEMMA NormalIs ==
    ASSUME NEW a, NEW b, NEW c, NEW d, NEW e, NEW h, NEW i
    PROVE  Normal([provider |-> a, model |-> b, url |-> c, key |-> d, mode |-> e,
                   headers |-> h, server |-> i])
             = [provider |-> a, model |-> b, url |-> IF c \in CloudUrls THEN "cf" ELSE c,
                key |-> d, mode |-> e,
                headers |-> IF a = "custom" /\ h = Blank THEN "default" ELSE h,
                server |-> Blank]
<1>. DEFINE c1 == [provider |-> a, model |-> b, url |-> c, key |-> d, mode |-> e,
                   headers |-> h, server |-> i]
<1>1. Normal(c1) = [c1 EXCEPT !.url = IF c1.url \in CloudUrls THEN "cf" ELSE c1.url,
                      !.headers = IF c1.provider = "custom" /\ c1.headers = Blank
                                  THEN "default" ELSE c1.headers,
                      !.server = Blank]
  BY DEF Normal
<1>. QED
  BY <1>1

(* A form that shows a configuration saves it.                             *)
LEMMA ShownSaved ==
    ASSUME NEW f \in Forms, NEW mem, NEW r \in Configurations, NEW q \in Files,
           ShowsConfig(f, mem, r)
    PROVE  Normal(Stored(Payload(f, q))) = Normal(r)
<1>. DEFINE g == Resolve(f)
            s == Stored(Payload(f, q))
<1>1. r \in Files /\ r.key # Blank
  BY DEF Files, Configurations
<1>2. f.preset \in Presets /\ (IsGateway(f.preset) <=> r.provider = "custom")
  BY <1>1, Detected, PresetTable DEF ShowsConfig, Forms
<1>3. PROVIDER_PRESETS[f.preset].runtime = r.provider
  BY <1>1, <1>2, Detected, PresetTable, BlankOnly DEF ShowsConfig, NoConfig
<1>4. /\ g \in Forms /\ Others(g, f) /\ g.mode = f.mode
      /\ f.preset # "cloudflare" => g = f
      /\ f.preset = "cloudflare" /\ r.provider = "custom" => g.url \in CloudUrls
  BY ResolveTyped, BlankOnly DEF ShowsConfig
<1>5. EffectiveKey(g, q) = r.key
  BY <1>1, <1>4, KeyTyped DEF ShowsConfig, Others
<1>. HIDE DEF g
<1>. DEFINE p == [provider |-> r.provider, model |-> r.model,
                  url |-> IF r.provider = "custom" THEN g.url ELSE Blank, key |-> r.key,
                  mode |-> IF r.provider = "custom" THEN r.mode ELSE Blank,
                  headers |-> IF r.provider = "custom" THEN f.headers ELSE Blank,
                  server |-> Blank]
            n == [provider |-> r.provider, model |-> r.model,
                  url |-> IF r.url \in CloudUrls THEN "cf" ELSE r.url, key |-> r.key,
                  mode |-> r.mode,
                  headers |-> IF r.provider = "custom" /\ r.headers = Blank THEN "default"
                              ELSE r.headers,
                  server |-> Blank]
<1>6. Payload(f, q) = p
  <2>1. g.preset = f.preset /\ g.model = f.model /\ g.headers = f.headers /\ g.mode = f.mode
    BY <1>4 DEF Others
  <2>2. Payload(f, q) =
          [provider |-> PROVIDER_PRESETS[g.preset].runtime, model |-> g.model,
           url |-> IF IsGateway(g.preset) THEN g.url ELSE Blank, key |-> EffectiveKey(g, q),
           mode |-> IF IsGateway(g.preset) THEN g.mode ELSE Blank,
           headers |-> IF IsGateway(g.preset) THEN g.headers ELSE Blank, server |-> Blank]
    BY DEF Payload, g
  <2>3. g.model = r.model /\ (r.provider = "custom" => g.mode = r.mode)
    BY <2>1 DEF ShowsConfig
  <2>. QED
    BY <1>2, <1>3, <1>5, <2>1, <2>2, <2>3
<1>7. Normal(r) = n
  <2>. DEFINE c == [provider |-> r.provider, model |-> r.model, url |-> r.url, key |-> r.key,
                    mode |-> r.mode, headers |-> r.headers, server |-> r.server]
  <2>1. r = c
    BY FileFields
  <2>2. Normal(c) = n
    BY NormalIs
  <2>3. Normal(r) = Normal(c)
    <3>. HIDE DEF c
    <3>. QED
      BY <2>1
  <2>. QED
    BY <2>2, <2>3
<1>8. Stored(p) = [provider |-> r.provider, model |-> r.model,
                   url |-> IF r.provider = "custom" THEN g.url ELSE Blank, key |-> r.key,
                   mode |-> IF r.provider = "custom" THEN r.mode ELSE "openai-responses",
                   headers |-> IF r.provider = "custom" THEN f.headers ELSE Blank,
                   server |-> disk.server]
  BY StoredIs
<1>9. Normal(Stored(p)) =
        LET u == IF r.provider = "custom" THEN g.url ELSE Blank
            h == IF r.provider = "custom" THEN f.headers ELSE Blank
        IN  [provider |-> r.provider, model |-> r.model,
             url |-> IF u \in CloudUrls THEN "cf" ELSE u, key |-> r.key,
             mode |-> IF r.provider = "custom" THEN r.mode ELSE "openai-responses",
             headers |-> IF r.provider = "custom" /\ h = Blank THEN "default" ELSE h,
             server |-> Blank]
  BY <1>8, NormalIs
<1>. HIDE DEF p
<1>10. CASE r.provider = "custom"
  <2>1. f.headers = IF r.headers = Blank THEN "default" ELSE r.headers
    BY <1>10 DEF ShowsConfig
  <2>2. f.headers # Blank
    BY <2>1, BlankOnly
  <2>3. IF r.url \in CloudUrls THEN g.url \in CloudUrls ELSE g.url = r.url
    BY <1>1, <1>4, <1>10, Detected DEF ShowsConfig
  <2>. QED
    BY <1>6, <1>7, <1>9, <1>10, <2>1, <2>2, <2>3
<1>11. CASE r.provider # "custom"
  <2>1. r.url = Blank /\ r.mode = "openai-responses" /\ r.headers = Blank
    BY <1>11 DEF Configurations
  <2>. QED
    BY <1>6, <1>7, <1>9, <1>11, <2>1
<1>. QED
  BY <1>10, <1>11
-----------------------------------------------------------------------------
(* The steps of the setup form.                                            *)

(* The calls of the panel stay as they are; the others carry what they should. *)
CallsKept ==
    /\ \A c \in calls' : FormCall(c)
    /\ \A c : c.op \in {"pair", "refresh"} => (c \in calls' <=> c \in calls)

FormShows == hydrated # NoConfig => ShowsConfig(form, memory, hydrated)

(* A call that goes on to its next stage carries what it carried.          *)
LEMMA Renamed ==
    ASSUME NEW c, FormCall(c), NEW x
    PROVE  [c EXCEPT !.at = x] = Call(c.op, x, c.arg)
<1>1. \A op, at, arg : [[op |-> op, at |-> at, arg |-> arg] EXCEPT !.at = x]
                         = [op |-> op, at |-> x, arg |-> arg]
  OBVIOUS
<1>2. c = [op |-> c.op, at |-> c.at, arg |-> c.arg]
  BY DEF FormCall, Call
<1>. QED
  BY <1>1, <1>2 DEF Call

(* The parts of a call.                                                    *)
LEMMA CallParts ==
    \A op, at, arg : /\ Call(op, at, arg).op = op /\ Call(op, at, arg).at = at
                     /\ Call(op, at, arg).arg = arg
BY DEF Call

(* A call of the form that ends, or goes on, leaves the panel's calls      *)
(* alone.                                                                  *)
LEMMA CallsMoved ==
    ASSUME \A c \in calls : FormCall(c),
           NEW c, c.op \notin {"pair", "refresh"}
    PROVE  /\ Ends(c) => CallsKept
           /\ \A d : Goes(c, d) /\ FormCall(d) /\ d.op \notin {"pair", "refresh"} => CallsKept
BY DEF Ends, Goes, CallsKept

(* So does a new call of the form.                                         *)
LEMMA CallsAdded ==
    ASSUME \A c \in calls : FormCall(c),
           NEW d, FormCall(d), d.op \notin {"pair", "refresh"},
           calls' = calls \cup {d}
    PROVE  CallsKept
BY DEF CallsKept

(* And a step without a call.                                              *)
LEMMA CallsSame ==
    ASSUME \A c \in calls : FormCall(c), UNCHANGED calls
    PROVE  CallsKept
BY DEF CallsKept

(* A fetch of models is sent to a URL.                                     *)
LEMMA FetchCalls ==
    ASSUME NEW f \in Forms, NEW r \in Files, NEW show, f.url # Blank
    PROVE  FormCall(FetchCall(f, r, show)) /\ FetchCall(f, r, show).op = "fetch"
<1>1. f.url \in Urls
  BY DEF Forms
<1>2. currentFetchKey(f, r).url = f.url
  BY DEF currentFetchKey
<1>. DEFINE k == currentFetchKey(f, r)
<1>. HIDE DEF k
<1>3. FetchCall(f, r, show) = Call("fetch", show, k)
  BY DEF FetchCall, k
<1>. QED
  BY <1>1, <1>2, <1>3, CallParts DEF FormCall, k

(* A handler that ends in a fetch leaves the panel's calls alone.          *)
LEMMA RefetchKept ==
    ASSUME \A c \in calls : FormCall(c), raw \in Files, NEW f \in Forms, Refetch(f)
    PROVE  CallsKept
<1>1. CASE Fetches(f, raw, TRUE, fetchKey)
  <2>1. f.url # Blank /\ calls' = calls \cup {FetchCall(f, raw, "stay")}
    BY <1>1 DEF Refetch, Fetches
  <2>. QED
    BY <2>1, FetchCalls, CallsAdded
<1>2. CASE ~Fetches(f, raw, TRUE, fetchKey)
  BY <1>2, CallsSame DEF Refetch
<1>. QED
  BY <1>1, <1>2

(* A form without its key is well-formed.                                  *)
LEMMA KeylessTyped ==
    ASSUME NEW f \in Forms
    PROVE  [f EXCEPT !.key = Blank] \in Forms
BY DEF Forms, Keys

(* The user's edits leave a well-formed form.                              *)
LEMMA EditStep ==
    ASSUME FormIInv, Edit, form' \in Forms, memory' \in Memories,
           offered' \in Urls \cup {Blank}, CallsKept
    PROVE  FormIInv' /\ CallsKept
BY DEF FormIInv, FormTypeOK, Edit, pairCopies, CallsKept, Files

(* Choosing a provider.                                                    *)
LEMMA ChangeProviderStep ==
    ASSUME FormIInv, NEW p \in Shown, ChangeProvider(p)
    PROVE  FormIInv' /\ CallsKept
<1>1. p \in Presets /\ form \in Forms /\ memory \in Memories
  BY PresetTable, FormAssumption DEF FormIInv, FormTypeOK
<1>2. Chosen(p) \in Forms
  <2>. DEFINE a == [applyProviderPreset(form, p, memory, FALSE) EXCEPT !.key = Blank]
              f == setModelValue(a, Blank, memory)
              u == [f EXCEPT !.headers = "default", !.account = Blank,
                     !.url = IF isCloudflarePreset(p) THEN @ ELSE PROVIDER_PRESETS[p].url]
  <2>1. a \in Forms
    BY <1>1, PresetTyped, KeylessTyped
  <2>. HIDE DEF a
  <2>2. f \in Forms
    BY <1>1, <2>1, ModelTyped
  <2>. HIDE DEF f
  <2>3. u \in Forms
    <3>1. /\ PROVIDER_PRESETS[p].url \in Urls \cup {Blank}
          /\ f.url \in Urls \cup {Blank} /\ "default" \in Headers
      BY <1>1, <2>2, PresetTable DEF Forms, Headers
    <3>2. \A v \in Urls \cup {Blank}, d \in Headers :
            [f EXCEPT !.headers = d, !.account = Blank, !.url = v] \in Forms
      BY <2>2 DEF Forms
    <3>3. (IF isCloudflarePreset(p) THEN f.url ELSE PROVIDER_PRESETS[p].url) \in Urls \cup {Blank}
      BY <3>1
    <3>. QED
      BY <3>1, <3>2, <3>3
  <2>4. Chosen(p) = IF ~IsGateway(p) THEN f ELSE Resolve(u)
    BY DEF Chosen, f, a
  <2>. QED
    BY <2>2, <2>3, <2>4, ResolveTyped
<1>. QED
  BY <1>1, <1>2, EditStep, CallsSame DEF ChangeProvider, FormIInv, FormTypeOK

(* Showing or hiding the advanced providers.                               *)
LEMMA ToggleAdvancedStep ==
    ASSUME FormIInv, ToggleAdvanced
    PROVE  FormIInv' /\ CallsKept
<1>1. form \in Forms /\ memory \in Memories
  BY DEF FormIInv, FormTypeOK
<1>. DEFINE p == IF adv /\ isAdvancedProviderPreset(form.preset) THEN "openai" ELSE form.preset
            a == [applyProviderPreset(form, p, memory, FALSE) EXCEPT !.key = Blank]
<1>2. p \in Presets
  BY <1>1 DEF Forms, Presets
<1>. HIDE DEF p
<1>3. a \in Forms
  BY <1>1, <1>2, PresetTyped, KeylessTyped
<1>. HIDE DEF a
<1>4. setModelValue(a, Blank, memory) \in Forms
  BY <1>1, <1>3, ModelTyped
<1>5. form' = setModelValue(a, Blank, memory)
  BY DEF ToggleAdvanced, a, p
<1>. QED
  BY <1>1, <1>4, <1>5, EditStep, CallsSame DEF ToggleAdvanced, FormIInv, FormTypeOK

(* Entering or choosing a model.                                           *)
LEMMA EnterModelStep ==
    ASSUME FormIInv, NEW m \in Models, EnterModel(m)
    PROVE  FormIInv' /\ CallsKept
<1>1. form \in Forms /\ memory \in Memories
  BY DEF FormIInv, FormTypeOK
<1>2. setModelValue(form, m, memory) \in Forms
  BY <1>1, ModelTyped
<1>. QED
  BY <1>1, <1>2, EditStep, CallsSame DEF EnterModel, FormIInv, FormTypeOK

(* Typing a key, a URL, headers or an account.                             *)
LEMMA EnterInputStep ==
    ASSUME FormIInv, EnterInput
    PROVE  FormIInv' /\ CallsKept
<1>1. form \in Forms /\ raw \in Files
  BY DEF FormIInv, FormTypeOK
<1>2. form' \in Forms
  <2>1. \A k \in TypedKeys : [form EXCEPT !.key = k] \in Forms
    BY <1>1 DEF Forms, Keys
  <2>2. \A u \in TypedUrls : [form EXCEPT !.url = u] \in Forms
    BY <1>1 DEF Forms, Urls
  <2>3. \A h \in TypedHeaders : [form EXCEPT !.headers = h] \in Forms
    BY <1>1 DEF Forms, Headers
  <2>4. \A a \in {Blank, "account"} : [form EXCEPT !.account = a] \in Forms
    BY <1>1 DEF Forms
  <2>5. \A a \in {Blank, "account"} : Resolve([form EXCEPT !.account = a]) \in Forms
    BY <2>4, ResolveTyped
  <2>. QED
    BY <2>1, <2>2, <2>3, <2>5 DEF EnterInput
<1>3. CallsKept
  BY <1>1, <1>2, RefetchKept DEF EnterInput, FormIInv, FormTypeOK
<1>. QED
  BY <1>2, <1>3, EditStep DEF EnterInput, FormIInv, FormTypeOK

(* Choosing the API mode, which is remembered.                             *)
LEMMA EnterModeStep ==
    ASSUME FormIInv, NEW mode \in Modes, EnterMode(mode)
    PROVE  FormIInv' /\ CallsKept
<1>1. form \in Forms /\ memory \in Memories /\ raw \in Files
  BY DEF FormIInv, FormTypeOK
<1>2. [Resolve(form) EXCEPT !.mode = mode] \in Forms
  BY <1>1, ResolveTyped DEF Forms
<1>3. form' \in Forms
  BY <1>2, ResolveTyped DEF EnterMode
<1>4. memory' \in Memories
  BY <1>1, <1>3, RememberTyped DEF EnterMode
<1>5. CallsKept
  BY <1>1, <1>3, RefetchKept DEF EnterMode, FormIInv, FormTypeOK
<1>. QED
  BY <1>3, <1>4, <1>5, EditStep DEF EnterMode, FormIInv, FormTypeOK

(* What does not edit the form leaves it showing what it showed.           *)
LEMMA KeptStep ==
    ASSUME FormIInv, UNCHANGED <<disk, raw, pairCopies, hydrated>>,
           form' \in Forms, memory' \in Memories, offered' \in Urls \cup {Blank},
           hydrated # NoConfig => ShowsConfig(form', memory', hydrated), CallsKept
    PROVE  FormIInv' /\ CallsKept
BY DEF FormIInv, FormTypeOK, pairCopies, CallsKept

(* Asking for the models leaves the form showing what it showed.           *)
LEMMA FetchClickStep ==
    ASSUME FormIInv, FetchClick
    PROVE  FormIInv' /\ CallsKept
<1>1. form \in Forms /\ memory \in Memories /\ raw \in Files /\ hydrated \in Files
  BY DEF FormIInv, FormTypeOK
<1>2. form' = Resolve(form) /\ form' \in Forms
  BY <1>1, ResolveTyped DEF FetchClick
<1>3. CallsKept
  BY <1>1, <1>2, RefetchKept DEF FetchClick, FormIInv, FormTypeOK
<1>4. hydrated # NoConfig => ShowsConfig(form', memory, hydrated)
  BY <1>1, <1>2, ResolveShows DEF FormIInv, Files
<1>. QED
  BY <1>1, <1>2, <1>3, <1>4, KeptStep DEF FetchClick, FormIInv, FormTypeOK

(* So does a change of language, which applies the preset again.           *)
LEMMA ChangeLanguageStep ==
    ASSUME FormIInv, ChangeLanguage
    PROVE  FormIInv' /\ CallsKept
<1>. DEFINE f == applyProviderPreset(form, form.preset, memory, TRUE)
<1>1. form \in Forms /\ memory \in Memories /\ hydrated \in Files
  BY DEF FormIInv, FormTypeOK
<1>2. f \in Forms
  BY <1>1, PresetTyped DEF Forms
<1>3. hydrated # NoConfig => ShowsConfig(f, memory, hydrated)
  BY <1>1, PresetShows DEF FormIInv, Files
<1>4. form' = SyncMode(f, memory, FALSE)
  BY DEF ChangeLanguage, renderModelSuggestions
<1>. HIDE DEF f
<1>5. form' \in Forms
  BY <1>1, <1>2, <1>4, SyncTyped
<1>6. hydrated # NoConfig => ShowsConfig(form', memory, hydrated)
  BY <1>1, <1>2, <1>3, <1>4, SyncShows DEF Files
<1>. QED
  BY <1>1, <1>5, <1>6, KeptStep, CallsSame DEF ChangeLanguage, FormIInv, FormTypeOK

(* A save is asked for with a payload the checks passed (saveAndEnter).    *)
LEMMA SaveAndEnterStep ==
    ASSUME FormIInv, SaveAndEnter
    PROVE  FormIInv' /\ CallsKept
<1>. DEFINE arg == [preset |-> form.preset, payload |-> Payload(form, raw)]
            at == IF isManagedAuthPreset(form.preset) THEN "auth" ELSE "save"
<1>1. form \in Forms /\ memory \in Memories /\ raw \in Files /\ hydrated \in Files
  BY DEF FormIInv, FormTypeOK
<1>2. Savable(arg.payload)
  BY <1>1, CompleteSavable DEF SaveAndEnter
<1>3. FormCall(Call("enter", at, arg)) /\ Call("enter", at, arg).op = "enter"
  <2>. HIDE DEF arg, at
  <2>. QED
    BY <1>2, CallParts DEF FormCall
<1>4. CallsKept
  BY <1>3, CallsAdded DEF SaveAndEnter, FormIInv, FormTypeOK
<1>5. form' = Resolve(form) /\ form' \in Forms
  BY <1>1, ResolveTyped DEF SaveAndEnter
<1>6. hydrated # NoConfig => ShowsConfig(form', memory, hydrated)
  BY <1>1, <1>5, ResolveShows DEF FormIInv, Files
<1>. QED
  BY <1>1, <1>4, <1>5, <1>6, KeptStep DEF SaveAndEnter, FormIInv, FormTypeOK

(* A step that only moves calls.                                           *)
LEMMA MovedStep ==
    ASSUME FormIInv, UNCHANGED <<raw, formVars, pairCopies>>, disk' \in Files, CallsKept
    PROVE  FormIInv' /\ CallsKept
BY DEF FormIInv, FormTypeOK, pairCopies, formVars, CallsKept

(* Fetched models are offered; one is filled in only when none is shown.   *)
LEMMA FetchReturnsStep ==
    ASSUME FormIInv, FetchReturns
    PROVE  FormIInv' /\ CallsKept
<1>1. PICK c \in calls : c.op = "fetch" /\ Ends(c) /\ ModelsAnswer(c)
  BY DEF FetchReturns
<1>2. /\ form \in Forms /\ memory \in Memories /\ hydrated \in Files
      /\ c.arg.url \in Urls /\ offered \in Urls \cup {Blank}
  BY <1>1 DEF FormIInv, FormTypeOK, FormCall
<1>3. CallsKept
  BY <1>1, CallsMoved DEF FormIInv, FormTypeOK
<1>4. /\ UNCHANGED <<disk, raw, pairCopies, hydrated, memory>>
      /\ offered' \in Urls \cup {Blank}
  BY <1>1, <1>2 DEF FetchReturns, ModelsAnswer
<1>5. form' \in Forms /\ (hydrated # NoConfig => ShowsConfig(form', memory, hydrated))
  <2>. DEFINE f == SyncMode(form, memory, FALSE)
  <2>1. f \in Forms
    BY <1>2, SyncTyped
  <2>2. hydrated # NoConfig => ShowsConfig(f, memory, hydrated) /\ f.model # Blank
    <3>. SUFFICES ASSUME hydrated # NoConfig
                  PROVE  ShowsConfig(f, memory, hydrated) /\ f.model # Blank
      OBVIOUS
    <3>1. hydrated \in Configurations
      BY <1>2 DEF Files
    <3>2. hydrated.model # Blank
      BY <3>1, FormAssumption DEF Configurations
    <3>. QED
      BY <1>2, <3>1, <3>2, SyncShows DEF FormIInv, ShowsConfig
  <2>. HIDE DEF f
  <2>3. ModelAt[c.arg.url] \in Models
    BY <1>2, FormAssumption
  <2>4. \/ form' = form
        \/ form' = [f EXCEPT !.model = IF f.model = Blank THEN ModelAt[c.arg.url] ELSE f.model]
    BY <1>1 DEF ModelsAnswer, renderModelSuggestions, f
  <2>5. CASE form' = form
    BY <1>2, <2>5 DEF FormIInv
  <2>6. CASE form' = [f EXCEPT !.model = IF f.model = Blank THEN ModelAt[c.arg.url] ELSE f.model]
    <3>1. form' \in Forms
      BY <2>1, <2>3, <2>6 DEF Forms
    <3>2. hydrated # NoConfig => form' = f
      BY <2>1, <2>2, <2>6 DEF Forms
    <3>. QED
      BY <2>2, <3>1, <3>2
  <2>. QED
    BY <2>4, <2>5, <2>6
<1>. QED
  BY <1>2, <1>3, <1>4, <1>5, KeptStep

(* Managed authentication answers.                                         *)
LEMMA AuthReturnsStep ==
    ASSUME FormIInv, AuthReturns
    PROVE  FormIInv' /\ CallsKept
<1>1. PICK c \in calls : /\ c.op = "enter" /\ c.at = "auth"
                         /\ Goes(c, [c EXCEPT !.at = "save"]) \/ Ends(c)
  BY DEF AuthReturns
<1>2. FormCall(c)
  BY DEF FormIInv, FormTypeOK
<1>3. [c EXCEPT !.at = "save"] = Call("enter", "save", c.arg)
  BY <1>1, <1>2, Renamed
<1>4. FormCall(Call("enter", "save", c.arg))
  BY <1>1, <1>2, CallParts DEF FormCall
<1>5. CallsKept
  BY <1>1, <1>3, <1>4, CallsMoved, CallParts DEF FormIInv, FormTypeOK
<1>. QED
  BY <1>5, MovedStep DEF AuthReturns, FormIInv, FormTypeOK

(* A save leaves a file that can be read back; its call goes on.           *)
LEMMA WritesStep ==
    ASSUME FormTypeOK, NEW c \in calls, NEW p, Savable(p), Writes(c, p),
           c.op \in {"enter", "summary", "pair"}
    PROVE  /\ disk' \in Files
           /\ \A d \in calls' : FormCall(d)
           /\ \A d : d \in calls' /\ d \notin calls =>
                       d = Reload \/ (d.op = c.op /\ d.at \in {"saved", "refused"})
           /\ \A d \in calls : d # c => d \in calls'
<1>1. FormCall(c) /\ disk \in Files
  BY DEF FormTypeOK
<1>2. disk' \in Files
  BY <1>1, StoredFile DEF Writes, Files
<1>3. \A x : [c EXCEPT !.at = x] = Call(c.op, x, c.arg)
  BY <1>1, Renamed
<1>4. \A x \in {"saved", "refused"} : FormCall(Call(c.op, x, c.arg))
  BY CallParts DEF FormCall
<1>5. FormCall(Reload)
  BY CallParts DEF FormCall, Reload
<1>6. \/ calls' = (calls \ {c}) \cup {Call(c.op, "saved", c.arg), Reload}
      \/ calls' = (calls \ {c}) \cup {Call(c.op, "refused", c.arg)}
  BY <1>3 DEF Writes, Goes
<1>. QED
  BY <1>2, <1>4, <1>5, <1>6, CallParts DEF FormTypeOK

(* A save is written or refused.                                           *)
LEMMA SaveServedStep ==
    ASSUME FormIInv, SaveServed
    PROVE  FormIInv' /\ CallsKept
<1>1. PICK c \in calls : /\ c.op \in {"enter", "summary"} /\ c.at = "save"
                         /\ Writes(c, c.arg.payload)
  BY DEF SaveServed
<1>2. Savable(c.arg.payload)
  BY <1>1 DEF FormIInv, FormTypeOK, FormCall
<1>3. Reload.op = "backend"
  BY CallParts DEF Reload
<1>4. disk' \in Files /\ CallsKept
  BY <1>1, <1>2, <1>3, WritesStep DEF FormIInv, CallsKept
<1>. QED
  BY <1>4, MovedStep DEF SaveServed

(* The answer remembers the mode then shown, for the preset then saved.    *)
LEMMA SaveReturnsStep ==
    ASSUME FormIInv, SaveReturns
    PROVE  FormIInv' /\ CallsKept
<1>1. PICK c \in calls : /\ c.op = "enter"
                         /\ \/ /\ memory' = Remember(c.arg.preset, form, memory)
                               /\ Goes(c, Call("enter", "kernel", c.arg.preset))
                            \/ /\ Ends(c)
                               /\ UNCHANGED memory
  BY DEF SaveReturns
<1>2. form \in Forms /\ memory \in Memories /\ hydrated \in Files
  BY DEF FormIInv, FormTypeOK
<1>3. memory' \in Memories
  BY <1>1, <1>2, RememberTyped
<1>4. FormCall(Call("enter", "kernel", c.arg.preset))
  BY CallParts DEF FormCall
<1>5. CallsKept
  BY <1>1, <1>4, CallsMoved, CallParts DEF FormIInv, FormTypeOK
<1>6. hydrated # NoConfig => ShowsConfig(form, memory', hydrated)
  <2>. SUFFICES ASSUME hydrated # NoConfig, hydrated.provider = "custom",
                       memory' = Remember(c.arg.preset, form, memory)
                PROVE  memory'[<<form.preset, form.model>>] = hydrated.mode
    BY <1>1 DEF FormIInv, ShowsConfig
  <2>1. /\ memory[<<form.preset, form.model>>] = hydrated.mode
        /\ form.mode = hydrated.mode
    BY DEF FormIInv, ShowsConfig
  <2>2. <<form.preset, form.model>> \in Gateways \X Models
    BY <1>2, Detected DEF FormIInv, ShowsConfig, Files, Configurations
  <2>. QED
    BY <1>2, <2>1, <2>2 DEF Remember, Memories
<1>. QED
  BY <1>2, <1>3, <1>5, <1>6, KeptStep DEF SaveReturns, FormIInv, FormTypeOK

(* The kernel answers.                                                     *)
LEMMA KernelReturnsStep ==
    ASSUME FormIInv, KernelReturns
    PROVE  FormIInv' /\ CallsKept
<1>1. PICK c \in calls : c.op = "enter" /\ Goes(c, [c EXCEPT !.at = "web"])
  BY DEF KernelReturns
<1>2. [c EXCEPT !.at = "web"] = Call("enter", "web", c.arg)
  BY <1>1, Renamed DEF FormIInv, FormTypeOK
<1>3. FormCall(Call("enter", "web", c.arg))
  BY CallParts DEF FormCall
<1>4. CallsKept
  BY <1>1, <1>2, <1>3, CallsMoved, CallParts DEF FormIInv, FormTypeOK
<1>. QED
  BY <1>4, MovedStep DEF KernelReturns, FormIInv, FormTypeOK

(* The dashboard is opened.                                                *)
LEMMA OpenWebStep ==
    ASSUME FormIInv, openOpenClawWeb
    PROVE  FormIInv' /\ CallsKept
<1>1. PICK c \in calls : c.op = "enter" /\ (Ends(c) \/ Goes(c, Loading))
  BY DEF openOpenClawWeb
<1>2. FormCall(Loading) /\ Loading.op = "load"
  BY CallParts DEF FormCall, Loading
<1>3. CallsKept
  BY <1>1, <1>2, CallsMoved DEF FormIInv, FormTypeOK
<1>. QED
  BY <1>3, MovedStep DEF openOpenClawWeb, FormIInv, FormTypeOK

(* A mode is chosen in the summary.                                        *)
LEMMA SummaryModeStep ==
    ASSUME FormIInv, NEW mode \in Modes, SummaryMode(mode)
    PROVE  FormIInv' /\ CallsKept
<1>. DEFINE d == Call("summary", "read", [mode |-> mode])
<1>1. FormCall(d) /\ d.op = "summary"
  BY CallParts DEF FormCall
<1>2. CallsKept
  BY <1>1, CallsAdded DEF SummaryMode, FormIInv, FormTypeOK
<1>. QED
  BY <1>2, MovedStep DEF SummaryMode, formVars, FormIInv, FormTypeOK

(* The summary's save is what was read with another mode.                  *)
LEMMA SummaryReadsStep ==
    ASSUME FormIInv, SummaryReads
    PROVE  FormIInv' /\ CallsKept
<1>. DEFINE d(c) == Call("summary", "save", [payload |-> [disk EXCEPT !.mode = c.arg.mode]])
<1>1. PICK c \in calls :
        /\ c.op = "summary" /\ c.at = "read"
        /\ IF disk.provider = "custom" THEN Goes(c, d(c)) ELSE Ends(c)
  BY DEF SummaryReads
<1>2. c.arg.mode \in Modes
  BY <1>1 DEF FormIInv, FormTypeOK, FormCall
<1>3. disk.provider = "custom" => Savable([disk EXCEPT !.mode = c.arg.mode])
  BY <1>2, FileSavable DEF FormIInv, FormTypeOK
<1>4. disk.provider = "custom" => FormCall(d(c)) /\ d(c).op = "summary"
  <2>. DEFINE p == [disk EXCEPT !.mode = c.arg.mode]
  <2>1. d(c) = Call("summary", "save", [payload |-> p])
    OBVIOUS
  <2>. HIDE DEF p, d
  <2>. QED
    BY <1>3, <2>1, CallParts DEF FormCall, p
<1>. HIDE DEF d
<1>5. CallsKept
  BY <1>1, <1>4, CallsMoved DEF FormIInv, FormTypeOK
<1>. QED
  BY <1>5, MovedStep DEF SummaryReads, FormIInv, FormTypeOK

(* The summary's save answers.                                             *)
LEMMA SummaryReturnsStep ==
    ASSUME FormIInv, SummaryReturns
    PROVE  FormIInv' /\ CallsKept
<1>1. PICK c \in calls : c.op = "summary" /\ Ends(c)
  BY DEF SummaryReturns
<1>2. CallsKept
  BY <1>1, CallsMoved DEF FormIInv, FormTypeOK
<1>. QED
  BY <1>2, MovedStep DEF SummaryReturns, FormIInv, FormTypeOK

(* A read of the configuration is answered with what is on disk.           *)
LEMMA ReadCall ==
    ASSUME NEW op, NEW r \in Files, op \in {"load", "reconf", "pair", "refresh"}
    PROVE  FormCall(Call(op, "raw", r))
BY CallParts DEF FormCall

(* The shell's first load is served.                                       *)
LEMMA LoadServedStep ==
    ASSUME FormIInv, LoadServed
    PROVE  FormIInv' /\ CallsKept
<1>1. PICK c \in calls :
        /\ c.op = "load"
        /\ \/ Goes(c, [c EXCEPT !.at = IF disk = NoConfig THEN "empty" ELSE "read"])
           \/ Goes(c, Call("load", "raw", disk))
  BY DEF LoadServed
<1>2. FormCall(c) /\ disk \in Files
  BY DEF FormIInv, FormTypeOK
<1>3. ASSUME NEW x \in {"empty", "read"}
      PROVE  /\ [c EXCEPT !.at = x] = Call("load", x, c.arg)
             /\ FormCall(Call("load", x, c.arg)) /\ Call("load", x, c.arg).op = "load"
  BY <1>1, <1>2, Renamed, CallParts DEF FormCall
<1>4. /\ FormCall(Call("load", "raw", disk)) /\ Call("load", "raw", disk).op = "load"
  BY <1>1, <1>2, ReadCall, CallParts
<1>5. CallsKept
  BY <1>1, <1>3, <1>4, CallsMoved DEF FormIInv, FormTypeOK
<1>. QED
  BY <1>5, MovedStep DEF LoadServed, FormIInv, FormTypeOK

(* The form is filled from a file.                                         *)
LEMMA HydrateStep ==
    ASSUME FormIInv, NEW r \in Files, NEW withKey \in BOOLEAN, Hydrate(r, withKey),
           r # NoConfig => withKey, UNCHANGED disk, CallsKept
    PROVE  FormIInv' /\ CallsKept
<1>1. form \in Forms /\ memory \in Memories
  BY DEF FormIInv, FormTypeOK
<1>2. /\ form' = HydratedForm(r, withKey) /\ form' \in Forms
      /\ memory' = HydratedMemory(r) /\ memory' \in Memories
  BY <1>1, HydratedTyped DEF Hydrate
<1>3. r # NoConfig => ShowsConfig(form', memory', r)
  BY <1>1, <1>2, HydratedShows DEF Files
<1>4. pairRaw' = r /\ draftUrl' \in Places
  BY DEF Hydrate, SyncPair, Places, Files, Configurations, NoConfig
<1>5. raw' = r /\ hydrated' = r /\ offered' = Blank
  BY DEF Hydrate
<1>. QED
  BY <1>2, <1>3, <1>4, <1>5 DEF FormIInv, FormTypeOK, CallsKept

(* Its answer fills the form with nothing, or keeps the configuration.     *)
LEMMA LoadReturnsStep ==
    ASSUME FormIInv, LoadReturns
    PROVE  FormIInv' /\ CallsKept
<1>1. PICK c \in calls :
        /\ c.op = "load"
        /\ \/ /\ c.at = "raw"
              /\ raw' = c.arg
              /\ SyncPair(c.arg)
              /\ Goes(c, Call("load", "main", NoConfig))
              /\ UNCHANGED <<formVars, view>>
           \/ /\ c.at = "empty"
              /\ Hydrate(NoConfig, FALSE)
              /\ Goes(c, Call("load", "setup", NoConfig))
           \/ /\ c.at \in {"main", "setup"}
              /\ Ends(c)
              /\ UNCHANGED <<raw, formVars, pairCopies>>
  BY DEF LoadReturns
<1>2. UNCHANGED disk /\ FormCall(c)
  BY DEF LoadReturns, FormIInv, FormTypeOK
<1>3. ASSUME NEW x \in {"main", "setup"}
      PROVE  /\ FormCall(Call("load", x, NoConfig))
             /\ Call("load", x, NoConfig).op = "load"
  BY CallParts DEF FormCall
<1>4. CallsKept
  BY <1>1, <1>3, CallsMoved DEF FormIInv, FormTypeOK
<1>5. CASE c.at = "raw" /\ raw' = c.arg /\ SyncPair(c.arg) /\ UNCHANGED formVars
  <2>1. c.arg \in Files
    BY <1>1, <1>2, <1>5 DEF FormCall
  <2>2. raw' \in Files /\ pairRaw' \in Files /\ draftUrl' \in Places
    BY <1>5, <2>1 DEF SyncPair, Places, Files, Configurations, NoConfig
  <2>. QED
    BY <1>2, <1>4, <1>5, <2>2 DEF FormIInv, FormTypeOK, CallsKept, formVars
<1>6. CASE Hydrate(NoConfig, FALSE)
  BY <1>2, <1>4, <1>6, HydrateStep DEF Files
<1>7. CASE UNCHANGED <<raw, formVars, pairCopies>>
  BY <1>2, <1>4, <1>7, MovedStep DEF FormIInv, FormTypeOK
<1>. QED
  BY <1>1, <1>5, <1>6, <1>7

(* The user reconfigures.                                                  *)
LEMMA ReconfigureStep ==
    ASSUME FormIInv, Reconfigure
    PROVE  FormIInv' /\ CallsKept
<1>. DEFINE d == Call("reconf", "read", NoConfig)
<1>1. FormCall(d) /\ d.op = "reconf"
  BY CallParts DEF FormCall
<1>2. CallsKept
  BY <1>1, CallsAdded DEF Reconfigure, FormIInv, FormTypeOK
<1>. QED
  BY <1>2, MovedStep DEF Reconfigure, FormIInv, FormTypeOK

(* Reconfiguring reads the configuration.                                  *)
LEMMA ReconfigureReadsStep ==
    ASSUME FormIInv, ReconfigureReads
    PROVE  FormIInv' /\ CallsKept
<1>1. PICK c \in calls : c.op = "reconf" /\ Goes(c, Call("reconf", "raw", disk))
  BY DEF ReconfigureReads
<1>2. FormCall(c) /\ disk \in Files
  BY DEF FormIInv, FormTypeOK
<1>3. CallsKept
  BY <1>1, <1>2, ReadCall, CallsMoved, CallParts DEF FormIInv, FormTypeOK
<1>. QED
  BY <1>3, MovedStep DEF ReconfigureReads, FormIInv, FormTypeOK

(* And fills the form from it.                                             *)
LEMMA ReconfigureReturnsStep ==
    ASSUME FormIInv, ReconfigureReturns
    PROVE  FormIInv' /\ CallsKept
<1>1. PICK c \in calls :
        /\ c.op = "reconf" /\ c.at = "raw"
        /\ Hydrate(c.arg, TRUE)
        /\ \/ /\ Fetches(form', c.arg, FALSE, NoFetch)
              /\ Goes(c, FetchCall(form', c.arg, "show"))
           \/ Ends(c)
  BY DEF ReconfigureReturns
<1>2. c.arg \in Files /\ UNCHANGED disk
  BY <1>1 DEF ReconfigureReturns, FormIInv, FormTypeOK, FormCall
<1>3. form' \in Forms
  BY <1>1, <1>2, HydratedTyped DEF Hydrate, FormIInv, FormTypeOK
<1>4. CASE Fetches(form', c.arg, FALSE, NoFetch) /\ Goes(c, FetchCall(form', c.arg, "show"))
  <2>. DEFINE d == FetchCall(form', c.arg, "show")
  <2>1. form'.url # Blank
    BY <1>4 DEF Fetches
  <2>2. FormCall(d) /\ d.op = "fetch"
    BY <1>2, <1>3, <2>1, FetchCalls
  <2>3. CallsKept
    BY <1>1, <1>4, <2>2, CallsMoved DEF FormIInv, FormTypeOK
  <2>. QED
    BY <1>1, <1>2, <2>3, HydrateStep
<1>5. CASE Ends(c)
  <2>1. CallsKept
    BY <1>1, <1>5, CallsMoved DEF FormIInv, FormTypeOK
  <2>. QED
    BY <1>1, <1>2, <2>1, HydrateStep
<1>. QED
  BY <1>1, <1>4, <1>5

(* Every step of the form keeps its invariant and leaves the panel's calls *)
(* alone.                                                                  *)
LEMMA SetupStep ==
    ASSUME FormIInv, SetupNext
    PROVE  FormIInv' /\ CallsKept
<1>1. CASE FormNext
  <2>1. ASSUME NEW p \in Shown, ChangeProvider(p)  PROVE FormIInv' /\ CallsKept
    BY <2>1, ChangeProviderStep
  <2>2. ASSUME NEW m \in Models, EnterModel(m)  PROVE FormIInv' /\ CallsKept
    BY <2>2, EnterModelStep
  <2>3. ASSUME NEW mode \in Modes, EnterMode(mode)  PROVE FormIInv' /\ CallsKept
    BY <2>3, EnterModeStep
  <2>4. ASSUME NEW mode \in Modes, SummaryMode(mode)  PROVE FormIInv' /\ CallsKept
    BY <2>4, SummaryModeStep
  <2>5. CASE PickModel
    <3>1. ModelAt[offered] \in Models
      BY <2>5, FormAssumption DEF PickModel, FormIInv, FormTypeOK
    <3>. QED
      BY <2>5, <3>1, EnterModelStep DEF PickModel
  <2>. QED
    BY <1>1, <2>1, <2>2, <2>3, <2>4, <2>5, EnterInputStep, ToggleAdvancedStep, FetchClickStep,
       ChangeLanguageStep, SaveAndEnterStep, ReconfigureStep DEF FormNext
<1>2. CASE SetupAnswers
  BY <1>2, FetchReturnsStep, AuthReturnsStep, SaveServedStep, SaveReturnsStep,
     KernelReturnsStep, OpenWebStep, SummaryReadsStep, SummaryReturnsStep, LoadServedStep,
     LoadReturnsStep, ReconfigureReadsStep, ReconfigureReturnsStep DEF SetupAnswers
<1>. QED
  BY <1>1, <1>2 DEF SetupNext

(* The form starts at its defaults, showing no configuration.              *)
LEMMA FormInit == DeskInit => FormIInv
<1>. SUFFICES ASSUME DeskInit  PROVE FormIInv
  OBVIOUS
<1>1. PICK s \in Scenarios :
        /\ SetupInit(s)
        /\ calls \subseteq {Loading, PanelCall("get", Blank), Reload}
  BY DEF DeskInit
<1>2. disk \in Files /\ raw \in Files /\ pairRaw \in Files /\ hydrated = NoConfig
  BY <1>1, FormAssumption DEF SetupInit, Files
<1>3. draftUrl \in Places /\ offered \in Urls \cup {Blank}
  BY <1>1 DEF SetupInit, Places
<1>4. form \in Forms
  BY <1>1 DEF SetupInit, Forms, Presets, Keys, Headers
<1>5. memory \in Memories
  <2>1. {p \in DOMAIN PROVIDER_PRESETS : IsGateway(p)} = Gateways
    BY PresetTable DEF Gateways, Presets
  <2>. QED
    BY <1>1, <2>1 DEF SetupInit, Memories
<1>6. /\ FormCall(Loading) /\ FormCall(PanelCall("get", Blank)) /\ FormCall(Reload)
  BY CallParts DEF FormCall, Loading, Reload, PanelCall
<1>. QED
  BY <1>1, <1>2, <1>3, <1>4, <1>5, <1>6 DEF FormIInv, FormTypeOK, Files
-----------------------------------------------------------------------------
(* The steps of the panel.                                                 *)

Channels == [Chans -> ChannelStates]
Shows == [channels : Channels, version : Nat, open : BOOLEAN]
Chats == [active : Chans \cup {Blank}, open : BOOLEAN, draft : Chans \cup {Blank}]

(* A channel has a state and a peer; only an absent one has the status     *)
(* "none".                                                                 *)
LEMMA ChannelStatesAre ==
    /\ \A x \in ChannelStates : x.peer \in BOOLEAN /\ (x.status = "none" <=> x = Absent)
    /\ \A t \in {"pending", "active"}, p \in BOOLEAN : [status |-> t, peer |-> p] \in ChannelStates
    /\ Absent \in ChannelStates
    /\ \A x \in ChannelStates : x # Absent =>
         x.status \in {"pending", "active"} /\ x = [status |-> x.status, peer |-> x.peer]
<1>. DEFINE T == [status : {"pending", "active"}, peer : BOOLEAN]
<1>1. \A x \in T : /\ x.peer \in BOOLEAN /\ x.status \in {"pending", "active"}
                   /\ x = [status |-> x.status, peer |-> x.peer]
  OBVIOUS
<1>2. \A t \in {"pending", "active"}, p \in BOOLEAN : [status |-> t, peer |-> p] \in T
  OBVIOUS
<1>3. Absent.status = "none" /\ Absent.peer = FALSE
  BY DEF Absent
<1>4. ChannelStates = {Absent} \cup T
  BY DEF ChannelStates
<1>. HIDE DEF T
<1>. QED
  BY <1>1, <1>2, <1>3, <1>4

(* The list after a snapshot has the snapshot's states, and no peer it has *)
(* not.                                                                    *)
LEMMA Relists ==
    ASSUME panel \in Shows, NEW s \in Snapshots
    PROVE  /\ Relisted(s) \in Channels
           /\ \A ch \in Chans :
                /\ Relisted(s)[ch].status = s.channels[ch].status
                /\ Relisted(s)[ch].peer => s.channels[ch].peer
<1>. DEFINE R(ch) == IF s.channels[ch] = Absent THEN Absent
                     ELSE upsertPairChannel(panel.channels[ch], s.channels[ch])
<1>1. Relisted(s) = [ch \in Chans |-> R(ch)]
  BY DEF Relisted
<1>2. ASSUME NEW ch \in Chans
      PROVE  /\ R(ch) \in ChannelStates /\ R(ch).status = s.channels[ch].status
             /\ R(ch).peer => s.channels[ch].peer
  <2>. DEFINE x == s.channels[ch]
  <2>1. x \in ChannelStates
    BY DEF Snapshots
  <2>. HIDE DEF x
  <2>2. CASE x = Absent
    BY <2>1, <2>2 DEF x
  <2>3. CASE x # Absent
    <3>1. x = [status |-> x.status, peer |-> x.peer] /\ x.status \in {"pending", "active"}
      BY <2>1, <2>3, ChannelStatesAre
    <3>2. R(ch) = IF panel.channels[ch].status = "none"
                  THEN [status |-> x.status, peer |-> FALSE] ELSE x
      BY <2>3 DEF upsertPairChannel, x
    <3>3. [status |-> x.status, peer |-> FALSE] \in ChannelStates
      BY <3>1, ChannelStatesAre
    <3>. HIDE DEF R
    <3>4. CASE panel.channels[ch].status = "none"
      BY <3>2, <3>3, <3>4 DEF x
    <3>5. CASE panel.channels[ch].status # "none"
      BY <2>1, <3>2, <3>5 DEF x
    <3>. QED
      BY <3>4, <3>5
  <2>. QED
    BY <2>2, <2>3
<1>. HIDE DEF R
<1>. QED
  BY <1>1, <1>2 DEF Channels

(* The panel after a snapshot, and the conversation c after it.            *)
LEMMA Applies ==
    ASSUME panel \in Shows, NEW s \in Snapshots, NEW c \in Chats, NEW keep \in BOOLEAN,
           c.draft \in {Blank, c.active}, c.open => c.active # Blank,
           applyBackendSnapshot(s, c, keep)
    PROVE  /\ panel' \in Shows /\ panel'.version = s.version
           /\ chat' \in Chats /\ Conversing'
           /\ s = be /\ be' = be => Agrees'
           /\ draftUrl' \in Places \cup {draftUrl}
<1>. DEFINE R == Relisted(s)
<1>1. /\ R \in Channels
      /\ \A ch \in Chans : /\ R[ch].status = s.channels[ch].status
                           /\ R[ch].peer => s.channels[ch].peer
  BY Relists
<1>2. /\ panel' = [channels |-> R, version |-> s.version, open |-> s.open /\ s.server # Blank]
      /\ chat' = removePairChannelLocal(c, R)
      /\ draftUrl' \in {draftUrl, Default, s.server}
  BY DEF applyBackendSnapshot
<1>. HIDE DEF R
<1>3. /\ s.server \in Places /\ s.version \in Nat /\ s.open \in BOOLEAN
      /\ (s.open /\ s.server # Blank) \in BOOLEAN
  BY DEF Snapshots
<1>4. /\ panel' \in Shows /\ panel'.version = s.version /\ panel'.channels = R
      /\ panel'.open = (s.open /\ s.server # Blank)
  BY <1>1, <1>2, <1>3 DEF Shows
<1>5. s = be /\ be' = be => Agrees'
  BY <1>1, <1>4 DEF Agrees
<1>6. NoChat \in Chats /\ NoChat.draft = Blank /\ ~NoChat.open
  BY DEF NoChat, Chats
<1>7. chat' \in Chats /\ Conversing'
  <2>1. CASE chat' = NoChat
    BY <1>6, <2>1 DEF Conversing
  <2>2. CASE chat' = c /\ (c.active = Blank \/ R[c.active] # Absent)
    <3>1. c.open => Listed(panel', c.active)
      <4>. SUFFICES ASSUME c.open  PROVE panel'.channels[c.active].status # "none"
        BY DEF Listed
      <4>1. c.active \in Chans /\ R[c.active] # Absent
        BY <2>2 DEF Chats
      <4>. QED
        BY <1>1, <1>4, <4>1, ChannelStatesAre DEF Channels
    <3>2. c.open => Listed(panel, c.active)'
      BY <2>2, <3>1 DEF Listed
    <3>. QED
      BY <2>2, <3>2 DEF Conversing
  <2>. QED
    BY <1>2, <2>1, <2>2 DEF removePairChannelLocal
<1>. QED
  BY <1>2, <1>3, <1>4, <1>5, <1>7 DEF Places

(* A command is pending that will bring the newest state.                  *)
Bringing(c) ==
    \/ c.op = "pair" /\ c.at = "get"
    \/ Carries(c) /\ c.arg.version = be.version

(* Steps that change neither the backend nor what the panel shows.         *)
LEMMA QuietStep ==
    ASSUME PanelIInv, UNCHANGED <<be, events, panel, behind>>, listening' \in BOOLEAN,
           chat' \in Chats, Conversing', \A c \in calls' : PanelCallOK(c),
           \A c \in calls : Bringing(c) => \E d \in calls' : Bringing(d)
    PROVE  PanelIInv'
<1>1. PanelTypeOK'
  BY DEF PanelIInv, PanelTypeOK, Chats
<1>2. /\ \A c \in calls' : PanelCallOK(c)'
      /\ \A i \in DOMAIN events' : Taken(events'[i], be')
      /\ panel'.version =< be'.version /\ (panel'.version = be'.version => Agrees')
  BY DEF PanelIInv, PanelCallOK, Taken, Agrees
<1>3. behind' \/ Coming'
  <2>1. CASE \E c \in calls : Bringing(c)
    <3>1. PICK d \in calls' : Bringing(d)
      BY <2>1
    <3>. QED
      BY <3>1 DEF Bringing, Coming
  <2>2. CASE ~ \E c \in calls : Bringing(c)
    BY <2>2 DEF PanelIInv, Bringing, Coming
  <2>. QED
    BY <2>1, <2>2
<1>. QED
  BY <1>1, <1>2, <1>3 DEF PanelIInv

(* Steps in which the backend changes.                                     *)
LEMMA EmitStep ==
    ASSUME PanelIInv, NEW fresh \in Snapshots, Emits(fresh), listening' \in BOOLEAN,
           UNCHANGED <<panel, chat>>,
           \A c \in calls' : c \in calls \/ (~Carries(c) /\ PanelCallOK(c))
                                 \/ (Carries(c) /\ c.arg = be')
    PROVE  PanelIInv'
<1>1. /\ be' = [fresh EXCEPT !.version = be.version + 1]
      /\ events' = IF listening THEN Append(events, be') ELSE events
      /\ behind' = (behind \/ ~listening)
  BY DEF Emits
<1>2. be.version \in Nat /\ be'.version = be.version + 1 /\ be' \in Snapshots
  <2>1. be \in Snapshots /\ be.version \in Nat
    BY DEF PanelIInv, PanelTypeOK, Snapshots
  <2>2. \A v \in Nat : [fresh EXCEPT !.version = v] \in Snapshots /\ [fresh EXCEPT !.version = v].version = v
    BY DEF Snapshots
  <2>3. be.version + 1 \in Nat
    BY <2>1
  <2>. QED
    BY <1>1, <2>1, <2>2, <2>3
<1>3. \A x \in Snapshots : Taken(x, be) => Taken(x, be')
  BY <1>2 DEF Taken, Snapshots
<1>4. Taken(be', be')
  BY <1>2 DEF Taken
<1>5. \A c \in calls' : PanelCallOK(c)'
  <2>. SUFFICES ASSUME NEW c \in calls'  PROVE PanelCallOK(c)'
    OBVIOUS
  <2>1. CASE c \in calls
    BY <1>3, <2>1 DEF PanelIInv, PanelCallOK
  <2>2. CASE ~Carries(c) /\ PanelCallOK(c)
    BY <2>2 DEF PanelCallOK
  <2>3. CASE Carries(c) /\ c.arg = be'
    BY <1>2, <1>4, <2>3 DEF PanelCallOK, Carries
  <2>. QED
    BY <2>1, <2>2, <2>3
<1>6. events' \in Seq(Snapshots) /\ (\A i \in DOMAIN events' : Taken(events'[i], be'))
  <2>1. events \in Seq(Snapshots) /\ \A i \in DOMAIN events : events[i] \in Snapshots /\ Taken(events[i], be)
    BY DEF PanelIInv, PanelTypeOK
  <2>2. CASE listening
    <3>1. /\ events' = Append(events, be') /\ events' \in Seq(Snapshots)
          /\ DOMAIN events' = 1..(Len(events) + 1)
          /\ events'[Len(events) + 1] = be'
          /\ \A i \in DOMAIN events : events'[i] = events[i]
      BY <1>1, <1>2, <2>1, <2>2
    <3>2. DOMAIN events = 1..Len(events) /\ Len(events) \in Nat
      BY <2>1
    <3>3. ASSUME NEW i \in DOMAIN events'  PROVE Taken(events'[i], be')
      <4>1. CASE i \in DOMAIN events
        BY <1>3, <2>1, <3>1, <4>1
      <4>2. CASE i = Len(events) + 1
        BY <1>4, <3>1, <4>2
      <4>. QED
        BY <3>1, <3>2, <3>3, <4>1, <4>2
    <3>. QED
      BY <3>1, <3>3
  <2>3. CASE ~listening
    BY <1>1, <1>3, <2>1, <2>3
  <2>. QED
    BY <2>2, <2>3
<1>7. behind' \/ Coming'
  <2>1. CASE listening
    <3>1. events' # <<>> /\ events'[Len(events')] = be'
      BY <1>1, <2>1 DEF PanelIInv, PanelTypeOK
    <3>. QED
      BY <3>1 DEF Coming
  <2>2. CASE ~listening
    BY <1>1, <2>2
  <2>. QED
    BY <2>1, <2>2
<1>8. panel'.version =< be'.version /\ panel'.version # be'.version
  BY <1>2 DEF PanelIInv, PanelTypeOK
<1>9. behind' \in BOOLEAN
  BY <1>1 DEF PanelIInv, PanelTypeOK
<1>10. Conversing'
  BY DEF PanelIInv, Conversing, Listed
<1>11. PanelTypeOK'
  BY <1>2, <1>6, <1>9 DEF PanelIInv, PanelTypeOK
<1>. QED
  BY <1>5, <1>6, <1>7, <1>8, <1>10, <1>11 DEF PanelIInv

(* Steps in which the panel shows a snapshot, with the conversation c.     *)
LEMMA ShowStep ==
    ASSUME PanelIInv, NEW s \in Snapshots, Taken(s, be), NEW c \in Chats, NEW keep \in BOOLEAN,
           c.draft \in {Blank, c.active}, c.open => c.active # Blank,
           applyBackendSnapshot(s, c, keep), Catches(s), UNCHANGED <<be, listening>>,
           events' \in Seq(Snapshots), \A i \in DOMAIN events' : Taken(events'[i], be),
           calls' \subseteq calls,
           s.version # be.version =>
             /\ \A d \in calls : Bringing(d) => d \in calls'
             /\ events # <<>> /\ events[Len(events)].version = be.version =>
                  events' # <<>> /\ events'[Len(events')].version = be.version
    PROVE  PanelIInv' /\ draftUrl' \in Places \cup {draftUrl}
<1>1. panel \in Shows
  BY DEF PanelIInv, PanelTypeOK, Shows, Channels
<1>2. /\ panel' \in Shows /\ panel'.version = s.version
      /\ chat' \in Chats /\ Conversing'
      /\ s = be => Agrees'
      /\ draftUrl' \in Places \cup {draftUrl}
  BY <1>1, Applies
<1>3. /\ s.version \in Nat /\ be.version \in Nat /\ panel.version \in Nat
      /\ s.version =< be.version /\ (s.version = be.version => s = be)
  BY DEF PanelIInv, PanelTypeOK, Taken, Snapshots
<1>4. behind' = (s.version < be.version /\ (behind \/ s.version < panel.version))
  BY DEF Catches
<1>5. behind' \in BOOLEAN
  BY <1>4, Zenon
<1>6. behind' \/ Coming'
  <2>1. CASE s.version = be.version
    BY <1>2, <2>1 DEF Coming
  <2>2. CASE s.version # be.version /\ ~behind /\ panel.version =< s.version
    <3>1. panel.version # be.version
      BY <1>3, <2>2
    <3>2. \/ events # <<>> /\ events[Len(events)].version = be.version
          \/ \E d \in calls : Bringing(d)
      BY <2>2, <3>1 DEF PanelIInv, Coming, Bringing
    <3>3. CASE events # <<>> /\ events[Len(events)].version = be.version
      BY <2>2, <3>3 DEF Coming
    <3>4. CASE \E d \in calls : Bringing(d)
      <4>1. PICK d \in calls' : Bringing(d)
        BY <2>2, <3>4
      <4>. QED
        BY <4>1 DEF Coming, Bringing
    <3>. QED
      BY <3>2, <3>3, <3>4
  <2>3. CASE s.version # be.version /\ (behind \/ ~(panel.version =< s.version))
    <3>1. s.version < be.version /\ (behind \/ s.version < panel.version)
      BY <1>3, <2>3
    <3>. QED
      BY <1>4, <3>1
  <2>. QED
    BY <2>1, <2>2, <2>3
<1>7. PanelTypeOK'
  BY <1>2, <1>5 DEF PanelIInv, PanelTypeOK, Shows, Channels, Chats
<1>8. /\ \A d \in calls' : PanelCallOK(d)'
      /\ \A i \in DOMAIN events' : Taken(events'[i], be')
  BY DEF PanelIInv, PanelCallOK, Taken
<1>9. panel'.version =< be'.version /\ (panel'.version = be'.version => Agrees')
  BY <1>2, <1>3
<1>. QED
  BY <1>2, <1>6, <1>7, <1>8, <1>9 DEF PanelIInv

(* Steps that leave the form alone keep its invariant.                     *)
LEMMA FormKept ==
    ASSUME FormIInv, UNCHANGED <<raw, formVars>>, disk' \in Files, pairRaw' \in Files,
           draftUrl' \in Places, \A c \in calls' : FormCall(c)
    PROVE  FormIInv'
BY DEF FormIInv, FormTypeOK, formVars

(* Steps that ask, serve or end a command and show nothing.                *)
LEMMA CallStep ==
    ASSUME DeskIInv, UNCHANGED <<raw, formVars, be, events, panel, behind>>,
           disk' \in Files, pairRaw' \in Files, draftUrl' \in Places, listening' \in BOOLEAN,
           chat' \in Chats, Conversing',
           \A d \in calls' : d \in calls \/ (FormCall(d) /\ PanelCallOK(d)),
           \A c \in calls : Bringing(c) => \E d \in calls' : Bringing(d)
    PROVE  DeskIInv'
<1>1. /\ \A c \in calls' : FormCall(c)
      /\ \A c \in calls' : PanelCallOK(c)
  BY DEF DeskIInv, FormIInv, FormTypeOK, PanelIInv
<1>. QED
  BY <1>1, FormKept, QuietStep DEF DeskIInv

(* The types and the conversation, where a step leaves them.               *)
LEMMA Steady ==
    ASSUME DeskIInv
    PROVE  /\ disk \in Files /\ pairRaw \in Files /\ draftUrl \in Places
           /\ be \in Snapshots /\ chat \in Chats /\ listening \in BOOLEAN
           /\ panel \in Shows /\ events \in Seq(Snapshots)
           /\ UNCHANGED <<chat, panel>> => Conversing'
           /\ Conversing
BY DEF DeskIInv, FormIInv, FormTypeOK, PanelIInv, PanelTypeOK, Conversing, Listed, Chats, Shows,
       Channels

(* A command is asked.                                                     *)
LEMMA AskStep ==
    ASSUME DeskIInv, NEW c, Asks(c), FormCall(c), PanelCallOK(c)
    PROVE  DeskIInv'
<1>1. /\ calls' = calls \cup {c}
      /\ UNCHANGED <<disk, raw, formVars, pairRaw, draftUrl, be, events, listening, panel,
                     chat, behind>>
  BY DEF Asks, pairCopies, panelVars
<1>. QED
  BY <1>1, Steady, CallStep

(* The panel's commands that carry a channel, or nothing.                  *)
LEMMA CommandsAsked ==
    ASSUME DeskIInv,
           \/ toggleChannel \/ createPairSession \/ refreshPairChannelConfig
           \/ \E ch \in Chans : approvePairChannel(ch) \/ removePairChannel(ch)
    PROVE  DeskIInv'
<1>1. ASSUME NEW x \in {"open", "close", "create"}
      PROVE  FormCall(PanelCall(x, Blank)) /\ PanelCallOK(PanelCall(x, Blank))
  BY CallParts DEF FormCall, PanelCallOK, Carries, PanelCall
<1>2. ASSUME NEW x \in {"approve", "delete"}, NEW ch \in Chans
      PROVE  FormCall(PanelCall(x, ch)) /\ PanelCallOK(PanelCall(x, ch))
  BY CallParts DEF FormCall, PanelCallOK, Carries, PanelCall
<1>3. /\ FormCall(Call("refresh", "read", NoConfig))
      /\ PanelCallOK(Call("refresh", "read", NoConfig))
  BY CallParts DEF FormCall, PanelCallOK, Carries
<1>. QED
  BY <1>1, <1>2, <1>3, AskStep DEF toggleChannel, createPairSession, refreshPairChannelConfig,
     approvePairChannel, removePairChannel

(* The listener is registered.                                             *)
LEMMA ListenStep ==
    ASSUME DeskIInv, ListenReturns
    PROVE  DeskIInv'
<1>1. /\ listening' \in BOOLEAN
      /\ UNCHANGED <<disk, raw, formVars, calls, pairRaw, draftUrl, be, events, panel, chat, behind>>
  BY DEF ListenReturns, setupVars, pairCopies
<1>. QED
  BY <1>1, Steady, CallStep

(* An event is heard: the last one emitted is still to come, or is shown   *)
(* now.                                                                    *)
LEMMA EventStep ==
    ASSUME DeskIInv, EventHeard
    PROVE  DeskIInv'
<1>. DEFINE s == Head(events)
<1>1. /\ events # <<>> /\ applyBackendSnapshot(s, chat, TRUE) /\ events' = Tail(events)
      /\ Catches(s)
      /\ UNCHANGED <<disk, raw, formVars, calls, pairRaw, be, listening>>
  BY DEF EventHeard
<1>2. PanelIInv /\ events \in Seq(Snapshots) /\ chat \in Chats
  BY Steady DEF DeskIInv
<1>3. s = events[1] /\ 1 \in DOMAIN events /\ Len(events) \in Nat /\ Len(events) >= 1
  BY <1>1, <1>2
<1>4. s \in Snapshots /\ Taken(s, be)
  BY <1>2, <1>3 DEF PanelIInv
<1>5. /\ events' \in Seq(Snapshots) /\ DOMAIN events' = 1..(Len(events) - 1)
      /\ Len(events') = Len(events) - 1
      /\ \A i \in 1..(Len(events) - 1) : events'[i] = events[i + 1]
  BY <1>1, <1>2
<1>6. \A i \in DOMAIN events' : Taken(events'[i], be)
  <2>1. \A i \in 1..(Len(events) - 1) : i + 1 \in DOMAIN events
    BY <1>2
  <2>. QED
    BY <1>2, <1>5, <2>1 DEF PanelIInv
<1>7. s.version # be.version /\ events[Len(events)].version = be.version =>
        events' # <<>> /\ events'[Len(events')].version = be.version
  <2>. SUFFICES ASSUME s.version # be.version, events[Len(events)].version = be.version
                PROVE  events' # <<>> /\ events'[Len(events')].version = be.version
    OBVIOUS
  <2>. DEFINE n == Len(events) - 1
  <2>1. n \in Nat /\ n >= 1 /\ n + 1 = Len(events)
    BY <1>3
  <2>2. Len(events') = n /\ events'[n] = events[n + 1]
    BY <1>5, <2>1
  <2>. QED
    BY <2>1, <2>2
<1>. HIDE DEF s
<1>8. PanelIInv' /\ draftUrl' \in Places \cup {draftUrl}
  BY <1>1, <1>2, <1>4, <1>5, <1>6, <1>7, ShowStep DEF PanelIInv, Conversing
<1>9. FormIInv'
  BY <1>1, <1>8, Steady, FormKept DEF DeskIInv, FormIInv, FormTypeOK
<1>. QED
  BY <1>8, <1>9 DEF DeskIInv

(* The answer of a call is shown.                                          *)
LEMMA AnswerStep ==
    ASSUME DeskIInv, NEW c \in calls, Carries(c), NEW h \in Chats, NEW keep \in BOOLEAN,
           h.draft \in {Blank, h.active}, h.open => h.active # Blank,
           applyBackendSnapshot(c.arg, h, keep), Catches(c.arg), Ends(c),
           UNCHANGED <<disk, raw, formVars, pairRaw, be, events, listening>>
    PROVE  DeskIInv'
<1>1. c.arg \in Snapshots /\ Taken(c.arg, be)
  BY DEF DeskIInv, PanelIInv, PanelCallOK
<1>2. calls' = calls \ {c}
  BY DEF Ends
<1>3. c.arg.version # be.version => \A d \in calls : Bringing(d) => d \in calls'
  BY <1>2 DEF Bringing, Carries
<1>4. PanelIInv' /\ draftUrl' \in Places \cup {draftUrl}
  <2>1. events' \in Seq(Snapshots) /\ (\A i \in DOMAIN events' : Taken(events'[i], be))
    BY DEF DeskIInv, PanelIInv, PanelTypeOK
  <2>. QED
    BY <1>1, <1>2, <1>3, <2>1, ShowStep DEF DeskIInv
<1>5. FormIInv'
  BY <1>2, <1>4, Steady, FormKept DEF DeskIInv, FormIInv, FormTypeOK
<1>. QED
  BY <1>4, <1>5 DEF DeskIInv

(* The answers that carry a snapshot are shown.                            *)
LEMMA AnswersShown ==
    ASSUME DeskIInv, AnswerShown \/ SendReturns \/ ReloadReturns
    PROVE  DeskIInv'
<1>. DEFINE e == [chat EXCEPT !.draft = Blank]
<1>1. /\ chat \in Chats /\ chat.draft \in {Blank, chat.active} /\ (chat.open => chat.active # Blank)
      /\ e \in Chats /\ e.draft = Blank /\ (e.open => e.active # Blank)
  BY Steady DEF Conversing, Chats
<1>2. CASE AnswerShown
  <2>1. PICK c \in calls :
          /\ c.op = "pair" /\ c.at = "answer"
          /\ applyBackendSnapshot(c.arg, chat, TRUE) /\ Catches(c.arg) /\ Ends(c)
    BY <1>2 DEF AnswerShown
  <2>2. Carries(c)
    BY <2>1 DEF Carries
  <2>3. UNCHANGED <<disk, raw, formVars, pairRaw, be, events, listening>>
    BY <1>2 DEF AnswerShown
  <2>. QED
    BY <1>1, <2>1, <2>2, <2>3, AnswerStep
<1>3. CASE SendReturns
  <2>. HIDE DEF e
  <2>1. PICK c \in calls :
          /\ c.op = "pair" /\ c.at = "sent"
          /\ applyBackendSnapshot(c.arg, e, TRUE) /\ Catches(c.arg) /\ Ends(c)
    BY <1>3 DEF SendReturns, e
  <2>2. Carries(c)
    BY <2>1 DEF Carries
  <2>3. UNCHANGED <<disk, raw, formVars, pairRaw, be, events, listening>>
    BY <1>3 DEF SendReturns
  <2>. QED
    BY <1>1, <2>1, <2>2, <2>3, AnswerStep
<1>4. CASE ReloadReturns
  <2>1. PICK c \in calls :
          /\ c.op \in {"pair", "refresh"} /\ c.at = "reloaded"
          /\ applyBackendSnapshot(c.arg, chat, FALSE) /\ Catches(c.arg) /\ Ends(c)
    BY <1>4 DEF ReloadReturns
  <2>2. Carries(c)
    BY <2>1 DEF Carries
  <2>3. UNCHANGED <<disk, raw, formVars, pairRaw, be, events, listening>>
    BY <1>4 DEF ReloadReturns
  <2>. QED
    BY <1>1, <2>1, <2>2, <2>3, AnswerStep
<1>. QED
  BY <1>2, <1>3, <1>4

(* The backend changes; calls go on, or end, with what it now is.          *)
LEMMA ChangeStep ==
    ASSUME DeskIInv, NEW fresh \in Snapshots, Emits(fresh),
           UNCHANGED <<disk, raw, formVars, pairRaw, draftUrl, panel, chat>>, listening' \in BOOLEAN,
           \A d \in calls' : d \in calls \/ FormCall(d),
           \A d \in calls' : d \in calls \/ (~Carries(d) /\ PanelCallOK(d))
                                 \/ (Carries(d) /\ d.arg = be')
    PROVE  DeskIInv'
<1>1. PanelIInv'
  BY EmitStep DEF DeskIInv
<1>2. FormIInv'
  BY Steady, FormKept DEF DeskIInv, FormIInv, FormTypeOK
<1>. QED
  BY <1>1, <1>2 DEF DeskIInv

(* The backend changes, and at most ends calls.                            *)
LEMMA ChangeOnly ==
    ASSUME DeskIInv, NEW fresh \in Snapshots, Emits(fresh),
           UNCHANGED <<disk, raw, formVars, pairRaw, draftUrl, panel, chat>>, listening' \in BOOLEAN,
           calls' \subseteq calls
    PROVE  DeskIInv'
<1>3. \A d \in calls' : d \in calls
  OBVIOUS
<1>1. \A d \in calls' : d \in calls \/ FormCall(d)
  BY <1>3
<1>2. \A d \in calls' : d \in calls \/ (~Carries(d) /\ PanelCallOK(d))
                         \/ (Carries(d) /\ d.arg = be')
  BY <1>3
<1>. QED
  BY <1>1, <1>2, ChangeStep

(* What a command or a mobile makes of a channel.                          *)
LEMMA ChannelSet ==
    ASSUME NEW b \in Snapshots, NEW ch \in Chans, NEW x \in ChannelStates
    PROVE  [b EXCEPT !.channels[ch] = x] \in Snapshots
<1>. DEFINE y == [b.channels EXCEPT ![ch] = x]
<1>1. y \in [Chans -> ChannelStates]
  BY DEF Snapshots
<1>2. [b EXCEPT !.channels[ch] = x] = [b EXCEPT !.channels = y]
  OBVIOUS
<1>. HIDE DEF y
<1>. QED
  BY <1>1, <1>2 DEF Snapshots

(* A mobile claims, connects or leaves.                                    *)
LEMMA BackendStep ==
    ASSUME DeskIInv, NEW ch \in Chans, BackendChanges(ch)
    PROVE  DeskIInv'
<1>1. UNCHANGED <<disk, raw, formVars, calls, pairRaw, draftUrl, listening, panel, chat>>
  BY DEF BackendChanges, pairCopies
<1>2. ASSUME NEW x \in ChannelStates, Emits([be EXCEPT !.channels[ch] = x])
      PROVE  DeskIInv'
  <2>1. \E b \in Snapshots : b = [be EXCEPT !.channels[ch] = x]
    BY Steady, ChannelSet
  <2>2. PICK b \in Snapshots : Emits(b)
    BY <1>2, <2>1
  <2>. QED
    BY <1>1, <2>2, Steady, ChangeOnly
<1>. QED
  BY <1>2 DEF BackendChanges

(* What a command makes of the backend.                                    *)
LEMMA OutcomeTyped ==
    ASSUME be \in Snapshots, NEW c, NEW fresh \in Outcome(c),
           c.at \in {"open", "close", "create", "approve", "delete"},
           c.at \in {"approve", "delete"} => c.arg \in Chans /\ Listed(be, c.arg)
    PROVE  fresh \in Snapshots
<1>1. CASE c.at = "create"
  <2>1. PICK ch \in Chans :
          fresh = [be EXCEPT !.channels[ch] = [status |-> "pending", peer |-> FALSE]]
    BY <1>1 DEF Outcome
  <2>2. [status |-> "pending", peer |-> FALSE] \in ChannelStates
    BY ChannelStatesAre
  <2>. QED
    BY <2>1, <2>2, ChannelSet
<1>2. CASE c.at \in {"open", "close"}
  <2>1. fresh = [be EXCEPT !.open = (c.at = "open")]
    BY <1>2 DEF Outcome
  <2>2. \A o \in BOOLEAN : [be EXCEPT !.open = o] \in Snapshots
    BY DEF Snapshots
  <2>3. (c.at = "open") \in BOOLEAN
    OBVIOUS
  <2>. QED
    BY <2>1, <2>2, <2>3
<1>3. CASE c.at = "approve"
  <2>. DEFINE x == be.channels[c.arg]
              y == [x EXCEPT !.status = "active"]
  <2>1. fresh = [be EXCEPT !.channels[c.arg] = y]
    BY <1>3 DEF Outcome
  <2>2. x \in ChannelStates /\ x # Absent
    BY <1>3, ChannelStatesAre DEF Snapshots, Listed
  <2>3. x \in [status : {"pending", "active"}, peer : BOOLEAN]
    BY <2>2 DEF ChannelStates
  <2>. HIDE DEF x
  <2>4. y \in ChannelStates
    BY <2>3 DEF ChannelStates
  <2>. HIDE DEF y
  <2>. QED
    BY <1>3, <2>1, <2>4, ChannelSet
<1>4. CASE c.at = "delete"
  <2>1. fresh = [be EXCEPT !.channels[c.arg] = Absent]
    BY <1>4 DEF Outcome
  <2>. QED
    BY <1>4, <2>1, ChannelStatesAre, ChannelSet
<1>. QED
  BY <1>1, <1>2, <1>3, <1>4

(* A command serves the backend's new state with its answer.               *)
LEMMA CarriedCall ==
    ASSUME NEW op, NEW at, NEW x, at \in {"answer", "sent", "reloaded"},
           op \in {"pair", "refresh"}, at # "reloaded" => op = "pair"
    PROVE  /\ FormCall(Call(op, at, x)) /\ Carries(Call(op, at, x))
           /\ Call(op, at, x).arg = x
BY CallParts DEF FormCall, Carries

(* A call that carries nothing yet goes on to carry what the backend is.   *)
LEMMA CallEnds ==
    ASSUME DeskIInv, NEW c \in calls, ~Bringing(c), Ends(c),
           UNCHANGED <<disk, raw, formVars, pairRaw, draftUrl, be, events, panel, chat, behind>>,
           listening' \in BOOLEAN
    PROVE  DeskIInv'
<1>1. \A d \in calls' : d \in calls
  BY DEF Ends
<1>2. \A d \in calls : Bringing(d) => \E e \in calls' : Bringing(e)
  BY DEF Ends
<1>. QED
  BY <1>1, <1>2, Steady, CallStep

(* A call goes on, and brings the newest state when it would have before.  *)
LEMMA CallGoes ==
    ASSUME DeskIInv, NEW c \in calls, NEW d, Goes(c, d), FormCall(d), PanelCallOK(d),
           Bringing(c) => Bringing(d),
           UNCHANGED <<disk, raw, formVars, pairRaw, draftUrl, be, events, panel, chat, behind>>,
           listening' \in BOOLEAN
    PROVE  DeskIInv'
<1>1. \A e \in calls' : e \in calls \/ (FormCall(e) /\ PanelCallOK(e))
  BY DEF Goes
<1>2. \A e \in calls : Bringing(e) => \E x \in calls' : Bringing(x)
  BY DEF Goes
<1>. QED
  BY <1>1, <1>2, Steady, CallStep

(* The backend changes, and a call goes on with what it now is.            *)
LEMMA ChangeGoes ==
    ASSUME DeskIInv, NEW c \in calls, NEW d, Goes(c, d), FormCall(d), Carries(d), d.arg = be',
           NEW fresh \in Snapshots, Emits(fresh),
           UNCHANGED <<disk, raw, formVars, pairRaw, draftUrl, panel, chat>>,
           listening' \in BOOLEAN
    PROVE  DeskIInv'
<1>1. \A e \in calls' : e \in calls \/ FormCall(e)
  BY DEF Goes
<1>2. \A e \in calls' : e \in calls \/ (Carries(e) /\ e.arg = be')
  BY DEF Goes
<1>3. \A e \in calls' : e \in calls \/ (~Carries(e) /\ PanelCallOK(e))
                                    \/ (Carries(e) /\ e.arg = be')
  BY <1>2
<1>. QED
  BY <1>1, <1>3, ChangeStep

(* A command is served, or refused (CommandServed).                        *)
LEMMA CommandStep ==
    ASSUME DeskIInv, CommandServed
    PROVE  DeskIInv'
<1>1. PICK c \in calls :
        /\ c.op = "pair" /\ c.at \in {"open", "close", "create", "approve", "delete"}
        /\ \/ /\ c.at \in {"approve", "delete"} => Listed(be, c.arg)
              /\ \E fresh \in Outcome(c) :
                   /\ Emits(fresh)
                   /\ Goes(c, PanelCall("answer", be'))
           \/ /\ Ends(c)
              /\ UNCHANGED <<be, events, behind>>
  BY DEF CommandServed
<1>2. /\ UNCHANGED <<disk, raw, formVars, pairRaw, draftUrl, panel, chat>>
      /\ listening' \in BOOLEAN
  BY Steady DEF CommandServed, pairCopies
<1>3. CASE Ends(c) /\ UNCHANGED <<be, events, behind>>
  <2>1. ~Bringing(c)
    BY <1>1 DEF Bringing, Carries
  <2>. QED
    BY <1>2, <1>3, <2>1, CallEnds
<1>4. ASSUME c.at \in {"approve", "delete"} => Listed(be, c.arg),
             NEW fresh \in Outcome(c), Emits(fresh), Goes(c, PanelCall("answer", be'))
      PROVE  DeskIInv'
  <2>1. c.at \in {"approve", "delete"} => c.arg \in Chans
    BY <1>1 DEF DeskIInv, PanelIInv, PanelCallOK
  <2>2. fresh \in Snapshots
    BY <1>1, <1>4, <2>1, Steady, OutcomeTyped
  <2>3. PICK d : d = PanelCall("answer", be')
    OBVIOUS
  <2>4. FormCall(d) /\ Carries(d) /\ d.arg = be'
    BY <2>3, CarriedCall DEF PanelCall
  <2>. QED
    BY <1>2, <1>4, <2>2, <2>3, <2>4, ChangeGoes
<1>. QED
  BY <1>1, <1>3, <1>4

(* The panel's other commands.                                             *)
LEMMA StateStep ==
    ASSUME DeskIInv, StateServed \/ SendServed
    PROVE  DeskIInv'
<1>1. PICK c \in calls :
        \/ c.op = "pair" /\ c.at = "get" /\ Goes(c, PanelCall("answer", be))
        \/ c.op = "pair" /\ c.at = "send" /\ Goes(c, PanelCall("sent", be))
        \/ c.op = "pair" /\ c.at = "send" /\ Ends(c)
  BY DEF StateServed, SendServed
<1>2. /\ UNCHANGED <<disk, raw, formVars, pairRaw, draftUrl, be, events, panel, chat, behind>>
      /\ listening' \in BOOLEAN
  BY Steady DEF StateServed, SendServed, pairCopies, panelVars
<1>3. ASSUME NEW x \in {"answer", "sent"}, Goes(c, PanelCall(x, be))
      PROVE  DeskIInv'
  <2>1. PICK d : d = Call("pair", x, be)
    OBVIOUS
  <2>2. FormCall(d) /\ Carries(d) /\ d.arg = be /\ d.at = x
    BY <2>1, CarriedCall, CallParts
  <2>3. Taken(be, be) /\ be \in Snapshots
    BY Steady DEF Taken, Snapshots
  <2>4. PanelCallOK(d) /\ Bringing(d)
    BY <2>2, <2>3 DEF PanelCallOK, Bringing
  <2>5. Goes(c, d)
    BY <1>3, <2>1 DEF PanelCall
  <2>. QED
    BY <1>2, <2>2, <2>4, <2>5, CallGoes
<1>4. CASE c.op = "pair" /\ c.at = "send" /\ Ends(c)
  <2>1. ~Bringing(c)
    BY <1>4 DEF Bringing, Carries
  <2>. QED
    BY <1>2, <1>4, <2>1, CallEnds
<1>. QED
  BY <1>1, <1>3, <1>4

(* Opening, closing and dismissing a conversation, and typing into it.     *)
LEMMA TalkStep ==
    ASSUME DeskIInv, Chatting \/ \E ch \in Chans : openPairChatDialog(ch)
    PROVE  DeskIInv'
<1>1. /\ UNCHANGED <<disk, raw, formVars, calls, pairRaw, draftUrl, be, events, listening, panel,
                     behind>>
  BY DEF Chatting, openPairChatDialog, pairCopies
<1>2. chat \in Chats /\ Conversing /\ listening' \in BOOLEAN
  BY <1>1, Steady
<1>3. chat' \in Chats /\ Conversing'
  <2>1. CASE Chatting
    <3>1. chat.open /\ chat.active \in Chans /\ Listed(panel, chat.active)
      BY <1>2, <2>1 DEF Chatting, Conversing, Chats
    <3>. DEFINE c1 == [chat EXCEPT !.draft = chat.active]
                c2 == [chat EXCEPT !.open = FALSE]
    <3>2. /\ c1 \in Chats /\ c1.active = chat.active /\ c1.draft = chat.active
          /\ c2 \in Chats /\ c2.active = chat.active /\ c2.draft = chat.draft /\ ~c2.open
      BY <1>2, <3>1 DEF Chats
    <3>3. NoChat \in Chats /\ NoChat.draft = Blank /\ ~NoChat.open
      BY DEF NoChat, Chats
    <3>4. chat' \in {c1, NoChat, c2}
      BY <2>1 DEF Chatting
    <3>. HIDE DEF c1, c2
    <3>5. Listed(panel', chat.active)
      BY <1>1, <3>1 DEF Listed
    <3>. QED
      BY <1>2, <3>1, <3>2, <3>3, <3>4, <3>5 DEF Conversing, Listed
  <2>2. ASSUME NEW ch \in Chans, openPairChatDialog(ch)
        PROVE  chat' \in Chats /\ Conversing'
    <3>1. chat' = [active |-> ch, open |-> TRUE, draft |-> Blank] /\ Listed(panel, ch)
      BY <2>2 DEF openPairChatDialog
    <3>2. chat' \in Chats /\ chat'.active = ch /\ chat'.draft = Blank
      BY <3>1 DEF Chats
    <3>3. ch # Blank
      BY PanelAssumption
    <3>. QED
      BY <1>1, <3>1, <3>2, <3>3 DEF Conversing, Listed
  <2>. QED
    BY <2>1, <2>2
<1>. QED
  BY <1>1, <1>2, <1>3, Steady, CallStep

(* A message is sent to the conversation it was typed in                   *)
(* (sendPairChatMessage).                                                  *)
LEMMA MessageStep ==
    ASSUME DeskIInv, sendPairChatMessage
    PROVE  DeskIInv'
<1>1. PICK c : c = Call("pair", "send", [to |-> chat.active, text |-> chat.draft])
  OBVIOUS
<1>2. /\ chat.active \in Chans /\ chat.draft = chat.active
  BY Steady DEF sendPairChatMessage, Conversing, Chats
<1>3. /\ calls' = calls \cup {c}
      /\ UNCHANGED <<disk, raw, formVars, pairRaw, draftUrl, be, events, listening, panel,
                     chat, behind>>
  BY <1>1 DEF sendPairChatMessage, PanelCall, pairCopies, panelVars
<1>4. /\ c.op = "pair" /\ c.at = "send" /\ c.arg.to = chat.active /\ c.arg.text = chat.draft
  BY <1>1 DEF Call
<1>5. FormCall(c)
  BY <1>1, CallParts DEF FormCall
<1>6. PanelCallOK(c)
  BY <1>2, <1>4 DEF PanelCallOK, Carries
<1>. QED
  BY <1>3, <1>5, <1>6, Steady, CallStep

(* The channel server's settings.                                          *)
LEMMA TypeStep ==
    ASSUME DeskIInv, NEW server \in Servers, TypeServer(server)
    PROVE  DeskIInv'
<1>1. /\ draftUrl' \in Places
      /\ UNCHANGED <<disk, raw, formVars, calls, pairRaw, be, events, listening, panel,
                     chat, behind>>
  BY DEF TypeServer, Places, panelVars
<1>. QED
  BY <1>1, Steady, CallStep

(* The panel saves its copy with another server (savePairConfig).          *)
LEMMA PairSaveStep ==
    ASSUME DeskIInv, savePairConfig
    PROVE  DeskIInv'
<1>1. PICK p : p = [pairRaw EXCEPT !.server = draftUrl]
  OBVIOUS
<1>2. PICK c : c = Call("pair", "save", p)
  OBVIOUS
<1>3. /\ calls' = calls \cup {c}
      /\ UNCHANGED <<disk, raw, formVars, pairRaw, draftUrl, be, events, listening, panel,
                     chat, behind>>
  BY <1>1, <1>2 DEF savePairConfig, PanelCall, pairCopies
<1>4. Savable(p)
  BY <1>1, Steady, FileSavable
<1>5. FormCall(c) /\ PanelCallOK(c)
  BY <1>2, <1>4, CallParts DEF FormCall, PanelCallOK, Carries
<1>. QED
  BY <1>3, <1>5, Steady, CallStep

(* A configuration's server.                                               *)
LEMMA FileServer ==
    \A r \in Files : r.server \in Places
BY DEF Files, Configurations, NoConfig, Places

(* The panel's save is written or refused.                                 *)
LEMMA PairWriteStep ==
    ASSUME DeskIInv, PairSaveServed
    PROVE  DeskIInv'
<1>1. PICK c \in calls : c.op = "pair" /\ c.at = "save" /\ Writes(c, c.arg)
  BY DEF PairSaveServed
<1>2. /\ UNCHANGED <<raw, formVars, pairRaw, draftUrl, be, events, listening, panel, chat, behind>>
  BY DEF PairSaveServed, pairCopies, panelVars
<1>3. FormTypeOK /\ Savable(c.arg)
  BY <1>1 DEF DeskIInv, FormIInv, FormTypeOK, FormCall
<1>4. /\ disk' \in Files
      /\ \A d \in calls' : FormCall(d)
      /\ \A d : d \in calls' /\ d \notin calls =>
                  d = Reload \/ (d.op = "pair" /\ d.at \in {"saved", "refused"})
      /\ \A d \in calls : d # c => d \in calls'
  BY <1>1, <1>3, WritesStep
<1>5. Reload.op = "backend"
  BY CallParts DEF Reload
<1>6. ASSUME NEW d \in calls'  PROVE d \in calls \/ (FormCall(d) /\ PanelCallOK(d))
  <2>1. CASE d = Reload \/ (d.op = "pair" /\ d.at \in {"saved", "refused"})
    BY <1>4, <1>5, <1>6, <2>1 DEF PanelCallOK, Carries
  <2>. QED
    BY <1>4, <1>6, <2>1
<1>7. ASSUME NEW d \in calls, Bringing(d)  PROVE \E e \in calls' : Bringing(e)
  <2>1. ~Bringing(c)
    BY <1>1 DEF Bringing, Carries
  <2>. QED
    BY <1>4, <1>7, <2>1
<1>. QED
  BY <1>2, <1>4, <1>6, <1>7, Steady, CallStep

(* It goes on to read the configuration back.                              *)
LEMMA PairSavedStep ==
    ASSUME DeskIInv, PairSaveReturns
    PROVE  DeskIInv'
<1>1. PICK c \in calls :
        /\ c.op = "pair"
        /\ \/ c.at = "saved" /\ Goes(c, PanelCall("read", NoConfig))
           \/ c.at = "refused" /\ Ends(c)
  BY DEF PairSaveReturns
<1>2. /\ UNCHANGED <<disk, raw, formVars, pairRaw, draftUrl, be, events, panel, chat, behind>>
      /\ listening' \in BOOLEAN
  BY Steady DEF PairSaveReturns, pairCopies
<1>3. PICK d : d = PanelCall("read", NoConfig)
  OBVIOUS
<1>4. FormCall(d) /\ PanelCallOK(d)
  BY <1>3, CallParts DEF FormCall, PanelCallOK, Carries, PanelCall
<1>5. ~Bringing(c)
  BY <1>1 DEF Bringing, Carries
<1>. QED
  BY <1>1, <1>2, <1>3, <1>4, <1>5, CallGoes, CallEnds

(* Which is read.                                                          *)
LEMMA PairReadStep ==
    ASSUME DeskIInv, PairReadServed
    PROVE  DeskIInv'
<1>1. PICK c \in calls :
        c.op \in {"pair", "refresh"} /\ c.at = "read" /\ Goes(c, Call(c.op, "raw", disk))
  BY DEF PairReadServed
<1>2. /\ UNCHANGED <<disk, raw, formVars, pairRaw, draftUrl, be, events, panel, chat, behind>>
      /\ listening' \in BOOLEAN
  BY Steady DEF PairReadServed, pairCopies, panelVars
<1>3. PICK d : d = Call(c.op, "raw", disk)
  OBVIOUS
<1>4. FormCall(d)
  BY <1>1, <1>3, Steady, ReadCall
<1>5. PanelCallOK(d)
  BY <1>3, CallParts DEF PanelCallOK, Carries
<1>6. ~Bringing(c)
  BY <1>1 DEF Bringing, Carries
<1>. QED
  BY <1>1, <1>2, <1>3, <1>4, <1>5, <1>6, CallGoes

(* And becomes the panel's copy (applyPairConfigFromRawConfig).            *)
LEMMA PairAppliedStep ==
    ASSUME DeskIInv, PairReadReturns
    PROVE  DeskIInv'
<1>1. PICK c \in calls :
        /\ c.op \in {"pair", "refresh"} /\ c.at = "raw"
        /\ SyncPair(IF c.arg = NoConfig THEN pairRaw ELSE c.arg)
        /\ Goes(c, Call(c.op, "reload", NoConfig))
  BY DEF PairReadReturns
<1>2. /\ UNCHANGED <<disk, raw, formVars, be, events, listening, panel, chat, behind>>
  BY DEF PairReadReturns, panelVars
<1>3. c.arg \in Files
  BY <1>1 DEF DeskIInv, FormIInv, FormTypeOK, FormCall
<1>4. pairRaw' \in Files /\ draftUrl' \in Places
  BY <1>1, <1>3, Steady, FileServer DEF SyncPair, Places
<1>5. PICK d : d = Call(c.op, "reload", NoConfig)
  OBVIOUS
<1>6. FormCall(d) /\ PanelCallOK(d)
  BY <1>1, <1>5, CallParts DEF FormCall, PanelCallOK, Carries
<1>7. ~Bringing(c)
  BY <1>1 DEF Bringing, Carries
<1>8. \A e \in calls' : e \in calls \/ (FormCall(e) /\ PanelCallOK(e))
  BY <1>1, <1>5, <1>6 DEF Goes
<1>9. \A e \in calls : Bringing(e) => \E x \in calls' : Bringing(x)
  BY <1>1, <1>7 DEF Goes
<1>. QED
  BY <1>2, <1>4, <1>8, <1>9, Steady, CallStep

(* The backend reads the configuration again.                              *)
LEMMA ReloadedTyped ==
    ASSUME DeskIInv, Reloaded
    PROVE  \E fresh \in Snapshots : Emits(fresh)
<1>. DEFINE b1 == [be EXCEPT !.server = disk.server]
            b2 == [b1 EXCEPT !.open = (disk.server # Blank)]
<1>1. disk.server \in Places /\ be \in Snapshots
  BY Steady, FileServer
<1>2. b1 \in Snapshots
  BY <1>1 DEF Snapshots
<1>. HIDE DEF b1
<1>3. \A o \in BOOLEAN : [b1 EXCEPT !.open = o] \in Snapshots
  BY <1>2 DEF Snapshots
<1>4. (disk.server # Blank) \in BOOLEAN
  OBVIOUS
<1>5. b2 \in Snapshots
  BY <1>3, <1>4
<1>6. Emits(b2)
  <2>1. [be EXCEPT !.server = disk.server, !.open = (disk.server # Blank)] = b2
    BY Zenon DEF b1
  <2>. HIDE DEF b2
  <2>. QED
    BY <2>1 DEF Reloaded
<1>. QED
  BY <1>5, <1>6

(* The backend reloads, asked by the panel or by a save.                   *)
LEMMA ReloadStep ==
    ASSUME DeskIInv, ReloadServed \/ BackendReloads
    PROVE  DeskIInv'
<1>1. /\ UNCHANGED <<disk, raw, formVars, pairRaw, draftUrl, panel, chat>>
      /\ listening' \in BOOLEAN
      /\ Reloaded
  BY Steady DEF ReloadServed, BackendReloads, pairCopies
<1>2. PICK fresh \in Snapshots : Emits(fresh)
  BY <1>1, ReloadedTyped
<1>3. CASE BackendReloads
  <2>1. calls' \subseteq calls
    BY <1>3 DEF BackendReloads, Ends
  <2>. QED
    BY <1>1, <1>2, <2>1, ChangeOnly
<1>4. CASE ReloadServed
  <2>1. PICK c \in calls :
          c.op \in {"pair", "refresh"} /\ Goes(c, Call(c.op, "reloaded", be'))
    BY <1>4 DEF ReloadServed
  <2>2. PICK d : d = Call(c.op, "reloaded", be')
    OBVIOUS
  <2>3. FormCall(d) /\ Carries(d) /\ d.arg = be'
    BY <2>1, <2>2, CarriedCall
  <2>. QED
    BY <1>1, <1>2, <2>1, <2>2, <2>3, ChangeGoes
<1>. QED
  BY <1>3, <1>4, <1>1

(* The setup form's steps leave the panel alone.                           *)
LEMMA SetupBesideStep ==
    ASSUME DeskIInv, SetupNext, UNCHANGED panelVars
    PROVE  DeskIInv'
<1>1. FormIInv' /\ CallsKept
  BY SetupStep DEF DeskIInv
<1>2. /\ UNCHANGED <<be, events, panel, behind, chat>>
      /\ listening' \in BOOLEAN /\ chat' \in Chats /\ Conversing'
  <2>1. UNCHANGED <<be, events, listening, panel, behind, chat>>
    BY DEF panelVars
  <2>. QED
    BY <2>1, Steady
<1>3. ASSUME NEW c \in calls'  PROVE PanelCallOK(c)
  <2>1. CASE c.op \in {"pair", "refresh"}
    BY <1>1, <1>3, <2>1 DEF CallsKept, DeskIInv, PanelIInv
  <2>2. CASE c.op \notin {"pair", "refresh"}
    BY <2>2 DEF PanelCallOK, Carries
  <2>. QED
    BY <2>1, <2>2
<1>4. ASSUME NEW c \in calls, Bringing(c)  PROVE \E d \in calls' : Bringing(d)
  <2>1. c.op \in {"pair", "refresh"}
    BY <1>4 DEF Bringing, Carries
  <2>. QED
    BY <1>1, <1>4, <2>1 DEF CallsKept
<1>5. PanelIInv'
  BY <1>2, <1>3, <1>4, QuietStep DEF DeskIInv
<1>. QED
  BY <1>1, <1>5 DEF DeskIInv

(* Every step of the panel keeps the invariant.                            *)
LEMMA PanelStep ==
    ASSUME DeskIInv, PanelNext
    PROVE  DeskIInv'
<1>1. ASSUME NEW ch \in Chans,
             BackendChanges(ch) \/ openPairChatDialog(ch) \/ approvePairChannel(ch)
               \/ removePairChannel(ch)
      PROVE  DeskIInv'
  BY <1>1, BackendStep, TalkStep, CommandsAsked
<1>2. ASSUME NEW server \in Servers, TypeServer(server)  PROVE DeskIInv'
  BY <1>2, TypeStep
<1>3. CASE \/ ListenReturns \/ EventHeard \/ toggleChannel \/ createPairSession
           \/ CommandServed \/ StateServed \/ AnswerShown \/ Chatting
  BY <1>3, ListenStep, EventStep, CommandsAsked, CommandStep, StateStep, AnswersShown, TalkStep
<1>4. CASE \/ sendPairChatMessage \/ SendServed \/ SendReturns \/ savePairConfig
           \/ PairSaveServed \/ PairSaveReturns \/ refreshPairChannelConfig
  BY <1>4, MessageStep, StateStep, AnswersShown, PairSaveStep, PairWriteStep, PairSavedStep,
     CommandsAsked
<1>5. CASE PairReadServed \/ PairReadReturns \/ ReloadServed \/ ReloadReturns \/ BackendReloads
  BY <1>5, PairReadStep, PairAppliedStep, ReloadStep, AnswersShown
<1>. QED
  BY <1>1, <1>2, <1>3, <1>4, <1>5 DEF PanelNext

(* And so does a step that changes nothing.                                *)
LEMMA DeskStutter ==
    ASSUME DeskIInv, UNCHANGED deskVars
    PROVE  DeskIInv'
<1>1. /\ UNCHANGED <<disk, raw, formVars, calls, pairRaw, draftUrl, be, events, listening, panel,
                     chat, behind>>
  BY DEF deskVars, setupVars, panelVars, pairCopies
<1>. QED
  BY <1>1, Steady, CallStep

(* The panel starts with the backend's state, or asks for it.              *)
LEMMA PanelInit == DeskInit => PanelIInv
<1>. SUFFICES ASSUME DeskInit  PROVE PanelIInv
  OBVIOUS
<1>. DEFINE Pair(s) == [ch \in Chans |-> IF ch \in s.paired
                                         THEN [status |-> "active", peer |-> TRUE] ELSE Absent]
            None == [ch \in Chans |-> Absent]
<1>1. PICK s \in Scenarios :
        /\ SetupInit(s)
        /\ calls = {Loading} \cup IF s.settled THEN {} ELSE {PanelCall("get", Blank), Reload}
        /\ be = [server |-> IF s.settled THEN s.disk.server ELSE Blank, version |-> 1,
                 open |-> s.settled /\ s.disk.server # Blank, channels |-> Pair(s)]
        /\ panel = IF s.settled
                   THEN [channels |-> be.channels, version |-> 1, open |-> be.open]
                   ELSE [channels |-> None, version |-> 0, open |-> FALSE]
        /\ events = <<>> /\ listening = s.settled /\ behind = FALSE
        /\ chat = NoChat
  BY DEF DeskInit
<1>2. s.settled \in BOOLEAN /\ s.disk.server \in Places
  BY PanelAssumption, FormAssumption, FileServer DEF Files
<1>3. Pair(s) \in Channels /\ None \in Channels
  BY ChannelStatesAre DEF Channels
<1>. HIDE DEF Pair, None
<1>4. /\ be \in Snapshots /\ be.version = 1
      /\ s.settled => be.open = (be.open /\ be.server # Blank)
  BY <1>1, <1>2, <1>3 DEF Snapshots, Channels, Places
<1>5. /\ panel \in Shows
      /\ s.settled => panel.version = 1 /\ panel.channels = be.channels /\ panel.open = be.open
      /\ ~s.settled => panel.version = 0
  BY <1>1, <1>2, <1>3, <1>4 DEF Shows, Snapshots, Channels
<1>6. panel.version =< be.version /\ (panel.version = be.version => Agrees)
  BY <1>2, <1>4, <1>5 DEF Agrees
<1>7. Coming
  <2>1. CASE s.settled
    BY <1>4, <1>5, <2>1 DEF Coming
  <2>2. CASE ~s.settled
    BY <1>1, <2>2, CallParts DEF Coming, PanelCall
  <2>. QED
    BY <2>1, <2>2
<1>8. \A c \in calls : PanelCallOK(c)
  BY <1>1, CallParts DEF PanelCallOK, Carries, Loading, Reload, PanelCall
<1>9. Conversing /\ chat \in Chats
  BY <1>1 DEF Conversing, NoChat, Chats
<1>10. events \in Seq(Snapshots) /\ DOMAIN events = {}
  BY <1>1
<1>11. PanelTypeOK
  BY <1>1, <1>2, <1>4, <1>5, <1>9, <1>10 DEF PanelTypeOK, Shows, Chats, Channels
<1>. QED
  BY <1>6, <1>7, <1>8, <1>9, <1>10, <1>11 DEF PanelIInv

-----------------------------------------------------------------------------

(* The form and the panel keep the inductive invariant, whatever order the *)
(* answers and the events come in.                                         *)
THEOREM DeskInvariance == DeskSpec => []DeskIInv
<1>1. DeskInit => DeskIInv
  BY FormInit, PanelInit DEF DeskIInv
<1>2. DeskIInv /\ [DeskNext]_deskVars => DeskIInv'
  BY SetupBesideStep, PanelStep, DeskStutter DEF DeskNext
<1>. QED
  BY <1>1, <1>2, PTL DEF DeskSpec

(* A form filled from a saved configuration and not edited since saves     *)
(* that configuration again (setup-controller.ts, hydrateSetupForm and     *)
(* buildSetupPayload).                                                     *)
THEOREM ShownIsSaved == DeskSpec => []SavesWhatItShows
<1>1. DeskIInv => SavesWhatItShows
  BY ShownSaved DEF DeskIInv, FormIInv, FormTypeOK, SavesWhatItShows, Files
<1>. QED
  BY <1>1, DeskInvariance, PTL

(* What is sent to a mobile was written to that mobile, and the open       *)
(* dialog belongs to a listed channel (sendPairChatMessage,                *)
(* removePairChannelLocal).                                                *)
THEOREM SentToItsReader == DeskSpec => []SentWhereTyped
<1>1. DeskIInv => SentWhereTyped
  BY DEF DeskIInv, PanelIInv, PanelCallOK, Conversing, SentWhereTyped
<1>. QED
  BY <1>1, DeskInvariance, PTL

(* Once every command is answered and every event heard the panel shows    *)
(* the backend's channels, unless a snapshot was missed or overwritten     *)
(* (applyBackendSnapshot).                                                 *)
THEOREM PanelShowsBackend == DeskSpec => []ShowsBackend
<1>1. DeskIInv => ShowsBackend
  <2>. SUFFICES ASSUME DeskIInv, events = <<>>, ~behind,
                       \A c \in calls : c.op \notin {"pair", "refresh"}
                PROVE  Agrees
    BY DEF ShowsBackend, Agrees
  <2>1. ~ \E c \in calls : Bringing(c)
    BY DEF Bringing, Carries
  <2>2. panel.version = be.version
    BY <2>1 DEF DeskIInv, PanelIInv, Coming, Bringing
  <2>. QED
    BY <2>2 DEF DeskIInv, PanelIInv
<1>. QED
  BY <1>1, DeskInvariance, PTL
=============================================================================
