------------------------ MODULE ChannelExtensionMC ------------------------
(* Bounded instance of ChannelExtension. *)
EXTENDS ChannelExtension

CONSTANTS default, work, m1, m2, u1, u2, d1, d2, desktop

Event(id, type, from, user) == [id |-> id, type |-> type, from |-> from, user |-> user]
SomeEvents ==
  {Event(1, "text", m1, u1), Event(2, "text", m2, u2), Event(3, "channel.ping", m1, None),
   Event(4, "pair.claimed", m1, u1), Event(0, "text", m1, None), Event(5, "kind", m2, None),
   Event(6, "text", desktop, None)}

NoSections == [a \in Accounts |-> None]
OfChannel == [top |-> Section(None, "hub", d1), accounts |-> NoSections]
OfDefault == [top |-> Section(None, None, d1),
              accounts |-> [NoSections EXCEPT ![default] = Section(TRUE, "hub", None)]]
OfWork == [top |-> Section(FALSE, "hub", None),
           accounts |-> [NoSections EXCEPT ![work] = Section(TRUE, None, d1)]]

Start(cfg_, events, edits, faults, agent, sends) ==
  [cfg |-> cfg_, left |-> [events |-> events, edits |-> edits, faults |-> faults,
                           agent |-> agent, sends |-> sends]]
SomeStarts == {Start(OfChannel, 4, 0, 0, 0, 0), Start(OfChannel, 2, 0, 0, 2, 1),
               Start(OfDefault, 2, 1, 1, 0, 0), Start(OfDefault, 1, 1, 1, 1, 0),
               Start(OfWork, 0, 2, 1, 0, 0), Start(OfWork, 1, 1, 1, 1, 0),
               Start(OfDefault, 0, 1, 0, 0, 2)}

\* One directory listing, one send; in between the user claims with another
\* mobile, and the server's list, asked before, had the former one.
ClaimStarts == {Start(OfChannel, 1, 0, 0, 0, 2)}
ClaimEvents == {Event(1, "pair.claimed", m2, u1)}
FormerBinding == {[mobile |-> m1, user |-> u1]}

OneBinding == {[mobile |-> m1, user |-> u2]}
=============================================================================
