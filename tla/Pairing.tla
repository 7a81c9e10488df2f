-------------------------------- MODULE Pairing --------------------------------
(***************************************************************************)
(* What the v2 control plane promises about pairing, without clocks,       *)
(* requests or records.  A desktop offers pair sessions; a session is      *)
(* taken by one mobile for ever; trust between a desktop and a mobile only *)
(* grows, from none to pending when the mobile takes a session of that     *)
(* desktop, and from pending to active when the desktop approves.          *)
(***************************************************************************)
CONSTANTS Desktops, Mobiles, PairIds,
          NoDesktop,   \* the owner of a session that does not exist
          NoMobile     \* the claimant of a session nobody has taken

VARIABLES owner,       \* pair session |-> the desktop that offers it
          claimant,    \* pair session |-> the mobile that took it
          trust        \* <<desktop, mobile>> |-> "none", "pending" or "active"

vars == <<owner, claimant, trust>>

Init ==
    /\ owner = [p \in PairIds |-> NoDesktop]
    /\ claimant = [p \in PairIds |-> NoMobile]
    /\ trust = [dm \in Desktops \X Mobiles |-> "none"]

Offer(d, p) ==
    /\ owner[p] = NoDesktop
    /\ owner' = [owner EXCEPT ![p] = d]
    /\ UNCHANGED <<claimant, trust>>

Withdraw(p) ==
    /\ claimant[p] = NoMobile
    /\ owner' = [owner EXCEPT ![p] = NoDesktop]
    /\ UNCHANGED <<claimant, trust>>

Claim(d, m, p) ==
    /\ owner[p] = d
    /\ claimant[p] \in {NoMobile, m}
    /\ trust[<<d, m>>] # "active"
    /\ claimant' = [claimant EXCEPT ![p] = m]
    /\ trust' = [trust EXCEPT ![<<d, m>>] = "pending"]
    /\ UNCHANGED owner

Approve(d, m) ==
    /\ trust[<<d, m>>] = "pending"
    /\ trust' = [trust EXCEPT ![<<d, m>>] = "active"]
    /\ UNCHANGED <<owner, claimant>>

Next ==
    \/ \E d \in Desktops, p \in PairIds : Offer(d, p)
    \/ \E p \in PairIds : Withdraw(p)
    \/ \E d \in Desktops, m \in Mobiles, p \in PairIds : Claim(d, m, p)
    \/ \E d \in Desktops, m \in Mobiles : Approve(d, m)

Spec == Init /\ [][Next]_vars
=============================================================================
