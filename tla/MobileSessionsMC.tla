-------------------------- MODULE MobileSessionsMC --------------------------
(* Bounded instance of MobileSessions: scenarios share out what can happen. *)
EXTENDS MobileSessions, TLC

CONSTANTS d1, d2
Budget(sc, rm, si, pe, pr, re) ==
  [scans |-> sc, removals |-> rm, signals |-> si, peers |-> pe, probes |-> pr, resets |-> re]
Scenario(t1, t2, budget) == [trusts |-> (d1 :> t1 @@ d2 :> t2), left |-> budget]
SomeScenarios ==
  {Scenario("pending", "none", Budget(1, 1, 0, 0, 0, 1)),   \* scans and approvals
   Scenario("active", "none", Budget(0, 1, 0, 2, 0, 0)),    \* peers
   Scenario("pending", "none", Budget(0, 0, 1, 2, 0, 0)),
   Scenario("active", "none", Budget(0, 0, 1, 1, 0, 1)),
   Scenario("active", "none", Budget(0, 0, 0, 1, 1, 0)),    \* probes
   Scenario("active", "none", Budget(0, 1, 1, 0, 1, 0))}
=============================================================================
