----------------------------- MODULE ChatSyncMC -----------------------------
(* Bounded instance of ChatSync. *)
EXTENDS ChatSync

Scenario(l, m, i, f, r) == [limit |-> l, messages |-> m, info |-> i, faults |-> f, resets |-> r]
SomeScenarios == {Scenario(4, 3, 1, 0, 0), Scenario(3, 2, 0, 2, 0), Scenario(3, 2, 0, 1, 1),
                  Scenario(3, 2, 1, 0, 2), Scenario(2, 2, 1, 1, 1)}
=============================================================================
