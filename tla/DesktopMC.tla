------------------------------ MODULE DesktopMC ------------------------------
(***************************************************************************)
(* Bounded instance of the programs on the desktop: its link to the server *)
(* (DesktopLink), its window (SetupForm, PairPanel) and the plugin of its  *)
(* gateway (ChannelExtension).  The modules share no state; a behaviour is *)
(* one of a part, while the others rest.                                   *)
(***************************************************************************)
EXTENDS PairPanelMC, ChannelExtensionMC, DesktopLink

VARIABLE part   \* the one that runs

desktopVars == <<part, linkVars, deskVars, vars>>

\* A window where nothing happens, and a plugin whose account is disabled
NoUse == Fuel(0, 0, 0, 0, 0, 0, 0)
AtRest == Start([OfChannel EXCEPT !.top.enabled = FALSE], 0, 0, 0, 0, 0)
DesktopScenarios == SomeScenarios \cup {Scenario(NoConfig, TRUE, {}, NoUse)}
DesktopStarts == SomeStarts \cup {AtRest}

DesktopInit ==
  /\ LinkInit /\ DeskInit /\ Init
  /\ part = IF fuel # NoUse THEN "window" ELSE IF cfg # AtRest.cfg THEN "plugin" ELSE "link"
  /\ part = "window" => cfg = AtRest.cfg

DesktopNext ==
  \/ part = "link" /\ LinkNext /\ UNCHANGED <<part, deskVars, vars>>
  \/ part = "window" /\ DeskNext /\ UNCHANGED <<part, linkVars, vars>>
  \/ part = "plugin" /\ Next /\ UNCHANGED <<part, linkVars, deskVars>>

\* A link that was not opened has no task, so its fairness asks for nothing;
\* that of the plugin is FairSpec's.
DesktopSpec ==
  /\ DesktopInit /\ [][DesktopNext]_desktopVars
  /\ LinkFairness
  /\ WF_vars(part = "plugin" /\ StartAccount)
  /\ \A r \in 1..4 :
       /\ WF_vars(part = "plugin" /\ r <= Len(runs) /\ Running(r))
       /\ WF_vars(part = "plugin" /\ r <= Len(runs) /\ SocketCloses(r) /\ runs[r].sock = "closing")
=============================================================================
