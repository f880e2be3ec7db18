----------------------------- MODULE MCCompounds -----------------------------
(***************************************************************************)
(* The compound runs of the executor and the Golem configuration share no   *)
(* state: a behaviour of this instance is one of one of them.               *)
(***************************************************************************)
EXTENDS MCRunExecutor, GolemSettings

VARIABLE moves     \* the component of this behaviour

compoundsVars == <<moves, vars, settingsVars>>

\* The executor runs over one configuration: it never looks at it.
CompoundsInit ==
  /\ moves \in {"executor", "settings"} /\ Init /\ SettingsInit
  /\ moves = "executor" => host.file = Absent

CompoundsNext ==
  /\ UNCHANGED moves
  /\ \/ moves = "executor" /\ Next /\ UNCHANGED settingsVars
     \/ moves = "settings" /\ SettingsNext /\ UNCHANGED vars

CompoundsSpec == CompoundsInit /\ [][CompoundsNext]_compoundsVars
=============================================================================
