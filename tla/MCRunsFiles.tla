----------------------------- MODULE MCRunsFiles -----------------------------
(***************************************************************************)
(* The executor under fairness and the writes of a file share no state: a   *)
(* behaviour of this instance is one of one of them, and the other stays in *)
(* its initial state, where nothing of it that is fair is enabled.          *)
(***************************************************************************)
EXTENDS MCRunExecutor, FileWrites

VARIABLE moves     \* the component of this behaviour

runsVars == <<moves, vars, fileVars>>

RunsInit ==
  /\ moves \in {"executor", "files"} /\ Init /\ FileInit
  /\ moves = "files" \/ ~tab.open    \* the executor does not look at the tab

RunsNext ==
  /\ UNCHANGED moves
  /\ \/ moves = "executor" /\ Next /\ UNCHANGED fileVars
     \/ moves = "files" /\ FileNext /\ UNCHANGED vars

RunsSpec == RunsInit /\ [][RunsNext]_runsVars /\ Fairness /\ WF_fileVars(FileContinues)
=============================================================================
