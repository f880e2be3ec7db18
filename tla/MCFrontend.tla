----------------------------- MODULE MCFrontend -----------------------------
(***************************************************************************)
(* Small instances of three components that share no state, in one run: a   *)
(* behaviour is a behaviour of one of them, the others stay in their        *)
(* initial state, where nothing of them that is fair is enabled.            *)
(***************************************************************************)
EXTENDS LspDocuments, GolemTurns, AppClose

VARIABLE moves     \* the component of this behaviour

frontVars == <<moves, lspVars, turnVars, vars>>

FrontInit ==
  /\ moves \in {"documents", "turns", "close"}
  /\ LspInit /\ TurnInit /\ Init

Moves(component, others) == moves = component /\ UNCHANGED <<moves, others>>

FrontNext ==
  \/ Moves("documents", <<turnVars, vars>>) /\ LspNext
  \/ Moves("turns", <<lspVars, vars>>) /\ TurnNext
  \/ Moves("close", <<lspVars, turnVars>>) /\ Next

FrontSpec ==
  /\ FrontInit /\ [][FrontNext]_frontVars
  /\ WF_lspVars(LspContinues) /\ WF_turnVars(TurnContinues)
  /\ Fairness
=============================================================================
