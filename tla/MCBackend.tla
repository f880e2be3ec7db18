------------------------------ MODULE MCBackend ------------------------------
(***************************************************************************)
(* The run executor, the run history, the consent store and the language    *)
(* server manager share no state: a behaviour of this instance is one of    *)
(* one of them.                                                             *)
(***************************************************************************)
EXTENDS MCRunExecutor, RunHistory, ConsentStore, LspManager

Saved(profile, at, kind) == [profile |-> profile, at |-> at, kind |-> kind]

(* Two completion times of a profile, a run without output, and a second profile. *)
MCRuns == {Saved("p", 1, "ordinary"), Saved("p", 2, "ordinary"), Saved("p", 2, "compound"), Saved("q", 1, "ordinary")}

(* A workspace with a nested project root, and another one. *)
CONSTANTS web, api, page, script

MCWithin == web :> {"web", "web/packages"} @@ api :> {"api"}
MCMain == web :> "web" @@ api :> "api"
(* Two documents of one root, of two roots, of two workspaces. *)
MCHomes == {page :> "web" @@ script :> k : k \in Keys}

VARIABLE moves     \* the component of this behaviour

backendVars == <<moves, vars, histVars, consentVars, managerVars>>

ManagerStart ==
  /\ view = web /\ home \in MCHomes
  /\ moves # "manager" => cached /\ workspaceRoot = view /\ home[script] = "web"

BackendInit ==
  /\ moves \in {"executor", "history", "consent", "manager"}
  /\ Init /\ HistInit /\ ConsentInit /\ ManagerInit /\ ManagerStart

BackendNext ==
  /\ UNCHANGED moves
  /\ \/ moves = "executor" /\ Next /\ UNCHANGED <<histVars, consentVars, managerVars>>
     \/ moves = "history" /\ HistNext /\ UNCHANGED <<vars, consentVars, managerVars>>
     \/ moves = "consent" /\ ConsentNext /\ UNCHANGED <<vars, histVars, managerVars>>
     \/ moves = "manager" /\ ManagerNext /\ UNCHANGED <<vars, histVars, consentVars>>

BackendSpec == BackendInit /\ [][BackendNext]_backendVars
=============================================================================
