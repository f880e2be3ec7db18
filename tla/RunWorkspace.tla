---------------------------- MODULE RunWorkspace ----------------------------
(***************************************************************************)
(* What app.go builds on the run executor: workspace loads under the       *)
(* profile lock, launches that carry the root and epoch they were resolved *)
(* with, the routing of finished runs into a workspace's history, and the  *)
(* close of run admission when the app shuts down.                         *)
(*                                                                         *)
(* profileMu is held for writing by one load from its first step to its    *)
(* last and for reading inside single steps, so "load.pc is idle" is the   *)
(* guard of every reader.  closeMu is held inside single steps.            *)
(***************************************************************************)
EXTENDS RunExecutor

CONSTANTS
  Roots,         \* workspace roots
  NoRoot,        \* no workspace loaded
  Callers,       \* run bindings in progress
  LoadDrainer,   \* the drain of the load that holds profileMu
  CloseDrainer   \* the drain of the shutdown

ASSUME RootAssumption == NoRoot \notin Roots
ASSUME DrainerAssumption == {LoadDrainer, CloseDrainer} \subseteq Drainers
                              /\ LoadDrainer # CloseDrainer

VARIABLES
  loaded,        \* profileWorkspaceRoot, NoRoot while profileManager is nil
  load,          \* the loadRunProfilesLocked call that holds profileMu
  active,        \* activeHistoryWorkspace and activeHistoryEpoch
  runShutdown,
  atShutdown,    \* shutdownHistoryWorkspace and shutdownHistoryEpoch
  ticket,        \* binding -> the root and epoch resolveRunProfile gave it
  home,          \* run instance id -> root and epoch its launch carries
  record,        \* run instance id -> the append of its history record
  switched       \* history: epoch of the latest switch that began

appVars == <<loaded, load, active, runShutdown, atShutdown, ticket, home,
             record, switched>>
wvars == <<vars, appVars>>

Place    == [root: Roots \cup {NoRoot}, epoch: Epochs]
Nowhere  == [root |-> NoRoot, epoch |-> 0]
NoLoad   == [pc |-> "idle", root |-> NoRoot, epoch |-> 0]
NoRecord == [pc |-> "none", root |-> NoRoot, epoch |-> 0]

WTypeOK ==
  /\ loaded \in Roots \cup {NoRoot}
  /\ load \in {NoLoad} \cup [pc: {"drain", "load"}, root: Roots, epoch: Epochs]
  /\ active \in Place /\ atShutdown \in Place
  /\ runShutdown \in BOOLEAN
  /\ ticket \in [Callers -> {Nowhere} \cup [root: Roots, epoch: Epochs]]
  /\ home \in [Ids -> {Nowhere} \cup [root: Roots, epoch: Epochs]]
  /\ record \in [Ids -> {NoRecord} \cup
                        [pc: {"read", "written", "rejected"}, root: Roots, epoch: Epochs]]
  /\ switched \in Epochs

WInit ==
  /\ Init
  /\ loaded = NoRoot
  /\ load = NoLoad
  /\ active = Nowhere
  /\ runShutdown = FALSE
  /\ atShutdown = Nowhere
  /\ ticket = [c \in Callers |-> Nowhere]
  /\ home = [r \in Ids |-> Nowhere]
  /\ record = [r \in Ids |-> NoRecord]
  /\ switched = 0

ExecutorUnchanged == UNCHANGED vars
Unlocked == load.pc = "idle"

-----------------------------------------------------------------------------
\* Loading a workspace.

\* Another root: admission closes and the epoch advances.  The root already
\* loaded: nothing is drained and the current epoch is kept.
LoadBegin(w) ==
  /\ Unlocked
  /\ IF loaded # w
     THEN /\ BeginDrain(LoadDrainer)
          /\ load' = [pc |-> "drain", root |-> w, epoch |-> workspaceEpoch + 1]
          /\ switched' = workspaceEpoch + 1
     ELSE /\ ExecutorUnchanged
          /\ load' = [pc |-> "load", root |-> w, epoch |-> workspaceEpoch]
          /\ UNCHANGED switched
  /\ UNCHANGED <<loaded, active, runShutdown, atShutdown, ticket, home, record>>

\* StopAll succeeded: the terminal statuses of the old root go.
LoadDrained ==
  /\ load.pc = "drain"
  /\ ClearTerminalStatuses(LoadDrainer)
  /\ load' = [load EXCEPT !.pc = "load"]
  /\ UNCHANGED <<loaded, active, runShutdown, atShutdown, ticket, home, record, switched>>

\* StopAll missed its deadline: the load fails and admission stays closed.
LoadTimesOut ==
  /\ load.pc = "drain"
  /\ StopAllTimeout(LoadDrainer)
  /\ load' = NoLoad
  /\ UNCHANGED <<loaded, active, runShutdown, atShutdown, ticket, home, record, switched>>

\* The profiles do not load.
LoadFails ==
  /\ load.pc = "load"
  /\ IF drain[LoadDrainer].pc = "cleared" THEN SwitchLoadFails(LoadDrainer) ELSE ExecutorUnchanged
  /\ load' = NoLoad
  /\ UNCHANGED <<loaded, active, runShutdown, atShutdown, ticket, home, record, switched>>

\* Fault: shutdown is not looked at.
LoadSucceeds_ReopensAlways ==
  /\ load.pc = "load"
  /\ loaded' = load.root
  /\ active' = [root |-> load.root, epoch |-> load.epoch]
  /\ EndDrain(load.epoch)
  /\ drain' = [drain EXCEPT ![LoadDrainer] = NoDrain]
  /\ load' = NoLoad
  /\ UNCHANGED <<runShutdown, atShutdown, ticket, home, record, switched>>

\* Fault: only a load that drained reopens admission.
LoadSucceeds_SwitchOnly ==
  /\ load.pc = "load"
  /\ loaded' = load.root
  /\ active' = [root |-> load.root, epoch |-> load.epoch]
  /\ IF runShutdown \/ drain[LoadDrainer].pc # "cleared"
     THEN UNCHANGED <<admissionVars, launchVars, compVars, statusVars, stopper>>
     ELSE EndDrain(load.epoch)
  /\ drain' = [drain EXCEPT ![LoadDrainer] = NoDrain]
  /\ load' = NoLoad
  /\ UNCHANGED <<runShutdown, atShutdown, ticket, home, record, switched>>

\* The profiles are there: under closeMu the root and the history pair are
\* published and admission reopens, unless the app is shutting down.
LoadSucceeds ==
  /\ load.pc = "load"
  /\ loaded' = load.root
  /\ active' = [root |-> load.root, epoch |-> load.epoch]
  /\ IF runShutdown
     THEN UNCHANGED <<admissionVars, launchVars, compVars, statusVars, stopper>>
     ELSE EndDrain(load.epoch)
  /\ drain' = [drain EXCEPT ![LoadDrainer] = NoDrain]
  /\ load' = NoLoad
  /\ UNCHANGED <<runShutdown, atShutdown, ticket, home, record, switched>>

-----------------------------------------------------------------------------
\* Shutdown.

\* Fault: the pair is taken after the epoch advanced.
BeginRunShutdown_EpochAfter ==
  /\ ~runShutdown
  /\ runShutdown' = TRUE
  /\ atShutdown' = [root |-> active.root, epoch |-> workspaceEpoch + 1]
  /\ BeginDrain(CloseDrainer)
  /\ UNCHANGED <<loaded, load, active, ticket, home, record, switched>>

\* Fault: admission closes in the epoch in flight.
BeginRunShutdown_SameEpoch ==
  /\ ~runShutdown
  /\ runShutdown' = TRUE
  /\ atShutdown' = active
  /\ draining' = TRUE
  /\ drain' = [drain EXCEPT ![CloseDrainer] = [@ EXCEPT !.pc = "drained",
                                                         !.epoch = workspaceEpoch]]
  /\ UNCHANGED <<nextRunSeq, workspaceEpoch, launchVars, compVars, statusVars, stopper,
                 loaded, load, active, ticket, home, record, switched>>

\* beginRunShutdown, once per process (enterCloseDrain).
BeginRunShutdown ==
  /\ ~runShutdown
  /\ runShutdown' = TRUE
  /\ atShutdown' = active
  /\ BeginDrain(CloseDrainer)
  /\ UNCHANGED <<loaded, load, active, ticket, home, record, switched>>

\* StopAll of the close drain, and its deadline, which the app quits past.
CloseDrainStep ==
  /\ StopAllStep(CloseDrainer) \/ StopAllTimeout(CloseDrainer)
  /\ UNCHANGED appVars

-----------------------------------------------------------------------------
\* Launches.

\* resolveRunProfile: root and epoch as of one read lock.
Resolve(c) ==
  /\ Unlocked /\ ticket[c] = Nowhere /\ loaded # NoRoot
  /\ ticket' = [ticket EXCEPT ![c] = [root |-> loaded, epoch |-> workspaceEpoch]]
  /\ UNCHANGED <<vars, loaded, load, active, runShutdown, atShutdown, home, record, switched>>

\* What a launch asks of the executor: an ordinary run, a compound run with the
\* steps of its plan, or the exact restart of a run.
LaunchAt(ep) ==
  \/ \E p \in Singles : Start(p, ep)
  \/ \E c \in Compounds : StartCompound(c, ep)
  \/ \E t \in Ids : Restart(t, ep)

\* The ids handed out by a launch carry the root and epoch it was made with.
Settle(w, ep) ==
  home' = [r \in Ids |-> IF r > nextRunSeq /\ r <= nextRunSeq'
                         THEN [root |-> w, epoch |-> ep] ELSE home[r]]

\* Fault: the epoch is read when the launch is made, not when it was resolved.
Launch_CurrentEpoch(c) ==
  /\ ticket[c] # Nowhere
  /\ LaunchAt(workspaceEpoch)
  /\ Settle(ticket[c].root, workspaceEpoch)
  /\ ticket' = [ticket EXCEPT ![c] = Nowhere]
  /\ UNCHANGED <<loaded, load, active, runShutdown, atShutdown, record, switched>>

\* StartRunProfile, RestartRunProfile, RestartRunInstance: the launch carries
\* its ticket, whatever was loaded since.
Launch(c) ==
  /\ ticket[c] # Nowhere
  /\ LaunchAt(ticket[c].epoch)
  /\ Settle(ticket[c].root, ticket[c].epoch)
  /\ ticket' = [ticket EXCEPT ![c] = Nowhere]
  /\ UNCHANGED <<loaded, load, active, runShutdown, atShutdown, record, switched>>

\* Admission is closed to this ticket, or the target of a restart is gone.
LaunchRefused(c) ==
  /\ ticket[c] # Nowhere
  /\ ticket' = [ticket EXCEPT ![c] = Nowhere]
  /\ UNCHANGED <<vars, loaded, load, active, runShutdown, atShutdown, home, record, switched>>

\* StopRunInstance and StopRunProfile go straight to the executor.
StopBinding ==
  /\ \/ \E r \in Ids : StopRunInstance(r)
     \/ \E p \in Profiles, s \in Stoppers : Stop(p, s)
  /\ UNCHANGED appVars

-----------------------------------------------------------------------------
\* AppendRunHistoryRecord, called for a finished run at any later time.

\* An ordinary run that was live, an aggregate, or a step that was started.
Recordable(r) ==
  /\ home[r] # Nowhere
  /\ \/ phase[r] = "gone" /\ Ordinary(r) /\ ident[r].profile # NoProfile
     \/ coord[r] = "done"
     \/ stepState[r] \in Outcomes

\* The loaded root and the current epoch, under the read lock.
AppendRead(r) ==
  /\ Unlocked /\ loaded # NoRoot
  /\ Recordable(r) /\ record[r] = NoRecord
  /\ record' = [record EXCEPT ![r] = [pc |-> "read", root |-> loaded, epoch |-> workspaceEpoch]]
  /\ UNCHANGED <<vars, loaded, load, active, runShutdown, atShutdown, ticket, home, switched>>

\* shutdownHistoryWorkspaceFor
ShutdownAccepts(ep) ==
  runShutdown /\ atShutdown.root # NoRoot /\ atShutdown.epoch # 0 /\ ep = atShutdown.epoch

\* Fault: a record of the epoch before shutdown goes to the root read above.
AppendRoute_ToLoaded(r) ==
  /\ record[r].pc = "read"
  /\ LET ep == home[r].epoch IN
     \/ /\ ep = record[r].epoch \/ ShutdownAccepts(ep)
        /\ record' = [record EXCEPT ![r].pc = "written"]
     \/ /\ ep # record[r].epoch /\ ~ShutdownAccepts(ep)
        /\ record' = [record EXCEPT ![r].pc = "rejected"]
  /\ UNCHANGED <<vars, loaded, load, active, runShutdown, atShutdown, ticket, home, switched>>

\* The record goes to the root read above if its epoch is current, to the pair
\* of the shutdown if it is that one, and is refused otherwise.
AppendRoute(r) ==
  /\ record[r].pc = "read"
  /\ LET ep == home[r].epoch IN
     \/ /\ ep = record[r].epoch
        /\ record' = [record EXCEPT ![r].pc = "written"]
     \/ /\ ep # record[r].epoch /\ ShutdownAccepts(ep)
        /\ record' = [record EXCEPT ![r] = [@ EXCEPT !.pc = "written", !.root = atShutdown.root]]
     \/ /\ ep # record[r].epoch /\ ~ShutdownAccepts(ep)
        /\ record' = [record EXCEPT ![r].pc = "rejected"]
  /\ UNCHANGED <<vars, loaded, load, active, runShutdown, atShutdown, ticket, home, switched>>

-----------------------------------------------------------------------------

\* Launches, processes, coordinators, stop calls and the StopAll of the load go
\* on as in the executor.
ExecutorStep ==
  /\ \/ \E r \in Ids : LaunchStep(r) \/ Exit(r) \/ Watchdog(r) \/ WaitProcess(r)
     \/ \E c \in Ids : CoordinatorStep(c)
     \/ \E s \in Stoppers : StopperStep(s)
     \/ StopAllStep(LoadDrainer)
  /\ UNCHANGED appVars

LoadStep ==
  \/ \E w \in Roots : LoadBegin(w)
  \/ LoadDrained \/ LoadTimesOut \/ LoadFails \/ LoadSucceeds

BindingStep ==
  \/ \E c \in Callers : Resolve(c) \/ Launch(c) \/ LaunchRefused(c)
  \/ StopBinding
  \/ \E r \in Ids : AppendRead(r) \/ AppendRoute(r)

WNext ==
  \/ ExecutorStep \/ LoadStep \/ BindingStep
  \/ BeginRunShutdown \/ CloseDrainStep

WSpec == WInit /\ [][WNext]_wvars

-----------------------------------------------------------------------------
\* Safety.

\* While admission is open, everything held runs in the loaded root: a switch,
\* a failed switch and a launch resolved before either never mix two roots.
OneRoot == ~draining => \A r \in Ids : Held(r) => home[r].root = loaded

\* A record is written only to the workspace its run executed in, however the
\* append interleaves with loads and shutdown (beginRunShutdown:491-495).
RecordsGoHome == \A r \in Ids : record[r].pc = "written" => record[r].root = home[r].root

\* A record is refused only when a switch began after its run was launched:
\* closing the app refuses none.
RefusedOnlyBySwitch ==
  \A r \in Ids : record[r].pc = "rejected" => home[r].epoch < switched

\* Every record ends where it belongs, and is missing only for a switch.
RecordsKept == RecordsGoHome /\ RefusedOnlyBySwitch

\* Once the shutdown began no load reopens admission.
ShutdownIsFinal == runShutdown => draining

\* When the load of the current epoch is done and nothing else began, admission
\* is open, also when the epoch was left closed by a failed switch before.
LoadReopens ==
  (Unlocked /\ ~runShutdown /\ active.epoch = workspaceEpoch /\ loaded # NoRoot) => ~draining

\* Run admission opens with the load, and for good closes with the shutdown.
AdmissionFollowsLoads == ShutdownIsFinal /\ LoadReopens

\* Every step of the app is one the executor allows on its own.
ExecutorSpec == Spec

-----------------------------------------------------------------------------
\* The inductive strengthening behind the proved properties.

\* The drain of a load is where the load is, and has its epoch.
LoadShape ==
  /\ load.pc = "idle" => drain[LoadDrainer] = NoDrain
  /\ load.pc = "drain" =>
       /\ drain[LoadDrainer].pc \in {"drained", "signal", "wait", "killed", "clean"}
       /\ drain[LoadDrainer].epoch = load.epoch
  /\ load.pc = "load" =>
       \/ drain[LoadDrainer] = NoDrain
       \/ drain[LoadDrainer].pc = "cleared" /\ drain[LoadDrainer].epoch = load.epoch

\* Only switches and the shutdown advance the epoch, and the published pair
\* follows the loaded root.
EpochOrder ==
  /\ active.root = loaded
  /\ loaded # NoRoot <=> active.epoch # 0
  /\ active.epoch <= workspaceEpoch
  /\ switched <= workspaceEpoch
  /\ ~runShutdown => workspaceEpoch = switched
  /\ load.pc # "idle" =>
       /\ 1 <= load.epoch /\ active.epoch <= load.epoch /\ load.epoch <= workspaceEpoch
       /\ ~runShutdown => load.epoch = workspaceEpoch
  /\ runShutdown =>
       /\ atShutdown.epoch <= switched /\ atShutdown.epoch < workspaceEpoch
       /\ atShutdown.epoch # 0 => atShutdown.root # NoRoot

\* With a workspace loaded and no shutdown, admission is open exactly in the
\* epoch the load published.
OpenIffCurrent ==
  (~runShutdown /\ loaded # NoRoot) => (draining <=> active.epoch # workspaceEpoch)

\* What is known of a root and epoch that a binding took: the epoch belongs to
\* that root for good.
Fits(p) == p # Nowhere =>
  /\ 1 <= p.epoch /\ p.epoch <= workspaceEpoch
  /\ p.epoch = workspaceEpoch => p.root = loaded
  /\ p.epoch = active.epoch => p.root = active.root
  /\ runShutdown /\ p.epoch = atShutdown.epoch => p.root = atShutdown.root
  /\ load.pc # "idle" =>
       /\ p.epoch <= load.epoch
       /\ p.epoch = load.epoch => p.root = load.root /\ load.root = loaded

HomesFit ==
  /\ \A c \in Callers : Fits(ticket[c])
  /\ \A r \in Ids : home[r] # Nowhere =>
       /\ Fits(home[r])
       /\ r <= nextRunSeq
       /\ home[r].epoch <= active.epoch
       /\ runShutdown => home[r].epoch <= atShutdown.epoch

\* An append under way has read a root and epoch that decide its route.
AppendsFit ==
  \A r \in Ids :
    /\ record[r].pc # "none" => home[r] # Nowhere
    /\ record[r].pc = "read" =>
         /\ home[r].epoch = record[r].epoch => home[r].root = record[r].root
         /\ \/ home[r].epoch = record[r].epoch
            \/ home[r].epoch < switched
            \/ runShutdown /\ home[r].epoch = atShutdown.epoch

\* What an id of a launch in progress names: a held launch, a live compound run,
\* or one of its steps, which may not be launched yet.
InProgress(r) == Held(r) \/ LiveComp(r) \/ \E c \in Ids : LiveComp(c) /\ r \in StepsOf(c)

\* Only a drained load changes the root, admission is closed while it does, and
\* until the shutdown every launch in progress, also one that a failed switch
\* left behind, is of the loaded root.
LoadedIsHome ==
  /\ (load.pc = "load" /\ drain[LoadDrainer] = NoDrain) => load.root = loaded
  /\ drain[LoadDrainer] # NoDrain => draining
  /\ ~runShutdown => \A r \in Ids : InProgress(r) => home[r].root = loaded

AppInv ==
  /\ WTypeOK /\ LoadShape /\ EpochOrder /\ OpenIffCurrent /\ HomesFit /\ AppendsFit
  /\ ShutdownIsFinal /\ RecordsGoHome /\ RefusedOnlyBySwitch

=============================================================================
