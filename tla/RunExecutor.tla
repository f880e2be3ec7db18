----------------------------- MODULE RunExecutor -----------------------------
(***************************************************************************)
(* The run executor of internal/runprofile (executor.go and                *)
(* executor_compound.go): launches of run profiles, exact stops and        *)
(* restarts, compound runs with their coordinator goroutine, and the       *)
(* workspace drain.  One action is one critical section of Executor.mu, or *)
(* one channel or operating-system event outside it.                       *)
(*                                                                         *)
(* A run instance id "r<n>" is the launch sequence number n, so ids are    *)
(* numbers.  The executor's maps are read off two functions on ids:        *)
(*   e.reservations = the ids whose phase is in ResPhases,                 *)
(*   e.processes    = the ids whose phase is "running",                    *)
(*   e.compounds    = the ids whose coord is in LivePcs.                   *)
(***************************************************************************)
EXTENDS Integers, Sequences, FiniteSets

CONSTANTS
  Singles,     \* ids of the profiles launched as ordinary runs
  Plan,        \* compound profile id -> sequence of step profile ids
  MaxRuns,     \* bound on the launch sequence numbers handed out
  MaxEpoch,    \* bound on the workspace epoch
  Stoppers,    \* goroutines blocked in a stop of a compound run
  Drainers,    \* goroutines that drain the executor (switch, shutdown)
  NoProfile

Compounds == DOMAIN Plan
Profiles  == Singles \cup Compounds   \* a profile edited between the two is in both

\* ResolveSteps: a plan is not empty and its steps are single profiles.
ASSUME PlanAssumption ==
  /\ \A c \in Compounds : Plan[c] \in Seq(Singles) /\ Plan[c] # <<>>
  /\ NoProfile \notin Profiles
ASSUME BoundAssumption == MaxRuns \in Nat /\ MaxEpoch \in Nat

Ids    == 1..MaxRuns
Epochs == 0..MaxEpoch

\* The life of a launch.  Reserved phases, in the order a launch passes them:
\*   restart    exact restart reserved, target not yet signalled
\*   awaitexit  exact restart waiting for the target's done channel
\*   reserved   before the pre-spawn admission check
\*   spawning   pre-spawn check passed, inside commandStart
\*   spawned    OS process exists, post-spawn check not yet made
\*   reaping    post-spawn check failed, process group killed, being reaped
ResPhases == {"restart", "awaitexit", "reserved", "spawning", "spawned", "reaping"}
Phases    == ResPhases \cup {"none", "running", "gone"}
OsStates  == {"none", "up", "kill", "dead"}   \* dead: exited, not yet waited for

StepStates == {"pending", "running", "success", "failed", "skipped", "stopped"}
Outcomes   == {"success", "failed", "stopped"}
LivePcs    == {"top", "mark", "admit", "launch", "started", "wait", "record", "finish"}
DrainPcs   == {"idle", "drained", "signal", "wait", "killed", "clean", "cleared"}

VARIABLES
  nextRunSeq,      \* last launch sequence number handed out
  workspaceEpoch, draining,
  phase,           \* id -> phase of that launch
  ident,           \* id -> RunIdentity, with the id an exact restart replaces
  invalid,         \* id -> launchReservation.invalid
  stopped,         \* id -> runningProcess.stopped
  watched,         \* id -> stopOnce consumed, SIGKILL watchdog armed
  os,              \* id -> state of the operating-system process
  coord,           \* aggregate id -> where its coordinator goroutine is
  cancelled,       \* aggregate id -> its context is cancelled
  current,         \* aggregate id -> run instance id of the current step
  result,          \* aggregate id -> outcome the coordinator is about to record
  stepState,       \* step run instance id -> CompoundStepState
  terminal,        \* profile -> retained terminal run instance ids
  finished,        \* history: every id retained since the last clear
  stopper,         \* compound stop calls in progress
  drain            \* drain calls in progress

admissionVars == <<nextRunSeq, workspaceEpoch, draining>>
launchVars    == <<phase, ident, invalid, stopped, watched, os>>
statusVars    == <<terminal, finished>>
compVars      == <<coord, cancelled, current, result, stepState>>
vars == <<admissionVars, launchVars, compVars, statusVars, stopper, drain>>

NoIdent == [profile |-> NoProfile, parent |-> 0, epoch |-> 0, replaces |-> 0]
NoStop  == [pc |-> "idle", comp |-> 0, leaf |-> 0]
NoDrain == [pc |-> "idle", epoch |-> 0, procs |-> {}, comps |-> {}, resvs |-> {}]

RunIdentity == [profile: Profiles \cup {NoProfile}, parent: 0..MaxRuns,
                epoch: Epochs, replaces: 0..MaxRuns]
StopCall    == [pc: {"idle", "cancel", "wait"}, comp: 0..MaxRuns, leaf: 0..MaxRuns]
DrainCall   == [pc: DrainPcs, epoch: Epochs,
                procs: SUBSET Ids, comps: SUBSET Ids, resvs: SUBSET Ids]

TypeOK ==
  /\ nextRunSeq \in 0..MaxRuns
  /\ workspaceEpoch \in Epochs
  /\ draining \in BOOLEAN
  /\ phase \in [Ids -> Phases]
  /\ ident \in [Ids -> RunIdentity]
  /\ invalid \in [Ids -> BOOLEAN]
  /\ stopped \in [Ids -> BOOLEAN]
  /\ watched \in [Ids -> BOOLEAN]
  /\ os \in [Ids -> OsStates]
  /\ coord \in [Ids -> LivePcs \cup {"none", "done"}]
  /\ cancelled \in [Ids -> BOOLEAN]
  /\ current \in [Ids -> 0..MaxRuns]
  /\ result \in [Ids -> Outcomes]
  /\ stepState \in [Ids -> StepStates \cup {"none"}]
  /\ terminal \in [Profiles -> SUBSET Ids]
  /\ finished \in SUBSET Ids
  /\ stopper \in [Stoppers -> StopCall]
  /\ drain \in [Drainers -> DrainCall]

Init ==
  /\ nextRunSeq = 0
  /\ workspaceEpoch = 0
  /\ draining = FALSE
  /\ phase = [r \in Ids |-> "none"]
  /\ ident = [r \in Ids |-> NoIdent]
  /\ invalid = [r \in Ids |-> FALSE]
  /\ stopped = [r \in Ids |-> FALSE]
  /\ watched = [r \in Ids |-> FALSE]
  /\ os = [r \in Ids |-> "none"]
  /\ coord = [c \in Ids |-> "none"]
  /\ cancelled = [c \in Ids |-> FALSE]
  /\ current = [c \in Ids |-> 0]
  /\ result = [c \in Ids |-> "success"]
  /\ stepState = [r \in Ids |-> "none"]
  /\ terminal = [p \in Profiles |-> {}]
  /\ finished = {}
  /\ stopper = [s \in Stoppers |-> NoStop]
  /\ drain = [d \in Drainers |-> NoDrain]

-----------------------------------------------------------------------------
\* State functions over the maps.

Reserved(r) == phase[r] \in ResPhases
Running(r)  == phase[r] = "running"
Held(r)     == Reserved(r) \/ Running(r)
RunningIds  == {r \in Ids : Running(r)}
Ordinary(r) == ident[r].parent = 0
LiveComp(c) == coord[c] \in LivePcs

\* The steps of a compound run c.  Its ids are handed out in plan order right
\* after its own, and the plan is the snapshot taken at admission.
StepsOf(c) == c + 1 .. c + Len(Plan[ident[c].profile])
StepProfile(c, r) == Plan[ident[c].profile][r - c]

CheckAdmission(ep) == ep = workspaceEpoch /\ ~draining

\* Processes and reservations of profile p that a new launch is counted
\* against; the process an exact restart replaces is not one of them.
RunningOf(p, replaced) ==
  {r \in Ids : Running(r) /\ ident[r].profile = p /\ r # replaced}
PendingOf(p) == {r \in Ids : Reserved(r) /\ ident[r].profile = p}

\* Fault: a replacement never claims a slot of its own, even after the process
\* it replaces has exited.
SlotsOf_ReplacementsFree(p, replaced) ==
  RunningOf(p, replaced) \cup {r \in PendingOf(p) : ident[r].replaces = 0}

\* A pending replacement of a counted process shares that process's slot.
SlotsOf(p, replaced) ==
  RunningOf(p, replaced)
    \cup {r \in PendingOf(p) : ident[r].replaces \notin RunningOf(p, replaced)}

\* Fault: step exclusion looks at registered processes only.
HasCapacity_StepsIgnorePending(id, p, parent, replaced) ==
  /\ ~Held(id)
  /\ \A r \in RunningOf(p, replaced) : parent = 0 /\ Ordinary(r)
  /\ \A c \in Ids : LiveComp(c) => ident[c].profile # p
  /\ parent = 0 => Cardinality(SlotsOf(p, replaced)) < 2

HasCapacity(id, p, parent, replaced) ==
  /\ ~Held(id)
  /\ \A r \in RunningOf(p, replaced) \cup PendingOf(p) : parent = 0 /\ Ordinary(r)
  /\ \A c \in Ids : LiveComp(c) =>
       /\ ident[c].profile # p
       /\ \A r \in StepsOf(c) :
            (StepProfile(c, r) = p /\ stepState[r] = "running") => r = id
  /\ parent = 0 => Cardinality(SlotsOf(p, replaced)) < 2

\* Live run instances of a profile as refreshActiveProfileLocked sees them;
\* activeByProfile is recomputed from these before every read of it.
ActiveOf(p) == {r \in Ids : ident[r].profile = p /\ (Running(r) \/ LiveComp(r))}

\* retainTerminalStatusLocked: insert, then keep the two newest launches.
Newest2(S) == {r \in S : Cardinality({q \in S : q > r}) < 2}

\* Fault: evict before inserting, so the last two to finish stay.
Retain_LastFinished(r) ==
  /\ terminal' = [terminal EXCEPT ![ident[r].profile] =
       {q \in @ : \A o \in @ : o <= q} \cup {r}]
  /\ finished' = finished \cup {r}

Retain(r) ==
  /\ terminal' = [terminal EXCEPT ![ident[r].profile] = Newest2(@ \cup {r})]
  /\ finished' = finished \cup {r}

\* A launch that fails before promotion: finishReservation, and for a compound
\* step the error startProcess returns to the coordinator.  The fields of a
\* reservation or process no map holds any more go back to their first value.
FailLaunch(r, res) ==
  /\ phase' = [phase EXCEPT ![r] = "gone"]
  /\ ident' = [ident EXCEPT ![r] = NoIdent]
  /\ invalid' = [invalid EXCEPT ![r] = FALSE]
  /\ IF Ordinary(r)
     THEN UNCHANGED <<coord, result>>
     ELSE /\ coord' = [coord EXCEPT ![ident[r].parent] = "record"]
          /\ result' = [result EXCEPT ![ident[r].parent] = res]
  /\ UNCHANGED <<cancelled, current, stepState>>

-----------------------------------------------------------------------------
\* Ordinary launches.

\* startProcess up to its reservation.  The id is allocated before the capacity
\* check, so a refused launch still consumes one.
Start(p, ep) ==
  /\ CheckAdmission(ep)
  /\ nextRunSeq < MaxRuns
  /\ LET r == nextRunSeq + 1 IN
       /\ nextRunSeq' = r
       /\ IF HasCapacity(r, p, 0, 0)
          THEN /\ phase' = [phase EXCEPT ![r] = "reserved"]
               /\ ident' = [ident EXCEPT ![r] =
                     [profile |-> p, parent |-> 0, epoch |-> ep, replaces |-> 0]]
          ELSE UNCHANGED <<phase, ident>>
  /\ UNCHANGED <<workspaceEpoch, draining, invalid, stopped, watched, os,
                 compVars, statusVars, stopper, drain>>

\* RestartAtEpoch up to reserveReplacement: the replacement of t is reserved
\* while t still runs.
Restart(t, ep) ==
  /\ CheckAdmission(ep)
  /\ nextRunSeq < MaxRuns
  /\ Running(t) /\ Ordinary(t)
  /\ \A r \in Ids : Reserved(r) => ident[r].replaces # t
  /\ LET r == nextRunSeq + 1
         p == ident[t].profile IN
       /\ nextRunSeq' = r
       /\ IF HasCapacity(r, p, 0, t)
          THEN /\ phase' = [phase EXCEPT ![r] = "restart"]
               /\ ident' = [ident EXCEPT ![r] =
                     [profile |-> p, parent |-> 0, epoch |-> ep, replaces |-> t]]
          ELSE UNCHANGED <<phase, ident>>
  /\ UNCHANGED <<workspaceEpoch, draining, invalid, stopped, watched, os,
                 compVars, statusVars, stopper, drain>>

\* signalStop on a live process: SIGTERM once, which the process may ignore,
\* and a watchdog.  It has no effect on a process already unregistered.
SignalStop(r) ==
  IF r \in RunningIds
  THEN /\ stopped' = [stopped EXCEPT ![r] = TRUE]
       /\ watched' = [watched EXCEPT ![r] = TRUE]
  ELSE UNCHANGED <<stopped, watched>>

\* Fault: the restart waits for a target it never signalled.
RestartSignal_NotSignalled(r) ==
  /\ phase[r] = "restart"
  /\ phase' = [phase EXCEPT ![r] = "awaitexit"]
  /\ UNCHANGED <<admissionVars, ident, invalid, stopped, watched, os,
                 compVars, statusVars, stopper, drain>>

\* RestartAtEpoch calls StopRunInstance on the target...
RestartSignal(r) ==
  /\ phase[r] = "restart"
  /\ SignalStop(ident[r].replaces)
  /\ phase' = [phase EXCEPT ![r] = "awaitexit"]
  /\ UNCHANGED <<admissionVars, ident, invalid, os, compVars, statusVars, stopper, drain>>

\* Fault: the replacement goes ahead while the target winds down.
RestartTargetExited_NoWait(r) ==
  /\ phase[r] = "awaitexit"
  /\ phase' = [phase EXCEPT ![r] = "reserved"]
  /\ UNCHANGED <<admissionVars, ident, invalid, stopped, watched, os,
                 compVars, statusVars, stopper, drain>>

\* ... which returns once the target's done channel is closed.
RestartTargetExited(r) ==
  /\ phase[r] = "awaitexit"
  /\ ~Running(ident[r].replaces)
  /\ phase' = [phase EXCEPT ![r] = "reserved"]
  /\ UNCHANGED <<admissionVars, ident, invalid, stopped, watched, os,
                 compVars, statusVars, stopper, drain>>

\* The condition startReservedProcess reads under the lock, twice.
Invalidated(r) == invalid[r] \/ ident[r].epoch # workspaceEpoch \/ draining

\* startReservedProcess before commandStart.
PreSpawnCheck(r) ==
  /\ phase[r] = "reserved"
  /\ IF Invalidated(r)
     THEN FailLaunch(r, "stopped")
     ELSE phase' = [phase EXCEPT ![r] = "spawning"] /\ UNCHANGED <<ident, invalid, compVars>>
  /\ UNCHANGED <<admissionVars, stopped, watched, os, statusVars, stopper, drain>>

\* commandStart returns: a process exists, or the spawn failed.
Spawn(r) ==
  /\ phase[r] = "spawning"
  /\ phase' = [phase EXCEPT ![r] = "spawned"]
  /\ os' = [os EXCEPT ![r] = "up"]
  /\ UNCHANGED <<admissionVars, ident, invalid, stopped, watched,
                 compVars, statusVars, stopper, drain>>

SpawnFails(r) ==
  /\ phase[r] = "spawning"
  /\ FailLaunch(r, "failed")
  /\ UNCHANGED <<admissionVars, stopped, watched, os, statusVars, stopper, drain>>

ForceKill(S) == [r \in Ids |-> IF r \in S /\ os[r] = "up" THEN "kill" ELSE os[r]]

\* Fault: an invalidated launch is dropped without killing what it spawned.
Promote_DropsSpawned(r) ==
  /\ phase[r] = "spawned"
  /\ IF Invalidated(r)
     THEN FailLaunch(r, "stopped")
     ELSE /\ phase' = [phase EXCEPT ![r] = "running"]
          /\ invalid' = [invalid EXCEPT ![r] = FALSE]
          /\ coord' = IF Ordinary(r) THEN coord
                      ELSE [coord EXCEPT ![ident[r].parent] = "started"]
          /\ UNCHANGED <<ident, cancelled, current, result, stepState>>
  /\ UNCHANGED <<admissionVars, stopped, watched, os, statusVars, stopper, drain>>

\* startReservedProcess after commandStart: promote, or kill and reap.
Promote(r) ==
  /\ phase[r] = "spawned"
  /\ IF Invalidated(r)
     THEN /\ phase' = [phase EXCEPT ![r] = "reaping"]
          /\ invalid' = [invalid EXCEPT ![r] = TRUE]
          /\ os' = ForceKill({r})
          /\ UNCHANGED coord
     ELSE /\ phase' = [phase EXCEPT ![r] = "running"]
          /\ invalid' = [invalid EXCEPT ![r] = FALSE]
          /\ coord' = IF Ordinary(r) THEN coord
                      ELSE [coord EXCEPT ![ident[r].parent] = "started"]
          /\ UNCHANGED os
  /\ UNCHANGED <<admissionVars, ident, stopped, watched, cancelled, current, result,
                 stepState, statusVars, stopper, drain>>

\* reapInvalidatedProcess returns, because the process was reaped or because
\* the bounded wait ran out on a kill that has not landed; the executor knows
\* nothing of the process from here on.
Reap(r) ==
  /\ phase[r] = "reaping"
  /\ FailLaunch(r, "stopped")
  /\ os' = [os EXCEPT ![r] = "none"]
  /\ UNCHANGED <<admissionVars, stopped, watched, statusVars, stopper, drain>>

-----------------------------------------------------------------------------
\* Operating-system processes, and what watches them.

\* A live process exits: by itself, on SIGTERM, or because it was killed.
Exit(r) ==
  /\ os[r] \in {"up", "kill"}
  /\ os' = [os EXCEPT ![r] = "dead"]
  /\ UNCHANGED <<admissionVars, phase, ident, invalid, stopped, watched,
                 compVars, statusVars, stopper, drain>>

\* Fault: the watchdog repeats SIGTERM instead of escalating.
Watchdog_TermAgain(r) ==
  /\ watched[r] /\ Running(r) /\ os[r] = "up"
  /\ UNCHANGED vars

\* signalStop's watchdog: SIGKILL when the grace period ends before done.
Watchdog(r) ==
  /\ watched[r] /\ Running(r) /\ os[r] = "up"
  /\ os' = ForceKill({r})
  /\ UNCHANGED <<admissionVars, phase, ident, invalid, stopped, watched,
                 compVars, statusVars, stopper, drain>>

\* waitProcess: the process was reaped and is unregistered.  What it reports
\* depends on the stop mark and, without one, on the exit code.
Unregister(r) ==
  /\ Running(r) /\ os[r] = "dead"
  /\ phase' = [phase EXCEPT ![r] = "gone"]
  /\ stopped' = [stopped EXCEPT ![r] = FALSE]
  /\ watched' = [watched EXCEPT ![r] = FALSE]
  /\ os' = [os EXCEPT ![r] = "none"]

ExitOutcomes(r) == IF stopped[r] THEN {"stopped"} ELSE {"success", "failed"}

\* The waitProcess goroutine of an ordinary run retains the terminal status.
WaitProcess(r) ==
  /\ Ordinary(r)
  /\ Unregister(r)
  /\ Retain(r)
  /\ UNCHANGED <<admissionVars, ident, invalid, compVars, stopper, drain>>

\* StopRunInstance, and Stop of a profile whose newest run is ordinary.
StopRunInstance(r) ==
  /\ Running(r) /\ Ordinary(r)
  /\ SignalStop(r)
  /\ UNCHANGED <<admissionVars, phase, ident, invalid, os, compVars, statusVars, stopper, drain>>

-----------------------------------------------------------------------------
\* Compound runs.

\* Fault: only active runs of the compound profile are looked at.
StartCompound_IgnoresPending(c, ep) ==
  /\ CheckAdmission(ep)
  /\ nextRunSeq + 1 + Len(Plan[c]) <= MaxRuns
  /\ ActiveOf(c) = {}
  /\ LET a == nextRunSeq + 1 IN
       /\ nextRunSeq' = a + Len(Plan[c])
       /\ ident' = [ident EXCEPT ![a] =
             [profile |-> c, parent |-> 0, epoch |-> ep, replaces |-> 0]]
       /\ coord' = [coord EXCEPT ![a] = "top"]
       /\ current' = [current EXCEPT ![a] = a + 1]
       /\ stepState' = [r \in Ids |-> IF r \in a + 1 .. a + Len(Plan[c])
                                     THEN "pending" ELSE stepState[r]]
  /\ UNCHANGED <<workspaceEpoch, draining, phase, invalid, stopped, watched, os,
                 cancelled, result, statusVars, stopper, drain>>

\* StartCompoundAtEpoch: the aggregate and every step get their ids at once.
StartCompound(c, ep) ==
  /\ CheckAdmission(ep)
  /\ nextRunSeq + 1 + Len(Plan[c]) <= MaxRuns
  /\ ActiveOf(c) = {}
  /\ PendingOf(c) = {}
  /\ LET a == nextRunSeq + 1 IN
       /\ nextRunSeq' = a + Len(Plan[c])
       /\ ident' = [ident EXCEPT ![a] =
             [profile |-> c, parent |-> 0, epoch |-> ep, replaces |-> 0]]
       /\ coord' = [coord EXCEPT ![a] = "top"]
       /\ current' = [current EXCEPT ![a] = a + 1]
       /\ stepState' = [r \in Ids |-> IF r \in a + 1 .. a + Len(Plan[c])
                                     THEN "pending" ELSE stepState[r]]
  /\ UNCHANGED <<workspaceEpoch, draining, phase, invalid, stopped, watched, os,
                 cancelled, result, statusVars, stopper, drain>>

LoopEnds(c, res) ==
  /\ coord' = [coord EXCEPT ![c] = "finish"]
  /\ result' = [result EXCEPT ![c] = res]

PlanExhausted(c) == \A r \in StepsOf(c) : stepState[r] # "pending"

\* Fault: cancellation is not looked at between steps.
CompoundTop_IgnoresCancel(c) ==
  /\ coord[c] = "top"
  /\ IF PlanExhausted(c) THEN LoopEnds(c, "success")
     ELSE coord' = [coord EXCEPT ![c] = "mark"] /\ UNCHANGED result
  /\ UNCHANGED <<admissionVars, launchVars, cancelled, current, stepState,
                 statusVars, stopper, drain>>

\* Fault: a cancelled aggregate reports a step state.
CompoundTop_StepOutcome(c) ==
  /\ coord[c] = "top"
  /\ IF PlanExhausted(c) THEN LoopEnds(c, "success")
     ELSE IF cancelled[c] THEN LoopEnds(c, "skipped")
     ELSE coord' = [coord EXCEPT ![c] = "mark"] /\ UNCHANGED result
  /\ UNCHANGED <<admissionVars, launchVars, cancelled, current, stepState,
                 statusVars, stopper, drain>>

\* Loop head of runCompound: past the last step the loop ends; otherwise the
\* coordinator looks at its context, without the lock.
CompoundTop(c) ==
  /\ coord[c] = "top"
  /\ IF PlanExhausted(c) THEN LoopEnds(c, "success")
     ELSE IF cancelled[c] THEN LoopEnds(c, "stopped")
     ELSE coord' = [coord EXCEPT ![c] = "mark"] /\ UNCHANGED result
  /\ UNCHANGED <<admissionVars, launchVars, cancelled, current, stepState,
                 statusVars, stopper, drain>>

FirstPending(c, r) ==
  /\ stepState[r] = "pending"
  /\ \A q \in StepsOf(c) : stepState[q] = "pending" => r <= q

\* The next step is marked running, in a critical section of its own.
CompoundMark(c) ==
  /\ coord[c] = "mark"
  /\ \E r \in StepsOf(c) :
       /\ FirstPending(c, r)
       /\ current' = [current EXCEPT ![c] = r]
       /\ stepState' = [stepState EXCEPT ![r] = "running"]
  /\ coord' = [coord EXCEPT ![c] = "admit"]
  /\ UNCHANGED <<admissionVars, launchVars, cancelled, result, statusVars, stopper, drain>>

\* startProcess of the current step: closed admission; a setup error (found
\* between the two admission checks) or refused capacity; or a reservation.
CompoundAdmit(c) ==
  /\ coord[c] = "admit"
  /\ LET r == current[c]
         p == StepProfile(c, r) IN
     \/ /\ ~CheckAdmission(ident[c].epoch)
        /\ coord' = [coord EXCEPT ![c] = "record"]
        /\ result' = [result EXCEPT ![c] = "stopped"]
        /\ UNCHANGED <<phase, ident>>
     \/ /\ coord' = [coord EXCEPT ![c] = "record"]
        /\ result' = [result EXCEPT ![c] = "failed"]
        /\ UNCHANGED <<phase, ident>>
     \/ /\ CheckAdmission(ident[c].epoch)
        /\ HasCapacity(r, p, c, 0)
        /\ phase' = [phase EXCEPT ![r] = "reserved"]
        /\ ident' = [ident EXCEPT ![r] =
              [profile |-> p, parent |-> c, epoch |-> ident[c].epoch, replaces |-> 0]]
        /\ coord' = [coord EXCEPT ![c] = "launch"]
        /\ UNCHANGED result
  /\ UNCHANGED <<admissionVars, invalid, stopped, watched, os, cancelled, current,
                 stepState, statusVars, stopper, drain>>

\* Fault: a cancelled coordinator signals the leaf and leaves without waiting.
CompoundStarted_SkipsWait(c) ==
  /\ coord[c] = "started"
  /\ IF cancelled[c]
     THEN /\ SignalStop(current[c])
          /\ coord' = [coord EXCEPT ![c] = "record"]
          /\ result' = [result EXCEPT ![c] = "stopped"]
     ELSE /\ coord' = [coord EXCEPT ![c] = "wait"]
          /\ UNCHANGED <<stopped, watched, result>>
  /\ UNCHANGED <<admissionVars, phase, ident, invalid, os, cancelled, current,
                 stepState, statusVars, stopper, drain>>

\* After promotion: the coordinator looks at its context once more, and only
\* then starts waiting for the leaf.
CompoundStarted(c) ==
  /\ coord[c] = "started"
  /\ IF cancelled[c] THEN SignalStop(current[c]) ELSE UNCHANGED <<stopped, watched>>
  /\ coord' = [coord EXCEPT ![c] = "wait"]
  /\ UNCHANGED <<admissionVars, phase, ident, invalid, os, cancelled, current, result,
                 stepState, statusVars, stopper, drain>>

\* waitProcess of the leaf, in the coordinator; nothing is retained for it.
CompoundWait(c) ==
  /\ coord[c] = "wait"
  /\ Unregister(current[c])
  /\ coord' = [coord EXCEPT ![c] = "record"]
  /\ \E res \in ExitOutcomes(current[c]) : result' = [result EXCEPT ![c] = res]
  /\ ident' = [ident EXCEPT ![current[c]] = NoIdent]
  /\ UNCHANGED <<admissionVars, invalid, cancelled, current, stepState,
                 statusVars, stopper, drain>>

\* Fault: the plan goes on after a step that did not succeed.
CompoundRecord_Continues(c) ==
  /\ coord[c] = "record"
  /\ stepState' = [stepState EXCEPT ![current[c]] = result[c]]
  /\ coord' = [coord EXCEPT ![c] = "top"]
  /\ UNCHANGED <<admissionVars, launchVars, cancelled, current, result,
                 statusVars, stopper, drain>>

\* The step's terminal state is written in a later critical section.
CompoundRecord(c) ==
  /\ coord[c] = "record"
  /\ stepState' = [stepState EXCEPT ![current[c]] = result[c]]
  /\ coord' = [coord EXCEPT ![c] = IF result[c] = "success" THEN "top" ELSE "finish"]
  /\ UNCHANGED <<admissionVars, launchVars, cancelled, current, result,
                 statusVars, stopper, drain>>

\* finishCompound.
FinishCompound(c) ==
  /\ coord[c] = "finish"
  /\ coord' = [coord EXCEPT ![c] = "done"]
  /\ stepState' = [r \in Ids |-> IF r \in StepsOf(c) /\ stepState[r] = "pending"
                                THEN "skipped" ELSE stepState[r]]
  /\ Retain(c)
  /\ UNCHANGED <<admissionVars, launchVars, cancelled, current, result, stopper, drain>>

\* stopCompoundRunInstance, first critical section: the leaf is read here and
\* used after the lock is released.
StopCompoundRead(s, c) ==
  /\ stopper[s].pc = "idle"
  /\ LiveComp(c)
  /\ stopper' = [stopper EXCEPT ![s] =
       [pc |-> "cancel", comp |-> c,
        leaf |-> IF current[c] \in RunningIds THEN current[c] ELSE 0]]
  /\ UNCHANGED <<admissionVars, launchVars, compVars, statusVars, drain>>

\* cancel(), then signalStop of the leaf read above.
StopCompoundCancel(s) ==
  /\ stopper[s].pc = "cancel"
  /\ cancelled' = [cancelled EXCEPT ![stopper[s].comp] = TRUE]
  /\ SignalStop(stopper[s].leaf)
  /\ stopper' = [stopper EXCEPT ![s].pc = "wait"]
  /\ UNCHANGED <<admissionVars, phase, ident, invalid, os, coord, current, result,
                 stepState, statusVars, drain>>

StopCompoundReturn(s) ==
  /\ stopper[s].pc = "wait"
  /\ ~LiveComp(stopper[s].comp)
  /\ stopper' = [stopper EXCEPT ![s] = NoStop]
  /\ UNCHANGED <<admissionVars, launchVars, compVars, statusVars, drain>>

\* Stop by profile: the newest live run of the profile, and for a compound
\* step the compound run that owns it.
Stop(p, s) ==
  \E rid \in ActiveOf(p) :
    /\ \A q \in ActiveOf(p) : q <= rid
    /\ LET target == IF Running(rid) /\ ~Ordinary(rid) THEN ident[rid].parent ELSE rid IN
       IF LiveComp(target) THEN StopCompoundRead(s, target) ELSE StopRunInstance(target)

-----------------------------------------------------------------------------
\* Draining.

\* BeginDrainWithReason.
BeginDrain(d) ==
  /\ drain[d].pc = "idle"
  /\ workspaceEpoch < MaxEpoch
  /\ workspaceEpoch' = workspaceEpoch + 1
  /\ draining' = TRUE
  /\ invalid' = [r \in Ids |-> invalid[r] \/ Reserved(r)]
  /\ drain' = [drain EXCEPT ![d] = [@ EXCEPT !.pc = "drained", !.epoch = workspaceEpoch + 1]]
  /\ UNCHANGED <<nextRunSeq, phase, ident, stopped, watched, os, compVars, statusVars, stopper>>

\* Fault: StopAll does not wait for launches in flight.
StopAllBegin_NoReservations(d) ==
  /\ drain[d].pc = "drained"
  /\ drain' = [drain EXCEPT ![d] = [@ EXCEPT !.pc = "signal", !.procs = RunningIds,
                                           !.comps = {c \in Ids : LiveComp(c)}]]
  /\ stopped' = [r \in Ids |-> stopped[r] \/ Running(r)]
  /\ UNCHANGED <<admissionVars, phase, ident, invalid, watched, os,
                 compVars, statusVars, stopper>>

\* StopAllWithReason, its locked snapshot.
StopAllBegin(d) ==
  /\ drain[d].pc = "drained"
  /\ LET procs == RunningIds
         comps == {c \in Ids : LiveComp(c)}
         resvs == {r \in Ids : Reserved(r)} IN
     IF procs \cup comps \cup resvs = {}
     THEN drain' = [drain EXCEPT ![d].pc = "clean"] /\ UNCHANGED <<invalid, stopped>>
     ELSE /\ drain' = [drain EXCEPT ![d] = [@ EXCEPT !.pc = "signal", !.procs = procs,
                                                   !.comps = comps, !.resvs = resvs]]
          /\ invalid' = [r \in Ids |-> invalid[r] \/ r \in resvs]
          /\ stopped' = [r \in Ids |-> stopped[r] \/ r \in procs]
  /\ UNCHANGED <<admissionVars, phase, ident, watched, os, compVars, statusVars, stopper>>

\* Cancel every snapshotted coordinator and send SIGTERM, outside the lock.
StopAllSignal(d) ==
  /\ drain[d].pc = "signal"
  /\ cancelled' = [c \in Ids |-> cancelled[c] \/ c \in drain[d].comps]
  /\ drain' = [drain EXCEPT ![d].pc = "wait"]
  /\ UNCHANGED <<admissionVars, launchVars, coord, current, result, stepState,
                 statusVars, stopper>>

\* Fault: survivors are never killed.
StopAllKill_None(d) ==
  /\ drain[d].pc = "wait"
  /\ drain' = [drain EXCEPT ![d].pc = "killed"]
  /\ UNCHANGED <<admissionVars, launchVars, compVars, statusVars, stopper>>

\* Halfway: SIGKILL the snapshotted processes still registered.
StopAllKill(d) ==
  /\ drain[d].pc = "wait"
  /\ os' = ForceKill({r \in drain[d].procs : Running(r)})
  /\ drain' = [drain EXCEPT ![d].pc = "killed"]
  /\ UNCHANGED <<admissionVars, phase, ident, invalid, stopped, watched,
                 compVars, statusVars, stopper>>

AllDone(d) ==
  /\ \A r \in drain[d].procs : ~Running(r)
  /\ \A c \in drain[d].comps : ~LiveComp(c)
  /\ \A r \in drain[d].resvs : ~Reserved(r)

StopAllDone(d) ==
  /\ drain[d].pc \in {"wait", "killed"}
  /\ AllDone(d)
  /\ drain' = [drain EXCEPT ![d] = [@ EXCEPT !.pc = "clean", !.procs = {},
                                           !.comps = {}, !.resvs = {}]]
  /\ UNCHANGED <<admissionVars, launchVars, compVars, statusVars, stopper>>

\* The deadline: StopAll returns false and the caller leaves admission closed.
StopAllTimeout(d) ==
  /\ drain[d].pc = "killed"
  /\ drain' = [drain EXCEPT ![d] = NoDrain]
  /\ UNCHANGED <<admissionVars, launchVars, compVars, statusVars, stopper>>

ClearTerminalStatuses(d) ==
  /\ drain[d].pc = "clean"
  /\ terminal' = [p \in Profiles |-> {}]
  /\ finished' = {}
  /\ drain' = [drain EXCEPT ![d].pc = "cleared"]
  /\ UNCHANGED <<admissionVars, launchVars, compVars, stopper>>

\* EndDrain(ep): reopen admission, unless the epoch moved on.
EndDrain(ep) ==
  /\ draining' = IF ep = workspaceEpoch THEN FALSE ELSE draining
  /\ UNCHANGED <<nextRunSeq, workspaceEpoch, launchVars, compVars, statusVars, stopper>>

\* loadRunProfilesLocked after a clean StopAll: the profiles load and admission
\* reopens, or they do not and it stays closed.
FinishSwitch(d) ==
  /\ drain[d].pc = "cleared"
  /\ EndDrain(drain[d].epoch)
  /\ drain' = [drain EXCEPT ![d] = NoDrain]

SwitchLoadFails(d) ==
  /\ drain[d].pc = "cleared"
  /\ drain' = [drain EXCEPT ![d] = NoDrain]
  /\ UNCHANGED <<admissionVars, launchVars, compVars, statusVars, stopper>>

\* A load of the workspace already loaded drains nothing and reopens admission.
Reload(d) ==
  /\ drain[d].pc = "idle" /\ draining
  /\ EndDrain(workspaceEpoch)
  /\ UNCHANGED drain

-----------------------------------------------------------------------------

LaunchStep(r) ==
  \/ RestartSignal(r) \/ RestartTargetExited(r) \/ PreSpawnCheck(r)
  \/ Spawn(r) \/ SpawnFails(r) \/ Promote(r) \/ Reap(r)

CoordinatorStep(c) ==
  \/ CompoundTop(c) \/ CompoundMark(c) \/ CompoundAdmit(c) \/ CompoundStarted(c)
  \/ CompoundWait(c) \/ CompoundRecord(c) \/ FinishCompound(c)

StopperStep(s) == StopCompoundCancel(s) \/ StopCompoundReturn(s)

StopAllStep(d) ==
  StopAllBegin(d) \/ StopAllSignal(d) \/ StopAllKill(d) \/ StopAllDone(d)

\* What goes on inside the executor and the operating system.
InternalNext ==
  \/ \E r \in Ids : LaunchStep(r) \/ Exit(r) \/ Watchdog(r) \/ WaitProcess(r)
  \/ \E c \in Ids : CoordinatorStep(c)
  \/ \E s \in Stoppers : StopperStep(s)
  \/ \E d \in Drainers : StopAllStep(d) \/ StopAllTimeout(d)

\* What callers ask of it.
CallerNext ==
  \/ \E p \in Singles, ep \in Epochs : Start(p, ep)
  \/ \E c \in Compounds, ep \in Epochs : StartCompound(c, ep)
  \/ \E r \in Ids, ep \in Epochs : Restart(r, ep)
  \/ \E r \in Ids : StopRunInstance(r)
  \/ \E p \in Profiles, s \in Stoppers : Stop(p, s)
  \/ \E d \in Drainers :
       \/ BeginDrain(d) \/ ClearTerminalStatuses(d)
       \/ FinishSwitch(d) \/ SwitchLoadFails(d) \/ Reload(d)

Next == InternalNext \/ CallerNext

Spec == Init /\ [][Next]_vars

\* Goroutines run, timers fire and a SIGKILL lands; nothing obliges a caller to
\* call, or a process nobody killed to exit.
Fairness ==
  /\ \A r \in Ids : /\ WF_vars(LaunchStep(r))
                    /\ WF_vars(WaitProcess(r))
                    /\ WF_vars(Watchdog(r))
                    /\ WF_vars(os[r] = "kill" /\ Exit(r))
  /\ \A c \in Ids : WF_vars(CoordinatorStep(c))
  /\ \A s \in Stoppers : WF_vars(StopperStep(s))
  /\ \A d \in Drainers : WF_vars(StopAllStep(d))

FairSpec == Spec /\ Fairness

-----------------------------------------------------------------------------
\* Safety.

\* Launches that own a capacity slot of profile p: registered ordinary
\* processes, and reservations whose replaced process is no longer one.
Owners(p) == {r \in Ids :
  /\ ident[r].profile = p /\ Ordinary(r)
  /\ \/ Running(r)
     \/ Reserved(r) /\ ident[r].replaces \notin RunningIds}

\* At no time do three launches of one profile own a capacity slot, counting
\* the replacements of concurrent exact restarts and every process spawned but
\* not yet promoted (reserveProcessCapacityLocked).
ProfileCapacity ==
  \A p \in Profiles : \A a, b, e \in Owners(p) : a = b \/ b = e \/ a = e

\* A compound step never shares its profile with another launch, in either
\* order of admission (executor.go:391 and :401).
StepExclusive ==
  \A a, b \in Ids :
    (a # b /\ Held(a) /\ Held(b) /\ ident[a].profile = ident[b].profile)
      => Ordinary(a) /\ Ordinary(b)

\* A profile edited between ordinary and compound is never live as both, and a
\* compound profile is never live twice (StartCompoundAtEpoch:135-147).
AggregateExclusive ==
  \A a, b \in Ids :
    (a # b /\ LiveComp(a) /\ ident[a].profile = ident[b].profile)
      => ~Held(b) /\ ~LiveComp(b)

\* Together: whichever launch of a profile was admitted first, a step has the
\* profile for itself, and so has an aggregate.
ProfilesExclude == StepExclusive /\ AggregateExclusive

\* The process of an exact restart is never alive together with the process it
\* replaces, however stop, exit, spawn and drain interleave (executor.go:379-382).
RestartNeverOverlaps ==
  \A r \in Ids : (os[r] = "up" /\ ident[r].replaces # 0) => os[ident[r].replaces] = "none"

\* A process nobody killed is always reachable: registered, or about to be
\* promoted or reaped by the launch that spawned it.
NoUnmanagedProcess ==
  \A r \in Ids : os[r] = "up" => phase[r] \in {"spawned", "running"}

\* Once StopAll reported success for the drain of the current epoch, nothing is
\* registered and nothing launches until that drain ends.
DrainLeavesNothing ==
  \A d \in Drainers :
    (drain[d].pc \in {"clean", "cleared"} /\ drain[d].epoch = workspaceEpoch /\ draining)
      => \A r \in Ids : ~Held(r) /\ ~LiveComp(r) /\ os[r] # "up"

\* Whatever order runs finish in, a profile retains the terminal statuses of
\* its two newest launches since the last clear (retainTerminalStatusLocked).
RetainedAreNewest ==
  \A p \in Profiles : terminal[p] = Newest2({r \in finished : ident[r].profile = p})

\* A held step belongs to a live compound run that is on exactly that step and
\* shows it running: no leaf outlives or escapes its coordinator.
CoordinatorOwnsLeaf ==
  \A r \in Ids : (Held(r) /\ ~Ordinary(r)) =>
    LET c == ident[r].parent IN
      /\ c \in Ids /\ r = current[c]
      /\ stepState[r] = "running"
      /\ IF Running(r) THEN coord[c] \in {"started", "wait"} ELSE coord[c] = "launch"

\* The plan runs in order: a step leaves pending only after every step before
\* it succeeded, a finished run shows no step pending or running, and it reports
\* success exactly when all its steps succeeded.
PlanOrder ==
  \A c \in Ids : coord[c] # "none" =>
    /\ \A i, j \in StepsOf(c) :
         (i < j /\ stepState[j] \notin {"pending", "skipped"}) => stepState[i] = "success"
    /\ coord[c] = "done" =>
         /\ \A r \in StepsOf(c) : stepState[r] \notin {"pending", "running"}
         /\ result[c] = "success" <=> \A r \in StepsOf(c) : stepState[r] = "success"

\* A compound run starts at most one step after its cancel: the one for which
\* its coordinator had already looked at the context.  From then on it is never
\* about to start another, and every step still pending stays so until skipped.
CancelStopsPlan ==
  [][\A c \in Ids : (LiveComp(c) /\ cancelled[c] /\ coord[c] # "mark") =>
       /\ coord'[c] # "mark"
       /\ \A r \in StepsOf(c) : stepState[r] = "pending" =>
            stepState'[r] \in {"pending", "skipped"}]_vars

\* A plan is kept, to its end or to its cancel (runCompound).
PlanKept == []PlanOrder /\ CancelStopsPlan

-----------------------------------------------------------------------------
\* The inductive strengthening behind the proved properties.

\* A launch sequence number not handed out yet names nothing.
Fresh ==
  \A r \in Ids : r > nextRunSeq => phase[r] = "none" /\ coord[r] = "none"

\* An aggregate's id and snapshot are its own, its steps' ids are no other
\* aggregate's, a step not yet started has no launch, and a launch under a
\* step's id is that step's.
CompoundShape ==
  \A c \in Ids : coord[c] # "none" =>
    /\ phase[c] = "none"
    /\ ident[c].profile \in Compounds
    /\ current[c] \in StepsOf(c)
    /\ c + Len(Plan[ident[c].profile]) <= nextRunSeq
    /\ \A r \in StepsOf(c) :
         /\ coord[r] = "none"
         /\ stepState[r] = "pending" => phase[r] = "none"
         /\ Held(r) => ident[r].parent = c
    /\ coord[c] = "admit" => phase[current[c]] = "none"
    /\ coord[c] \in {"admit", "launch", "started", "wait", "record"}
         => stepState[current[c]] = "running"

\* What an exact restart replaces: still running or gone for good, and gone by
\* the time the replacement may spawn; while it runs the two are ordinary
\* launches of one profile.
ReplacementShape ==
  \A r \in Ids : (Held(r) /\ ident[r].replaces # 0) =>
    LET t == ident[r].replaces IN
      /\ phase[t] \in {"running", "gone"}
      /\ phase[r] \notin {"restart", "awaitexit"} => phase[t] = "gone"
      /\ Ordinary(r)
      /\ Running(t) => Ordinary(t) /\ ident[t].profile = ident[r].profile

UniqueReplacement ==
  \A a, b \in Ids :
    (Reserved(a) /\ Reserved(b) /\ ident[a].replaces = ident[b].replaces
       /\ ident[a].replaces # 0) => a = b

\* A process exists exactly from its spawn to its reap.
ProcessPhase ==
  \A r \in Ids :
    /\ os[r] # "none" <=> phase[r] \in {"spawned", "reaping", "running"}
    /\ phase[r] = "reaping" => os[r] # "up"

IInv ==
  /\ TypeOK /\ Fresh /\ CompoundShape /\ ReplacementShape /\ UniqueReplacement
  /\ ProcessPhase /\ CoordinatorOwnsLeaf
  /\ ProfileCapacity /\ StepExclusive /\ AggregateExclusive

\* What a drain covers.  Its epoch is its own, so admission that reopened in it
\* stays open in it; while admission is closed nothing is live that the snapshot
\* lacks, and before and after the waiting the snapshot is empty.
Covered(d) ==
  /\ drain[d].epoch <= workspaceEpoch
  /\ drain[d].pc \in {"idle", "drained", "clean", "cleared"} =>
       drain[d].procs = {} /\ drain[d].comps = {} /\ drain[d].resvs = {}
  /\ (draining /\ drain[d].epoch = workspaceEpoch /\ drain[d].pc \notin {"idle", "drained"}) =>
       \A r \in Ids : /\ Running(r) => r \in drain[d].procs
                      /\ LiveComp(r) => r \in drain[d].comps
                      /\ Reserved(r) => r \in drain[d].resvs

DrainCovers == \A d \in Drainers : Covered(d)

\* How far the plan of c is, by where its coordinator is.
Progress(c) ==
  /\ \A i, j \in StepsOf(c) :
       (i < j /\ stepState[j] \notin {"pending", "skipped"}) => stepState[i] = "success"
  /\ \A r \in StepsOf(c) :
       /\ coord[c] \in {"top", "mark"} => stepState[r] \in {"success", "pending"}
       /\ (coord[c] \in {"admit", "launch", "started", "wait", "record"} /\ r # current[c])
            => stepState[r] \in {"success", "pending"}
       /\ coord[c] = "finish" => stepState[r] # "running"
       /\ coord[c] = "done" => stepState[r] \notin {"pending", "running"}
  /\ coord[c] \in {"finish", "done"} =>
       (result[c] = "success" <=> \A r \in StepsOf(c) : stepState[r] = "success")

PlanProgress == \A c \in Ids : coord[c] # "none" => Progress(c)

\* What was retained is over for good, so its identity stays.
RetainedAreOver ==
  /\ RetainedAreNewest
  /\ \A r \in finished : phase[r] = "gone" \/ coord[r] = "done"

-----------------------------------------------------------------------------
\* Liveness.

\* Every exact stop or restart gets rid of its target, even one that ignores
\* SIGTERM (signalStop's watchdog).
StopTakesEffect == \A r \in Ids : watched[r] ~> ~Running(r)

\* Every reservation is released: promoted, failed or reaped.
ReservationReleased == \A r \in Ids : Reserved(r) ~> ~Reserved(r)

\* Under a drain StopAll succeeds once it escalates, without its deadline.
DrainCompletes ==
  \A d \in Drainers : drain[d].pc = "signal" ~> drain[d].pc \notin {"signal", "wait", "killed"}

\* No launch in flight and no drain is left hanging, whatever fails or ignores
\* its signal on the way.
LaunchesAndDrainsEnd == ReservationReleased /\ DrainCompletes

\* Stop of a compound run returns: the coordinator cannot be left blocked on a
\* leaf that nobody signalled (executor_compound.go:300-305).
CompoundStopReturns == \A s \in Stoppers : stopper[s].pc = "wait" ~> stopper[s].pc = "idle"

=============================================================================
