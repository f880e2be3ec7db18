------------------------------ MODULE RunProofs ------------------------------
(***************************************************************************)
(* Proofs about RunWorkspace and RunHistory: the app drives the executor   *)
(* only in ways its specification allows, so everything proved of the      *)
(* executor holds of the app, and history records, refusals and shutdown   *)
(* keep their promises; and what the history of a workspace guarantees for *)
(* every limit and every bound.                                            *)
(***************************************************************************)
EXTENDS RunWorkspace, RunHistory, RunExecutorProofs

(***************************************************************************)
(* RunWorkspace.                                                           *)
(***************************************************************************)
\* What the steps of the executor leave alone.

\* Launches, coordinators, stops and exits touch neither admission nor drains.
LEMMA ExecutorStepEffect ==
  ASSUME ExecutorStep
  PROVE  /\ UNCHANGED <<appVars, admissionVars>>
         /\ UNCHANGED drain \/ StopAllStep(LoadDrainer)
<1>1. ASSUME NEW r \in Ids, LaunchStep(r) PROVE UNCHANGED <<admissionVars, drain>>
  BY <1>1 DEF LaunchStep, RestartSignal, RestartTargetExited, PreSpawnCheck, Spawn, SpawnFails,
     Promote, Reap
<1>2. ASSUME NEW r \in Ids, Exit(r) \/ Watchdog(r) \/ WaitProcess(r)
      PROVE UNCHANGED <<admissionVars, drain>>
  BY <1>2 DEF Exit, Watchdog, WaitProcess
<1>3. ASSUME NEW c \in Ids, CoordinatorStep(c) PROVE UNCHANGED <<admissionVars, drain>>
  BY <1>3 DEF CoordinatorStep, CompoundTop, CompoundMark, CompoundAdmit, CompoundStarted,
     CompoundWait, CompoundRecord, FinishCompound
<1>4. ASSUME NEW s \in Stoppers, StopperStep(s) PROVE UNCHANGED <<admissionVars, drain>>
  BY <1>4 DEF StopperStep, StopCompoundCancel, StopCompoundReturn
<1>5. StopAllStep(LoadDrainer) => UNCHANGED admissionVars
  BY DEF StopAllStep, StopAllBegin, StopAllSignal, StopAllKill, StopAllDone
<1> QED BY <1>1, <1>2, <1>3, <1>4, <1>5 DEF ExecutorStep

\* Neither does a stop by a binding.
LEMMA StopBindingEffect ==
  ASSUME StopBinding
  PROVE  UNCHANGED <<appVars, admissionVars, drain>>
BY DEF StopBinding, Stop, StopRunInstance, StopCompoundRead

\* A launch passes the admission check, hands out ids and changes nothing else
\* of admission.
LEMMA LaunchEffect ==
  ASSUME IInv, NEW ep, LaunchAt(ep)
  PROVE  /\ ~draining /\ ep = workspaceEpoch
         /\ UNCHANGED <<workspaceEpoch, draining, drain>>
         /\ nextRunSeq \in Nat /\ nextRunSeq' \in Nat /\ nextRunSeq < nextRunSeq'
<1>1. nextRunSeq \in Nat
  BY BoundAssumption DEF IInv, TypeOK
<1> DEFINE InThisEpoch == /\ CheckAdmission(ep)
                          /\ UNCHANGED <<workspaceEpoch, draining, drain>>
                          /\ nextRunSeq' \in Nat /\ nextRunSeq < nextRunSeq'
<1>2. ASSUME NEW p \in Singles, Start(p, ep) PROVE InThisEpoch
  BY <1>1, <1>2 DEF Start
<1>3. ASSUME NEW t \in Ids, Restart(t, ep) PROVE InThisEpoch
  BY <1>1, <1>3 DEF Restart
<1>4. ASSUME NEW c \in Compounds, StartCompound(c, ep) PROVE InThisEpoch
  <2>1. /\ CheckAdmission(ep) /\ UNCHANGED <<workspaceEpoch, draining, drain>>
        /\ nextRunSeq' = nextRunSeq + 1 + Len(Plan[c])
    BY <1>4 DEF StartCompound
  <2>2. \A n, len \in Nat : n + 1 + len \in Nat /\ n < n + 1 + len
    OBVIOUS
  <2>3. nextRunSeq' \in Nat /\ nextRunSeq < nextRunSeq'
    BY <1>1, <2>1, <2>2, PlanLen
  <2> QED BY <2>1, <2>3
<1>5. InThisEpoch
  BY <1>2, <1>3, <1>4 DEF LaunchAt
<1> QED
  BY <1>1, <1>5 DEF CheckAdmission

\* The two drains are different ones.
LEMMA TwoDrains == LoadDrainer \in Drainers /\ CloseDrainer \in Drainers /\ LoadDrainer # CloseDrainer
BY DrainerAssumption

-----------------------------------------------------------------------------
\* Every step of the app is a step of the executor, or none.

\* Where the load is decides which executor step each of its steps is.
LEMMA AppStepIsExecutorStep ==
  ASSUME IInv, AppInv, [WNext]_wvars
  PROVE  [Next]_vars
<1> USE TwoDrains
<1>0. /\ drain \in [Drainers -> DrainCall] /\ workspaceEpoch \in Epochs
      /\ draining \in BOOLEAN
  BY DEF IInv, TypeOK
<1>1. CASE ExecutorStep
  BY <1>1 DEF ExecutorStep, Next, InternalNext
<1>2. ASSUME NEW w \in Roots, LoadBegin(w) PROVE [Next]_vars
  BY <1>2 DEF LoadBegin, ExecutorUnchanged, Next, CallerNext
<1>3. CASE LoadDrained
  BY <1>3 DEF LoadDrained, Next, CallerNext
<1>4. CASE LoadTimesOut
  BY <1>4 DEF LoadTimesOut, Next, InternalNext
<1>5. CASE LoadFails
  BY <1>5 DEF LoadFails, ExecutorUnchanged, Next, CallerNext
<1>6. CASE LoadSucceeds
  <2>1. CASE drain[LoadDrainer].pc = "cleared"
    <3>1. drain[LoadDrainer].epoch = load.epoch
      BY <1>6, <2>1 DEF LoadSucceeds, AppInv, LoadShape, NoDrain
    <3>2. SwitchLoadFails(LoadDrainer) \/ FinishSwitch(LoadDrainer)
      BY <1>6, <2>1, <3>1 DEF LoadSucceeds, SwitchLoadFails, FinishSwitch
    <3> QED BY <3>2 DEF Next, CallerNext
  <2>2. CASE drain[LoadDrainer].pc # "cleared"
    <3>1. drain[LoadDrainer] = NoDrain
      BY <1>6, <2>2 DEF LoadSucceeds, AppInv, LoadShape
    <3>2. drain' = drain
      BY <1>0, <1>6, <3>1 DEF LoadSucceeds
    <3>3. CASE runShutdown
      BY <1>6, <3>2, <3>3 DEF LoadSucceeds, vars
    <3>4. CASE ~runShutdown
      <4>1. load.epoch = workspaceEpoch
        BY <1>6, <3>4 DEF LoadSucceeds, AppInv, EpochOrder
      <4>2. EndDrain(workspaceEpoch)
        BY <1>6, <3>4, <4>1 DEF LoadSucceeds
      <4>3. CASE draining
        <5>1. Reload(LoadDrainer)
          BY <3>1, <3>2, <4>2, <4>3 DEF Reload, NoDrain
        <5> QED BY <5>1 DEF Next, CallerNext
      <4>4. CASE ~draining
        BY <1>0, <3>2, <4>2, <4>4 DEF EndDrain, vars, admissionVars
      <4> QED BY <4>3, <4>4
    <3> QED BY <3>3, <3>4
  <2> QED BY <2>1, <2>2
<1>7. CASE BeginRunShutdown
  BY <1>7 DEF BeginRunShutdown, Next, CallerNext
<1>8. CASE CloseDrainStep
  BY <1>8 DEF CloseDrainStep, Next, InternalNext
<1>9. ASSUME NEW c \in Callers, Launch(c) PROVE [Next]_vars
  <2>1. ticket[c].epoch \in Epochs
    BY <1>9 DEF Launch, AppInv, WTypeOK
  <2> QED BY <1>9, <2>1 DEF Launch, LaunchAt, Next, CallerNext
<1>10. ASSUME NEW c \in Callers, Resolve(c) \/ LaunchRefused(c) PROVE [Next]_vars
  BY <1>10 DEF Resolve, LaunchRefused
<1>11. CASE StopBinding
  BY <1>11 DEF StopBinding, Next, CallerNext
<1>12. ASSUME NEW r \in Ids, AppendRead(r) \/ AppendRoute(r) PROVE [Next]_vars
  BY <1>12 DEF AppendRead, AppendRoute
<1>13. CASE UNCHANGED wvars
  BY <1>13 DEF wvars
<1> QED
  BY <1>1, <1>2, <1>3, <1>4, <1>5, <1>6, <1>7, <1>8, <1>9, <1>10, <1>11, <1>12, <1>13
  DEF WNext, LoadStep, BindingStep

\* The invariant of the app, action by action.

\* The epochs that the app keeps are numbers.
LEMMA EpochsAreNumbers ==
  ASSUME IInv, AppInv
  PROVE  /\ workspaceEpoch \in Nat /\ switched \in Nat /\ nextRunSeq \in Nat
         /\ active.epoch \in Nat /\ atShutdown.epoch \in Nat /\ load.epoch \in Nat
         /\ \A c \in Callers : ticket[c].epoch \in Nat
         /\ \A r \in Ids : home[r].epoch \in Nat /\ record[r].epoch \in Nat
<1>1. workspaceEpoch \in Nat /\ nextRunSeq \in Nat
  BY BoundAssumption DEF IInv, TypeOK, Epochs
<1>2. switched \in Nat /\ active.epoch \in Nat /\ atShutdown.epoch \in Nat /\ load.epoch \in Nat
  BY BoundAssumption DEF AppInv, WTypeOK, Place, NoLoad, Epochs
<1>3. ASSUME NEW c \in Callers PROVE ticket[c].epoch \in Nat
  BY BoundAssumption DEF AppInv, WTypeOK, Nowhere, Epochs
<1>4. ASSUME NEW r \in Ids PROVE home[r].epoch \in Nat /\ record[r].epoch \in Nat
  BY BoundAssumption DEF AppInv, WTypeOK, Nowhere, NoRecord, Epochs
<1> QED BY <1>1, <1>2, <1>3, <1>4

\* A new app has no workspace, no binding and no record.
LEMMA InitAppInvariant == WInit => AppInv
<1> SUFFICES ASSUME WInit PROVE AppInv
  OBVIOUS
<1>1. WTypeOK
  <2>1. 0 \in Epochs
    BY BoundAssumption DEF Epochs
  <2>2. Nowhere \in Place
    BY <2>1 DEF Nowhere, Place
  <2> QED BY <2>1, <2>2 DEF WInit, WTypeOK
<1>2. LoadShape
  BY TwoDrains DEF WInit, Init, LoadShape, NoLoad
<1>3. EpochOrder /\ OpenIffCurrent /\ HomesFit /\ AppendsFit
  BY DEF WInit, Init, EpochOrder, OpenIffCurrent, HomesFit, Fits, AppendsFit, Nowhere,
     NoLoad, NoRecord
<1>4. ShutdownIsFinal /\ RecordsGoHome /\ RefusedOnlyBySwitch
  BY DEF WInit, ShutdownIsFinal, RecordsGoHome, RefusedOnlyBySwitch, NoRecord
<1> QED BY <1>1, <1>2, <1>3, <1>4 DEF AppInv

\* The executor going on by itself, and what bindings ask of it past the app's
\* own state, keep the invariant.
LEMMA QuietStep ==
  ASSUME IInv, AppInv, UNCHANGED <<appVars, admissionVars>>,
         drain'[LoadDrainer] = drain[LoadDrainer] \/ StopAllStep(LoadDrainer)
  PROVE  AppInv'
<1>1. LoadShape'
  <2>1. CASE drain'[LoadDrainer] = drain[LoadDrainer]
    BY <2>1 DEF AppInv, LoadShape, appVars
  <2>2. CASE StopAllStep(LoadDrainer)
    <3>1. drain[LoadDrainer] \in DrainCall /\ drain \in [Drainers -> DrainCall]
      BY TwoDrains DEF IInv, TypeOK
    <3>2. /\ drain[LoadDrainer].pc \in {"drained", "signal", "wait", "killed"}
          /\ drain'[LoadDrainer].pc \in {"drained", "signal", "wait", "killed", "clean"}
          /\ drain'[LoadDrainer].epoch = drain[LoadDrainer].epoch
      <4>1. CASE StopAllBegin(LoadDrainer)
        <5>1. \/ drain' = [drain EXCEPT ![LoadDrainer].pc = "clean"]
              \/ \E P, C, R : drain' = [drain EXCEPT ![LoadDrainer] =
                   [@ EXCEPT !.pc = "signal", !.procs = P, !.comps = C, !.resvs = R]]
          BY <4>1, Zenon DEF StopAllBegin
        <5>2. drain[LoadDrainer].pc = "drained"
          BY <4>1 DEF StopAllBegin
        <5>3. CASE drain' = [drain EXCEPT ![LoadDrainer].pc = "clean"]
          BY <3>1, <5>2, <5>3, TwoDrains DEF DrainCall
        <5>4. CASE ~(drain' = [drain EXCEPT ![LoadDrainer].pc = "clean"])
          <6>1. PICK P, C, R : drain' = [drain EXCEPT ![LoadDrainer] =
                  [@ EXCEPT !.pc = "signal", !.procs = P, !.comps = C, !.resvs = R]]
            BY <5>1, <5>4
          <6> QED BY <3>1, <5>2, <6>1, TwoDrains DEF DrainCall
        <5> QED BY <5>3, <5>4
      <4>2. CASE StopAllSignal(LoadDrainer) \/ StopAllKill(LoadDrainer)
        BY <3>1, <4>2, TwoDrains DEF StopAllSignal, StopAllKill, DrainCall
      <4>3. CASE StopAllDone(LoadDrainer)
        BY <3>1, <4>3, TwoDrains DEF StopAllDone, DrainCall
      <4> QED BY <2>2, <4>1, <4>2, <4>3 DEF StopAllStep
    <3>3. load.pc = "drain"
      BY <3>2 DEF AppInv, LoadShape, WTypeOK, NoDrain, NoLoad
    <3> QED BY <3>2, <3>3 DEF AppInv, LoadShape, appVars
  <2> QED BY <2>1, <2>2
<1>2. WTypeOK'
  BY DEF AppInv, WTypeOK, appVars
<1>3. EpochOrder' /\ OpenIffCurrent'
  BY DEF AppInv, EpochOrder, OpenIffCurrent, appVars, admissionVars
<1>4. HomesFit'
  BY DEF AppInv, HomesFit, Fits, appVars, admissionVars
<1>5. AppendsFit' /\ ShutdownIsFinal' /\ RecordsGoHome' /\ RefusedOnlyBySwitch'
  BY DEF AppInv, AppendsFit, ShutdownIsFinal, RecordsGoHome, RefusedOnlyBySwitch, appVars,
     admissionVars
<1> QED BY <1>1, <1>2, <1>3, <1>4, <1>5 DEF AppInv

\* A load begins: another root takes an epoch nobody has seen.
LEMMA LoadBeginStep ==
  ASSUME IInv, AppInv, NEW w \in Roots, LoadBegin(w)
  PROVE  AppInv'
<1> USE EpochsAreNumbers, TwoDrains
<1>0. /\ drain[LoadDrainer] = NoDrain /\ drain \in [Drainers -> DrainCall]
      /\ load.pc = "idle" /\ UNCHANGED <<loaded, active, runShutdown, atShutdown, ticket, home, record>>
      /\ UNCHANGED nextRunSeq
  BY DEF LoadBegin, Unlocked, AppInv, LoadShape, IInv, TypeOK, BeginDrain, ExecutorUnchanged,
     vars, admissionVars
<1>1. \/ /\ loaded # w
         /\ workspaceEpoch' = workspaceEpoch + 1 /\ draining' = TRUE
         /\ load' = [pc |-> "drain", root |-> w, epoch |-> workspaceEpoch + 1]
         /\ switched' = workspaceEpoch + 1
         /\ drain'[LoadDrainer].pc = "drained" /\ drain'[LoadDrainer].epoch = workspaceEpoch + 1
         /\ workspaceEpoch < MaxEpoch
      \/ /\ loaded = w
         /\ UNCHANGED <<workspaceEpoch, draining, switched>>
         /\ load' = [pc |-> "load", root |-> w, epoch |-> workspaceEpoch]
         /\ drain'[LoadDrainer] = NoDrain
  BY <1>0 DEF LoadBegin, BeginDrain, ExecutorUnchanged, vars, admissionVars, NoDrain
<1>2. WTypeOK'
  <2>1. workspaceEpoch \in Epochs /\ workspaceEpoch < MaxEpoch => workspaceEpoch + 1 \in Epochs
    BY BoundAssumption DEF IInv, TypeOK, Epochs
  <2> QED BY <1>0, <1>1, <2>1 DEF AppInv, WTypeOK, IInv, TypeOK
<1>3. LoadShape'
  BY <1>1 DEF LoadShape
<1>4. EpochOrder'
  BY <1>0, <1>1, RootAssumption DEF AppInv, EpochOrder
<1>5. OpenIffCurrent' /\ ShutdownIsFinal'
  BY <1>0, <1>1 DEF AppInv, OpenIffCurrent, ShutdownIsFinal, EpochOrder
<1>6. HomesFit'
  BY <1>0, <1>1 DEF AppInv, HomesFit, Fits, EpochOrder
<1>7. AppendsFit' /\ RecordsGoHome' /\ RefusedOnlyBySwitch'
  BY <1>0, <1>1 DEF AppInv, AppendsFit, RecordsGoHome, RefusedOnlyBySwitch, EpochOrder
<1> QED BY <1>2, <1>3, <1>4, <1>5, <1>6, <1>7 DEF AppInv

\* The load goes on to the profiles, or gives up.
LEMMA LoadMiddleStep ==
  ASSUME IInv, AppInv, LoadDrained \/ LoadTimesOut \/ LoadFails
  PROVE  AppInv'
<1> USE EpochsAreNumbers, TwoDrains
<1>0. drain \in [Drainers -> DrainCall]
  BY DEF IInv, TypeOK
<1>1. /\ UNCHANGED <<loaded, active, runShutdown, atShutdown, ticket, home, record, switched>>
      /\ UNCHANGED admissionVars
      /\ \/ /\ load.pc = "drain" /\ load' = [load EXCEPT !.pc = "load"]
            /\ drain'[LoadDrainer].pc = "cleared"
            /\ drain'[LoadDrainer].epoch = drain[LoadDrainer].epoch
         \/ load' = NoLoad /\ drain'[LoadDrainer] = NoDrain
  <2>1. CASE LoadDrained
    BY <1>0, <2>1 DEF LoadDrained, ClearTerminalStatuses, DrainCall
  <2>2. CASE LoadTimesOut
    BY <1>0, <2>2 DEF LoadTimesOut, StopAllTimeout
  <2>3. CASE LoadFails
    <3>1. drain'[LoadDrainer] = NoDrain /\ UNCHANGED admissionVars
      BY <1>0, <2>3 DEF LoadFails, SwitchLoadFails, ExecutorUnchanged, vars, AppInv, LoadShape
    <3> QED BY <2>3, <3>1 DEF LoadFails
  <2> QED BY <2>1, <2>2, <2>3
<1>2. load' = NoLoad \/ (/\ load.pc = "drain" /\ load'.pc = "load" /\ load'.root = load.root
                         /\ load'.epoch = load.epoch /\ load' \in [pc: {"drain", "load"}, root: Roots, epoch: Epochs])
  BY <1>1 DEF AppInv, WTypeOK, NoLoad
<1>3. WTypeOK'
  BY <1>1, <1>2 DEF AppInv, WTypeOK
<1>4. LoadShape'
  BY <1>1, <1>2 DEF AppInv, LoadShape, NoLoad
<1>5. EpochOrder' /\ OpenIffCurrent' /\ ShutdownIsFinal'
  BY <1>1, <1>2 DEF AppInv, EpochOrder, OpenIffCurrent, ShutdownIsFinal, NoLoad, admissionVars
<1>6. HomesFit'
  BY <1>1, <1>2 DEF AppInv, HomesFit, Fits, NoLoad, admissionVars
<1>7. AppendsFit' /\ RecordsGoHome' /\ RefusedOnlyBySwitch'
  BY <1>1 DEF AppInv, AppendsFit, RecordsGoHome, RefusedOnlyBySwitch
<1> QED BY <1>3, <1>4, <1>5, <1>6, <1>7 DEF AppInv

\* A load succeeds: root, history pair and admission change together.
LEMMA LoadSucceedsStep ==
  ASSUME IInv, AppInv, LoadSucceeds
  PROVE  AppInv'
<1> USE EpochsAreNumbers, TwoDrains
<1>1. /\ load.pc = "load" /\ loaded' = load.root /\ load' = NoLoad
      /\ active' = [root |-> load.root, epoch |-> load.epoch]
      /\ UNCHANGED <<runShutdown, atShutdown, ticket, home, record, switched>>
      /\ UNCHANGED <<workspaceEpoch, nextRunSeq>>
      /\ draining' = IF ~runShutdown /\ load.epoch = workspaceEpoch THEN FALSE ELSE draining
  BY DEF LoadSucceeds, EndDrain, admissionVars
<1>2. drain'[LoadDrainer] = NoDrain
  BY DEF LoadSucceeds, IInv, TypeOK
<1>3. load \in [pc: {"drain", "load"}, root: Roots, epoch: Epochs]
  BY <1>1 DEF AppInv, WTypeOK, NoLoad
<1>4. WTypeOK'
  BY <1>1, <1>3 DEF AppInv, WTypeOK, Place
<1>5. LoadShape'
  BY <1>1, <1>2 DEF LoadShape, NoLoad
<1>6. EpochOrder'
  BY <1>1, <1>3, RootAssumption DEF AppInv, EpochOrder, NoLoad
<1>7. OpenIffCurrent' /\ ShutdownIsFinal'
  BY <1>1 DEF AppInv, OpenIffCurrent, ShutdownIsFinal, EpochOrder
<1>8. HomesFit'
  BY <1>1 DEF AppInv, HomesFit, Fits, EpochOrder, NoLoad
<1>9. AppendsFit' /\ RecordsGoHome' /\ RefusedOnlyBySwitch'
  BY <1>1 DEF AppInv, AppendsFit, RecordsGoHome, RefusedOnlyBySwitch
<1> QED BY <1>4, <1>5, <1>6, <1>7, <1>8, <1>9 DEF AppInv

\* Shutdown takes the history pair before it advances the epoch.
LEMMA BeginRunShutdownStep ==
  ASSUME IInv, AppInv, BeginRunShutdown
  PROVE  AppInv'
<1> USE EpochsAreNumbers, TwoDrains
<1>1. /\ ~runShutdown /\ runShutdown' = TRUE /\ atShutdown' = active
      /\ workspaceEpoch' = workspaceEpoch + 1 /\ draining' = TRUE /\ UNCHANGED nextRunSeq
      /\ UNCHANGED <<loaded, load, active, ticket, home, record, switched>>
  BY DEF BeginRunShutdown, BeginDrain
<1>2. drain'[LoadDrainer] = drain[LoadDrainer]
  BY DEF BeginRunShutdown, BeginDrain, IInv, TypeOK
<1>3. WTypeOK'
  BY <1>1 DEF AppInv, WTypeOK
<1>4. LoadShape'
  BY <1>1, <1>2 DEF AppInv, LoadShape
<1>5. EpochOrder' /\ OpenIffCurrent' /\ ShutdownIsFinal'
  BY <1>1 DEF AppInv, EpochOrder, OpenIffCurrent, ShutdownIsFinal
<1>6. HomesFit'
  BY <1>1 DEF AppInv, HomesFit, Fits, EpochOrder
<1>7. AppendsFit' /\ RecordsGoHome' /\ RefusedOnlyBySwitch'
  BY <1>1 DEF AppInv, AppendsFit, RecordsGoHome, RefusedOnlyBySwitch
<1> QED BY <1>3, <1>4, <1>5, <1>6, <1>7 DEF AppInv

\* A binding takes its root and epoch, or drops them.
LEMMA TicketStep ==
  ASSUME IInv, AppInv, NEW c \in Callers, Resolve(c) \/ LaunchRefused(c)
  PROVE  AppInv'
<1> USE EpochsAreNumbers
<1>1. UNCHANGED <<vars, loaded, load, active, runShutdown, atShutdown, home, record, switched>>
  BY DEF Resolve, LaunchRefused
<1>2. PICK p : /\ ticket' = [ticket EXCEPT ![c] = p]
               /\ \/ p = Nowhere
                  \/ /\ p = [root |-> loaded, epoch |-> workspaceEpoch]
                     /\ load.pc = "idle" /\ loaded # NoRoot
  BY DEF Resolve, LaunchRefused, Unlocked
<1>3. p \in {Nowhere} \cup [root: Roots, epoch: Epochs]
  BY <1>2 DEF AppInv, WTypeOK, IInv, TypeOK
<1>4. WTypeOK'
  BY <1>1, <1>2, <1>3 DEF AppInv, WTypeOK
<1>5. LoadShape' /\ EpochOrder' /\ OpenIffCurrent' /\ ShutdownIsFinal'
  BY <1>1 DEF AppInv, LoadShape, EpochOrder, OpenIffCurrent, ShutdownIsFinal, vars, admissionVars
<1>6. HomesFit'
  <2>1. Fits(p)
    BY <1>2 DEF Fits, AppInv, EpochOrder
  <2>2. \A b \in Callers : ticket'[b] = p \/ ticket'[b] = ticket[b]
    BY <1>2 DEF AppInv, WTypeOK
  <2> QED BY <1>1, <2>1, <2>2 DEF AppInv, HomesFit, Fits, vars, admissionVars
<1>7. AppendsFit' /\ RecordsGoHome' /\ RefusedOnlyBySwitch'
  BY <1>1 DEF AppInv, AppendsFit, RecordsGoHome, RefusedOnlyBySwitch
<1> QED BY <1>4, <1>5, <1>6, <1>7 DEF AppInv

\* A launch is admitted only in the epoch the latest load published.
LEMMA LaunchStepApp ==
  ASSUME IInv, AppInv, NEW c \in Callers, Launch(c)
  PROVE  AppInv'
<1> USE EpochsAreNumbers
<1> DEFINE p == ticket[c]
<1>1. /\ p # Nowhere
      /\ ticket' = [ticket EXCEPT ![c] = Nowhere]
      /\ UNCHANGED <<loaded, load, active, runShutdown, atShutdown, record, switched>>
      /\ Settle(p.root, p.epoch) /\ LaunchAt(p.epoch)
  BY DEF Launch
<1>2. /\ ~draining /\ p.epoch = workspaceEpoch
      /\ UNCHANGED <<workspaceEpoch, draining, drain>>
      /\ nextRunSeq' \in Nat /\ nextRunSeq < nextRunSeq'
  BY <1>1, LaunchEffect
<1>3. p \in [root: Roots, epoch: Epochs] /\ Fits(p)
  BY <1>1 DEF AppInv, WTypeOK, HomesFit
<1>4. [root |-> p.root, epoch |-> p.epoch] = p
  BY <1>3
<1>5. home' = [r \in Ids |-> IF r > nextRunSeq /\ r <= nextRunSeq' THEN p ELSE home[r]]
  BY <1>1, <1>4 DEF Settle
<1>6. loaded # NoRoot /\ ~runShutdown /\ active.epoch = workspaceEpoch
  BY <1>2, <1>3, <1>1, RootAssumption DEF AppInv, ShutdownIsFinal, OpenIffCurrent, Fits
<1>7. WTypeOK'
  BY <1>1, <1>3, <1>5 DEF AppInv, WTypeOK
<1>8. LoadShape' /\ EpochOrder' /\ OpenIffCurrent' /\ ShutdownIsFinal'
  BY <1>1, <1>2 DEF AppInv, LoadShape, EpochOrder, OpenIffCurrent, ShutdownIsFinal
<1>9. HomesFit'
  <2>1. ASSUME NEW b \in Callers PROVE Fits(ticket[b])'
    <3>1. ticket'[b] = Nowhere \/ ticket'[b] = ticket[b]
      BY <1>1 DEF AppInv, WTypeOK
    <3> QED BY <1>1, <1>2, <3>1 DEF AppInv, HomesFit, Fits
  <2>2. ASSUME NEW r \in Ids, home'[r] # Nowhere
        PROVE  /\ Fits(home[r])'
               /\ r <= nextRunSeq'
               /\ home'[r].epoch <= active'.epoch
               /\ runShutdown' => home'[r].epoch <= atShutdown'.epoch
    <3>1. CASE r > nextRunSeq /\ r <= nextRunSeq'
      <4>1. home'[r] = p
        BY <1>5, <3>1
      <4> QED BY <1>1, <1>2, <1>3, <1>6, <3>1, <4>1 DEF Fits
    <3>2. CASE ~(r > nextRunSeq /\ r <= nextRunSeq')
      <4>1. home'[r] = home[r]
        BY <1>5, <3>2
      <4>2. r <= nextRunSeq
        BY <2>2, <4>1 DEF AppInv, HomesFit
      <4> QED BY <1>1, <1>2, <2>2, <4>1, <4>2 DEF AppInv, HomesFit, Fits, Ids
    <3> QED BY <3>1, <3>2
  <2> QED BY <2>1, <2>2 DEF HomesFit
<1>10. \A r \in Ids : record[r].pc # "none" => home'[r] = home[r]
  BY <1>5 DEF AppInv, AppendsFit, HomesFit, Ids
<1>11. AppendsFit' /\ RecordsGoHome' /\ RefusedOnlyBySwitch'
  BY <1>1, <1>10 DEF AppInv, AppendsFit, RecordsGoHome, RefusedOnlyBySwitch
<1> QED BY <1>7, <1>8, <1>9, <1>11 DEF AppInv

\* An append reads root and epoch together, and they decide its route: the
\* epoch of a finished run is the one read, or older than the latest switch, or
\* the one the shutdown kept.
LEMMA AppendReadStep ==
  ASSUME IInv, AppInv, NEW r \in Ids, AppendRead(r)
  PROVE  AppInv'
<1> USE EpochsAreNumbers
<1> DEFINE q == [pc |-> "read", root |-> loaded, epoch |-> workspaceEpoch]
<1>1. /\ loaded # NoRoot /\ home[r] # Nowhere
      /\ record' = [record EXCEPT ![r] = q]
      /\ UNCHANGED <<vars, loaded, load, active, runShutdown, atShutdown, ticket, home, switched>>
  BY DEF AppendRead, Recordable
<1>2. WTypeOK'
  BY <1>1 DEF AppInv, WTypeOK, IInv, TypeOK
<1>3. LoadShape' /\ EpochOrder' /\ OpenIffCurrent' /\ ShutdownIsFinal'
  BY <1>1 DEF AppInv, LoadShape, EpochOrder, OpenIffCurrent, ShutdownIsFinal, vars, admissionVars
<1>4. HomesFit'
  BY <1>1 DEF AppInv, HomesFit, Fits, vars, admissionVars
<1>5. /\ home[r].epoch = q.epoch => home[r].root = q.root
      /\ \/ home[r].epoch = q.epoch
         \/ home[r].epoch < switched
         \/ runShutdown /\ home[r].epoch = atShutdown.epoch
  BY <1>1 DEF AppInv, HomesFit, Fits, EpochOrder
<1>6. \A a \in Ids : record'[a] = IF a = r THEN q ELSE record[a]
  BY <1>1 DEF AppInv, WTypeOK
<1>7. AppendsFit'
  BY <1>1, <1>5, <1>6 DEF AppInv, AppendsFit
<1>8. RecordsGoHome' /\ RefusedOnlyBySwitch'
  BY <1>1, <1>6 DEF AppInv, RecordsGoHome, RefusedOnlyBySwitch
<1> QED BY <1>2, <1>3, <1>4, <1>7, <1>8 DEF AppInv

\* The route an append takes: its root is the run's own, and a refusal means
\* that a switch began after the run was launched.
LEMMA AppendRouteStep ==
  ASSUME IInv, AppInv, NEW r \in Ids, AppendRoute(r)
  PROVE  AppInv'
<1> USE EpochsAreNumbers
<1> DEFINE ep == home[r].epoch
<1>1. /\ record[r].pc = "read"
      /\ UNCHANGED <<vars, loaded, load, active, runShutdown, atShutdown, ticket, home, switched>>
  BY DEF AppendRoute
<1>2. /\ record[r] \in [pc: {"read", "written", "rejected"}, root: Roots, epoch: Epochs]
      /\ record \in [Ids -> {NoRecord} \cup
                            [pc: {"read", "written", "rejected"}, root: Roots, epoch: Epochs]]
  BY <1>1 DEF AppInv, WTypeOK, NoRecord
<1>3. PICK q : /\ record' = [record EXCEPT ![r] = q]
               /\ q.pc \in {"written", "rejected"}
               /\ q \in [pc: {"read", "written", "rejected"}, root: Roots, epoch: Epochs]
               /\ q.pc = "written" => q.root = home[r].root
               /\ q.pc = "rejected" => ep < switched
  <2>1. home[r] # Nowhere /\ Fits(home[r])
    BY <1>1 DEF AppInv, AppendsFit, HomesFit
  <2>2. CASE ep = record[r].epoch /\ record' = [record EXCEPT ![r].pc = "written"]
    <3>1. record[r].root = home[r].root
      BY <1>1, <2>2 DEF AppInv, AppendsFit
    <3> DEFINE n == [record[r] EXCEPT !.pc = "written"]
    <3>2. record' = [record EXCEPT ![r] = n]
      BY <2>2
    <3>3. /\ n \in [pc: {"read", "written", "rejected"}, root: Roots, epoch: Epochs]
          /\ n.pc = "written" /\ n.root = record[r].root
      BY <1>2
    <3> HIDE DEF n
    <3> QED BY <3>1, <3>2, <3>3
  <2>3. CASE /\ ep # record[r].epoch /\ ShutdownAccepts(ep)
             /\ record' = [record EXCEPT ![r] = [@ EXCEPT !.pc = "written", !.root = atShutdown.root]]
    <3>1. atShutdown.root \in Roots /\ atShutdown.root = home[r].root
      BY <2>1, <2>3 DEF ShutdownAccepts, Fits, AppInv, WTypeOK, Place
    <3> DEFINE n == [record[r] EXCEPT !.pc = "written", !.root = atShutdown.root]
    <3>2. record' = [record EXCEPT ![r] = n]
      BY <2>3
    <3>3. /\ n \in [pc: {"read", "written", "rejected"}, root: Roots, epoch: Epochs]
          /\ n.pc = "written" /\ n.root = atShutdown.root
      BY <1>2, <3>1
    <3> HIDE DEF n
    <3> QED BY <3>1, <3>2, <3>3
  <2>4. CASE /\ ep # record[r].epoch /\ ~ShutdownAccepts(ep)
             /\ record' = [record EXCEPT ![r].pc = "rejected"]
    <3>1. ep < switched
      BY <1>1, <2>1, <2>4 DEF AppInv, AppendsFit, ShutdownAccepts, Fits, EpochOrder
    <3>2. record' = [record EXCEPT ![r] = [record[r] EXCEPT !.pc = "rejected"]]
      BY <2>4
    <3> QED BY <1>2, <3>1, <3>2
  <2> QED BY <2>2, <2>3, <2>4 DEF AppendRoute
<1>4. \A a \in Ids : record'[a] = IF a = r THEN q ELSE record[a]
  BY <1>2, <1>3
<1>5. WTypeOK'
  BY <1>1, <1>2, <1>3 DEF AppInv, WTypeOK
<1>6. LoadShape' /\ EpochOrder' /\ OpenIffCurrent' /\ ShutdownIsFinal'
  BY <1>1 DEF AppInv, LoadShape, EpochOrder, OpenIffCurrent, ShutdownIsFinal, vars, admissionVars
<1>7. HomesFit'
  BY <1>1 DEF AppInv, HomesFit, Fits, vars, admissionVars
<1>8. AppendsFit' /\ RecordsGoHome' /\ RefusedOnlyBySwitch'
  BY <1>1, <1>3, <1>4 DEF AppInv, AppendsFit, RecordsGoHome, RefusedOnlyBySwitch
<1> QED BY <1>5, <1>6, <1>7, <1>8 DEF AppInv

-----------------------------------------------------------------------------
\* The theorems.

\* Every step of the app keeps its invariant.
LEMMA AppInductiveStep == IInv /\ AppInv /\ [WNext]_wvars => AppInv'
<1> SUFFICES ASSUME IInv, AppInv, [WNext]_wvars PROVE AppInv'
  OBVIOUS
<1>1. CASE ExecutorStep
  BY <1>1, ExecutorStepEffect, QuietStep
<1>2. CASE StopBinding
  BY <1>2, StopBindingEffect, QuietStep
<1>3. CASE CloseDrainStep
  <2>1. UNCHANGED <<appVars, admissionVars>> /\ drain'[LoadDrainer] = drain[LoadDrainer]
    BY <1>3, TwoDrains
    DEF CloseDrainStep, StopAllStep, StopAllBegin, StopAllSignal, StopAllKill, StopAllDone,
        StopAllTimeout, IInv, TypeOK
  <2> QED BY <2>1, QuietStep
<1>4. CASE UNCHANGED wvars
  BY <1>4, QuietStep DEF wvars, vars
<1>5. CASE LoadStep
  BY <1>5, LoadBeginStep, LoadMiddleStep, LoadSucceedsStep DEF LoadStep
<1>6. CASE BeginRunShutdown
  BY <1>6, BeginRunShutdownStep
<1>7. CASE BindingStep
  BY <1>7, <1>2, TicketStep, LaunchStepApp, AppendReadStep, AppendRouteStep DEF BindingStep
<1> QED BY <1>1, <1>3, <1>4, <1>5, <1>6, <1>7 DEF WNext

\* The app keeps the invariant of the executor and its own.
THEOREM AppInvariance == WSpec => [](IInv /\ AppInv)
<1>1. WInit => IInv /\ AppInv
  BY InitInvariant, InitAppInvariant DEF WInit
<1>2. IInv /\ AppInv /\ [WNext]_wvars => IInv' /\ AppInv'
  BY AppStepIsExecutorStep, InductiveStep, AppInductiveStep
<1> QED BY <1>1, <1>2, PTL DEF WSpec

\* Whatever loads, bindings and the shutdown do, the executor sees only calls its
\* specification allows (loadRunProfilesLocked, beginRunShutdown), so every
\* theorem about it holds in the app.
THEOREM AppImplementsExecutor == WSpec => ExecutorSpec
<1>1. WInit => Init
  BY DEF WInit
<1>2. IInv /\ AppInv /\ [WNext]_wvars => [Next]_vars
  BY AppStepIsExecutorStep
<1> QED BY <1>1, <1>2, AppInvariance, PTL DEF WSpec, ExecutorSpec, Spec

\* No load that was under way, or begins later, reopens run admission once the
\* shutdown began (app.go:996), and before that a finished load leaves admission
\* open (app.go:988-1004).
THEOREM AdmissionIsRight == WSpec => []AdmissionFollowsLoads
<1>1. AppInv => ShutdownIsFinal
  BY DEF AppInv
<1>2. AppInv => LoadReopens
  BY DEF AppInv, OpenIffCurrent, LoadReopens
<1> QED BY <1>1, <1>2, AppInvariance, PTL DEF AdmissionFollowsLoads

\* A run's history record is written to the workspace the run executed in,
\* however loads, failed loads and the shutdown interleave with the append
\* (AppendRunHistoryRecord, app.go:1223-1247), and is refused only for a switch
\* that began after its run was launched: the shutdown alone refuses none
\* (shutdownHistoryWorkspaceFor, app.go:507-516).
THEOREM RecordsStayHome == WSpec => []RecordsKept
<1>1. AppInv => RecordsKept
  BY DEF AppInv, RecordsKept
<1> QED BY <1>1, AppInvariance, PTL

-----------------------------------------------------------------------------
(***************************************************************************)
(* One root at a time.  The drain of a switch covers every launch of the   *)
(* old root (DrainCovers), so nothing of it is left when the root changes; *)
(* a switch that fails changes no root, and a launch after it is of the    *)
(* root that stayed.                                                       *)
(***************************************************************************)
\* What is in progress after a step was in progress before it, or has an id that
\* the step handed out.
LEMMA InProgressBefore ==
  ASSUME IInv, IInv', Kind, NEW r \in Ids, InProgress(r)'
  PROVE  InProgress(r) \/ (r > nextRunSeq /\ r <= nextRunSeq')
<1>0. /\ phase \in [Ids -> Phases] /\ nextRunSeq \in Nat
      /\ nextRunSeq' \in Nat /\ r \in Int
  BY BoundAssumption DEF IInv, TypeOK, Ids
<1> DEFINE New == r > nextRunSeq /\ r <= nextRunSeq'
<1>1. ASSUME NEW c \in Ids, LiveComp(c)', r = c \/ r \in StepsOf(c)'
      PROVE  InProgress(r) \/ New
  <2>1. CASE LiveComp(c)
    <3>1. StepsOf(c)' = StepsOf(c)
      BY <2>1, CompoundStays DEF LiveComp, LivePcs
    <3> QED BY <1>1, <2>1, <3>1 DEF InProgress
  <2>2. CASE ~LiveComp(c)
    <3>1. PICK a \in Compounds, ep \in Epochs : StartCompound(a, ep) /\ c = nextRunSeq + 1
      BY <1>1, <2>2, LiveBefore
    <3>2. r <= nextRunSeq' /\ r >= c
      <4>1. CASE r = c
        <5>1. nextRunSeq + 2 <= nextRunSeq'
          BY <3>1, BlockOfIds
        <5> QED BY <1>0, <3>1, <4>1, <5>1
      <4>2. CASE r \in StepsOf(c)'
        <5>1. coord'[c] # "none"
          BY <1>1 DEF LiveComp, LivePcs
        <5>2. /\ ident'[c].profile \in Compounds
              /\ c + Len(Plan[ident'[c].profile]) <= nextRunSeq'
          BY <5>1 DEF IInv, CompoundShape
        <5>3. Len(Plan[ident'[c].profile]) \in Nat
          BY <5>2, PlanLen
        <5> QED BY <1>0, <4>2, <5>2, <5>3 DEF StepsOf, Ids
      <4> QED BY <1>1, <4>1, <4>2
    <3> QED BY <1>0, <3>1, <3>2
  <2> QED BY <2>1, <2>2
<1>2. CASE Held(r)'
  <2> USE DEF Held, Reserved, Running, ResPhases
  <2>1. CASE UNCHANGED <<phase, ident>>
    BY <1>2, <2>1 DEF InProgress
  <2>2. ASSUME NEW a \in Compounds, NEW ep \in Epochs, StartCompound(a, ep) PROVE InProgress(r)
    BY <1>2, <2>2 DEF StartCompound, InProgress
  <2>3. ASSUME NEW p, NEW t, NEW ep \in Epochs, Entered(p, t, ep) PROVE InProgress(r) \/ New
    BY <1>0, <1>2, <2>3 DEF Entered, InProgress
  <2>4. ASSUME NEW x \in Ids, \/ Dropped(x) \/ Promoted(x) \/ Left(x)
                              \/ \E ph \in ResPhases : Advanced(x, ph)
        PROVE  InProgress(r)
    BY <1>0, <1>2, <2>4 DEF Dropped, Promoted, Left, Advanced, InProgress
  <2>5. ASSUME NEW c \in Ids, LeafLeft(c) \/ Admitted(c) PROVE InProgress(r)
    <3>1. LiveComp(c) /\ coord[c] # "none"
      BY <2>5 DEF LeafLeft, Admitted, LiveComp, LivePcs
    <3>2. current[c] \in StepsOf(c)
      BY <3>1, CurrentIsStep
    <3>3. CASE r = current[c]
      BY <3>1, <3>2, <3>3 DEF InProgress
    <3>4. CASE r # current[c]
      BY <1>0, <1>2, <2>5, <3>4 DEF LeafLeft, Admitted, InProgress
    <3> QED BY <3>3, <3>4
  <2> QED BY <2>1, <2>2, <2>3, <2>4, <2>5, LaunchCases DEF EnteredRestart
<1> QED BY <1>1, <1>2 DEF InProgress

\* Ids in progress were handed out.
LEMMA InProgressIsOld ==
  ASSUME IInv, NEW r \in Ids, InProgress(r)
  PROVE  r <= nextRunSeq
<1>1. (Held(r) \/ LiveComp(r)) => r <= nextRunSeq
  BY HeldIsNoCompound, BoundAssumption DEF IInv, Fresh, LiveComp, LivePcs, TypeOK, Ids
<1>2. ASSUME NEW c \in Ids, LiveComp(c), r \in StepsOf(c) PROVE r <= nextRunSeq
  BY <1>2, StepsAreIds DEF LiveComp, LivePcs
<1> QED BY <1>1, <1>2 DEF InProgress

\* Steps that hand out no id and leave root, home and shutdown alone.
LEMMA HomeFrame ==
  ASSUME IInv, IInv', AppInv, LoadedIsHome, [Next]_vars,
         UNCHANGED <<nextRunSeq, home, loaded>>, runShutdown => runShutdown'
  PROVE  ~runShutdown' => \A r \in Ids : InProgress(r)' => home'[r].root = loaded'
<1> SUFFICES ASSUME ~runShutdown', NEW r \in Ids, InProgress(r)' PROVE home'[r].root = loaded'
  OBVIOUS
<1>1. Kind /\ nextRunSeq \in Nat /\ r \in Int
  BY StepKinds, BoundAssumption DEF IInv, TypeOK, Ids
<1>2. InProgress(r)
  BY <1>1, InProgressBefore
<1> QED BY <1>2 DEF LoadedIsHome

\* A load that goes on, or fails, keeps its drain in step.
LEMMA LoadedIsHomeStep ==
  IInv /\ AppInv /\ DrainCovers /\ LoadedIsHome /\ IInv' /\ AppInv' /\ [WNext]_wvars => LoadedIsHome'
<1> SUFFICES ASSUME IInv, AppInv, DrainCovers, LoadedIsHome, IInv', AppInv', [WNext]_wvars
             PROVE  LoadedIsHome'
  OBVIOUS
<1> USE TwoDrains
<1>0. /\ drain \in [Drainers -> DrainCall] /\ [Next]_vars /\ Kind
  BY AppStepIsExecutorStep, StepKinds DEF IInv, TypeOK
<1> DEFINE Side == /\ (load.pc = "load" /\ drain[LoadDrainer] = NoDrain) => load.root = loaded
                   /\ drain[LoadDrainer] # NoDrain => draining
<1>1. ASSUME UNCHANGED <<appVars, admissionVars>>,
             drain'[LoadDrainer] = drain[LoadDrainer] \/ StopAllStep(LoadDrainer)
      PROVE  LoadedIsHome'
  <2>1. drain'[LoadDrainer] = NoDrain => drain[LoadDrainer] = NoDrain \/ load.pc = "drain"
    BY <1>1 DEF AppInv, LoadShape, NoDrain, appVars, StopAllStep, StopAllBegin, StopAllSignal,
       StopAllKill, StopAllDone, WTypeOK, NoLoad
  <2>2. StopAllStep(LoadDrainer) => drain[LoadDrainer] # NoDrain
    BY DEF StopAllStep, StopAllBegin, StopAllSignal, StopAllKill, StopAllDone, NoDrain
  <2>3. Side'
    BY <1>1, <2>1, <2>2 DEF LoadedIsHome, appVars, admissionVars
  <2>4. UNCHANGED <<nextRunSeq, home, loaded, runShutdown>>
    BY <1>1 DEF appVars, admissionVars
  <2> QED BY <1>0, <2>3, <2>4, HomeFrame DEF LoadedIsHome
<1>2. CASE ExecutorStep
  BY <1>1, <1>2, ExecutorStepEffect
<1>3. CASE StopBinding
  BY <1>1, <1>3, StopBindingEffect
<1>4. CASE CloseDrainStep
  <2>1. UNCHANGED <<appVars, admissionVars>> /\ drain'[LoadDrainer] = drain[LoadDrainer]
    BY <1>0, <1>4
    DEF CloseDrainStep, StopAllStep, StopAllBegin, StopAllSignal, StopAllKill, StopAllDone,
        StopAllTimeout
  <2> QED BY <1>1, <2>1
<1>5. CASE UNCHANGED wvars
  BY <1>1, <1>5 DEF wvars, vars
<1>6. ASSUME NEW w \in Roots, LoadBegin(w) PROVE LoadedIsHome'
  <2>1. UNCHANGED <<nextRunSeq, home, loaded, runShutdown>>
    BY <1>6 DEF LoadBegin, BeginDrain, ExecutorUnchanged, vars, admissionVars
  <2>2. drain[LoadDrainer] = NoDrain
    BY <1>6 DEF LoadBegin, Unlocked, AppInv, LoadShape
  <2>3. Side'
    BY <1>0, <1>6, <2>1, <2>2 DEF LoadBegin, BeginDrain, ExecutorUnchanged, vars, admissionVars
  <2> QED BY <1>0, <2>1, <2>3, HomeFrame DEF LoadedIsHome
<1>7. CASE LoadDrained \/ LoadTimesOut \/ LoadFails
  <2>1. UNCHANGED <<nextRunSeq, home, loaded, runShutdown, draining>>
    BY <1>7 DEF LoadDrained, LoadTimesOut, LoadFails, ClearTerminalStatuses, StopAllTimeout,
       SwitchLoadFails, ExecutorUnchanged, vars, admissionVars
  <2>2. load'.pc = "load" => drain'[LoadDrainer] # NoDrain /\ drain[LoadDrainer] # NoDrain
    BY <1>0, <1>7 DEF LoadDrained, LoadTimesOut, LoadFails, ClearTerminalStatuses, NoLoad, NoDrain, DrainCall
  <2>3. load'.pc # "load" => drain'[LoadDrainer] = NoDrain
    BY <1>7 DEF LoadDrained, LoadTimesOut, LoadFails, AppInv, LoadShape, WTypeOK, NoLoad
  <2>4. Side'
    BY <2>1, <2>2, <2>3 DEF LoadedIsHome
  <2> QED BY <1>0, <2>1, <2>4, HomeFrame DEF LoadedIsHome
<1>8. CASE LoadSucceeds
  <2>1. /\ load.pc = "load" /\ loaded' = load.root /\ load'.pc = "idle"
        /\ UNCHANGED <<nextRunSeq, home, runShutdown>> /\ drain'[LoadDrainer] = NoDrain
    BY <1>0, <1>8 DEF LoadSucceeds, EndDrain, NoLoad, admissionVars
  <2>2. CASE loaded' = loaded
    BY <1>0, <2>1, <2>2, HomeFrame DEF LoadedIsHome
  <2>3. CASE loaded' # loaded
    <3>1. /\ drain[LoadDrainer].pc = "cleared" /\ drain[LoadDrainer].epoch = load.epoch
          /\ draining
      BY <2>1, <2>3 DEF LoadedIsHome, AppInv, LoadShape, NoDrain
    <3>2. ASSUME ~runShutdown, NEW r \in Ids PROVE ~InProgress(r)'
      <4>1. load.epoch = workspaceEpoch
        BY <2>1, <3>2 DEF AppInv, EpochOrder
      <4>2. \A q \in Ids : ~Held(q) /\ ~LiveComp(q)
        BY <3>1, <4>1 DEF DrainCovers, Covered, Held
      <4>3. ~InProgress(r)
        BY <4>2 DEF InProgress
      <4>4. nextRunSeq \in Nat /\ r \in Int
        BY BoundAssumption DEF IInv, TypeOK, Ids
      <4> QED BY <1>0, <2>1, <4>3, <4>4, InProgressBefore
    <3> QED BY <2>1, <3>2 DEF LoadedIsHome
  <2> QED BY <2>2, <2>3
<1>9. CASE BeginRunShutdown
  <2>1. runShutdown' /\ draining' /\ UNCHANGED <<load, loaded>> /\ drain'[LoadDrainer] = drain[LoadDrainer]
    BY <1>0, <1>9 DEF BeginRunShutdown, BeginDrain
  <2> QED BY <2>1 DEF LoadedIsHome
<1>10. ASSUME NEW c \in Callers, Resolve(c) \/ LaunchRefused(c) PROVE LoadedIsHome'
  <2>1. UNCHANGED <<nextRunSeq, home, loaded, runShutdown, load, draining, drain>>
    BY <1>10 DEF Resolve, LaunchRefused, vars, admissionVars
  <2> QED BY <1>0, <2>1, HomeFrame DEF LoadedIsHome
<1>11. ASSUME NEW r \in Ids, AppendRead(r) \/ AppendRoute(r) PROVE LoadedIsHome'
  <2>1. UNCHANGED <<nextRunSeq, home, loaded, runShutdown, load, draining, drain>>
    BY <1>11 DEF AppendRead, AppendRoute, vars, admissionVars
  <2> QED BY <1>0, <2>1, HomeFrame DEF LoadedIsHome
<1>12. ASSUME NEW c \in Callers, Launch(c) PROVE LoadedIsHome'
  <2>1. /\ ticket[c] # Nowhere /\ LaunchAt(ticket[c].epoch)
        /\ Settle(ticket[c].root, ticket[c].epoch)
        /\ UNCHANGED <<loaded, load, runShutdown>>
    BY <1>12 DEF Launch
  <2>2. /\ ticket[c].epoch = workspaceEpoch /\ UNCHANGED <<draining, drain>>
        /\ nextRunSeq \in Nat /\ nextRunSeq' \in Nat
    BY <2>1, LaunchEffect
  <2>3. ticket[c].root = loaded
    BY <2>1, <2>2 DEF AppInv, HomesFit, Fits
  <2>4. ASSUME ~runShutdown, NEW r \in Ids, InProgress(r)' PROVE home'[r].root = loaded
    <3>1. CASE r > nextRunSeq /\ r <= nextRunSeq'
      BY <2>1, <2>3, <3>1 DEF Settle
    <3>2. CASE ~(r > nextRunSeq /\ r <= nextRunSeq')
      <4>1. InProgress(r)
        BY <1>0, <2>4, <3>2, InProgressBefore
      <4>2. home'[r] = home[r]
        BY <2>1, <3>2 DEF Settle
      <4> QED BY <2>4, <4>1, <4>2 DEF LoadedIsHome
    <3> QED BY <3>1, <3>2
  <2> QED BY <2>1, <2>2, <2>4 DEF LoadedIsHome
<1> QED
  BY <1>2, <1>3, <1>4, <1>5, <1>6, <1>7, <1>8, <1>9, <1>10, <1>11, <1>12
  DEF WNext, LoadStep, BindingStep

\* While admission is open everything registered or reserved was launched for
\* the loaded root, also after a switch that failed and left admission closed
\* with launches behind it (loadRunProfilesLocked, app.go:957-1004).
THEOREM OneRootAtATime == WSpec => []OneRoot
<1>1. WInit => LoadedIsHome /\ DrainCovers
  <2> SUFFICES ASSUME WInit PROVE LoadedIsHome /\ DrainCovers
    OBVIOUS
  <2>1. DrainCovers
    BY DEF WInit, Init, DrainCovers, Covered, NoDrain
  <2>2. \A r \in Ids : ~InProgress(r)
    BY DEF WInit, Init, InProgress, Held, Reserved, Running, ResPhases, LiveComp, LivePcs
  <2> QED BY <2>1, <2>2, TwoDrains DEF WInit, Init, LoadedIsHome, NoLoad
<1>2. IInv /\ AppInv /\ DrainCovers /\ LoadedIsHome /\ IInv' /\ AppInv' /\ [WNext]_wvars
        => DrainCovers' /\ LoadedIsHome'
  BY AppStepIsExecutorStep, DrainCoversStep, LoadedIsHomeStep
<1>3. AppInv /\ LoadedIsHome => OneRoot
  BY DEF AppInv, ShutdownIsFinal, LoadedIsHome, OneRoot, InProgress
<1> QED BY <1>1, <1>2, <1>3, AppInvariance, PTL DEF WSpec

(***************************************************************************)
(* RunHistory.                                                             *)
(***************************************************************************)
(* Types. *)
Records == {Rich, Bare, Redacted}
Files == Records \cup {NoFile, Damaged}
Lists == UNION {[ids -> Records] : ids \in SUBSET RecordIds}
Directories == [file : [RecordIds -> Files], index : Lists]
Operations ==
  [kind : {"none", "append", "snapshot", "clear"}, pc : {"idle", "limits", "write", "relimits", "rollback"},
   id : 0 .. MaxRecords, recs : Lists, odd : Nat, asked : SUBSET RecordIds, todo : SUBSET RecordIds]

HistTypeOK ==
  /\ disk \in Directories /\ synced \in Directories
  /\ temps \in Nat /\ Used \subseteq RecordIds /\ op \in Operations
  /\ answer \in [RecordIds -> {"none", "saved", "failed"}]
  /\ cleared \subseteq Used

-----------------------------------------------------------------------------
(* The inductive invariant. *)

(* Nothing is there of a record before it is appended. *)
Unwritten == \A i \in RecordIds \ Used : disk.file[i] = NoFile /\ synced.file[i] = NoFile /\ answer[i] = "none"

(* What was written first under a record's name is the record of its kind; an *)
(* entry of the index has the stamp of a file that was there.                 *)
FirstWrite(i, file) == file.stamp = 1 => file = NewFile(i)

Stamped ==
  /\ \A i \in Used : FirstWrite(i, disk.file[i]) /\ FirstWrite(i, synced.file[i])
  /\ \A i \in DOMAIN disk.index : i \in Used /\ FirstWrite(i, disk.index[i])
  /\ \A i \in DOMAIN synced.index : i \in Used /\ FirstWrite(i, synced.index[i])

(* The operation knows the records there are, as they are. *)
RecsTrue ==
  op.pc \in {"limits", "relimits", "write"} =>
    Recs = Holding({"rich", "bare"}) /\ \A i \in Recs : op.recs[i] = disk.file[i]

DamageSynced == \A i \in RecordIds : disk.file[i] = Damaged => synced.file[i] = Damaged

(* A record that is being appended is nowhere before it is written, and there *)
(* for good, unless a limit removed it, from then on.                         *)
Appending ==
  /\ op.pc = "idle" => op = Idle
  /\ op.pc \in {"write", "relimits", "rollback"} => op.kind = "append"
  /\ op.kind = "append" =>
       /\ op.id \in Used \ cleared /\ answer[op.id] = "none" /\ op.asked = {} /\ op.todo = {}
       /\ disk.file[op.id] # Damaged
       /\ op.pc \in {"limits", "write"} => disk.file[op.id] = NoFile
       /\ op.pc \in {"relimits", "rollback"} =>
            op.id \in removed \/ (disk.file[op.id] # NoFile /\ synced.file[op.id] # NoFile)

(* A clear redacts all it was asked to. *)
Clearing ==
  /\ op.asked \subseteq Used /\ op.todo \subseteq Holding({"rich", "bare", "damaged"})
  /\ \A i \in op.asked \ op.todo : disk.file[i] # Rich /\ synced.file[i] # Rich

SavedDurable ==
  \A i \in RecordIds \ removed : answer[i] = "saved" => disk.file[i] # NoFile /\ synced.file[i] # NoFile

FailedKnown == \A i \in RecordIds : answer[i] = "failed" /\ disk.file[i] # NoFile => i \in strays \cup revived

ClearedDurable ==
  \A i \in cleared : disk.file[i] # Rich /\ synced.file[i] # Rich /\ (i \in Recs => op.recs[i] # Rich)

HistInv ==
  /\ HistTypeOK /\ Unwritten /\ Stamped /\ RecsTrue /\ DamageSynced /\ Appending /\ Clearing
  /\ SavedDurable /\ FailedKnown /\ ClearedDurable

-----------------------------------------------------------------------------
(* Lemmas about files and lists. *)
LEMMA Kinds ==
  /\ NoFile \notin Records /\ Damaged \notin Records /\ NoFile # Damaged
  /\ Rich # Bare /\ Rich # Redacted /\ Bare # Redacted
  /\ Rich.is = "rich" /\ Bare.is = "bare" /\ Redacted.is = "bare" /\ NoFile.is = "none" /\ Damaged.is = "damaged"
  /\ Rich.stamp = 1 /\ Bare.stamp = 1 /\ Redacted.stamp = 2 /\ NoFile.stamp = 0 /\ Damaged.stamp = 0
BY DEF Records, NoFile, Damaged, Rich, Bare, Redacted

LEMMA ListParts ==
  ASSUME NEW list \in Lists
  PROVE  /\ DOMAIN list \subseteq RecordIds
         /\ list \in [DOMAIN list -> Records]
BY DEF Lists

LEMMA ListMakes ==
  ASSUME NEW ids \in SUBSET RecordIds, NEW list \in [ids -> Records]
  PROVE  list \in Lists /\ DOMAIN list = ids
BY DEF Lists

LEMMA NoList == <<>> \in Lists /\ DOMAIN <<>> = {}
<1>1. DOMAIN <<>> = {}
  OBVIOUS
<1>2. <<>> \in [{} -> Records]
  OBVIOUS
<1> QED BY <1>1, <1>2, ListMakes

LEMMA NewFiles == \A i : NewFile(i) \in {Rich, Bare}
BY DEF NewFile

LEMMA IdleIsIdle ==
  /\ Idle \in Operations
  /\ Idle.pc = "idle" /\ Idle.kind = "none" /\ Idle.asked = {} /\ Idle.todo = {} /\ DOMAIN Idle.recs = {}
<1>1. MaxRecords \in Nat
  BY HistoryLimits
<1> QED BY <1>1, NoList DEF Idle, Operations

(* What is held by the directory, in terms of the kinds of files.            *)
LEMMA HoldingIs ==
  ASSUME HistTypeOK
  PROVE  /\ Holding({"rich", "bare"}) = {i \in Used : disk.file[i] \in Records}
         /\ Holding({"damaged"}) = {i \in Used : disk.file[i] = Damaged}
         /\ Holding({"rich", "bare", "damaged"}) = {i \in Used : disk.file[i] # NoFile}
<1>1. \A i \in Used : disk.file[i] \in Files
  BY DEF HistTypeOK, Directories
<1>2. \A file \in Files : /\ file.is \in {"rich", "bare"} <=> file \in Records
                          /\ file.is \in {"damaged"} <=> file = Damaged
                          /\ file.is \in {"rich", "bare", "damaged"} <=> file # NoFile
  BY Kinds DEF Files, Records
<1> QED BY <1>1, <1>2 DEF Holding

(* A directory with another file, or another index. *)
LEMMA FileWritten ==
  ASSUME HistTypeOK, NEW i \in RecordIds, NEW file \in Files
  PROVE  /\ WithFile(i, file) \in Directories
         /\ WithFile(i, file).index = disk.index
         /\ WithFile(i, file).file[i] = file
         /\ \A j \in RecordIds \ {i} : WithFile(i, file).file[j] = disk.file[j]
BY DEF HistTypeOK, Directories, WithFile

LEMMA IndexWritten ==
  ASSUME HistTypeOK, NEW list \in Lists
  PROVE  /\ WithIndex(list) \in Directories
         /\ WithIndex(list).index = list
         /\ WithIndex(list).file = disk.file
BY DEF HistTypeOK, Directories, WithIndex

(* reconcileLocked lists every record as its file is. *)
LEMMA ListedIsTrue ==
  ASSUME HistTypeOK, Stamped, NEW i \in Holding({"rich", "bare"})
  PROVE  Listed(i) = disk.file[i]
<1>1. i \in Used /\ disk.file[i] \in Records /\ FirstWrite(i, disk.file[i])
  BY HoldingIs DEF Stamped
<1>2. CASE i \in DOMAIN disk.index /\ disk.index[i].stamp = disk.file[i].stamp
  <2>1. disk.index \in Lists
    BY DEF HistTypeOK, Directories
  <2>2. disk.index[i] \in Records
    BY <1>2, <2>1, ListParts
  <2>3. FirstWrite(i, disk.index[i])
    BY <1>2 DEF Stamped
  <2>4. disk.index[i] = disk.file[i]
    BY <1>1, <1>2, <2>2, <2>3, Kinds DEF FirstWrite, Records
  <2> QED BY <1>2, <2>4 DEF Listed
<1>3. CASE ~(i \in DOMAIN disk.index /\ disk.index[i].stamp = disk.file[i].stamp)
  BY <1>3 DEF Listed
<1> QED BY <1>2, <1>3

-----------------------------------------------------------------------------
(* The operations begin. *)
LEMMA ReconciledIs ==
  ASSUME HistTypeOK, Stamped, NEW left \in 0 .. temps
  PROVE  LET r == Reconciled(left) IN
         /\ r = [Idle EXCEPT !.pc = "limits", !.odd = r.odd, !.recs = r.recs]
         /\ r.odd \in Nat /\ r.recs \in Lists
         /\ DOMAIN r.recs = Holding({"rich", "bare"})
         /\ \A i \in Holding({"rich", "bare"}) : r.recs[i] = disk.file[i]
<1> DEFINE ids == Holding({"rich", "bare"})
           odd == left + RichSize * Cardinality(Holding({"damaged"}))
           recs == [i \in ids |-> Listed(i)]
<1>1. odd \in Nat
  <2>1. IsFiniteSet(RecordIds)
    BY FS_Interval, HistoryLimits DEF RecordIds
  <2>2. Holding({"damaged"}) \in SUBSET RecordIds
    BY DEF Holding, HistTypeOK
  <2>3. IsFiniteSet(Holding({"damaged"}))
    BY <2>1, <2>2, FS_Subset
  <2>4. Cardinality(Holding({"damaged"})) \in Nat
    BY <2>3, FS_CardinalityType
  <2>5. RichSize \in Nat /\ left \in Nat
    BY HistoryLimits DEF HistTypeOK
  <2>6. \A a \in Nat, b \in Nat, c \in Nat : c + a * b \in Nat
    OBVIOUS
  <2> QED BY <2>4, <2>5, <2>6
<1>2. ids \in SUBSET RecordIds /\ \A i \in ids : disk.file[i] \in Records
  BY HoldingIs DEF HistTypeOK
<1>3. \A i \in ids : Listed(i) = disk.file[i]
  BY ListedIsTrue
<1>4. recs \in [ids -> Records]
  BY <1>2, <1>3
<1>5. recs \in Lists /\ DOMAIN recs = ids
  BY <1>2, <1>4, ListMakes
<1>6. Reconciled(left) = [Idle EXCEPT !.pc = "limits", !.odd = odd, !.recs = recs]
  BY DEF Reconciled
<1>7. Reconciled(left).odd = odd /\ Reconciled(left).recs = recs
  BY <1>6 DEF Idle
<1> HIDE DEF odd, recs, ids
<1> QED BY <1>1, <1>3, <1>5, <1>6, <1>7 DEF ids, recs

LEMMA StepAppend == ASSUME HistInv, NEW run \in Runs, AppendRecord(run) PROVE HistInv'
<1>1. PICK id \in RecordIds \ Used, left \in 0 .. temps :
         /\ Starts([Reconciled(left) EXCEPT !.kind = "append", !.id = id], left)
         /\ meta' = [i \in Used \cup {id} |-> IF i = id THEN run ELSE meta[i]]
  BY DEF AppendRecord
<1> DEFINE r == Reconciled(left)
<1>2. /\ HistTypeOK /\ Unwritten /\ Stamped /\ DamageSynced
      /\ SavedDurable /\ FailedKnown /\ ClearedDurable
  BY DEF HistInv
<1>3. /\ r = [Idle EXCEPT !.pc = "limits", !.odd = r.odd, !.recs = r.recs]
      /\ r.odd \in Nat /\ r.recs \in Lists
      /\ DOMAIN r.recs = Holding({"rich", "bare"})
      /\ \A i \in Holding({"rich", "bare"}) : r.recs[i] = disk.file[i]
  BY <1>2, ReconciledIs
<1> HIDE DEF r
<1>4. /\ op' = [Idle EXCEPT !.kind = "append", !.pc = "limits", !.id = id, !.odd = r.odd, !.recs = r.recs]
      /\ op'.kind = "append" /\ op'.pc = "limits" /\ op'.id = id /\ op'.recs = r.recs
      /\ op'.asked = {} /\ op'.todo = {}
  BY <1>1, <1>3 DEF Starts, r, Idle
<1>5. /\ UNCHANGED <<disk, synced, answer, removed, cleared, strays, revived>>
      /\ temps' = left /\ left \in Nat
  BY <1>1, <1>2 DEF Starts, HistTypeOK
<1>6. Used' = Used \cup {id} /\ \A i \in Used : meta'[i] = meta[i]
  BY <1>1 DEF Used
<1>7. Holding({"rich", "bare"})' = Holding({"rich", "bare"})
  <2>1. disk.file[id] = NoFile
    BY <1>2 DEF Unwritten
  <2> QED BY <1>5, <1>6, <2>1, Kinds DEF Holding
<1>8. op' \in Operations
  <2>1. id \in 0 .. MaxRecords
    BY HistoryLimits DEF RecordIds
  <2>2. op' = [kind |-> "append", pc |-> "limits", id |-> id, recs |-> r.recs, odd |-> r.odd,
               asked |-> {}, todo |-> {}]
    BY <1>4 DEF Idle
  <2> QED BY <1>3, <2>1, <2>2 DEF Operations
<1>9. HistTypeOK'
  BY <1>2, <1>5, <1>6, <1>8 DEF HistTypeOK
<1>10. Unwritten'
  BY <1>2, <1>5, <1>6 DEF Unwritten
<1>11. Stamped'
  <2>1. \A i \in Used : NewFile(i)' = NewFile(i)
    BY <1>6 DEF NewFile
  <2>2. disk.file[id].stamp = 0 /\ synced.file[id].stamp = 0
    BY <1>2, Kinds DEF Unwritten
  <2> QED BY <1>2, <1>5, <1>6, <2>1, <2>2 DEF Stamped, FirstWrite
<1>12. RecsTrue'
  BY <1>3, <1>4, <1>5, <1>7 DEF RecsTrue, Recs
<1>13. DamageSynced' /\ SavedDurable' /\ FailedKnown'
  BY <1>2, <1>5 DEF DamageSynced, SavedDurable, FailedKnown
<1>14. Appending'
  <2>1. id \notin cleared /\ answer[id] = "none" /\ disk.file[id] = NoFile
    BY <1>2 DEF Unwritten, HistTypeOK
  <2> QED BY <1>4, <1>5, <1>6, <2>1, Kinds DEF Appending
<1>15. Clearing'
  BY <1>4 DEF Clearing
<1>16. ClearedDurable'
  <2>1. \A i \in Recs' : op'.recs[i] = disk.file[i]
    BY <1>3, <1>4 DEF Recs
  <2> QED BY <1>2, <1>5, <2>1 DEF ClearedDurable
<1> QED BY <1>9, <1>10, <1>11, <1>12, <1>13, <1>14, <1>15, <1>16 DEF HistInv

(* The operation as it is when it has the lock. *)
Begins(kind, ids, left) ==
  /\ op' = [kind |-> kind, pc |-> "limits", id |-> 0, recs |-> Reconciled(left).recs, odd |-> Reconciled(left).odd,
            asked |-> ids, todo |-> ids]
  /\ temps' = left
  /\ UNCHANGED <<disk, synced, answer, removed, cleared, strays, revived>>

LEMMA StepBegins ==
  ASSUME HistInv, UNCHANGED meta, NEW left \in 0 .. temps, NEW kind \in {"snapshot", "clear"},
         NEW ids \in SUBSET Holding({"rich", "bare", "damaged"}),
         Begins(kind, ids, left)
  PROVE  HistInv'
<1> DEFINE r == Reconciled(left)
<1>1. /\ HistTypeOK /\ Unwritten /\ Stamped /\ DamageSynced
      /\ SavedDurable /\ FailedKnown /\ ClearedDurable
  BY DEF HistInv
<1>2. /\ r = [Idle EXCEPT !.pc = "limits", !.odd = r.odd, !.recs = r.recs]
      /\ r.odd \in Nat /\ r.recs \in Lists
      /\ DOMAIN r.recs = Holding({"rich", "bare"})
      /\ \A i \in Holding({"rich", "bare"}) : r.recs[i] = disk.file[i]
  BY <1>1, ReconciledIs
<1> HIDE DEF r
<1>3. /\ op' = [kind |-> kind, pc |-> "limits", id |-> 0, recs |-> r.recs, odd |-> r.odd, asked |-> ids, todo |-> ids]
      /\ op'.kind = kind /\ op'.pc = "limits" /\ op'.recs = r.recs
      /\ op'.asked = ids /\ op'.todo = ids
  BY DEF Begins, r
<1>4. /\ UNCHANGED <<disk, synced, answer, removed, cleared, strays, revived>>
      /\ temps' = left /\ left \in Nat
  BY <1>1 DEF Begins, HistTypeOK
<1>5. Used' = Used
  BY DEF Used
<1>6. Holding({"rich", "bare"})' = Holding({"rich", "bare"})
      /\ Holding({"rich", "bare", "damaged"})' = Holding({"rich", "bare", "damaged"})
  BY <1>4, <1>5 DEF Holding
<1>7. ids \subseteq Used /\ ids \subseteq RecordIds
  BY <1>1 DEF Holding, HistTypeOK
<1>8. op' \in Operations
  <2>1. 0 \in 0 .. MaxRecords
    BY HistoryLimits
  <2> QED BY <1>2, <1>3, <1>7, <2>1 DEF Operations
<1>9. HistTypeOK'
  BY <1>1, <1>4, <1>5, <1>8 DEF HistTypeOK
<1>10. Unwritten' /\ DamageSynced' /\ SavedDurable' /\ FailedKnown'
  BY <1>1, <1>4, <1>5 DEF Unwritten, DamageSynced, SavedDurable, FailedKnown
<1>11. Stamped'
  BY <1>1, <1>4, <1>5 DEF Stamped, FirstWrite, NewFile
<1>12. RecsTrue'
  BY <1>2, <1>3, <1>4, <1>6 DEF RecsTrue, Recs
<1>13. Appending'
  BY <1>3 DEF Appending
<1>14. Clearing'
  BY <1>3, <1>5, <1>6, <1>7 DEF Clearing
<1>15. ClearedDurable'
  <2>1. \A i \in Recs' : op'.recs[i] = disk.file[i]
    BY <1>2, <1>3 DEF Recs
  <2> QED BY <1>1, <1>4, <2>1 DEF ClearedDurable
<1> QED BY <1>9, <1>10, <1>11, <1>12, <1>13, <1>14, <1>15 DEF HistInv

LEMMA StepSnapshot == ASSUME HistInv, Snapshot PROVE HistInv'
<1>1. PICK left \in 0 .. temps :
         Starts([Reconciled(left) EXCEPT !.kind = "snapshot"], left) /\ UNCHANGED <<meta, clears>>
  BY DEF Snapshot
<1> DEFINE r == Reconciled(left)
<1>2. r = [Idle EXCEPT !.pc = "limits", !.odd = r.odd, !.recs = r.recs]
  BY ReconciledIs DEF HistInv
<1> HIDE DEF r
<1>3. Begins("snapshot", {}, left)
  BY <1>1, <1>2 DEF Starts, Begins, r, Idle
<1> QED BY <1>1, <1>3, StepBegins

LEMMA StepClear ==
  ASSUME HistInv, NEW ids \in SUBSET Holding({"rich", "bare", "damaged"}), NEW left \in 0 .. temps, Clear(ids, left)
  PROVE  HistInv'
<1> DEFINE r == Reconciled(left)
<1>1. r = [Idle EXCEPT !.pc = "limits", !.odd = r.odd, !.recs = r.recs]
  BY ReconciledIs DEF HistInv
<1> HIDE DEF r
<1>2. Begins("clear", ids, left) /\ UNCHANGED meta
  BY <1>1 DEF Clear, Starts, Begins, r, Idle
<1> QED BY <1>2, StepBegins

LEMMA StepClearRecord == ASSUME HistInv, NEW i \in Used, ClearRecord(i) PROVE HistInv'
BY StepClear DEF ClearRecord

LEMMA StepClearAll == ASSUME HistInv, ClearAll PROVE HistInv'
<1>1. 0 \in 0 .. temps
  BY DEF HistInv, HistTypeOK
<1> QED BY <1>1, StepClear DEF ClearAll

-----------------------------------------------------------------------------
(* What one write or removal of a file, or one write of the index, leaves. *)
Touches(i, file) ==
  /\ \A j \in RecordIds \ {i} : disk'.file[j] = disk.file[j] /\ synced'.file[j] \in {synced.file[j], disk.file[j]}
  /\ disk'.file[i] \in {disk.file[i], file} /\ synced'.file[i] \in {synced.file[i], disk'.file[i]}

NothingNew == \A j \in RecordIds \ Used : disk'.file[j] = NoFile /\ synced'.file[j] = NoFile

LEMMA TouchFile ==
  ASSUME HistInv, UNCHANGED meta, NEW i \in Used, NEW file \in Files \ {Damaged}, FirstWrite(i, file),
         disk' \in {disk, WithFile(i, file)}, synced' \in {synced, disk'}
  PROVE  /\ disk' \in Directories /\ synced' \in Directories
         /\ Touches(i, file) /\ NothingNew /\ Stamped' /\ DamageSynced'
<1>1. HistTypeOK /\ Unwritten /\ Stamped /\ DamageSynced
  BY DEF HistInv
<1>2. i \in RecordIds /\ Used \subseteq RecordIds
  BY <1>1 DEF HistTypeOK
<1> DEFINE new == WithFile(i, file)
<1>3. /\ new \in Directories /\ new.index = disk.index /\ new.file[i] = file
      /\ \A j \in RecordIds \ {i} : new.file[j] = disk.file[j]
  BY <1>1, <1>2, FileWritten
<1> HIDE DEF new
<1>4. disk' \in {disk, new}
  BY DEF new
<1>5. disk' \in Directories /\ synced' \in Directories
  BY <1>1, <1>3, <1>4 DEF HistTypeOK
<1>6. Touches(i, file)
  BY <1>3, <1>4 DEF Touches
<1>7. NothingNew
  BY <1>1, <1>2, <1>6 DEF Touches, Unwritten, NothingNew
<1>9. Stamped'
  <2>1. \A j \in Used : FirstWrite(j, disk'.file[j]) /\ FirstWrite(j, synced'.file[j])
    BY <1>1, <1>2, <1>6 DEF Stamped, Touches
  <2>2. disk'.index = disk.index /\ synced'.index \in {disk.index, synced.index}
    BY <1>3, <1>4
  <2>3. \A j \in DOMAIN disk'.index : j \in Used /\ FirstWrite(j, disk'.index[j])
    BY <1>1, <2>2 DEF Stamped
  <2>4. \A j \in DOMAIN synced'.index : j \in Used /\ FirstWrite(j, synced'.index[j])
    BY <1>1, <2>2 DEF Stamped
  <2> QED BY <2>1, <2>3, <2>4 DEF Stamped, FirstWrite, NewFile, Used
<1>10. DamageSynced'
  BY <1>1, <1>2, <1>6 DEF DamageSynced, Touches
<1> QED BY <1>5, <1>6, <1>7, <1>9, <1>10

LEMMA TouchIndex ==
  ASSUME HistInv, UNCHANGED meta, NEW list \in Lists, \A i \in DOMAIN list : i \in Used /\ FirstWrite(i, list[i]),
         disk' \in {disk, WithIndex(list)}, synced' \in {synced, disk'}
  PROVE  /\ disk' \in Directories /\ synced' \in Directories
         /\ disk'.file = disk.file /\ synced'.file \in {synced.file, disk.file}
         /\ NothingNew /\ Stamped' /\ DamageSynced'
<1>1. HistTypeOK /\ Unwritten /\ Stamped /\ DamageSynced
  BY DEF HistInv
<1> DEFINE new == WithIndex(list)
<1>2. new \in Directories /\ new.index = list /\ new.file = disk.file
  BY <1>1, IndexWritten
<1> HIDE DEF new
<1>3. disk' \in {disk, new}
  BY DEF new
<1>4. disk' \in Directories /\ synced' \in Directories
  BY <1>1, <1>2, <1>3 DEF HistTypeOK
<1>5. disk'.file = disk.file /\ synced'.file \in {synced.file, disk.file}
  BY <1>2, <1>3
<1>6. disk'.index \in {disk.index, list} /\ synced'.index \in {synced.index, disk.index, list}
  BY <1>2, <1>3
<1>7. Stamped'
  <2>1. \A j \in Used : FirstWrite(j, disk'.file[j]) /\ FirstWrite(j, synced'.file[j])
    BY <1>1, <1>5 DEF Stamped
  <2>2. \A j \in DOMAIN disk'.index : j \in Used /\ FirstWrite(j, disk'.index[j])
    BY <1>1, <1>6 DEF Stamped
  <2>3. \A j \in DOMAIN synced'.index : j \in Used /\ FirstWrite(j, synced'.index[j])
    BY <1>1, <1>6 DEF Stamped
  <2> QED BY <2>1, <2>2, <2>3 DEF Stamped, FirstWrite, NewFile, Used
<1>8. NothingNew /\ DamageSynced'
  BY <1>1, <1>5 DEF Unwritten, NothingNew, DamageSynced
<1> QED BY <1>4, <1>5, <1>7, <1>8

(* The operation ends, or the process does. *)
LEMMA Ends ==
  ASSUME HistInv, UNCHANGED meta, op' = Idle,
         disk' \in Directories, synced' \in Directories, NothingNew, Stamped', DamageSynced', temps' \in Nat,
         answer' \in [RecordIds -> {"none", "saved", "failed"}],
         \A i \in RecordIds \ Used : answer'[i] = "none",
         SavedDurable', FailedKnown',
         cleared' \subseteq Used, \A i \in cleared' : disk'.file[i] # Rich /\ synced'.file[i] # Rich
  PROVE  HistInv'
<1>1. HistTypeOK /\ Used' = Used
  BY DEF HistInv, Used
<1>2. HistTypeOK'
  BY <1>1, IdleIsIdle DEF HistTypeOK
<1>3. Unwritten'
  BY <1>1 DEF Unwritten, NothingNew
<1>4. RecsTrue'
  BY IdleIsIdle DEF RecsTrue
<1>5. Appending'
  BY IdleIsIdle DEF Appending
<1>6. Clearing'
  BY IdleIsIdle DEF Clearing
<1>7. ClearedDurable'
  BY IdleIsIdle DEF ClearedDurable, Recs
<1> QED BY <1>2, <1>3, <1>4, <1>5, <1>6, <1>7 DEF HistInv

(* What an operation may be of, apart from what it does to its own records. *)
LEMMA Record ==
  ASSUME HistInv
  PROVE  /\ Recs \subseteq RecordIds /\ op.recs \in [Recs -> Records]
         /\ op.id \in 0 .. MaxRecords /\ op.odd \in Nat /\ op.asked \in SUBSET RecordIds /\ op.todo \in SUBSET RecordIds
         /\ op = [kind |-> op.kind, pc |-> op.pc, id |-> op.id, recs |-> op.recs, odd |-> op.odd,
                  asked |-> op.asked, todo |-> op.todo]
         /\ \A i \in Used : disk.file[i] \in Files /\ synced.file[i] \in Files
<1>1. op \in Operations /\ disk \in Directories /\ synced \in Directories /\ Used \subseteq RecordIds
  BY DEF HistInv, HistTypeOK
<1>2. op.recs \in Lists
  BY <1>1 DEF Operations
<1> QED BY <1>1, <1>2, ListParts DEF Operations, Recs, Directories

(* A file was removed or redacted. *)
Lessens(i, file) ==
  /\ file \in {NoFile, Redacted}
  /\ disk' \in {disk, WithFile(i, file)} /\ synced' \in {synced, disk'}
  /\ removed' \in {removed, removed \cup {i}} /\ (disk'.file[i] = NoFile => i \in removed')
  /\ UNCHANGED <<meta, cleared, strays, revived>>

LEMMA Lessened ==
  ASSUME HistInv, NEW i \in Used, NEW file, Lessens(i, file), disk.file[i] # NoFile
  PROVE  /\ disk' \in Directories /\ synced' \in Directories
         /\ Touches(i, file) /\ NothingNew /\ Stamped' /\ DamageSynced'
         /\ \A j \in cleared : disk'.file[j] # Rich /\ synced'.file[j] # Rich
         /\ \A j \in RecordIds \ removed' :
              /\ disk.file[j] # NoFile => disk'.file[j] # NoFile
              /\ disk.file[j] # NoFile /\ synced.file[j] # NoFile => synced'.file[j] # NoFile
         /\ \A j \in RecordIds : disk'.file[j] # NoFile => disk.file[j] # NoFile
         /\ \A j \in RecordIds : disk'.file[j] = Damaged => disk.file[j] = Damaged
<1>1. file \in Files \ {Damaged} /\ FirstWrite(i, file) /\ file # Rich
  BY Kinds DEF Lessens, Files, Records, FirstWrite
<1>2. /\ disk' \in Directories /\ synced' \in Directories
      /\ Touches(i, file) /\ NothingNew /\ Stamped' /\ DamageSynced'
  BY <1>1, TouchFile DEF Lessens
<1>3. Used \subseteq RecordIds /\ cleared \subseteq Used /\ ClearedDurable
  BY DEF HistInv, HistTypeOK
<1>4. \A j \in cleared : disk'.file[j] # Rich /\ synced'.file[j] # Rich
  BY <1>1, <1>2, <1>3 DEF ClearedDurable, Touches
<1>5. \A j \in RecordIds \ removed' :
        /\ disk.file[j] # NoFile => disk'.file[j] # NoFile
        /\ disk.file[j] # NoFile /\ synced.file[j] # NoFile => synced'.file[j] # NoFile
  BY <1>2, <1>3 DEF Lessens, Touches
<1>6. \A j \in RecordIds : disk'.file[j] # NoFile => disk.file[j] # NoFile
  BY <1>2 DEF Touches
<1>7. \A j \in RecordIds : disk'.file[j] = Damaged => disk.file[j] = Damaged
  BY <1>1, <1>2 DEF Touches
<1> QED BY <1>2, <1>4, <1>5, <1>6, <1>7

(* The removal or the redaction failed: so does the operation. *)
LEMMA LessenedErrs ==
  ASSUME HistInv, NEW i \in Used, NEW file, Lessens(i, file), disk.file[i] # NoFile,
         op.pc \in {"limits", "relimits"}, Errs, UNCHANGED temps
  PROVE  HistInv'
<1>1. /\ HistTypeOK /\ Unwritten /\ Appending /\ SavedDurable /\ FailedKnown
  BY DEF HistInv
<1>2. /\ disk' \in Directories /\ synced' \in Directories
      /\ Touches(i, file) /\ NothingNew /\ Stamped' /\ DamageSynced'
      /\ \A j \in cleared : disk'.file[j] # Rich /\ synced'.file[j] # Rich
      /\ \A j \in RecordIds \ removed' :
           /\ disk.file[j] # NoFile => disk'.file[j] # NoFile
           /\ disk.file[j] # NoFile /\ synced.file[j] # NoFile => synced'.file[j] # NoFile
      /\ \A j \in RecordIds : disk'.file[j] # NoFile => disk.file[j] # NoFile
      /\ \A j \in RecordIds : disk'.file[j] = Damaged => disk.file[j] = Damaged
  BY Lessened
<1>3. UNCHANGED <<meta, cleared, strays, revived>> /\ removed \subseteq removed' /\ Used' = Used
  BY DEF Lessens, Used
<1>4. CASE op.pc = "limits"
  <2>1. op' = Idle /\ answer' = IF op.kind = "append" THEN [answer EXCEPT ![op.id] = "failed"] ELSE answer
    BY <1>4 DEF Errs, Answers
  <2>2. op.kind = "append" => op.id \in Used /\ disk.file[op.id] = NoFile /\ answer[op.id] = "none"
    BY <1>1, <1>4 DEF Appending
  <2>3. /\ answer' \in [RecordIds -> {"none", "saved", "failed"}]
        /\ \A j \in RecordIds : answer'[j] = answer[j] \/ (answer'[j] = "failed" /\ op.kind = "append" /\ j = op.id)
    BY <1>1, <2>1 DEF HistTypeOK
  <2>4. \A j \in RecordIds \ Used : answer'[j] = "none"
    BY <1>1, <2>2, <2>3 DEF Unwritten
  <2>5. SavedDurable'
    BY <1>1, <1>2, <1>3, <2>3 DEF SavedDurable
  <2>6. FailedKnown'
    BY <1>1, <1>2, <1>3, <2>2, <2>3 DEF FailedKnown
  <2>7. cleared' = cleared /\ cleared \subseteq Used /\ temps' \in Nat
    BY <1>1, <1>3 DEF HistTypeOK
  <2> QED BY <1>2, <1>3, <2>1, <2>3, <2>4, <2>5, <2>6, <2>7, Ends
<1>5. CASE op.pc = "relimits"
  <2>1. op' = [op EXCEPT !.pc = "rollback"] /\ answer' = answer
    BY <1>5 DEF Errs
  <2>2. /\ op.kind = "append" /\ op.id \in Used \ cleared /\ answer[op.id] = "none" /\ op.asked = {} /\ op.todo = {}
        /\ disk.file[op.id] # Damaged
        /\ op.id \in removed \/ (disk.file[op.id] # NoFile /\ synced.file[op.id] # NoFile)
    BY <1>1, <1>5 DEF Appending
  <2>3. /\ op' \in Operations /\ op'.pc = "rollback" /\ op'.kind = "append" /\ op'.id = op.id
        /\ op'.asked = {} /\ op'.todo = {} /\ op'.recs = op.recs
    BY <1>1, <2>1, <2>2 DEF HistTypeOK, Operations
  <2>4. op.id \in RecordIds
    BY <1>1, <2>2 DEF HistTypeOK
  <2>5. HistTypeOK'
    BY <1>1, <1>2, <1>3, <2>1, <2>3 DEF HistTypeOK
  <2>6. Unwritten' /\ RecsTrue' /\ Clearing'
    BY <1>1, <1>2, <1>3, <2>1, <2>3 DEF Unwritten, NothingNew, RecsTrue, Clearing
  <2>7. Appending'
    <3>1. op.id \in removed' \/ (disk'.file[op.id] # NoFile /\ synced'.file[op.id] # NoFile)
      BY <1>2, <1>3, <2>2, <2>4
    <3> QED BY <1>2, <1>3, <2>1, <2>2, <2>3, <2>4, <3>1 DEF Appending
  <2>8. SavedDurable' /\ FailedKnown'
    BY <1>1, <1>2, <1>3, <2>1 DEF SavedDurable, FailedKnown
  <2>9. ClearedDurable'
    BY <1>2, <1>3, <2>3 DEF ClearedDurable, HistInv, Recs
  <2> QED BY <1>2, <2>5, <2>6, <2>7, <2>8, <2>9 DEF HistInv
<1> QED BY <1>4, <1>5

(* The process ended meanwhile. *)
LEMMA LessenedDies ==
  ASSUME HistInv, NEW i \in Used, NEW file, Lessens(i, file), disk.file[i] # NoFile,
         op' = Idle, temps' \in Nat, UNCHANGED answer
  PROVE  HistInv'
<1>1. /\ HistTypeOK /\ Unwritten /\ SavedDurable /\ FailedKnown
  BY DEF HistInv
<1>2. /\ disk' \in Directories /\ synced' \in Directories
      /\ NothingNew /\ Stamped' /\ DamageSynced'
      /\ \A j \in cleared : disk'.file[j] # Rich /\ synced'.file[j] # Rich
      /\ \A j \in RecordIds \ removed' :
           /\ disk.file[j] # NoFile => disk'.file[j] # NoFile
           /\ disk.file[j] # NoFile /\ synced.file[j] # NoFile => synced'.file[j] # NoFile
      /\ \A j \in RecordIds : disk'.file[j] # NoFile => disk.file[j] # NoFile
  BY Lessened
<1>3. UNCHANGED <<meta, cleared, strays, revived>> /\ removed \subseteq removed'
  BY DEF Lessens
<1>4. SavedDurable' /\ FailedKnown'
  BY <1>1, <1>2, <1>3 DEF SavedDurable, FailedKnown
<1>5. /\ answer' \in [RecordIds -> {"none", "saved", "failed"}]
      /\ \A j \in RecordIds \ Used : answer'[j] = "none"
      /\ cleared' = cleared /\ cleared \subseteq Used
  BY <1>1, <1>3 DEF HistTypeOK, Unwritten
<1> QED BY <1>2, <1>3, <1>4, <1>5, Ends

(* The operation goes on without the output of a record. *)
LEMMA RedactedGoesOn ==
  ASSUME HistInv, NEW i \in Recs, op.pc \in {"limits", "relimits"}, Publishes(WithFile(i, Redacted)),
         op' = [op EXCEPT !.recs[i] = Redacted, !.todo = @ \ {i}],
         UNCHANGED <<meta, answer, removed, cleared, strays, revived>>
  PROVE  HistInv'
<1>1. /\ HistTypeOK /\ Unwritten /\ RecsTrue /\ Appending /\ Clearing /\ SavedDurable /\ FailedKnown /\ ClearedDurable
  BY DEF HistInv
<1>2. i \in Used /\ disk.file[i] \in Records /\ Recs = Holding({"rich", "bare"}) /\ Used \subseteq RecordIds
  BY <1>1, HoldingIs DEF RecsTrue, HistTypeOK
<1>3. disk.file[i] # NoFile /\ Lessens(i, Redacted)
  BY <1>1, <1>2, FileWritten, Kinds DEF Publishes, Lessens, Files, Records
<1>4. /\ disk' \in Directories /\ synced' \in Directories
      /\ Touches(i, Redacted) /\ NothingNew /\ Stamped' /\ DamageSynced'
      /\ \A j \in cleared : disk'.file[j] # Rich /\ synced'.file[j] # Rich
      /\ \A j \in RecordIds \ removed' :
           /\ disk.file[j] # NoFile => disk'.file[j] # NoFile
           /\ disk.file[j] # NoFile /\ synced.file[j] # NoFile => synced'.file[j] # NoFile
      /\ \A j \in RecordIds : disk'.file[j] # NoFile => disk.file[j] # NoFile
      /\ \A j \in RecordIds : disk'.file[j] = Damaged => disk.file[j] = Damaged
  BY <1>2, <1>3, Lessened
<1>5. disk'.file[i] = Redacted /\ synced'.file[i] = Redacted
  BY <1>1, <1>2, FileWritten DEF Publishes, Files, Records
<1>6. /\ op'.recs = [op.recs EXCEPT ![i] = Redacted] /\ op'.todo = op.todo \ {i}
      /\ op'.kind = op.kind /\ op'.pc = op.pc /\ op'.id = op.id /\ op'.asked = op.asked /\ op'.odd = op.odd
      /\ op' \in Operations
  <2>1. op.recs \in [Recs -> Records] /\ Recs \in SUBSET RecordIds
    BY Record
  <2>2. [op.recs EXCEPT ![i] = Redacted] \in [Recs -> Records]
    BY <2>1 DEF Records
  <2>3. [op.recs EXCEPT ![i] = Redacted] \in Lists
    BY <2>1, <2>2, ListMakes
  <2> QED BY <1>1, <2>3 DEF HistTypeOK, Operations
<1>7. Recs' = Recs /\ op'.recs[i] = Redacted /\ \A j \in Recs \ {i} : op'.recs[j] = op.recs[j]
  BY <1>6, Record DEF Recs
<1>8. HistTypeOK' /\ Unwritten'
  <2>1. temps' = temps /\ Used' = Used
    BY DEF Publishes, Used
  <2>2. HistTypeOK'
    BY <1>1, <1>4, <1>6, <2>1 DEF HistTypeOK
  <2> QED BY <1>1, <1>4, <2>1, <2>2 DEF Unwritten, NothingNew
<1>9. Holding({"rich", "bare"})' = Holding({"rich", "bare"})
      /\ Holding({"rich", "bare", "damaged"})' = Holding({"rich", "bare", "damaged"})
  BY <1>2, <1>4, <1>5, Kinds DEF Holding, Used, Touches, Records
<1>10. RecsTrue'
  <2>1. \A j \in Recs : op.recs[j] = disk.file[j]
    BY <1>1 DEF RecsTrue
  <2>2. \A j \in Recs \ {i} : disk'.file[j] = disk.file[j]
    BY <1>2, <1>4, Record DEF Touches
  <2>3. \A j \in Recs' : op'.recs[j] = disk'.file[j]
    BY <1>5, <1>7, <2>1, <2>2
  <2> QED BY <1>2, <1>7, <1>9, <2>3 DEF RecsTrue
<1>11. Appending'
  <2>1. op.kind = "append" => op.id \in RecordIds
    BY <1>1, <1>2 DEF Appending
  <2>2. op.kind = "append" /\ op.pc = "limits" => disk'.file[op.id] = NoFile
    BY <1>1, <1>4, <2>1 DEF Appending
  <2>3. op.kind = "append" /\ op.pc = "relimits" =>
          op.id \in removed' \/ (disk'.file[op.id] # NoFile /\ synced'.file[op.id] # NoFile)
    BY <1>1, <1>4, <2>1 DEF Appending
  <2>4. op.kind = "append" => disk'.file[op.id] # Damaged
    BY <1>1, <1>4, <2>1 DEF Appending
  <2> QED BY <1>1, <1>6, <2>2, <2>3, <2>4 DEF Appending, Used
<1>12. Clearing'
  <2>1. \A j \in op'.asked \ op'.todo : disk'.file[j] # Rich /\ synced'.file[j] # Rich
    BY <1>1, <1>2, <1>4, <1>5, <1>6, Kinds DEF Clearing, Touches
  <2> QED BY <1>1, <1>6, <1>9, <2>1 DEF Clearing, Used
<1>13. SavedDurable' /\ FailedKnown'
  BY <1>1, <1>4 DEF SavedDurable, FailedKnown
<1>14. ClearedDurable'
  BY <1>1, <1>4, <1>7, Kinds DEF ClearedDurable
<1> QED BY <1>4, <1>8, <1>10, <1>11, <1>12, <1>13, <1>14 DEF HistInv

LEMMA StepRedacts ==
  ASSUME HistInv, NEW i \in Recs, op.pc \in {"limits", "relimits"}, Redacts(i), UNCHANGED meta
  PROVE  HistInv'
<1> DEFINE new == WithFile(i, Redacted)
<1>1. i \in Used /\ disk.file[i] # NoFile /\ HistTypeOK
  BY HoldingIs, Kinds DEF HistInv, RecsTrue
<1>2. CASE /\ Publishes(new) /\ op' = [op EXCEPT !.recs[i] = Redacted, !.todo = @ \ {i}]
           /\ UNCHANGED <<answer, removed, cleared, strays, revived>>
  BY <1>2, RedactedGoesOn
<1>3. disk'.file[i] = NoFile => ~(disk' \in {disk, new})
  BY <1>1, FileWritten, Kinds DEF HistTypeOK, Files, Records
<1>4. CASE (WriteFails(new) \/ Publishes(new)) /\ Errs /\ UNCHANGED <<removed, cleared, strays, revived>>
  <2>1. Lessens(i, Redacted) /\ UNCHANGED temps
    BY <1>3, <1>4 DEF Lessens, WriteFails, Publishes
  <2> QED BY <1>1, <1>4, <2>1, LessenedErrs
<1>5. CASE DiesWriting(new, 1)
  <2>1. Lessens(i, Redacted)
    BY <1>3, <1>5 DEF Lessens, DiesWriting
  <2>2. temps' \in Nat /\ op' = Idle /\ answer' = answer
    BY <1>1, <1>5 DEF DiesWriting, HistTypeOK
  <2> QED BY <1>1, <2>1, <2>2, LessenedDies
<1> QED BY <1>2, <1>4, <1>5 DEF Redacts

(* The operation goes on without a record, or without a damaged file. *)
LEMMA RemovedGoesOn ==
  ASSUME HistInv, NEW i \in Used, disk.file[i] # NoFile, i \in op.todo => disk.file[i] = Damaged,
         op.pc \in {"limits", "relimits"},
         Removes(i), removed' = removed \cup {i}, UNCHANGED <<meta, answer, cleared, strays, revived>>,
         op' \in Operations, op'.kind = op.kind, op'.pc = op.pc, op'.id = op.id, op'.asked = op.asked,
         op'.todo = op.todo \ {i}, Recs' = Recs \ {i}, \A j \in Recs \ {i} : op'.recs[j] = op.recs[j]
  PROVE  HistInv'
<1>1. /\ HistTypeOK /\ Unwritten /\ RecsTrue /\ Appending /\ Clearing /\ SavedDurable /\ FailedKnown /\ ClearedDurable
      /\ DamageSynced
  BY DEF HistInv
<1>2. Used \subseteq RecordIds /\ Used' = Used /\ UNCHANGED <<synced, temps>> /\ Recs \subseteq RecordIds
  BY <1>1, Record DEF HistTypeOK, Removes, Used
<1>3. disk'.file[i] = NoFile /\ \A j \in RecordIds \ {i} : disk'.file[j] = disk.file[j]
  BY <1>1, <1>2, FileWritten DEF Removes, Files
<1>4. Lessens(i, NoFile)
  BY DEF Lessens, Removes
<1>5. /\ disk' \in Directories /\ synced' \in Directories
      /\ NothingNew /\ Stamped' /\ DamageSynced'
      /\ \A j \in cleared : disk'.file[j] # Rich /\ synced'.file[j] # Rich
      /\ \A j \in RecordIds \ removed' :
           /\ disk.file[j] # NoFile => disk'.file[j] # NoFile
           /\ disk.file[j] # NoFile /\ synced.file[j] # NoFile => synced'.file[j] # NoFile
      /\ \A j \in RecordIds : disk'.file[j] # NoFile => disk.file[j] # NoFile
  BY <1>4, Lessened
<1>6. HistTypeOK' /\ Unwritten'
  BY <1>1, <1>2, <1>5 DEF HistTypeOK, Unwritten, NothingNew
<1>7. Holding({"rich", "bare"})' = Holding({"rich", "bare"}) \ {i}
      /\ Holding({"rich", "bare", "damaged"})' = Holding({"rich", "bare", "damaged"}) \ {i}
  BY <1>2, <1>3, Kinds DEF Holding
<1>8. RecsTrue'
  <2>1. Recs = Holding({"rich", "bare"}) /\ \A j \in Recs : op.recs[j] = disk.file[j]
    BY <1>1 DEF RecsTrue
  <2>2. \A j \in Recs' : op'.recs[j] = disk'.file[j]
    BY <1>2, <1>3, <2>1
  <2> QED BY <1>7, <2>1, <2>2 DEF RecsTrue
<1>9. Appending'
  <2>1. op.kind = "append" => op.id \in RecordIds
    BY <1>1, <1>2 DEF Appending
  <2>2. op.kind = "append" /\ op.pc = "limits" => disk'.file[op.id] = NoFile
    BY <1>1, <1>5, <2>1 DEF Appending
  <2>3. op.kind = "append" /\ op.pc = "relimits" =>
          op.id \in removed' \/ (disk'.file[op.id] # NoFile /\ synced'.file[op.id] # NoFile)
    BY <1>1, <1>5, <2>1 DEF Appending
  <2>4. op.kind = "append" => disk'.file[op.id] # Damaged
    BY <1>1, <1>3, <2>1, Kinds DEF Appending
  <2> QED BY <1>1, <1>2, <2>2, <2>3, <2>4 DEF Appending
<1>10. Clearing'
  <2>1. \A j \in op.asked \ op.todo : disk.file[j] # Rich /\ synced.file[j] # Rich
    BY <1>1 DEF Clearing
  <2>2. disk.file[i] = Damaged => synced'.file[i] # Rich
    BY <1>1, <1>2, Kinds DEF DamageSynced, Rich, Damaged
  <2>3. op.asked \subseteq Used
    BY <1>1 DEF Clearing
  <2>4. \A j \in op'.asked \ op'.todo : disk'.file[j] # Rich /\ synced'.file[j] # Rich
    <3> SUFFICES ASSUME NEW j \in op.asked, j \notin op.todo \ {i}
                 PROVE  disk'.file[j] # Rich /\ synced'.file[j] # Rich
      OBVIOUS
    <3>1. CASE j = i
      BY <1>2, <1>3, <2>1, <2>2, <3>1, Kinds DEF Rich, NoFile
    <3>2. CASE j # i
      BY <1>2, <1>3, <2>1, <2>3, <3>2
    <3> QED BY <3>1, <3>2
  <2> QED BY <1>1, <1>2, <1>7, <2>4 DEF Clearing
<1>11. SavedDurable' /\ FailedKnown'
  BY <1>1, <1>2, <1>5 DEF SavedDurable, FailedKnown
<1>12. ClearedDurable'
  BY <1>1, <1>5 DEF ClearedDurable
<1> QED BY <1>5, <1>6, <1>8, <1>9, <1>10, <1>11, <1>12 DEF HistInv

LEMMA RemovalFails ==
  ASSUME HistInv, NEW i \in Used, disk.file[i] # NoFile, op.pc \in {"limits", "relimits"},
         RemoveFails, Errs, UNCHANGED <<meta, removed, cleared, strays, revived>>
  PROVE  HistInv'
<1>1. Lessens(i, Redacted) /\ UNCHANGED temps
  BY DEF Lessens, RemoveFails
<1> QED BY <1>1, LessenedErrs

LEMMA StepPrune == ASSUME HistInv, Prune PROVE HistInv'
<1>1. PICK i \in Removable : Drops(i, [op EXCEPT !.recs = [j \in Recs \ {i} |-> op.recs[j]]])
  BY DEF Prune
<1>2. op.pc \in {"limits", "relimits"} /\ op.todo = {} /\ UNCHANGED meta
  BY DEF Prune, Enforcing
<1>3. i \in Recs
  BY DEF Removable, Excess
<1>4. HistTypeOK /\ Recs = Holding({"rich", "bare"})
  BY <1>2 DEF HistInv, RecsTrue
<1>5. i \in Used /\ disk.file[i] # NoFile
  BY <1>3, <1>4, HoldingIs, Kinds
<1> DEFINE recs == [j \in Recs \ {i} |-> op.recs[j]]
<1>6. recs \in Lists /\ DOMAIN recs = Recs \ {i}
  <2>1. recs \in [Recs \ {i} -> Records] /\ Recs \ {i} \in SUBSET RecordIds
    BY Record
  <2> HIDE DEF recs
  <2> QED BY <2>1, ListMakes
<1>7. \A j \in Recs \ {i} : recs[j] = op.recs[j]
  OBVIOUS
<1> HIDE DEF recs
<1>8. CASE /\ Removes(i) /\ op' = [op EXCEPT !.recs = recs]
           /\ removed' = removed \cup {i} /\ UNCHANGED <<answer, cleared, strays, revived>>
  <2>1. /\ op' \in Operations /\ op'.kind = op.kind /\ op'.pc = op.pc /\ op'.id = op.id /\ op'.asked = op.asked
        /\ op'.todo = op.todo /\ op'.recs = recs
    BY <1>4, <1>6, <1>8 DEF HistTypeOK, Operations
  <2>2. op'.todo = op.todo \ {i} /\ Recs' = Recs \ {i} /\ \A j \in Recs \ {i} : op'.recs[j] = op.recs[j]
    BY <1>2, <1>6, <1>7, <2>1 DEF Recs
  <2> QED BY <1>2, <1>5, <1>8, <2>1, <2>2, RemovedGoesOn
<1>9. CASE RemoveFails /\ Errs /\ UNCHANGED <<removed, cleared, strays, revived>>
  BY <1>2, <1>5, <1>9, RemovalFails
<1> QED BY <1>1, <1>8, <1>9 DEF Drops, recs

LEMMA StepClearProblem == ASSUME HistInv, ClearProblem PROVE HistInv'
<1>1. PICK i \in op.todo \ Recs : Drops(i, [op EXCEPT !.todo = @ \ {i}])
  BY DEF ClearProblem
<1>2. op.pc = "limits" /\ UNCHANGED meta
  BY DEF ClearProblem
<1>3. HistTypeOK /\ Recs = Holding({"rich", "bare"}) /\ op.todo \subseteq Holding({"rich", "bare", "damaged"})
  BY <1>2 DEF HistInv, RecsTrue, Clearing
<1>4. i \in Used /\ disk.file[i] = Damaged /\ disk.file[i] # NoFile
  <2>1. disk.file[i] \in Files
    BY <1>1, <1>3, HoldingIs, Record
  <2> QED BY <1>1, <1>3, <2>1, HoldingIs, Kinds DEF Files
<1>5. CASE /\ Removes(i) /\ op' = [op EXCEPT !.todo = @ \ {i}]
           /\ removed' = removed \cup {i} /\ UNCHANGED <<answer, cleared, strays, revived>>
  <2>1. /\ op' \in Operations /\ op'.kind = op.kind /\ op'.pc = op.pc /\ op'.id = op.id /\ op'.asked = op.asked
        /\ op'.todo = op.todo \ {i} /\ op'.recs = op.recs
    BY <1>3, <1>5 DEF HistTypeOK, Operations
  <2>2. Recs' = Recs \ {i} /\ \A j \in Recs \ {i} : op'.recs[j] = op.recs[j]
    BY <1>1, <2>1 DEF Recs
  <2> QED BY <1>2, <1>4, <1>5, <2>1, <2>2, RemovedGoesOn
<1>6. CASE RemoveFails /\ Errs /\ UNCHANGED <<removed, cleared, strays, revived>>
  BY <1>2, <1>4, <1>6, RemovalFails
<1> QED BY <1>1, <1>5, <1>6 DEF Drops

LEMMA StepRedact == ASSUME HistInv, Redact PROVE HistInv'
<1>1. PICK i \in Redactable : Redacts(i)
  BY DEF Redact
<1>2. i \in Recs
  BY DEF Redactable, Lavish, RichOf
<1>3. op.pc \in {"limits", "relimits"} /\ UNCHANGED meta
  BY DEF Redact, Enforcing
<1> QED BY <1>1, <1>2, <1>3, StepRedacts

LEMMA StepClearOutput == ASSUME HistInv, ClearOutput PROVE HistInv'
<1>1. PICK i \in op.todo : Redacts(i)
  BY DEF ClearOutput
<1>2. i \in Recs /\ op.pc = "limits" /\ UNCHANGED meta
  BY DEF ClearOutput
<1> QED BY <1>1, <1>2, StepRedacts

(* The index is written, or is not, and the operation goes on or is done. *)
LEMMA IndexGoesOn ==
  ASSUME HistInv, Enforcing, Proceeds,
         disk' \in {disk, WithIndex(op.recs)}, synced' \in {synced, disk'},
         UNCHANGED <<temps, meta, removed, strays, revived>>
  PROVE  HistInv'
<1>1. /\ HistTypeOK /\ Unwritten /\ Stamped /\ RecsTrue /\ Appending /\ Clearing /\ SavedDurable /\ FailedKnown
      /\ ClearedDurable
  BY DEF HistInv
<1>2. op.pc \in {"limits", "relimits"} /\ op.todo = {} /\ Recs = Holding({"rich", "bare"})
  BY <1>1 DEF Enforcing, RecsTrue
<1>3. /\ disk' \in Directories /\ synced' \in Directories
      /\ disk'.file = disk.file /\ synced'.file \in {synced.file, disk.file}
      /\ NothingNew /\ Stamped' /\ DamageSynced'
  <2>1. op.recs \in Lists
    BY <1>1 DEF HistTypeOK, Operations
  <2>2. \A i \in Recs : i \in Used /\ FirstWrite(i, op.recs[i])
    BY <1>1, <1>2 DEF RecsTrue, Stamped, Holding
  <2> QED BY <2>1, <2>2, TouchIndex DEF Recs
<1>4. Used' = Used /\ Holding({"rich", "bare"})' = Holding({"rich", "bare"})
  BY <1>3 DEF Used, Holding
<1>5. \A j \in cleared : disk'.file[j] # Rich /\ synced'.file[j] # Rich
  BY <1>1, <1>3 DEF ClearedDurable
<1>6. \A j \in RecordIds : disk.file[j] # NoFile /\ synced.file[j] # NoFile
                             => disk'.file[j] # NoFile /\ synced'.file[j] # NoFile
  BY <1>3
<1>7. op.kind = "append" => op.id \in Used /\ op.id \in RecordIds /\ answer[op.id] = "none"
  BY <1>1 DEF Appending, HistTypeOK
<1>8. CASE op.kind = "append" /\ op.pc = "limits" /\ op' = [op EXCEPT !.pc = "write"] /\ UNCHANGED <<answer, cleared>>
  <2>1. /\ op' \in Operations /\ op'.kind = "append" /\ op'.pc = "write" /\ op'.id = op.id
        /\ op'.asked = op.asked /\ op'.todo = op.todo /\ op'.recs = op.recs
    BY <1>1, <1>8 DEF HistTypeOK, Operations
  <2>2. HistTypeOK' /\ Unwritten'
    BY <1>1, <1>3, <1>4, <1>8, <2>1 DEF HistTypeOK, Unwritten, NothingNew
  <2>3. RecsTrue' /\ ClearedDurable'
    BY <1>1, <1>2, <1>3, <1>4, <1>5, <1>8, <2>1 DEF RecsTrue, ClearedDurable, Recs
  <2>4. Appending' /\ Clearing'
    BY <1>1, <1>3, <1>4, <1>8, <2>1 DEF Appending, Clearing
  <2>5. SavedDurable' /\ FailedKnown'
    BY <1>1, <1>3, <1>6, <1>8 DEF SavedDurable, FailedKnown
  <2> QED BY <1>3, <2>2, <2>3, <2>4, <2>5 DEF HistInv
<1>9. CASE op.kind = "append" /\ op' = Idle /\ UNCHANGED cleared
           /\ \E what \in {"saved", "failed"} :
                /\ answer' = [answer EXCEPT ![op.id] = what]
                /\ what = "saved" => op.pc = "relimits"
                /\ what = "failed" => op.pc = "limits" \/ op.id \notin Recs
  <2>1. PICK what \in {"saved", "failed"} :
                /\ answer' = [answer EXCEPT ![op.id] = what]
                /\ what = "saved" => op.pc = "relimits"
                /\ what = "failed" => op.pc = "limits" \/ op.id \notin Recs
    BY <1>9
  <2>2. /\ answer' \in [RecordIds -> {"none", "saved", "failed"}] /\ answer'[op.id] = what
        /\ \A j \in RecordIds \ {op.id} : answer'[j] = answer[j]
    BY <1>1, <1>7, <1>9, <2>1 DEF HistTypeOK
  <2>3. \A j \in RecordIds \ Used : answer'[j] = "none"
    BY <1>1, <1>7, <1>9, <2>2 DEF Unwritten
  <2>4. what = "saved" => op.id \in removed \/ (disk.file[op.id] # NoFile /\ synced.file[op.id] # NoFile)
    BY <1>1, <1>9, <2>1 DEF Appending
  <2>5. what = "failed" => disk.file[op.id] = NoFile
    <3>1. op.pc = "limits" => disk.file[op.id] = NoFile
      BY <1>1, <1>9 DEF Appending
    <3>2. op.id \notin Recs => disk.file[op.id] = NoFile
      <4>1. disk.file[op.id] \in Files /\ disk.file[op.id] # Damaged
        BY <1>1, <1>7, <1>9, Record DEF Appending
      <4> QED BY <1>1, <1>2, <1>7, <1>9, <4>1, HoldingIs DEF Files
    <3> QED BY <2>1, <3>1, <3>2
  <2>6. SavedDurable'
    BY <1>1, <1>6, <2>2, <2>4 DEF SavedDurable
  <2>7. FailedKnown'
    BY <1>1, <1>3, <2>2, <2>5 DEF FailedKnown
  <2>8. cleared' \subseteq Used /\ temps' \in Nat /\ \A j \in cleared' : disk'.file[j] # Rich /\ synced'.file[j] # Rich
    BY <1>1, <1>5, <1>9 DEF HistTypeOK
  <2> QED BY <1>3, <1>9, <2>2, <2>3, <2>6, <2>7, <2>8, Ends
<1>10. CASE op.kind # "append" /\ op' = Idle /\ cleared' = cleared \cup op.asked /\ UNCHANGED answer
  <2>1. SavedDurable' /\ FailedKnown'
    BY <1>1, <1>3, <1>6, <1>10 DEF SavedDurable, FailedKnown
  <2>2. \A j \in op.asked : disk'.file[j] # Rich /\ synced'.file[j] # Rich
    BY <1>1, <1>2, <1>3 DEF Clearing
  <2>3. cleared' \subseteq Used /\ temps' \in Nat /\ \A j \in cleared' : disk'.file[j] # Rich /\ synced'.file[j] # Rich
    BY <1>1, <1>5, <1>10, <2>2 DEF HistTypeOK, Clearing
  <2>4. /\ answer' \in [RecordIds -> {"none", "saved", "failed"}]
        /\ \A j \in RecordIds \ Used : answer'[j] = "none"
    BY <1>1, <1>10 DEF HistTypeOK, Unwritten
  <2> QED BY <1>3, <1>10, <2>1, <2>3, <2>4, Ends
<1>11. \/ op.kind = "append" /\ op.pc = "limits" /\ op' = [op EXCEPT !.pc = "write"] /\ UNCHANGED <<answer, cleared>>
       \/ /\ op.kind = "append" /\ op' = Idle /\ UNCHANGED cleared
          /\ \E what \in {"saved", "failed"} :
               /\ answer' = [answer EXCEPT ![op.id] = what]
               /\ what = "saved" => op.pc = "relimits"
               /\ what = "failed" => op.pc = "limits" \/ op.id \notin Recs
       \/ op.kind # "append" /\ op' = Idle /\ cleared' = cleared \cup op.asked /\ UNCHANGED answer
  <2>1. CASE op.kind = "append" /\ op.pc = "limits"
    BY <2>1 DEF Proceeds, Answers
  <2>2. CASE op.kind = "append" /\ op.pc = "relimits"
    BY <2>2 DEF Proceeds, Answers
  <2>3. CASE op.kind # "append"
    BY <2>3 DEF Proceeds
  <2> QED BY <1>2, <2>1, <2>2, <2>3
<1> QED BY <1>8, <1>9, <1>10, <1>11

LEMMA StepWriteIndex == ASSUME HistInv, WriteIndex PROVE HistInv'
<1> DEFINE new == WithIndex(op.recs)
<1>1. Enforcing /\ UNCHANGED meta
  BY DEF WriteIndex
<1>2. CASE (Publishes(new) \/ WriteFails(new)) /\ Proceeds /\ UNCHANGED <<removed, strays, revived>>
  <2>1. disk' \in {disk, new} /\ synced' \in {synced, disk'} /\ UNCHANGED temps
    BY <1>2 DEF Publishes, WriteFails
  <2> QED BY <1>1, <1>2, <2>1, IndexGoesOn
<1>3. CASE DiesWriting(new, 1)
  <2>1. /\ HistTypeOK /\ Unwritten /\ Stamped /\ RecsTrue /\ SavedDurable /\ FailedKnown /\ ClearedDurable
    BY DEF HistInv
  <2>2. /\ disk' \in {disk, new} /\ synced' = synced /\ op' = Idle /\ temps' \in {temps, temps + 1}
        /\ UNCHANGED <<answer, removed, cleared, strays, revived>>
    BY <1>3 DEF DiesWriting
  <2>3. op.recs \in Lists /\ \A i \in Recs : i \in Used /\ FirstWrite(i, op.recs[i])
    <3>1. op.recs \in Lists
      BY <2>1 DEF HistTypeOK, Operations
    <3>2. \A i \in Recs : i \in Used /\ FirstWrite(i, op.recs[i])
      BY <1>1, <2>1 DEF Enforcing, RecsTrue, Stamped, Holding
    <3> QED BY <3>1, <3>2
  <2>4. /\ disk' \in Directories /\ synced' \in Directories /\ disk'.file = disk.file
        /\ NothingNew /\ Stamped' /\ DamageSynced'
    BY <1>1, <2>2, <2>3, TouchIndex DEF Recs
  <2>5. SavedDurable' /\ FailedKnown'
    BY <2>1, <2>2, <2>4 DEF SavedDurable, FailedKnown
  <2>6. /\ cleared' \subseteq Used /\ temps' \in Nat
        /\ \A j \in cleared' : disk'.file[j] # Rich /\ synced'.file[j] # Rich
        /\ answer' \in [RecordIds -> {"none", "saved", "failed"}]
        /\ \A j \in RecordIds \ Used : answer'[j] = "none"
    BY <2>1, <2>2, <2>4 DEF HistTypeOK, ClearedDurable, Unwritten
  <2> QED BY <1>1, <2>2, <2>4, <2>5, <2>6, Ends
<1> QED BY <1>2, <1>3 DEF WriteIndex

-----------------------------------------------------------------------------
(* The new record. *)
LEMMA StepWriteRecord == ASSUME HistInv, WriteRecord PROVE HistInv'
<1> DEFINE file == NewFile(op.id)
           new == WithFile(op.id, file)
<1>1. /\ HistTypeOK /\ Unwritten /\ RecsTrue /\ Appending /\ Clearing /\ SavedDurable /\ FailedKnown /\ ClearedDurable
      /\ op.pc = "write" /\ UNCHANGED meta
  BY DEF HistInv, WriteRecord
<1>2. /\ op.kind = "append" /\ op.id \in Used \ cleared /\ op.id \in RecordIds /\ answer[op.id] = "none"
      /\ op.asked = {} /\ op.todo = {} /\ disk.file[op.id] = NoFile
      /\ Recs = Holding({"rich", "bare"})
  BY <1>1 DEF Appending, HistTypeOK, RecsTrue
<1>3. file \in Records /\ file \in Files \ {Damaged} /\ FirstWrite(op.id, file)
  BY NewFiles, Kinds DEF Records, Files, FirstWrite
<1>4. /\ new.file[op.id] = file
      /\ \A j \in RecordIds \ {op.id} : new.file[j] = disk.file[j]
  BY <1>1, <1>2, <1>3, FileWritten
<1> HIDE DEF file
<1>5. disk' \in {disk, new} /\ synced' \in {synced, disk'}
  BY DEF WriteRecord, Publishes, WriteFails, DiesWriting, file
<1>6. /\ disk' \in Directories /\ synced' \in Directories
      /\ Touches(op.id, file) /\ NothingNew /\ Stamped' /\ DamageSynced'
  BY <1>1, <1>2, <1>3, <1>5, TouchFile
<1>7. file # NoFile
  BY <1>3, Kinds
<1>8. \A j \in cleared : disk'.file[j] # Rich /\ synced'.file[j] # Rich
  <2>1. \A j \in cleared : j \in RecordIds \ {op.id} /\ disk.file[j] # Rich /\ synced.file[j] # Rich
    BY <1>1, <1>2 DEF ClearedDurable, HistTypeOK
  <2> QED BY <1>6, <2>1 DEF Touches
<1>9. \A j \in RecordIds : disk.file[j] # NoFile /\ synced.file[j] # NoFile
                             => disk'.file[j] # NoFile /\ synced'.file[j] # NoFile
  BY <1>2, <1>6 DEF Touches
<1>10. Used' = Used
  BY <1>1 DEF Used
<1>11. CASE Publishes(new) /\ op' = [op EXCEPT !.pc = "rollback"]
            /\ UNCHANGED <<answer, removed, cleared, strays, revived>>
  <2>1. /\ op' \in Operations /\ op'.kind = "append" /\ op'.pc = "rollback" /\ op'.id = op.id
        /\ op'.asked = {} /\ op'.todo = {} /\ op'.recs = op.recs
    BY <1>1, <1>2, <1>11 DEF HistTypeOK, Operations
  <2>2. disk'.file[op.id] = file /\ synced'.file[op.id] = file /\ UNCHANGED temps
    BY <1>4, <1>11 DEF Publishes
  <2>3. HistTypeOK' /\ Unwritten'
    BY <1>1, <1>6, <1>10, <1>11, <2>1, <2>2 DEF HistTypeOK, Unwritten, NothingNew
  <2>4. RecsTrue' /\ Clearing'
    BY <2>1 DEF RecsTrue, Clearing
  <2>5. Appending'
    BY <1>2, <1>3, <1>7, <1>10, <1>11, <2>1, <2>2 DEF Appending
  <2>6. SavedDurable' /\ FailedKnown'
    BY <1>1, <1>2, <1>6, <1>9, <1>11 DEF SavedDurable, FailedKnown, Touches
  <2>7. ClearedDurable'
    BY <1>1, <1>8, <1>11, <2>1 DEF ClearedDurable, Recs
  <2> QED BY <1>6, <2>3, <2>4, <2>5, <2>6, <2>7 DEF HistInv
<1>12. CASE /\ Publishes(new)
            /\ op' = [op EXCEPT !.pc = "relimits",
                                !.recs = [i \in Recs \cup {op.id} |-> IF i = op.id THEN file ELSE op.recs[i]]]
            /\ UNCHANGED <<answer, removed, cleared, strays, revived>>
  <2> DEFINE recs == [i \in Recs \cup {op.id} |-> IF i = op.id THEN file ELSE op.recs[i]]
  <2>1. recs \in Lists /\ DOMAIN recs = Recs \cup {op.id}
    <3>1. op.recs \in [Recs -> Records] /\ Recs \in SUBSET RecordIds
      BY Record
    <3>2. recs \in [Recs \cup {op.id} -> Records]
      BY <1>3, <3>1
    <3> HIDE DEF recs
    <3> QED BY <1>2, <3>1, <3>2, ListMakes
  <2>2. recs[op.id] = file /\ \A j \in Recs \ {op.id} : recs[j] = op.recs[j]
    OBVIOUS
  <2>3. op' = [op EXCEPT !.pc = "relimits", !.recs = recs]
    BY <1>12
  <2> HIDE DEF recs
  <2>4. /\ op' \in Operations /\ op'.kind = "append" /\ op'.pc = "relimits" /\ op'.id = op.id
        /\ op'.asked = {} /\ op'.todo = {} /\ op'.recs = recs
    BY <1>1, <1>2, <2>1, <2>3 DEF HistTypeOK, Operations
  <2>5. disk'.file[op.id] = file /\ synced'.file[op.id] = file /\ UNCHANGED temps
        /\ \A j \in RecordIds \ {op.id} : disk'.file[j] = disk.file[j]
    BY <1>4, <1>12 DEF Publishes
  <2>6. HistTypeOK' /\ Unwritten'
    BY <1>1, <1>6, <1>10, <1>12, <2>4, <2>5 DEF HistTypeOK, Unwritten, NothingNew
  <2>7. Holding({"rich", "bare"})' = Recs \cup {op.id} /\ Recs' = Recs \cup {op.id}
    <3>1. file.is \in {"rich", "bare"}
      BY <1>3, Kinds DEF Records
    <3>2. Used \subseteq RecordIds
      BY <1>1 DEF HistTypeOK
    <3> QED BY <1>2, <1>10, <2>1, <2>4, <2>5, <3>1, <3>2 DEF Holding, Recs
  <2>8. op.id \notin Recs /\ Recs \subseteq RecordIds
    BY <1>2, Record, Kinds DEF Holding
  <2>9. \A j \in Recs' : op'.recs[j] = disk'.file[j]
    BY <1>1, <2>2, <2>4, <2>5, <2>7, <2>8 DEF RecsTrue
  <2>10. RecsTrue' /\ Clearing'
    BY <2>4, <2>7, <2>9 DEF RecsTrue, Clearing
  <2>11. Appending'
    BY <1>2, <1>3, <1>7, <1>10, <1>12, <2>4, <2>5 DEF Appending
  <2>12. SavedDurable' /\ FailedKnown'
    BY <1>1, <1>2, <1>6, <1>9, <1>12 DEF SavedDurable, FailedKnown, Touches
  <2>13. ClearedDurable'
    BY <1>8, <1>12, <2>9 DEF ClearedDurable
  <2> QED BY <1>6, <2>6, <2>10, <2>11, <2>12, <2>13 DEF HistInv
<1>13. CASE WriteFails(new) /\ Answers("failed") /\ strays' = strays \cup {op.id} /\ UNCHANGED <<removed, cleared, revived>>
  <2>1. op' = Idle /\ answer' = [answer EXCEPT ![op.id] = "failed"] /\ UNCHANGED temps
    BY <1>2, <1>13 DEF Answers, WriteFails
  <2>2. /\ answer' \in [RecordIds -> {"none", "saved", "failed"}] /\ answer'[op.id] = "failed"
        /\ \A j \in RecordIds \ {op.id} : answer'[j] = answer[j]
    BY <1>1, <1>2, <2>1 DEF HistTypeOK
  <2>3. SavedDurable' /\ FailedKnown'
    BY <1>1, <1>6, <1>9, <1>13, <2>2 DEF SavedDurable, FailedKnown, Touches
  <2>4. /\ cleared' \subseteq Used /\ temps' \in Nat
        /\ \A j \in cleared' : disk'.file[j] # Rich /\ synced'.file[j] # Rich
        /\ \A j \in RecordIds \ Used : answer'[j] = "none"
    BY <1>1, <1>2, <1>8, <1>13, <2>1, <2>2 DEF HistTypeOK, Unwritten
  <2> QED BY <1>1, <1>6, <2>1, <2>2, <2>3, <2>4, Ends
<1>14. CASE DiesWriting(new, RichSize)
  <2>1. /\ op' = Idle /\ temps' \in {temps, temps + RichSize}
        /\ UNCHANGED <<answer, removed, cleared, strays, revived>>
    BY <1>14 DEF DiesWriting
  <2>2. SavedDurable' /\ FailedKnown'
    BY <1>1, <1>2, <1>6, <1>9, <2>1 DEF SavedDurable, FailedKnown, Touches
  <2>3. /\ cleared' \subseteq Used /\ temps' \in Nat
        /\ \A j \in cleared' : disk'.file[j] # Rich /\ synced'.file[j] # Rich
        /\ answer' \in [RecordIds -> {"none", "saved", "failed"}]
        /\ \A j \in RecordIds \ Used : answer'[j] = "none"
    BY <1>1, <1>8, <2>1, HistoryLimits DEF HistTypeOK, Unwritten
  <2> QED BY <1>1, <1>6, <2>1, <2>2, <2>3, Ends
<1>15. \/ Publishes(new) /\ op' = [op EXCEPT !.pc = "rollback"] /\ UNCHANGED <<answer, removed, cleared, strays, revived>>
       \/ /\ Publishes(new)
          /\ op' = [op EXCEPT !.pc = "relimits",
                              !.recs = [i \in Recs \cup {op.id} |-> IF i = op.id THEN file ELSE op.recs[i]]]
          /\ UNCHANGED <<answer, removed, cleared, strays, revived>>
       \/ /\ WriteFails(new) /\ Answers("failed") /\ strays' = strays \cup {op.id}
          /\ UNCHANGED <<removed, cleared, revived>>
       \/ DiesWriting(new, RichSize)
  <2>1. [i \in Recs \cup {op.id} |-> IF i = op.id THEN file ELSE op.recs[i]]
          = [i \in Recs \cup {op.id} |-> IF i = op.id THEN NewFile(i) ELSE op.recs[i]]
    BY DEF file
  <2> QED BY <2>1 DEF WriteRecord, file
<1> QED BY <1>11, <1>12, <1>13, <1>14, <1>15

LEMMA StepRollback == ASSUME HistInv, Rollback PROVE HistInv'
<1>1. /\ HistTypeOK /\ Unwritten /\ Appending /\ SavedDurable /\ FailedKnown /\ ClearedDurable
      /\ op.pc = "rollback" /\ UNCHANGED <<meta, removed, cleared, strays, revived>>
  BY DEF HistInv, Rollback
<1>2. /\ op.kind = "append" /\ op.id \in Used \ cleared /\ op.id \in RecordIds /\ answer[op.id] = "none"
      /\ op.id \in removed \/ (disk.file[op.id] # NoFile /\ synced.file[op.id] # NoFile)
  BY <1>1 DEF Appending, HistTypeOK
<1>3. PICK what \in {"saved", "failed"} :
        /\ op' = Idle /\ answer' = [answer EXCEPT ![op.id] = what] /\ UNCHANGED <<synced, temps>>
        /\ what = "saved" => disk' = disk
        /\ what = "failed" => disk' = WithFile(op.id, NoFile)
  BY <1>2 DEF Rollback, Removes, RemoveFails, Answers
<1>4. /\ answer' \in [RecordIds -> {"none", "saved", "failed"}] /\ answer'[op.id] = what
      /\ \A j \in RecordIds \ {op.id} : answer'[j] = answer[j]
  BY <1>1, <1>2, <1>3 DEF HistTypeOK
<1>5. NoFile \in Files \ {Damaged} /\ FirstWrite(op.id, NoFile)
  BY Kinds DEF Files, FirstWrite
<1>6. /\ disk' \in Directories /\ synced' \in Directories
      /\ Touches(op.id, NoFile) /\ NothingNew /\ Stamped' /\ DamageSynced'
  BY <1>1, <1>2, <1>3, <1>5, TouchFile
<1>7. what = "failed" => disk'.file[op.id] = NoFile
  BY <1>1, <1>2, <1>3, <1>5, FileWritten
<1>8. SavedDurable'
  BY <1>1, <1>2, <1>3, <1>4, <1>6 DEF SavedDurable, Touches
<1>9. FailedKnown'
  BY <1>1, <1>3, <1>4, <1>6, <1>7 DEF FailedKnown, Touches
<1>10. \A j \in cleared : disk'.file[j] # Rich /\ synced'.file[j] # Rich
  <2>1. \A j \in cleared : j \in RecordIds \ {op.id} /\ disk.file[j] # Rich /\ synced.file[j] # Rich
    BY <1>1, <1>2 DEF ClearedDurable, HistTypeOK
  <2> QED BY <1>3, <1>6, <2>1 DEF Touches
<1>11. /\ cleared' \subseteq Used /\ temps' \in Nat /\ cleared' = cleared
       /\ \A j \in RecordIds \ Used : answer'[j] = "none"
  BY <1>1, <1>2, <1>3, <1>4 DEF HistTypeOK, Unwritten
<1> QED BY <1>1, <1>3, <1>4, <1>6, <1>8, <1>9, <1>10, <1>11, Ends

-----------------------------------------------------------------------------
(* What comes from outside. *)
LEMMA StepCrash == ASSUME HistInv, Crash PROVE HistInv'
<1>1. /\ HistTypeOK /\ Unwritten /\ Stamped /\ DamageSynced /\ SavedDurable /\ FailedKnown /\ ClearedDurable
      /\ op' = Idle /\ UNCHANGED <<disk, synced, temps, meta, answer, removed, cleared, strays, revived>>
  BY DEF HistInv, Crash
<1>2. disk' \in Directories /\ synced' \in Directories /\ temps' \in Nat
  BY <1>1 DEF HistTypeOK
<1>3. NothingNew /\ Stamped' /\ DamageSynced' /\ SavedDurable' /\ FailedKnown'
  BY <1>1 DEF NothingNew, Unwritten, Stamped, FirstWrite, NewFile, DamageSynced, SavedDurable, FailedKnown, Used
<1>4. /\ cleared' \subseteq Used /\ \A j \in cleared' : disk'.file[j] # Rich /\ synced'.file[j] # Rich
      /\ answer' \in [RecordIds -> {"none", "saved", "failed"}]
      /\ \A j \in RecordIds \ Used : answer'[j] = "none"
  BY <1>1 DEF HistTypeOK, Unwritten, ClearedDurable
<1> QED BY <1>1, <1>2, <1>3, <1>4, Ends

LEMMA StepPowerLoss == ASSUME HistInv, PowerLoss PROVE HistInv'
<1>1. /\ HistTypeOK /\ Unwritten /\ Stamped /\ SavedDurable /\ FailedKnown /\ ClearedDurable
  BY DEF HistInv
<1>2. PICK lost \in SUBSET {i \in Used : disk.file[i] # synced.file[i]}, index \in {disk.index, synced.index} :
        /\ disk' = [file |-> [i \in RecordIds |-> IF i \in lost THEN synced.file[i] ELSE disk.file[i]], index |-> index]
        /\ revived' = revived \cup {i \in lost : synced.file[i] # NoFile}
  BY DEF PowerLoss
<1>3. /\ op' = Idle /\ synced' = disk'
      /\ UNCHANGED <<temps, meta, answer, removed, cleared, strays>>
  BY DEF PowerLoss
<1>4. /\ \A i \in RecordIds : disk'.file[i] = IF i \in lost THEN synced.file[i] ELSE disk.file[i]
      /\ disk'.index = index /\ disk' \in Directories
  BY <1>1, <1>2 DEF HistTypeOK, Directories
<1>5. lost \subseteq Used /\ Used \subseteq RecordIds /\ Used' = Used
  BY <1>1, <1>2, <1>3 DEF HistTypeOK, Used
<1>6. NothingNew /\ DamageSynced'
  BY <1>1, <1>3, <1>4, <1>5 DEF NothingNew, Unwritten, DamageSynced
<1>7. Stamped'
  <2>1. \A i \in Used : FirstWrite(i, disk'.file[i])
    BY <1>1, <1>4, <1>5 DEF Stamped
  <2>2. \A i \in DOMAIN disk'.index : i \in Used /\ FirstWrite(i, disk'.index[i])
    BY <1>1, <1>2, <1>4 DEF Stamped
  <2> QED BY <1>3, <1>5, <2>1, <2>2 DEF Stamped, FirstWrite, NewFile
<1>8. SavedDurable'
  BY <1>1, <1>3, <1>4 DEF SavedDurable
<1>9. FailedKnown'
  BY <1>1, <1>2, <1>3, <1>4 DEF FailedKnown
<1>10. /\ cleared' \subseteq Used /\ temps' \in Nat /\ \A j \in cleared' : disk'.file[j] # Rich /\ synced'.file[j] # Rich
       /\ answer' \in [RecordIds -> {"none", "saved", "failed"}]
       /\ \A j \in RecordIds \ Used : answer'[j] = "none"
  BY <1>1, <1>3, <1>4, <1>5 DEF HistTypeOK, Unwritten, ClearedDurable
<1> QED BY <1>3, <1>4, <1>6, <1>7, <1>8, <1>9, <1>10, Ends

LEMMA StepDamage == ASSUME HistInv, Damage PROVE HistInv'
<1>1. /\ HistTypeOK /\ Unwritten /\ Stamped /\ SavedDurable /\ FailedKnown /\ ClearedDurable /\ DamageSynced
      /\ op' = Idle /\ disk = synced /\ synced' = disk'
      /\ UNCHANGED <<temps, meta, answer, removed, cleared, strays, revived>>
  BY DEF HistInv, Damage, Appending
<1>2. Used \subseteq RecordIds /\ Used' = Used
  BY <1>1 DEF HistTypeOK, Used
<1>3. /\ cleared' \subseteq Used /\ temps' \in Nat
      /\ answer' \in [RecordIds -> {"none", "saved", "failed"}]
      /\ \A j \in RecordIds \ Used : answer'[j] = "none"
  BY <1>1 DEF HistTypeOK, Unwritten
<1>4. CASE \E i \in Holding({"rich", "bare"}) : disk' = WithFile(i, Damaged)
  <2>1. PICK i \in Holding({"rich", "bare"}) : disk' = WithFile(i, Damaged)
    BY <1>4
  <2>2. i \in Used /\ disk.file[i] # NoFile
    BY <1>1, HoldingIs, Kinds
  <2>3. /\ disk' \in Directories /\ disk'.index = disk.index /\ disk'.file[i] = Damaged
        /\ \A j \in RecordIds \ {i} : disk'.file[j] = disk.file[j]
    BY <1>1, <1>2, <2>1, <2>2, FileWritten DEF Files
  <2>4. NothingNew /\ DamageSynced'
    BY <1>1, <1>2, <2>2, <2>3 DEF NothingNew, Unwritten, DamageSynced
  <2>5. Stamped'
    <3>1. \A j \in Used : FirstWrite(j, disk'.file[j])
      BY <1>1, <1>2, <2>3, Kinds DEF Stamped, FirstWrite
    <3>2. \A j \in DOMAIN disk'.index : j \in Used /\ FirstWrite(j, disk'.index[j])
      BY <1>1, <2>3 DEF Stamped
    <3> QED BY <1>1, <1>2, <3>1, <3>2 DEF Stamped, FirstWrite, NewFile
  <2>6. SavedDurable' /\ FailedKnown'
    BY <1>1, <1>2, <2>2, <2>3, Kinds DEF SavedDurable, FailedKnown, NoFile, Damaged
  <2>7. \A j \in cleared' : disk'.file[j] # Rich /\ synced'.file[j] # Rich
    BY <1>1, <1>2, <1>3, <2>3, Kinds DEF ClearedDurable, Rich, Damaged
  <2> QED BY <1>1, <1>3, <2>3, <2>4, <2>5, <2>6, <2>7, Ends
<1>5. CASE disk' = WithIndex(<<>>)
  <2>1. disk' \in Directories /\ disk'.index = <<>> /\ disk'.file = disk.file
    BY <1>1, <1>5, NoList, IndexWritten
  <2>2. NothingNew /\ DamageSynced' /\ SavedDurable' /\ FailedKnown'
    BY <1>1, <2>1 DEF NothingNew, Unwritten, DamageSynced, SavedDurable, FailedKnown
  <2>3. Stamped'
    BY <1>1, <1>2, <2>1, NoList DEF Stamped, FirstWrite, NewFile
  <2>4. \A j \in cleared' : disk'.file[j] # Rich /\ synced'.file[j] # Rich
    BY <1>1, <2>1 DEF ClearedDurable
  <2> QED BY <1>1, <1>3, <2>1, <2>2, <2>3, <2>4, Ends
<1> QED BY <1>4, <1>5 DEF Damage

-----------------------------------------------------------------------------
LEMMA Begin == ASSUME HistInit PROVE HistInv
<1>1. disk.index = <<>> /\ \A i \in RecordIds : disk.file[i] = NoFile
  BY DEF HistInit
<1>2. disk \in Directories /\ synced \in Directories /\ synced = disk
  BY NoList DEF HistInit, Directories, Files
<1>3. Used = {} /\ op = Idle /\ cleared = {} /\ \A i \in RecordIds : answer[i] = "none"
  BY NoList DEF HistInit, Used
<1>4. HistTypeOK
  BY <1>2, <1>3, IdleIsIdle DEF HistInit, HistTypeOK
<1>5. Unwritten /\ SavedDurable /\ FailedKnown
  BY <1>1, <1>2, <1>3 DEF Unwritten, SavedDurable, FailedKnown
<1>6. Stamped /\ DamageSynced
  BY <1>1, <1>2, <1>3, NoList DEF Stamped, DamageSynced
<1>7. RecsTrue /\ Appending /\ Clearing /\ ClearedDurable
  BY <1>3, IdleIsIdle DEF RecsTrue, Appending, Clearing, ClearedDurable, Recs
<1> QED BY <1>4, <1>5, <1>6, <1>7 DEF HistInv

LEMMA Step == ASSUME HistInv, [HistNext]_histVars PROVE HistInv'
<1>1. CASE UNCHANGED histVars
  BY <1>1 DEF histVars, HistInv, HistTypeOK, Unwritten, Stamped, FirstWrite, NewFile, RecsTrue, Recs, Holding,
              DamageSynced, Appending, Clearing, SavedDurable, FailedKnown, ClearedDurable, Used
<1>2. CASE HistNext
  BY <1>2, StepAppend, StepSnapshot, StepClearRecord, StepClearAll, StepPrune, StepRedact, StepWriteIndex,
     StepClearProblem, StepClearOutput, StepWriteRecord, StepRollback, StepCrash, StepPowerLoss, StepDamage
     DEF HistNext
<1> QED BY <1>1, <1>2

(* The directory, the index and the operation in progress are what the other  *)
(* theorems take them for, through every crash and power loss.                *)
THEOREM HistoryHolds == HistSpec => []HistInv
<1>1. HistInit => HistInv
  BY Begin
<1>2. HistInv /\ [HistNext]_histVars => HistInv'
  BY Step
<1> QED BY <1>1, <1>2, PTL DEF HistSpec

(* Append tells the truth: a record it reports as saved has its file until a  *)
(* limit removes it, and one it reports as not saved leaves no file, unless   *)
(* the directory could not be synced, or power was lost, meanwhile.           *)
THEOREM AppendTellsTheTruth == HistSpec => []AnswersHold
<1>1. HistInv => AnswersHold
  BY DEF HistInv, HistTypeOK, AnswersHold, SavedStays, FailedGone, SavedDurable, FailedKnown
<1> QED BY <1>1, HistoryHolds, PTL

(* Output that ClearRecord or ClearAll reported as cleared never comes back.  *)
THEOREM ClearsAreFinal == HistSpec => []ClearedStays
<1>1. HistInv => ClearedStays
  <2> SUFFICES ASSUME HistInv, NEW i \in cleared
               PROVE  disk.file[i].is # "rich" /\ (i \in DOMAIN op.recs => op.recs[i].is # "rich")
    BY DEF ClearedStays
  <2>1. \A file \in Files : file.is = "rich" => file = Rich
    BY Kinds DEF Files, Records
  <2>2. disk.file[i] \in Files /\ disk.file[i] # Rich
    BY Record DEF HistInv, HistTypeOK, ClearedDurable
  <2>3. i \in Recs => op.recs[i] \in Files /\ op.recs[i] # Rich
    BY Record DEF HistInv, ClearedDurable, Files
  <2> QED BY <2>1, <2>2, <2>3 DEF Recs
<1> QED BY <1>1, HistoryHolds, PTL

(* No operation takes from the index what is not in the files, whatever       *)
(* interrupted the writes of the two.                                         *)
THEOREM IndexNeverMisleads == HistSpec => []IndexIsTrue
<1>1. HistInv => IndexIsTrue
  BY DEF HistInv, RecsTrue, IndexIsTrue
<1> QED BY <1>1, HistoryHolds, PTL

-----------------------------------------------------------------------------
(* Output per profile. A record with output is written only after the limits  *)
(* were enforced, so what a write adds is one more than the limit at most.    *)
Outputs(run) == {i \in Holding({"rich"}) \ revived : meta[i].profile = run.profile}

RichFits ==
  \A run \in Runs :
    /\ Cardinality(Outputs(run)) <= MaxRich + 1
    /\ op.pc = "write" => Cardinality(Outputs(run)) <= MaxRich

(* A file that has output, and was not brought back, had it before, or is of *)
(* the record "but".                                                         *)
NoOutputBut(but) ==
  /\ UNCHANGED meta
  /\ \A i \in Used \ but : disk'.file[i].is = "rich" /\ i \notin revived' =>
       disk.file[i].is = "rich" /\ i \notin revived

LEMMA OutputsFinite ==
  ASSUME HistTypeOK, NEW run
  PROVE  IsFiniteSet(Outputs(run)) /\ Cardinality(Outputs(run)) \in Nat
<1>1. IsFiniteSet(RecordIds)
  BY FS_Interval, HistoryLimits DEF RecordIds
<1>2. Outputs(run) \in SUBSET RecordIds
  BY DEF Outputs, Holding, HistTypeOK
<1>3. IsFiniteSet(Outputs(run))
  BY <1>1, <1>2, FS_Subset
<1> QED BY <1>3, FS_CardinalityType

LEMMA OutputsShrink ==
  ASSUME HistTypeOK, NoOutputBut({}), NEW run
  PROVE  Cardinality(Outputs(run)') \in Nat /\ Cardinality(Outputs(run)') <= Cardinality(Outputs(run))
<1>1. Outputs(run)' \in SUBSET Outputs(run)
  BY DEF NoOutputBut, Outputs, Holding, Used
<1> QED BY <1>1, OutputsFinite, FS_Subset, FS_CardinalityType

LEMMA OneMoreOutput ==
  ASSUME HistTypeOK, NEW i \in Used, NoOutputBut({i}), NEW run
  PROVE  Cardinality(Outputs(run)') \in Nat /\ Cardinality(Outputs(run)') <= Cardinality(Outputs(run)) + 1
<1> DEFINE more == Outputs(run) \cup {i}
<1>1. Outputs(run)' \in SUBSET more
  BY DEF NoOutputBut, Outputs, Holding, Used
<1>2. /\ IsFiniteSet(Outputs(run)) /\ Cardinality(Outputs(run)) \in Nat
      /\ Cardinality(more) = IF i \in Outputs(run) THEN Cardinality(Outputs(run)) ELSE Cardinality(Outputs(run)) + 1
      /\ IsFiniteSet(more)
  BY OutputsFinite, FS_AddElement
<1>3. Cardinality(more) \in Nat /\ Cardinality(more) <= Cardinality(Outputs(run)) + 1
  BY <1>2, FS_CardinalityType
<1>4. Cardinality(Outputs(run)') <= Cardinality(more) /\ Cardinality(Outputs(run)') \in Nat
  BY <1>1, <1>2, FS_Subset, FS_CardinalityType
<1> HIDE DEF more
<1> QED BY <1>2, <1>3, <1>4

(* What keeps or lessens the output there is, and does not go on to a write. *)
LEMMA RichShrinks ==
  ASSUME HistTypeOK, RichFits, NoOutputBut({}), op'.pc # "write" \/ op.pc = "write"
  PROVE  RichFits'
<1> SUFFICES ASSUME NEW run \in Runs
             PROVE  /\ Cardinality(Outputs(run)') <= MaxRich + 1
                    /\ op'.pc = "write" => Cardinality(Outputs(run)') <= MaxRich
  BY DEF RichFits
<1>1. /\ Cardinality(Outputs(run)) <= MaxRich + 1 /\ Cardinality(Outputs(run)) \in Nat /\ MaxRich \in Nat
      /\ op.pc = "write" => Cardinality(Outputs(run)) <= MaxRich
  BY OutputsFinite, HistoryLimits DEF RichFits
<1>2. Cardinality(Outputs(run)') \in Nat /\ Cardinality(Outputs(run)') <= Cardinality(Outputs(run))
  BY OutputsShrink
<1> QED BY <1>1, <1>2

(* A file that is written without output. *)
LEMMA PlainFile ==
  ASSUME HistInv, UNCHANGED <<meta, revived>>, NEW i \in RecordIds, NEW file \in Files, file.is # "rich",
         disk' \in {disk, WithFile(i, file)}
  PROVE  NoOutputBut({})
<1>1. HistTypeOK /\ Used \subseteq RecordIds
  BY DEF HistInv, HistTypeOK
<1>2. /\ WithFile(i, file).file[i] = file
      /\ \A j \in RecordIds \ {i} : WithFile(i, file).file[j] = disk.file[j]
  BY <1>1, FileWritten
<1> QED BY <1>1, <1>2 DEF NoOutputBut

LEMMA RemovalPlain ==
  ASSUME HistInv, UNCHANGED meta, NEW i \in RecordIds, NEW goes, Drops(i, goes), goes.pc # "write", op.pc # "write"
  PROVE  NoOutputBut({}) /\ op'.pc # "write"
<1>1. UNCHANGED revived /\ disk' \in {disk, WithFile(i, NoFile)}
  BY DEF Drops, Removes, RemoveFails
<1>2. NoFile \in Files /\ NoFile.is # "rich"
  BY Kinds DEF Files
<1>3. NoOutputBut({})
  BY <1>1, <1>2, PlainFile
<1>4. op'.pc # "write"
  BY IdleIsIdle, Record DEF Drops, Errs, Answers
<1> QED BY <1>3, <1>4

LEMMA RedactionPlain ==
  ASSUME HistInv, UNCHANGED meta, NEW i \in RecordIds, Redacts(i), op.pc # "write"
  PROVE  NoOutputBut({}) /\ op'.pc # "write"
<1>1. UNCHANGED revived /\ disk' \in {disk, WithFile(i, Redacted)}
  BY DEF Redacts, Publishes, WriteFails, DiesWriting
<1>2. Redacted \in Files /\ Redacted.is # "rich"
  BY Kinds DEF Files, Records
<1>3. NoOutputBut({})
  BY <1>1, <1>2, PlainFile
<1>4. op'.pc # "write"
  BY IdleIsIdle, Record DEF Redacts, DiesWriting, Errs, Answers
<1> QED BY <1>3, <1>4

(* When nothing has to be removed or redacted, no profile is above its limit. *)
LEMMA NotLavish ==
  ASSUME HistInv, Enforcing, Removable = {}, Redactable = {}, NEW run \in Runs
  PROVE  Cardinality(Outputs(run)) <= MaxRich
<1>1. HistTypeOK /\ RecsTrue /\ Recs = Holding({"rich", "bare"}) /\ \A i \in Recs : op.recs[i] = disk.file[i]
  BY DEF HistInv, RecsTrue, Enforcing
<1>2. Excess = {}
  BY DEF Removable
<1>3. Lavish = {}
  BY <1>2 DEF Redactable
<1>4. RichOf(Recs) = Holding({"rich"})
  BY <1>1 DEF RichOf, Holding
<1>5. IsFiniteSet(Outputs(run)) /\ Cardinality(Outputs(run)) \in Nat /\ MaxRich \in Nat
  BY <1>1, OutputsFinite, HistoryLimits
<1>6. CASE Outputs(run) = {}
  BY <1>5, <1>6, FS_EmptySet
<1>7. CASE Outputs(run) # {}
  <2>1. PICK i \in Outputs(run) : TRUE
    BY <1>7
  <2>2. i \in RichOf(Recs) /\ meta[i].profile = run.profile
    BY <1>4 DEF Outputs
  <2> DEFINE same == Alike(i, RichOf(Recs))
  <2>3. Outputs(run) \in SUBSET same
    BY <1>4, <2>2 DEF Outputs, Alike
  <2>4. IsFiniteSet(same)
    <3>1. IsFiniteSet(RecordIds)
      BY FS_Interval, HistoryLimits DEF RecordIds
    <3>2. same \in SUBSET RecordIds
      BY <1>1, <1>4 DEF Alike, Holding, HistTypeOK
    <3> QED BY <3>1, <3>2, FS_Subset
  <2>5. Cardinality(same) \in Nat
    BY <2>4, FS_CardinalityType
  <2>6. ~(Cardinality(same) > MaxRich)
    BY <1>3, <2>2 DEF Lavish
  <2>7. Cardinality(Outputs(run)) <= Cardinality(same)
    BY <2>3, <2>4, FS_Subset
  <2> HIDE DEF same
  <2> QED BY <1>5, <2>5, <2>6, <2>7
<1> QED BY <1>6, <1>7

LEMMA RichWriteIndex == ASSUME HistInv, RichFits, WriteIndex PROVE RichFits'
<1>1. HistTypeOK /\ op.recs \in Lists /\ UNCHANGED <<meta, revived>>
  BY DEF HistInv, HistTypeOK, Operations, WriteIndex, DiesWriting
<1>2. disk'.file = disk.file
  <2>1. disk' \in {disk, WithIndex(op.recs)}
    BY DEF WriteIndex, Publishes, WriteFails, DiesWriting
  <2> QED BY <1>1, <2>1, IndexWritten
<1>3. NoOutputBut({})
  BY <1>1, <1>2 DEF NoOutputBut
<1> SUFFICES ASSUME NEW run \in Runs
             PROVE  Cardinality(Outputs(run)') <= MaxRich + 1 /\ Cardinality(Outputs(run)') <= MaxRich
  BY DEF RichFits
<1>4. Cardinality(Outputs(run)) <= MaxRich
  BY NotLavish DEF WriteIndex
<1>5. /\ Cardinality(Outputs(run)') \in Nat /\ Cardinality(Outputs(run)') <= Cardinality(Outputs(run))
      /\ Cardinality(Outputs(run)) \in Nat /\ MaxRich \in Nat
  BY <1>1, <1>3, OutputsShrink, OutputsFinite, HistoryLimits
<1> QED BY <1>4, <1>5

LEMMA RichWriteRecord == ASSUME HistInv, RichFits, WriteRecord PROVE RichFits'
<1>1. HistTypeOK /\ op.pc = "write" /\ UNCHANGED <<meta, revived>>
  BY DEF HistInv, WriteRecord, DiesWriting
<1>2. op.id \in Used /\ op.id \in RecordIds /\ Used \subseteq RecordIds
  BY <1>1 DEF HistInv, Appending, HistTypeOK
<1>3. NoOutputBut({op.id})
  <2>1. disk' \in {disk, WithFile(op.id, NewFile(op.id))}
    BY DEF WriteRecord, Publishes, WriteFails, DiesWriting
  <2>2. NewFile(op.id) \in Files
    BY NewFiles DEF Files, Records
  <2>3. \A j \in RecordIds \ {op.id} : WithFile(op.id, NewFile(op.id)).file[j] = disk.file[j]
    BY <1>1, <1>2, <2>2, FileWritten
  <2> QED BY <1>1, <1>2, <2>1, <2>3 DEF NoOutputBut
<1>4. op'.pc # "write"
  BY IdleIsIdle, Record DEF WriteRecord, Answers, DiesWriting
<1> SUFFICES ASSUME NEW run \in Runs PROVE Cardinality(Outputs(run)') <= MaxRich + 1
  BY <1>4 DEF RichFits
<1>5. Cardinality(Outputs(run)) <= MaxRich /\ Cardinality(Outputs(run)) \in Nat /\ MaxRich \in Nat
  BY <1>1, OutputsFinite, HistoryLimits DEF RichFits
<1>6. Cardinality(Outputs(run)') \in Nat /\ Cardinality(Outputs(run)') <= Cardinality(Outputs(run)) + 1
  BY <1>1, <1>2, <1>3, OneMoreOutput
<1> QED BY <1>5, <1>6

LEMMA RichAppend == ASSUME HistInv, RichFits, NEW run \in Runs, AppendRecord(run) PROVE RichFits'
<1>1. PICK id \in RecordIds \ Used, left \in 0 .. temps :
         /\ Starts([Reconciled(left) EXCEPT !.kind = "append", !.id = id], left)
         /\ meta' = [i \in Used \cup {id} |-> IF i = id THEN run ELSE meta[i]]
  BY DEF AppendRecord
<1>2. HistTypeOK /\ disk.file[id].is # "rich" /\ disk' = disk /\ revived' = revived
  BY <1>1, Kinds DEF HistInv, Unwritten, Starts
<1>3. \A i \in Used : meta'[i] = meta[i]
  BY <1>1 DEF Used
<1>4. DOMAIN meta' = DOMAIN meta \cup {id}
  BY <1>1 DEF Used
<1>5. \A any : Outputs(any)' = Outputs(any)
  BY <1>2, <1>3, <1>4 DEF Outputs, Holding, Used
<1>6. op'.pc # "write"
  BY <1>1 DEF Starts, Reconciled, Idle
<1> QED BY <1>5, <1>6 DEF RichFits

LEMMA RichStep == HistInv /\ RichFits /\ [HistNext]_histVars => RichFits'
<1> SUFFICES ASSUME HistInv, RichFits, [HistNext]_histVars PROVE RichFits'
  OBVIOUS
<1>0. HistTypeOK /\ Used \subseteq RecordIds
  BY DEF HistInv, HistTypeOK
<1>1. CASE UNCHANGED histVars
  BY <1>0, <1>1, RichShrinks DEF histVars, NoOutputBut
<1>2. ASSUME NEW run \in Runs, AppendRecord(run) PROVE RichFits'
  BY <1>2, RichAppend
<1>3. CASE Snapshot \/ (\E i \in Used : ClearRecord(i)) \/ ClearAll
  <2>1. UNCHANGED <<meta, disk, revived>> /\ op'.pc # "write"
    BY <1>3 DEF Snapshot, ClearRecord, ClearAll, Clear, Starts, Reconciled, Idle
  <2> QED BY <1>0, <2>1, RichShrinks DEF NoOutputBut
<1>4. CASE Prune
  <2>1. PICK i \in Removable : Drops(i, [op EXCEPT !.recs = [j \in Recs \ {i} |-> op.recs[j]]])
    BY <1>4 DEF Prune
  <2>2. i \in RecordIds /\ op.pc # "write" /\ UNCHANGED meta
    BY <1>4, Record DEF Prune, Enforcing, Removable, Excess
  <2>3. [op EXCEPT !.recs = [j \in Recs \ {i} |-> op.recs[j]]].pc # "write"
    BY <2>2, Record
  <2> QED BY <1>0, <2>1, <2>2, <2>3, RemovalPlain, RichShrinks
<1>5. CASE Redact
  <2>1. PICK i \in Redactable : Redacts(i)
    BY <1>5 DEF Redact
  <2>2. i \in RecordIds /\ op.pc # "write" /\ UNCHANGED meta
    BY <1>5, Record DEF Redact, Enforcing, Redactable, Lavish, RichOf
  <2> QED BY <1>0, <2>1, <2>2, RedactionPlain, RichShrinks
<1>6. CASE WriteIndex
  BY <1>6, RichWriteIndex
<1>7. CASE ClearProblem
  <2>1. PICK i \in op.todo \ Recs : Drops(i, [op EXCEPT !.todo = @ \ {i}])
    BY <1>7 DEF ClearProblem
  <2>2. i \in RecordIds /\ op.pc # "write" /\ UNCHANGED meta
    BY <1>7, Record DEF ClearProblem
  <2>3. [op EXCEPT !.todo = @ \ {i}].pc # "write"
    BY <2>2, Record
  <2> QED BY <1>0, <2>1, <2>2, <2>3, RemovalPlain, RichShrinks
<1>8. CASE ClearOutput
  <2>1. PICK i \in op.todo : Redacts(i)
    BY <1>8 DEF ClearOutput
  <2>2. i \in RecordIds /\ op.pc # "write" /\ UNCHANGED meta
    BY <1>8, Record DEF ClearOutput
  <2> QED BY <1>0, <2>1, <2>2, RedactionPlain, RichShrinks
<1>9. CASE WriteRecord
  BY <1>9, RichWriteRecord
<1>10. CASE Rollback
  <2>1. UNCHANGED <<meta, revived>> /\ disk' \in {disk, WithFile(op.id, NoFile)} /\ op' = Idle
    BY <1>10 DEF Rollback, Removes, RemoveFails, Answers
  <2>2. op.id \in RecordIds /\ NoFile \in Files /\ NoFile.is # "rich"
    BY <1>0, <1>10, Kinds DEF Rollback, HistInv, Appending, Files
  <2> QED BY <1>0, <2>1, <2>2, PlainFile, RichShrinks, IdleIsIdle
<1>11. CASE Crash
  <2>1. UNCHANGED <<meta, disk, revived>> /\ op' = Idle
    BY <1>11 DEF Crash
  <2> QED BY <1>0, <2>1, RichShrinks, IdleIsIdle DEF NoOutputBut
<1>12. CASE PowerLoss
  <2>1. PICK lost \in SUBSET {i \in Used : disk.file[i] # synced.file[i]} :
          /\ \A i \in RecordIds : disk'.file[i] = IF i \in lost THEN synced.file[i] ELSE disk.file[i]
          /\ revived' = revived \cup {i \in lost : synced.file[i] # NoFile}
    BY <1>12 DEF PowerLoss
  <2>2. UNCHANGED meta /\ op' = Idle
    BY <1>12 DEF PowerLoss
  <2>3. NoOutputBut({})
    BY <1>0, <2>1, <2>2, Kinds DEF NoOutputBut
  <2> QED BY <1>0, <2>2, <2>3, RichShrinks, IdleIsIdle
<1>13. CASE Damage
  <2>1. UNCHANGED <<meta, op, revived>>
    BY <1>13 DEF Damage
  <2>2. CASE \E i \in Holding({"rich", "bare"}) : disk' = WithFile(i, Damaged)
    <3>1. PICK i \in Holding({"rich", "bare"}) : disk' = WithFile(i, Damaged)
      BY <2>2
    <3>2. i \in RecordIds /\ Damaged \in Files /\ Damaged.is # "rich"
      BY <1>0, Kinds DEF Holding, Files
    <3> QED BY <1>0, <2>1, <3>1, <3>2, PlainFile, RichShrinks
  <2>3. CASE disk' = WithIndex(<<>>)
    <3>1. disk'.file = disk.file
      BY <1>0, <2>3, NoList, IndexWritten
    <3> QED BY <1>0, <2>1, <3>1, RichShrinks DEF NoOutputBut
  <2> QED BY <1>13, <2>2, <2>3 DEF Damage
<1> QED
  BY <1>1, <1>2, <1>3, <1>4, <1>5, <1>6, <1>7, <1>8, <1>9, <1>10, <1>11, <1>12, <1>13 DEF HistNext

LEMMA RichBegin == HistInit => RichFits
<1> SUFFICES ASSUME HistInit PROVE RichFits
  OBVIOUS
<1>1. \A run : Outputs(run) = {}
  BY NoList DEF HistInit, Outputs, Holding, Used
<1>2. Cardinality({}) = 0 /\ MaxRich \in Nat
  BY FS_EmptySet, HistoryLimits
<1> QED BY <1>1, <1>2 DEF RichFits

(* A profile has at most one record with output above its limit, however      *)
(* often its limits could not be enforced, and whatever failed, crashed or    *)
(* was damaged meanwhile (store.go, enforceLimitsLocked before the write).    *)
THEOREM OutputIsBounded == HistSpec => []RichBounded
<1>1. RichFits => RichBounded
  BY DEF RichFits, RichBounded, Outputs
<1>2. HistInv /\ RichFits /\ [HistNext]_histVars => RichFits'
  BY RichStep
<1> QED BY <1>1, <1>2, RichBegin, HistoryHolds, PTL DEF HistSpec
=============================================================================
