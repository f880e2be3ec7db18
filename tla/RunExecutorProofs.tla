------------------------- MODULE RunExecutorProofs -------------------------
(***************************************************************************)
(* Proofs about RunExecutor, for every set of profiles, every plan and     *)
(* every bound.                                                            *)
(***************************************************************************)
EXTENDS RunExecutor, FiniteSetTheorems, WellFoundedInduction, TLAPS

-----------------------------------------------------------------------------
\* A plan is not empty.
LEMMA PlanLen == \A c \in Compounds : Len(Plan[c]) \in Nat \ {0}
BY PlanAssumption

\* The step ids of a compound run were handed out, so they are ids.
LEMMA StepsAreIds ==
  ASSUME IInv, NEW c \in Ids, coord[c] # "none", NEW r \in StepsOf(c)
  PROVE  r \in Ids /\ r \in Int /\ r > c /\ r <= nextRunSeq
<1>1. /\ ident[c].profile \in Compounds
      /\ c + Len(Plan[ident[c].profile]) <= nextRunSeq
  BY DEF IInv, CompoundShape
<1>2. nextRunSeq \in 0..MaxRuns
  BY DEF IInv, TypeOK
<1> QED BY <1>1, <1>2, PlanLen, BoundAssumption DEF StepsOf, Ids

\* The current step of a compound run is one of its steps.
LEMMA CurrentIsStep ==
  ASSUME IInv, NEW c \in Ids, coord[c] # "none"
  PROVE  /\ current[c] \in StepsOf(c)
         /\ current[c] \in Ids
         /\ StepProfile(c, current[c]) \in Profiles
<1>1. /\ ident[c].profile \in Compounds
      /\ current[c] \in StepsOf(c)
  BY DEF IInv, CompoundShape
<1>2. current[c] \in Ids
  BY <1>1, StepsAreIds
<1>3. current[c] - c \in 1..Len(Plan[ident[c].profile])
  BY <1>1, <1>2, PlanLen DEF StepsOf, Ids
<1>4. StepProfile(c, current[c]) \in Singles
  BY <1>1, <1>3, PlanAssumption DEF StepProfile
<1> QED BY <1>1, <1>2, <1>4 DEF Profiles

\* The records of the idle state are well typed.
LEMMA IdleRecords ==
  NoIdent \in RunIdentity /\ NoStop \in StopCall /\ NoDrain \in DrainCall
<1>1. NoIdent \in RunIdentity
  BY BoundAssumption DEF NoIdent, RunIdentity, Epochs
<1>2. NoStop \in StopCall
  BY BoundAssumption DEF NoStop, StopCall
<1>3. NoDrain \in DrainCall
  BY BoundAssumption DEF NoDrain, DrainCall, Epochs, DrainPcs
<1> QED BY <1>1, <1>2, <1>3

\* A stop by profile is an exact stop of one run instance.
LEMMA StopIsExact ==
  ASSUME IInv, NEW p \in Profiles, NEW s \in Stoppers, Stop(p, s)
  PROVE  \E r \in Ids : StopCompoundRead(s, r) \/ StopRunInstance(r)
<1>1. PICK rid \in ActiveOf(p) :
        LET target == IF Running(rid) /\ ~Ordinary(rid) THEN ident[rid].parent ELSE rid IN
        IF LiveComp(target) THEN StopCompoundRead(s, target) ELSE StopRunInstance(target)
  BY DEF Stop
<1>2. rid \in Ids
  BY DEF ActiveOf
<1>3. Running(rid) /\ ~Ordinary(rid) => ident[rid].parent \in Ids
  BY <1>2 DEF IInv, CoordinatorOwnsLeaf, Held
<1> QED BY <1>1, <1>2, <1>3

\* A block of ids that ends within the bound lies within it.
LEMMA BlockFits ==
  ASSUME NEW n \in 0..MaxRuns, NEW len \in Nat \ {0}, n + 1 + len <= MaxRuns
  PROVE  n + 1 + len \in 0..MaxRuns /\ n + 2 \in 0..MaxRuns
BY BoundAssumption

\* A failed launch keeps the types of what it changes.
LEMMA FailLaunchTypes ==
  ASSUME TypeOK, NEW r \in Ids, NEW res \in Outcomes, FailLaunch(r, res)
  PROVE  /\ phase' \in [Ids -> Phases]
         /\ ident' \in [Ids -> RunIdentity]
         /\ invalid' \in [Ids -> BOOLEAN]
         /\ coord' \in [Ids -> LivePcs \cup {"none", "done"}]
         /\ result' \in [Ids -> Outcomes]
         /\ UNCHANGED <<cancelled, current, stepState>>
BY IdleRecords DEF TypeOK, FailLaunch, Phases, LivePcs

\* Every step keeps the type invariant.
LEMMA TypeStep == IInv /\ [Next]_vars => TypeOK'
<1> SUFFICES ASSUME IInv, [Next]_vars PROVE TypeOK'
  OBVIOUS
<1> USE IdleRecords DEF IInv, TypeOK
<1>1. ASSUME NEW r \in Ids, RestartSignal(r) PROVE TypeOK'
  BY <1>1 DEF RestartSignal, SignalStop, RunningIds, Running, Phases, ResPhases, admissionVars, compVars, statusVars
<1>2. ASSUME NEW r \in Ids, RestartTargetExited(r) PROVE TypeOK'
  BY <1>2 DEF RestartTargetExited, Phases, ResPhases, admissionVars, compVars, statusVars
<1>3. ASSUME NEW r \in Ids, PreSpawnCheck(r) PROVE TypeOK'
  <2>1. CASE Invalidated(r)
    BY <1>3, <2>1, FailLaunchTypes DEF PreSpawnCheck, Outcomes, admissionVars, statusVars
  <2>2. CASE ~Invalidated(r)
    BY <1>3, <2>2 DEF PreSpawnCheck, Phases, ResPhases, admissionVars, compVars, statusVars
  <2> QED BY <2>1, <2>2
<1>4. ASSUME NEW r \in Ids, Spawn(r) PROVE TypeOK'
  BY <1>4 DEF Spawn, Phases, ResPhases, OsStates, admissionVars, compVars, statusVars
<1>5. ASSUME NEW r \in Ids, SpawnFails(r) PROVE TypeOK'
  BY <1>5, FailLaunchTypes DEF SpawnFails, Outcomes, admissionVars, statusVars
<1>6. ASSUME NEW r \in Ids, Promote(r) PROVE TypeOK'
  <2>1. /\ phase' \in [Ids -> Phases]
        /\ invalid' \in [Ids -> BOOLEAN]
    BY <1>6 DEF Promote, Phases, ResPhases
  <2>2. os' \in [Ids -> OsStates]
    BY <1>6 DEF Promote, ForceKill, OsStates
  <2>3. coord' \in [Ids -> LivePcs \cup {"none", "done"}]
    BY <1>6 DEF Promote, LivePcs
  <2> QED BY <1>6, <2>1, <2>2, <2>3 DEF Promote, admissionVars, statusVars
<1>7. ASSUME NEW r \in Ids, Reap(r) PROVE TypeOK'
  BY <1>7, FailLaunchTypes DEF Reap, Outcomes, OsStates, admissionVars, statusVars
<1>8. ASSUME NEW r \in Ids, Exit(r) PROVE TypeOK'
  BY <1>8 DEF Exit, OsStates, admissionVars, compVars, statusVars
<1>9. ASSUME NEW r \in Ids, Watchdog(r) PROVE TypeOK'
  BY <1>9 DEF Watchdog, ForceKill, OsStates, admissionVars, compVars, statusVars
<1>10. ASSUME NEW r \in Ids, WaitProcess(r) PROVE TypeOK'
  BY <1>10 DEF WaitProcess, Unregister, Retain, Newest2, Phases, OsStates, admissionVars, compVars
<1>11. ASSUME NEW c \in Ids, CompoundTop(c) PROVE TypeOK'
  BY <1>11 DEF CompoundTop, LoopEnds, LivePcs, Outcomes, admissionVars, launchVars, statusVars
<1>12. ASSUME NEW c \in Ids, CompoundMark(c) PROVE TypeOK'
  <2>1. PICK r \in StepsOf(c) : /\ current' = [current EXCEPT ![c] = r]
                               /\ stepState' = [stepState EXCEPT ![r] = "running"]
    BY <1>12 DEF CompoundMark
  <2>2. r \in Ids
    BY <1>12, StepsAreIds DEF CompoundMark
  <2> QED BY <1>12, <2>1, <2>2, BoundAssumption DEF CompoundMark, Ids, LivePcs, StepStates, admissionVars, launchVars, statusVars
<1>13. ASSUME NEW c \in Ids, CompoundAdmit(c) PROVE TypeOK'
  <2>1. current[c] \in Ids /\ StepProfile(c, current[c]) \in Profiles
    BY <1>13, CurrentIsStep DEF CompoundAdmit, LivePcs
  <2>2. [profile |-> StepProfile(c, current[c]), parent |-> c,
         epoch |-> ident[c].epoch, replaces |-> 0] \in RunIdentity
    BY <2>1, BoundAssumption DEF RunIdentity, Ids
  <2>3. ident' \in [Ids -> RunIdentity]
    BY <1>13, <2>2 DEF CompoundAdmit
  <2>4. /\ phase' \in [Ids -> Phases]
        /\ coord' \in [Ids -> LivePcs \cup {"none", "done"}]
        /\ result' \in [Ids -> Outcomes]
    BY <1>13 DEF CompoundAdmit, Phases, ResPhases, LivePcs, Outcomes
  <2> QED BY <1>13, <2>3, <2>4 DEF CompoundAdmit, admissionVars, statusVars
<1>14. ASSUME NEW c \in Ids, CompoundStarted(c) PROVE TypeOK'
  BY <1>14 DEF CompoundStarted, SignalStop, RunningIds, Running, LivePcs, admissionVars, compVars, statusVars
<1>15. ASSUME NEW c \in Ids, CompoundWait(c) PROVE TypeOK'
  <2>1. /\ phase' \in [Ids -> Phases]
        /\ stopped' \in [Ids -> BOOLEAN]
        /\ watched' \in [Ids -> BOOLEAN]
        /\ os' \in [Ids -> OsStates]
    BY <1>15 DEF CompoundWait, Unregister, Phases, OsStates
  <2>2. /\ coord' \in [Ids -> LivePcs \cup {"none", "done"}]
        /\ result' \in [Ids -> Outcomes]
    BY <1>15 DEF CompoundWait, ExitOutcomes, Outcomes, LivePcs
  <2> QED BY <1>15, <2>1, <2>2 DEF CompoundWait, admissionVars, statusVars
<1>16. ASSUME NEW c \in Ids, CompoundRecord(c) PROVE TypeOK'
  BY <1>16 DEF CompoundRecord, LivePcs, StepStates, Outcomes, admissionVars, launchVars, statusVars
<1>17. ASSUME NEW c \in Ids, FinishCompound(c) PROVE TypeOK'
  BY <1>17 DEF FinishCompound, Retain, Newest2, LivePcs, StepStates, admissionVars, launchVars
<1>18. ASSUME NEW s \in Stoppers, StopCompoundCancel(s) PROVE TypeOK'
  <2>1. [stopper[s] EXCEPT !.pc = "wait"] \in StopCall
    BY DEF StopCall
  <2> QED BY <1>18, <2>1 DEF StopCompoundCancel, SignalStop, admissionVars, statusVars
<1>19. ASSUME NEW s \in Stoppers, StopCompoundReturn(s) PROVE TypeOK'
  BY <1>19 DEF StopCompoundReturn, admissionVars, launchVars, compVars, statusVars
<1>20. ASSUME NEW d \in Drainers, StopAllBegin(d) PROVE TypeOK'
  <2>1. /\ [drain[d] EXCEPT !.pc = "clean"] \in DrainCall
        /\ \A procs, comps, resvs \in SUBSET Ids :
             [drain[d] EXCEPT !.pc = "signal", !.procs = procs,
                              !.comps = comps, !.resvs = resvs] \in DrainCall
    BY DEF DrainCall, DrainPcs
  <2>2. drain' \in [Drainers -> DrainCall]
    <3>1. \/ drain' = [drain EXCEPT ![d].pc = "clean"]
          \/ \E procs, comps, resvs \in SUBSET Ids :
               drain' = [drain EXCEPT ![d] = [@ EXCEPT !.pc = "signal", !.procs = procs,
                                                       !.comps = comps, !.resvs = resvs]]
      BY <1>20 DEF StopAllBegin, RunningIds
    <3>2. CASE drain' = [drain EXCEPT ![d].pc = "clean"]
      BY <3>2, <2>1
    <3>3. CASE \E procs, comps, resvs \in SUBSET Ids :
               drain' = [drain EXCEPT ![d] = [@ EXCEPT !.pc = "signal", !.procs = procs,
                                                       !.comps = comps, !.resvs = resvs]]
      <4>1. PICK procs, comps, resvs \in SUBSET Ids :
              drain' = [drain EXCEPT ![d] = [drain[d] EXCEPT !.pc = "signal", !.procs = procs,
                                                      !.comps = comps, !.resvs = resvs]]
        BY <3>3
      <4>2. [drain[d] EXCEPT !.pc = "signal", !.procs = procs,
                             !.comps = comps, !.resvs = resvs] \in DrainCall
        BY <2>1
      <4> QED BY <4>1, <4>2
    <3> QED BY <3>1, <3>2, <3>3
  <2>3. invalid' \in [Ids -> BOOLEAN] /\ stopped' \in [Ids -> BOOLEAN]
    BY <1>20 DEF StopAllBegin
  <2> QED BY <1>20, <2>2, <2>3 DEF StopAllBegin, admissionVars, compVars, statusVars
<1>21. ASSUME NEW d \in Drainers, StopAllSignal(d) PROVE TypeOK'
  <2>1. [drain[d] EXCEPT !.pc = "wait"] \in DrainCall
    BY DEF DrainCall, DrainPcs
  <2> QED BY <1>21, <2>1 DEF StopAllSignal, admissionVars, launchVars, statusVars
<1>22. ASSUME NEW d \in Drainers, StopAllKill(d) PROVE TypeOK'
  <2>1. [drain[d] EXCEPT !.pc = "killed"] \in DrainCall
    BY DEF DrainCall, DrainPcs
  <2> QED BY <1>22, <2>1 DEF StopAllKill, ForceKill, OsStates, admissionVars, compVars, statusVars
<1>23. ASSUME NEW d \in Drainers, StopAllDone(d) PROVE TypeOK'
  <2>1. [drain[d] EXCEPT !.pc = "clean", !.procs = {}, !.comps = {}, !.resvs = {}] \in DrainCall
    BY DEF DrainCall, DrainPcs
  <2> QED BY <1>23, <2>1 DEF StopAllDone, admissionVars, launchVars, compVars, statusVars
<1>24. ASSUME NEW d \in Drainers, StopAllTimeout(d) PROVE TypeOK'
  BY <1>24 DEF StopAllTimeout, admissionVars, launchVars, compVars, statusVars
<1>25. ASSUME NEW p \in Singles, NEW ep \in Epochs, Start(p, ep) PROVE TypeOK'
  <2>1. [profile |-> p, parent |-> 0, epoch |-> ep, replaces |-> 0] \in RunIdentity
    BY BoundAssumption DEF RunIdentity, Profiles
  <2>2. ident' \in [Ids -> RunIdentity] /\ phase' \in [Ids -> Phases]
    BY <1>25, <2>1 DEF Start, Phases, ResPhases
  <2>3. nextRunSeq' \in 0..MaxRuns
    BY <1>25, BoundAssumption DEF Start
  <2> QED BY <1>25, <2>2, <2>3 DEF Start, compVars, statusVars
<1>26. ASSUME NEW c \in Compounds, NEW ep \in Epochs, StartCompound(c, ep) PROVE TypeOK'
  <2>1. [profile |-> c, parent |-> 0, epoch |-> ep, replaces |-> 0] \in RunIdentity
    BY BoundAssumption DEF RunIdentity, Profiles
  <2>2. Len(Plan[c]) \in Nat \ {0}
    BY PlanLen
  <2>3. nextRunSeq' \in 0..MaxRuns /\ nextRunSeq + 2 \in 0..MaxRuns
    <3>1. /\ nextRunSeq + 1 + Len(Plan[c]) <= MaxRuns
          /\ nextRunSeq' = nextRunSeq + 1 + Len(Plan[c])
      BY <1>26 DEF StartCompound
    <3>2. nextRunSeq \in 0..MaxRuns
      OBVIOUS
    <3> QED BY <3>1, <3>2, <2>2, BlockFits
  <2>4. ident' \in [Ids -> RunIdentity]
    BY <1>26, <2>1 DEF StartCompound
  <2>5. /\ coord' \in [Ids -> LivePcs \cup {"none", "done"}]
        /\ stepState' \in [Ids -> StepStates \cup {"none"}]
    BY <1>26 DEF StartCompound, LivePcs, StepStates
  <2>6. current' \in [Ids -> 0..MaxRuns]
    <3>1. current' = [current EXCEPT ![nextRunSeq + 1] = nextRunSeq + 2]
      BY <1>26, BoundAssumption DEF StartCompound
    <3> QED BY <3>1, <2>3
  <2> QED BY <1>26, <2>3, <2>4, <2>5, <2>6 DEF StartCompound, statusVars
<1>27. ASSUME NEW t \in Ids, NEW ep \in Epochs, Restart(t, ep) PROVE TypeOK'
  <2>1. [profile |-> ident[t].profile, parent |-> 0, epoch |-> ep, replaces |-> t] \in RunIdentity
    <3>1. ident[t] \in RunIdentity
      OBVIOUS
    <3> QED BY <3>1, BoundAssumption DEF RunIdentity, Ids
  <2>2. ident' \in [Ids -> RunIdentity] /\ phase' \in [Ids -> Phases]
    BY <1>27, <2>1 DEF Restart, Phases, ResPhases
  <2>3. nextRunSeq' \in 0..MaxRuns
    BY <1>27, BoundAssumption DEF Restart
  <2> QED BY <1>27, <2>2, <2>3 DEF Restart, compVars, statusVars
<1>28. ASSUME NEW r \in Ids, StopRunInstance(r) PROVE TypeOK'
  BY <1>28 DEF StopRunInstance, SignalStop, RunningIds, Running, admissionVars, compVars, statusVars
<1>29. ASSUME NEW s \in Stoppers, NEW c \in Ids, StopCompoundRead(s, c) PROVE TypeOK'
  <2>1. [pc |-> "cancel", comp |-> c,
         leaf |-> IF current[c] \in RunningIds THEN current[c] ELSE 0] \in StopCall
    BY BoundAssumption DEF StopCall, Ids
  <2> QED BY <1>29, <2>1 DEF StopCompoundRead, admissionVars, launchVars, compVars, statusVars
<1>30. ASSUME NEW d \in Drainers, BeginDrain(d) PROVE TypeOK'
  <2>1. workspaceEpoch' \in Epochs
    BY <1>30, BoundAssumption DEF BeginDrain, Epochs
  <2>2. [drain[d] EXCEPT !.pc = "drained", !.epoch = workspaceEpoch'] \in DrainCall
    BY <2>1 DEF DrainCall, DrainPcs
  <2> QED BY <1>30, <2>1, <2>2 DEF BeginDrain, compVars, statusVars
<1>31. ASSUME NEW d \in Drainers, ClearTerminalStatuses(d) PROVE TypeOK'
  <2>1. [drain[d] EXCEPT !.pc = "cleared"] \in DrainCall
    BY DEF DrainCall, DrainPcs
  <2> QED BY <1>31, <2>1 DEF ClearTerminalStatuses, admissionVars, launchVars, compVars
<1>32. ASSUME NEW d \in Drainers, FinishSwitch(d) PROVE TypeOK'
  BY <1>32 DEF FinishSwitch, EndDrain, launchVars, compVars, statusVars
<1>33. ASSUME NEW d \in Drainers, SwitchLoadFails(d) PROVE TypeOK'
  BY <1>33 DEF SwitchLoadFails, admissionVars, launchVars, compVars, statusVars
<1>34. ASSUME NEW d \in Drainers, Reload(d) PROVE TypeOK'
  BY <1>34 DEF Reload, EndDrain, launchVars, compVars, statusVars
<1>35. CASE UNCHANGED vars
  BY <1>35 DEF vars, admissionVars, launchVars, compVars, statusVars
<1> QED
  BY <1>1, <1>2, <1>3, <1>4, <1>5, <1>6, <1>7, <1>8, <1>9, <1>10, <1>11, <1>12,
     <1>13, <1>14, <1>15, <1>16, <1>17, <1>18, <1>19, <1>20, <1>21, <1>22, <1>23, <1>24,
     <1>25, <1>26, <1>27, <1>28, <1>29, <1>30, <1>31, <1>32, <1>33, <1>34, <1>35, StopIsExact
  DEF Next, InternalNext, CallerNext, LaunchStep, CoordinatorStep, StopperStep, StopAllStep

-----------------------------------------------------------------------------
(***************************************************************************)
(* The kinds of step, seen through the variables that carry the safety     *)
(* properties.  Every other variable only records what is asked of a       *)
(* launch, and steps that change nothing else are quiet.                   *)
(***************************************************************************)
Quiet == UNCHANGED <<nextRunSeq, phase, ident, coord, current, result, stepState>>

\* A launch id is consumed and refused capacity.
Refused ==
  /\ nextRunSeq < MaxRuns
  /\ nextRunSeq' = nextRunSeq + 1
  /\ UNCHANGED <<phase, ident, coord, current, result, stepState>>

\* An ordinary launch of p, which replaces t unless t = 0, is reserved.
Entered(p, t, ep) ==
  /\ ~draining
  /\ nextRunSeq < MaxRuns
  /\ nextRunSeq' = nextRunSeq + 1
  /\ HasCapacity(nextRunSeq + 1, p, 0, t)
  /\ phase' = [phase EXCEPT ![nextRunSeq + 1] = IF t = 0 THEN "reserved" ELSE "restart"]
  /\ ident' = [ident EXCEPT ![nextRunSeq + 1] =
       [profile |-> p, parent |-> 0, epoch |-> ep, replaces |-> t]]
  /\ UNCHANGED <<coord, current, result, stepState>>

EnteredRestart(t, ep) ==
  /\ Running(t) /\ Ordinary(t)
  /\ \A r \in Ids : Reserved(r) => ident[r].replaces # t
  /\ Entered(ident[t].profile, t, ep)

\* A reservation moves on; once it may spawn, what it replaces has exited.
Advanced(r, ph) ==
  /\ Reserved(r)
  /\ phase' = [phase EXCEPT ![r] = ph]
  /\ ph \notin {"restart", "awaitexit"} => ident[r].replaces \notin RunningIds
  /\ UNCHANGED <<nextRunSeq, ident, coord, current, result, stepState>>

\* A reservation ends without a registered process.
Dropped(r) ==
  /\ Reserved(r)
  /\ phase' = [phase EXCEPT ![r] = "gone"]
  /\ ident' = [ident EXCEPT ![r] = NoIdent]
  /\ coord' = IF Ordinary(r) THEN coord
              ELSE [coord EXCEPT ![ident[r].parent] = "record"]
  /\ \/ Ordinary(r) /\ UNCHANGED result
     \/ ~Ordinary(r) /\ \E res \in Outcomes : result' = [result EXCEPT ![ident[r].parent] = res]
  /\ UNCHANGED <<nextRunSeq, current, stepState>>

Promoted(r) ==
  /\ ~draining
  /\ phase[r] = "spawned"
  /\ phase' = [phase EXCEPT ![r] = "running"]
  /\ coord' = IF Ordinary(r) THEN coord
              ELSE [coord EXCEPT ![ident[r].parent] = "started"]
  /\ UNCHANGED <<nextRunSeq, ident, current, result, stepState>>

\* An ordinary process is unregistered.
Left(r) ==
  /\ Running(r) /\ Ordinary(r)
  /\ phase' = [phase EXCEPT ![r] = "gone"]
  /\ UNCHANGED <<nextRunSeq, ident, coord, current, result, stepState>>

\* The coordinator unregisters its leaf.
LeafLeft(c) ==
  /\ coord[c] = "wait" /\ Running(current[c])
  /\ phase' = [phase EXCEPT ![current[c]] = "gone"]
  /\ ident' = [ident EXCEPT ![current[c]] = NoIdent]
  /\ coord' = [coord EXCEPT ![c] = "record"]
  /\ \E res \in Outcomes : result' = [result EXCEPT ![c] = res]
  /\ UNCHANGED <<nextRunSeq, current, stepState>>

\* The coordinator reserves its current step.
Admitted(c) ==
  /\ ~draining
  /\ coord[c] = "admit"
  /\ HasCapacity(current[c], StepProfile(c, current[c]), c, 0)
  /\ phase' = [phase EXCEPT ![current[c]] = "reserved"]
  /\ \E ep \in Epochs : ident' = [ident EXCEPT ![current[c]] =
       [profile |-> StepProfile(c, current[c]), parent |-> c, epoch |-> ep, replaces |-> 0]]
  /\ coord' = [coord EXCEPT ![c] = "launch"]
  /\ UNCHANGED <<nextRunSeq, current, result, stepState>>

\* The coordinator moves without touching a launch or a step.
Moved(c) ==
  /\ \/ /\ coord[c] = "top" /\ coord' = [coord EXCEPT ![c] = "finish"]
        /\ result' = [result EXCEPT ![c] = IF PlanExhausted(c) THEN "success" ELSE "stopped"]
     \/ /\ coord[c] = "top" /\ coord' = [coord EXCEPT ![c] = "mark"]
        /\ ~cancelled[c] /\ UNCHANGED result
     \/ /\ coord[c] = "admit" /\ coord' = [coord EXCEPT ![c] = "record"]
        /\ \E res \in Outcomes : result' = [result EXCEPT ![c] = res]
     \/ /\ coord[c] = "started" /\ coord' = [coord EXCEPT ![c] = "wait"]
        /\ UNCHANGED result
  /\ UNCHANGED <<nextRunSeq, phase, ident, current, stepState>>

Marked(c, r) ==
  /\ coord[c] = "mark"
  /\ r \in StepsOf(c) /\ stepState[r] = "pending"
  /\ \A q \in StepsOf(c) : stepState[q] = "pending" => r <= q
  /\ coord' = [coord EXCEPT ![c] = "admit"]
  /\ current' = [current EXCEPT ![c] = r]
  /\ stepState' = [stepState EXCEPT ![r] = "running"]
  /\ UNCHANGED <<nextRunSeq, phase, ident, result>>

Recorded(c, pc, res) ==
  /\ coord[c] = "record"
  /\ pc \in {"top", "finish"} /\ res \in Outcomes
  /\ res = result[c] /\ (pc = "top" <=> res = "success")
  /\ coord' = [coord EXCEPT ![c] = pc]
  /\ stepState' = [stepState EXCEPT ![current[c]] = res]
  /\ UNCHANGED <<nextRunSeq, phase, ident, current, result>>

Finished(c) ==
  /\ coord[c] = "finish"
  /\ coord' = [coord EXCEPT ![c] = "done"]
  /\ stepState' = [r \in Ids |-> IF r \in StepsOf(c) /\ stepState[r] = "pending"
                                THEN "skipped" ELSE stepState[r]]
  /\ UNCHANGED <<nextRunSeq, phase, ident, current, result>>

LaunchKind ==
  \/ Refused
  \/ \E p \in Singles, ep \in Epochs : Entered(p, 0, ep)
  \/ \E t \in Ids, ep \in Epochs : EnteredRestart(t, ep)
  \/ \E r \in Ids : Dropped(r) \/ Promoted(r) \/ Left(r)
  \/ \E r \in Ids, ph \in ResPhases : Advanced(r, ph)

\* The steps of the coordinator of c.
CoordinatorKind(c) ==
  \/ LeafLeft(c) \/ Admitted(c) \/ Moved(c) \/ Finished(c)
  \/ \E r \in Ids : Marked(c, r)
  \/ \E pc \in {"top", "finish"}, res \in Outcomes : Recorded(c, pc, res)

CompoundKind ==
  \/ \E c \in Compounds, ep \in Epochs : StartCompound(c, ep)
  \/ \E c \in Ids : CoordinatorKind(c)

Kind == Quiet \/ LaunchKind \/ CompoundKind

\* By the time a reservation may spawn, what it replaces is not registered.
LEMMA ReplacedIsGone ==
  ASSUME IInv, NEW r \in Ids, Reserved(r), phase[r] \notin {"restart", "awaitexit"}
  PROVE  ident[r].replaces \notin RunningIds
<1>1. 0 \notin RunningIds
  BY BoundAssumption DEF RunningIds, Ids
<1> QED BY <1>1 DEF IInv, ReplacementShape, Held, Reserved, Running, RunningIds

\* Every step is of one of the kinds.
LEMMA StepKinds == IInv /\ [Next]_vars => Kind
<1> SUFFICES ASSUME IInv, [Next]_vars PROVE Kind
  OBVIOUS
<1> USE DEF Kind
<1>1. ASSUME NEW r \in Ids, Exit(r) PROVE Quiet
  BY <1>1 DEF Quiet, Exit, admissionVars, compVars
<1>2. ASSUME NEW r \in Ids, Watchdog(r) PROVE Quiet
  BY <1>2 DEF Quiet, Watchdog, admissionVars, compVars
<1>3. ASSUME NEW s \in Stoppers, StopCompoundCancel(s) PROVE Quiet
  BY <1>3 DEF Quiet, StopCompoundCancel, admissionVars
<1>4. ASSUME NEW s \in Stoppers, StopCompoundReturn(s) PROVE Quiet
  BY <1>4 DEF Quiet, StopCompoundReturn, admissionVars, launchVars, compVars
<1>5. ASSUME NEW d \in Drainers, StopAllBegin(d) PROVE Quiet
  BY <1>5 DEF Quiet, StopAllBegin, admissionVars, compVars
<1>6. ASSUME NEW d \in Drainers, StopAllSignal(d) PROVE Quiet
  BY <1>6 DEF Quiet, StopAllSignal, admissionVars, launchVars
<1>7. ASSUME NEW d \in Drainers, StopAllKill(d) PROVE Quiet
  BY <1>7 DEF Quiet, StopAllKill, admissionVars, compVars
<1>8. ASSUME NEW d \in Drainers, StopAllDone(d) PROVE Quiet
  BY <1>8 DEF Quiet, StopAllDone, admissionVars, launchVars, compVars
<1>9. ASSUME NEW d \in Drainers, StopAllTimeout(d) PROVE Quiet
  BY <1>9 DEF Quiet, StopAllTimeout, admissionVars, launchVars, compVars
<1>10. ASSUME NEW p \in Profiles, NEW s \in Stoppers, Stop(p, s) PROVE Quiet
  BY <1>10, StopIsExact DEF Quiet, StopCompoundRead, StopRunInstance, admissionVars, launchVars, compVars
<1>11. ASSUME NEW r \in Ids, StopRunInstance(r) PROVE Quiet
  BY <1>11 DEF Quiet, StopRunInstance, admissionVars, compVars
<1>12. ASSUME NEW d \in Drainers, BeginDrain(d) PROVE Quiet
  BY <1>12 DEF Quiet, BeginDrain, compVars
<1>13. ASSUME NEW d \in Drainers, ClearTerminalStatuses(d) PROVE Quiet
  BY <1>13 DEF Quiet, ClearTerminalStatuses, admissionVars, launchVars, compVars
<1>14. ASSUME NEW d \in Drainers, FinishSwitch(d) PROVE Quiet
  BY <1>14 DEF Quiet, FinishSwitch, EndDrain, launchVars, compVars
<1>15. ASSUME NEW d \in Drainers, SwitchLoadFails(d) PROVE Quiet
  BY <1>15 DEF Quiet, SwitchLoadFails, admissionVars, launchVars, compVars
<1>16. ASSUME NEW d \in Drainers, Reload(d) PROVE Quiet
  BY <1>16 DEF Quiet, Reload, EndDrain, launchVars, compVars
<1>17. CASE UNCHANGED vars
  BY <1>17 DEF Quiet, vars, admissionVars, launchVars, compVars
<1>18. ASSUME NEW r \in Ids, RestartSignal(r) PROVE Kind
  <2>1. Advanced(r, "awaitexit")
    BY <1>18 DEF RestartSignal, Advanced, Reserved, ResPhases, admissionVars, compVars
  <2> QED BY <2>1 DEF LaunchKind, ResPhases
<1>19. ASSUME NEW r \in Ids, RestartTargetExited(r) PROVE Kind
  <2>1. Advanced(r, "reserved")
    BY <1>19 DEF RestartTargetExited, Advanced, Reserved, ResPhases, RunningIds, admissionVars, compVars
  <2> QED BY <2>1 DEF LaunchKind, ResPhases
<1>20. ASSUME NEW r \in Ids, PreSpawnCheck(r) PROVE Kind
  <2>1. CASE Invalidated(r)
    BY <1>20, <2>1 DEF PreSpawnCheck, FailLaunch, LaunchKind, Dropped, Outcomes, Reserved, ResPhases, admissionVars
  <2>2. CASE ~Invalidated(r)
    <3>1. Advanced(r, "spawning")
      BY <1>20, <2>2, ReplacedIsGone DEF PreSpawnCheck, Advanced, Reserved, ResPhases, admissionVars, compVars
    <3> QED BY <3>1 DEF LaunchKind, ResPhases
  <2> QED BY <2>1, <2>2
<1>21. ASSUME NEW r \in Ids, Spawn(r) PROVE Kind
  <2>1. Advanced(r, "spawned")
    BY <1>21, ReplacedIsGone DEF Spawn, Advanced, Reserved, ResPhases, admissionVars, compVars
  <2> QED BY <2>1 DEF LaunchKind, ResPhases
<1>22. ASSUME NEW r \in Ids, SpawnFails(r) PROVE Kind
  BY <1>22 DEF SpawnFails, FailLaunch, LaunchKind, Dropped, Outcomes, Reserved, ResPhases, admissionVars
<1>23. ASSUME NEW r \in Ids, Promote(r) PROVE Kind
  <2>1. CASE Invalidated(r)
    <3>1. Advanced(r, "reaping")
      BY <1>23, <2>1, ReplacedIsGone DEF Promote, Advanced, Reserved, ResPhases, admissionVars
    <3> QED BY <3>1 DEF LaunchKind, ResPhases
  <2>2. CASE ~Invalidated(r)
    BY <1>23, <2>2 DEF Promote, Invalidated, LaunchKind, Promoted, admissionVars
  <2> QED BY <2>1, <2>2
<1>24. ASSUME NEW r \in Ids, Reap(r) PROVE Kind
  BY <1>24 DEF Reap, FailLaunch, LaunchKind, Dropped, Outcomes, Reserved, ResPhases, admissionVars
<1>25. ASSUME NEW r \in Ids, WaitProcess(r) PROVE Kind
  BY <1>25 DEF WaitProcess, Unregister, LaunchKind, Left, admissionVars, compVars
<1>26. ASSUME NEW p \in Singles, NEW ep \in Epochs, Start(p, ep) PROVE Kind
  <2>1. Refused \/ Entered(p, 0, ep)
    BY <1>26 DEF Start, CheckAdmission, Refused, Entered, compVars
  <2> QED BY <2>1 DEF LaunchKind
<1>27. ASSUME NEW t \in Ids, NEW ep \in Epochs, Restart(t, ep) PROVE Kind
  <2>1. t # 0
    BY BoundAssumption DEF Ids
  <2>2. Refused \/ EnteredRestart(t, ep)
    BY <1>27, <2>1 DEF Restart, CheckAdmission, Refused, Entered, EnteredRestart, compVars
  <2> QED BY <2>2 DEF LaunchKind
<1>28. ASSUME NEW c \in Compounds, NEW ep \in Epochs, StartCompound(c, ep) PROVE Kind
  BY <1>28 DEF CompoundKind, CoordinatorKind
<1>29. ASSUME NEW c \in Ids, CompoundTop(c) PROVE Kind
  BY <1>29 DEF CompoundTop, LoopEnds, CompoundKind, CoordinatorKind, Moved, admissionVars, launchVars
<1>30. ASSUME NEW c \in Ids, CompoundMark(c) PROVE Kind
  <2>1. PICK r \in StepsOf(c) : Marked(c, r)
    BY <1>30 DEF CompoundMark, FirstPending, Marked, admissionVars, launchVars
  <2>2. r \in Ids
    BY <1>30, StepsAreIds DEF CompoundMark
  <2> QED BY <2>1, <2>2 DEF CompoundKind, CoordinatorKind
<1>31. ASSUME NEW c \in Ids, CompoundAdmit(c) PROVE Kind
  <2>1. ident[c].epoch \in Epochs
    BY DEF IInv, TypeOK, RunIdentity
  <2>2. Moved(c) \/ Admitted(c)
    BY <1>31, <2>1 DEF CompoundAdmit, CheckAdmission, Outcomes, Moved, Admitted, admissionVars
  <2> QED BY <2>2 DEF CompoundKind, CoordinatorKind
<1>32. ASSUME NEW c \in Ids, CompoundStarted(c) PROVE Kind
  BY <1>32 DEF CompoundStarted, CompoundKind, CoordinatorKind, Moved, admissionVars
<1>33. ASSUME NEW c \in Ids, CompoundWait(c) PROVE Kind
  BY <1>33 DEF CompoundWait, Unregister, ExitOutcomes, Outcomes, CompoundKind, CoordinatorKind, LeafLeft, admissionVars
<1>34. ASSUME NEW c \in Ids, CompoundRecord(c) PROVE Kind
  <2>1. result[c] \in Outcomes
    BY DEF IInv, TypeOK
  <2>2. Recorded(c, IF result[c] = "success" THEN "top" ELSE "finish", result[c])
    BY <1>34, <2>1 DEF CompoundRecord, Recorded, admissionVars, launchVars
  <2> QED BY <2>1, <2>2 DEF CompoundKind, CoordinatorKind
<1>35. ASSUME NEW c \in Ids, FinishCompound(c) PROVE Kind
  BY <1>35 DEF FinishCompound, CompoundKind, CoordinatorKind, Finished, admissionVars, launchVars
<1> QED
  BY <1>1, <1>2, <1>3, <1>4, <1>5, <1>6, <1>7, <1>8, <1>9, <1>10, <1>11, <1>12,
     <1>13, <1>14, <1>15, <1>16, <1>17, <1>18, <1>19, <1>20, <1>21, <1>22, <1>23, <1>24,
     <1>25, <1>26, <1>27, <1>28, <1>29, <1>30, <1>31, <1>32, <1>33, <1>34, <1>35
  DEF Next, InternalNext, CallerNext, LaunchStep, CoordinatorStep, StopperStep, StopAllStep


-----------------------------------------------------------------------------
\* Facts about the ids of compound runs.

\* No step belongs to two compound runs.
LEMMA StepsApart ==
  ASSUME IInv, NEW a \in Ids, NEW b \in Ids, coord[a] # "none", coord[b] # "none",
         NEW r \in StepsOf(a), r \in StepsOf(b)
  PROVE  a = b
<1>1. ASSUME NEW x \in Ids, NEW y \in Ids, coord[x] # "none", coord[y] # "none", x < y,
             r \in StepsOf(x), r \in StepsOf(y)
      PROVE  FALSE
  <2>1. y \notin StepsOf(x)
    BY <1>1 DEF IInv, CompoundShape
  <2>2. ident[x].profile \in Compounds
    BY <1>1 DEF IInv, CompoundShape
  <2>3. r > y /\ r \in Int
    BY <1>1, StepsAreIds
  <2> QED BY <1>1, <2>1, <2>2, <2>3, PlanLen DEF StepsOf, Ids
<1>2. a \in Int /\ b \in Int
  BY DEF Ids
<1> QED BY <1>1, <1>2

\* A launch in the map of reservations or processes is no compound run.
LEMMA HeldIsNoCompound ==
  ASSUME IInv, NEW r \in Ids, Held(r)
  PROVE  coord[r] = "none" /\ r <= nextRunSeq
<1>1. phase[r] # "none"
  BY DEF Held, Reserved, Running, ResPhases
<1> QED BY <1>1 DEF IInv, TypeOK, Fresh, CompoundShape, Ids

\* The next launch id is fresh.
LEMMA NextIsFresh ==
  ASSUME IInv, nextRunSeq < MaxRuns
  PROVE  /\ nextRunSeq + 1 \in Ids
         /\ phase[nextRunSeq + 1] = "none" /\ coord[nextRunSeq + 1] = "none"
         /\ \A c \in Ids : coord[c] # "none" => nextRunSeq + 1 \notin StepsOf(c)
<1>1. nextRunSeq \in 0..MaxRuns
  BY DEF IInv, TypeOK
<1>2. nextRunSeq + 1 \in Ids /\ nextRunSeq + 1 > nextRunSeq
  BY <1>1, BoundAssumption DEF Ids
<1> QED BY <1>1, <1>2, StepsAreIds DEF IInv, Fresh

\* The ids of a new compound run and its steps are fresh.
LEMMA BlockOfIds ==
  ASSUME IInv, NEW a \in Compounds, NEW ep \in Epochs, StartCompound(a, ep)
  PROVE  /\ nextRunSeq < MaxRuns
         /\ nextRunSeq' = nextRunSeq + 1 + Len(Plan[a])
         /\ nextRunSeq' > nextRunSeq /\ nextRunSeq + 2 <= nextRunSeq'
         /\ nextRunSeq' <= MaxRuns /\ nextRunSeq' \in Int
         /\ nextRunSeq <= nextRunSeq'
<1> DEFINE n == Len(Plan[a])
<1>1. /\ n \in Nat \ {0} /\ nextRunSeq' = nextRunSeq + 1 + n
      /\ nextRunSeq + 1 + n <= MaxRuns
  BY PlanLen DEF StartCompound
<1>2. nextRunSeq \in 0..MaxRuns
  BY DEF IInv, TypeOK
<1> HIDE DEF n
<1>3. /\ nextRunSeq < MaxRuns
      /\ nextRunSeq' > nextRunSeq /\ nextRunSeq + 2 <= nextRunSeq'
      /\ nextRunSeq' \in Int /\ nextRunSeq <= nextRunSeq'
  BY <1>1, <1>2, BoundAssumption
<1> QED BY <1>1, <1>3 DEF n

\* A coordinator touches its own place in the plan and its current step only.
LEMMA CoordinatorFrame ==
  ASSUME IInv, NEW c \in Ids, CoordinatorKind(c)
  PROVE  /\ LiveComp(c) /\ coord[c] # "none"
         /\ coord'[c] \in LivePcs \cup {"done"}
         /\ \A x \in Ids : x # c => coord'[x] = coord[x] /\ current'[x] = current[x]
         /\ \A x \in Ids : x # current[c] => phase'[x] = phase[x] /\ ident'[x] = ident[x]
         /\ \A x \in Ids : x \notin StepsOf(c) =>
              stepState'[x] = stepState[x] /\ phase'[x] = phase[x] /\ ident'[x] = ident[x]
         /\ nextRunSeq' = nextRunSeq
<1> USE DEF IInv, TypeOK, LiveComp, LivePcs
<1>0. coord[c] # "none" => current[c] \in StepsOf(c)
  BY CurrentIsStep
<1>1. CASE LeafLeft(c)
  BY <1>0, <1>1 DEF LeafLeft
<1>2. CASE Admitted(c)
  BY <1>0, <1>2 DEF Admitted
<1>3. CASE Moved(c)
  BY <1>0, <1>3 DEF Moved
<1>4. CASE Finished(c)
  BY <1>0, <1>4 DEF Finished
<1>5. CASE \E r \in Ids : Marked(c, r)
  BY <1>0, <1>5 DEF Marked
<1>6. CASE \E pc \in {"top", "finish"}, res \in Outcomes : Recorded(c, pc, res)
  BY <1>0, <1>6 DEF Recorded
<1> QED BY <1>1, <1>2, <1>3, <1>4, <1>5, <1>6 DEF CoordinatorKind

\* The launch a reservation or process of a compound run reports to.
LEMMA ParentIsLive ==
  ASSUME IInv, NEW r \in Ids, Held(r), ~Ordinary(r)
  PROVE  /\ ident[r].parent \in Ids /\ LiveComp(ident[r].parent)
         /\ current[ident[r].parent] = r /\ r \in StepsOf(ident[r].parent)
         /\ coord[ident[r].parent] # "none"
         /\ ident[r].parent <= nextRunSeq
<1>1. /\ ident[r].parent \in Ids /\ LiveComp(ident[r].parent)
      /\ coord[ident[r].parent] # "none"
      /\ current[ident[r].parent] = r
  BY DEF IInv, CoordinatorOwnsLeaf, LiveComp, LivePcs
<1>2. ident[r].parent <= nextRunSeq
  BY <1>1 DEF IInv, TypeOK, Fresh, Ids
<1> QED BY <1>1, <1>2, CurrentIsStep

\* Every id a step starts to use is at most the new launch sequence number:
\* nextRunInstanceIDLocked hands out increasing numbers.
LEMMA FreshStep == IInv /\ Kind => Fresh'
<1> SUFFICES ASSUME IInv, Kind PROVE Fresh'
  OBVIOUS
<1>0. /\ nextRunSeq \in 0..MaxRuns
      /\ \A r \in Ids : r > nextRunSeq => phase[r] = "none" /\ coord[r] = "none"
  BY DEF IInv, TypeOK, Fresh
<1>00. \A r \in Ids : r \in Int
  BY DEF Ids
<1>1. CASE Quiet
  BY <1>1, <1>0 DEF Quiet, Fresh
<1>2. CASE Refused
  BY <1>2, <1>0, <1>00 DEF Refused, Fresh
<1>3. ASSUME NEW p, NEW t, NEW ep \in Epochs, Entered(p, t, ep) PROVE Fresh'
  <2>1. \A x \in Ids : x > nextRunSeq' => x # nextRunSeq + 1 /\ x > nextRunSeq
    BY <1>3, <1>0, <1>00 DEF Entered
  <2>2. phase \in [Ids -> Phases]
    BY DEF IInv, TypeOK
  <2> QED BY <1>3, <1>0, <2>1, <2>2 DEF Entered, Fresh
<1>4. ASSUME NEW r \in Ids, Dropped(r) \/ Promoted(r) \/ Left(r) \/ \E ph \in ResPhases : Advanced(r, ph)
      PROVE  Fresh'
  <2>1. Held(r)
    BY <1>4 DEF Dropped, Promoted, Left, Advanced, Held, Reserved, ResPhases
  <2>2. \A x \in Ids : x > nextRunSeq => x # r
    BY <2>1, <1>0, <1>00, HeldIsNoCompound
  <2>3. \A x \in Ids : (x > nextRunSeq /\ ~Ordinary(r)) => x # ident[r].parent
    <3>1. ~Ordinary(r) => ident[r].parent <= nextRunSeq /\ ident[r].parent \in Ids
      BY <2>1, ParentIsLive
    <3> QED BY <3>1, <1>0, <1>00
  <2>4. \A x \in Ids : x # r => phase'[x] = phase[x]
    BY <1>4 DEF Dropped, Promoted, Left, Advanced, IInv, TypeOK
  <2>5. \A x \in Ids : Ordinary(r) \/ x # ident[r].parent => coord'[x] = coord[x]
    BY <1>4 DEF Dropped, Promoted, Left, Advanced, IInv, TypeOK
  <2>6. nextRunSeq' = nextRunSeq
    BY <1>4 DEF Dropped, Promoted, Left, Advanced
  <2> QED BY <1>0, <2>2, <2>3, <2>4, <2>5, <2>6 DEF Fresh
<1>5. ASSUME NEW c \in Compounds, NEW ep \in Epochs, StartCompound(c, ep) PROVE Fresh'
  <2>1. nextRunSeq' = nextRunSeq + 1 + Len(Plan[c]) /\ Len(Plan[c]) \in Nat
    BY <1>5, PlanLen DEF StartCompound
  <2>2. \A x \in Ids : x > nextRunSeq' => x # nextRunSeq + 1 /\ x > nextRunSeq
    <3> DEFINE n == Len(Plan[c])
    <3>1. n \in Nat /\ nextRunSeq' = nextRunSeq + 1 + n
      BY <2>1
    <3> HIDE DEF n
    <3> QED BY <3>1, <1>0, <1>00
  <2>3. coord \in [Ids -> LivePcs \cup {"none", "done"}]
    BY DEF IInv, TypeOK
  <2> QED BY <1>5, <1>0, <2>2, <2>3 DEF StartCompound, Fresh
<1>6. ASSUME NEW c \in Ids, CoordinatorKind(c) PROVE Fresh'
  <2>1. c <= nextRunSeq /\ current[c] <= nextRunSeq
    BY <1>6, <1>0, <1>00, CoordinatorFrame, CurrentIsStep, StepsAreIds
  <2>2. \A x \in Ids : x > nextRunSeq => x # c /\ x # current[c]
    BY <1>0, <1>00, <2>1
  <2> QED BY <1>0, <1>6, <2>2, CoordinatorFrame DEF Fresh
<1>7. CASE LaunchKind
  BY <1>2, <1>3, <1>4, <1>7 DEF LaunchKind, EnteredRestart
<1>8. CASE CompoundKind
  BY <1>5, <1>6, <1>8 DEF CompoundKind
<1> QED
  BY <1>1, <1>7, <1>8 DEF Kind

-----------------------------------------------------------------------------
\* What a step leaves alone.

\* A compound run that exists keeps its identity and with it its steps, and no
\* launch takes its id.
LEMMA CompoundStays ==
  ASSUME IInv, Kind, NEW c \in Ids, coord[c] # "none"
  PROVE  /\ coord'[c] # "none"
         /\ phase'[c] = "none"
         /\ ident'[c] = ident[c]
         /\ StepsOf(c)' = StepsOf(c)
<1>0. /\ phase \in [Ids -> Phases]
      /\ ident \in [Ids -> RunIdentity]
      /\ coord \in [Ids -> LivePcs \cup {"none", "done"}]
  BY DEF IInv, TypeOK
<1>1. phase[c] = "none"
  BY DEF IInv, CompoundShape
<1> DEFINE Stays == coord'[c] # "none" /\ phase'[c] = "none" /\ ident'[c] = ident[c]
<1>2. (Quiet => Stays) /\ (Refused => Stays)
  BY <1>1 DEF Quiet, Refused
<1>3. ASSUME NEW p, NEW t, NEW ep \in Epochs, Entered(p, t, ep) PROVE Stays
  BY <1>0, <1>1, <1>3, NextIsFresh DEF Entered
<1>4. ASSUME NEW r \in Ids, Dropped(r) \/ Promoted(r) \/ Left(r) \/ \E ph \in ResPhases : Advanced(r, ph)
      PROVE  Stays
  <2>1. Held(r)
    BY <1>4 DEF Dropped, Promoted, Left, Advanced, Held, Reserved, ResPhases
  <2>2. c # r
    BY <2>1, HeldIsNoCompound
  <2> QED BY <1>0, <1>1, <1>4, <2>2 DEF Dropped, Promoted, Left, Advanced
<1>5. ASSUME NEW a \in Compounds, NEW ep \in Epochs, StartCompound(a, ep) PROVE Stays
  <2>1. nextRunSeq < MaxRuns
    BY <1>5, BlockOfIds
  <2> QED BY <1>0, <1>1, <1>5, <2>1, NextIsFresh DEF StartCompound
<1>6. ASSUME NEW d \in Ids, CoordinatorKind(d) PROVE Stays
  <2>1. coord[d] # "none"
    BY <1>6, CoordinatorFrame
  <2>2. c # current[d]
    BY <2>1, CurrentIsStep DEF IInv, CompoundShape
  <2> QED BY <1>0, <1>1, <1>6, <2>2, CoordinatorFrame DEF LivePcs
<1>7. Stays
  BY <1>2, <1>3, <1>4, <1>5, <1>6 DEF Kind, LaunchKind, CompoundKind, EnteredRestart
<1> QED BY <1>7 DEF StepsOf

\* Only StartCompound makes a compound run.
LEMMA NewCompound ==
  ASSUME IInv, Kind, NEW c \in Ids, coord[c] = "none", coord'[c] # "none"
  PROVE  \E a \in Compounds, ep \in Epochs : StartCompound(a, ep) /\ c = nextRunSeq + 1
<1>0. coord \in [Ids -> LivePcs \cup {"none", "done"}]
  BY DEF IInv, TypeOK
<1>1. ~Quiet /\ ~Refused /\ ~\E p, t : \E ep \in Epochs : Entered(p, t, ep)
  BY DEF Quiet, Refused, Entered
<1>2. ASSUME NEW r \in Ids, Dropped(r) \/ Promoted(r) \/ Left(r) \/ \E ph \in ResPhases : Advanced(r, ph)
      PROVE  FALSE
  <2>1. Held(r)
    BY <1>2 DEF Dropped, Promoted, Left, Advanced, Held, Reserved, ResPhases
  <2>2. ~Ordinary(r) => c # ident[r].parent
    BY <2>1, ParentIsLive
  <2> QED BY <1>0, <1>2, <2>2 DEF Dropped, Promoted, Left, Advanced
<1>3. ASSUME NEW d \in Ids, CoordinatorKind(d) PROVE FALSE
  BY <1>3, CoordinatorFrame
<1>4. ASSUME NEW a \in Compounds, NEW ep \in Epochs, StartCompound(a, ep)
      PROVE  c = nextRunSeq + 1
  BY <1>0, <1>4 DEF StartCompound
<1> QED
  BY <1>1, <1>2, <1>3, <1>4 DEF Kind, LaunchKind, CompoundKind, EnteredRestart

\* The steps of a compound run keep their state, but for its own coordinator.
LEMMA CompoundShapeStep == IInv /\ Kind => CompoundShape'
<1> SUFFICES ASSUME IInv, Kind, NEW c \in Ids, coord'[c] # "none"
             PROVE  /\ phase'[c] = "none"
                    /\ ident'[c].profile \in Compounds
                    /\ current'[c] \in StepsOf(c)'
                    /\ c + Len(Plan[ident'[c].profile]) <= nextRunSeq'
                    /\ \A r \in StepsOf(c)' :
                         /\ coord'[r] = "none"
                         /\ stepState'[r] = "pending" => phase'[r] = "none"
                         /\ Held(r)' => ident'[r].parent = c
                    /\ coord'[c] = "admit" => phase'[current'[c]] = "none"
                    /\ coord'[c] \in {"admit", "launch", "started", "wait", "record"}
                         => stepState'[current'[c]] = "running"
  BY DEF CompoundShape
<1> DEFINE Owed ==
      /\ current'[c] \in StepsOf(c)
      /\ nextRunSeq' \in Int /\ nextRunSeq <= nextRunSeq'
      /\ \A r \in StepsOf(c) :
           /\ coord'[r] = "none"
           /\ stepState'[r] = "pending" => phase'[r] = "none"
           /\ Held(r)' => ident'[r].parent = c
      /\ coord'[c] = "admit" => phase'[current'[c]] = "none"
      /\ coord'[c] \in {"admit", "launch", "started", "wait", "record"}
           => stepState'[current'[c]] = "running"
<1>0. /\ phase \in [Ids -> Phases]
      /\ ident \in [Ids -> RunIdentity]
      /\ coord \in [Ids -> LivePcs \cup {"none", "done"}]
      /\ current \in [Ids -> 0..MaxRuns]
      /\ stepState \in [Ids -> StepStates \cup {"none"}]
      /\ nextRunSeq \in 0..MaxRuns
  BY DEF IInv, TypeOK
<1>1. CASE coord[c] # "none"
  <2>0. /\ ident[c].profile \in Compounds
        /\ current[c] \in StepsOf(c)
        /\ c + Len(Plan[ident[c].profile]) <= nextRunSeq
        /\ \A r \in StepsOf(c) : /\ r \in Ids
                                 /\ coord[r] = "none"
                                 /\ stepState[r] = "pending" => phase[r] = "none"
                                 /\ Held(r) => ident[r].parent = c
        /\ coord[c] = "admit" => phase[current[c]] = "none"
        /\ coord[c] \in {"admit", "launch", "started", "wait", "record"}
             => stepState[current[c]] = "running"
    BY <1>1, StepsAreIds DEF IInv, CompoundShape
  <2> USE DEF Held, Reserved, Running
  <2>1. Quiet => Owed
    BY <1>0, <2>0 DEF Quiet
  <2>2. Refused => Owed
    BY <1>0, <2>0 DEF Refused
  <2>3. ASSUME NEW p, NEW t, NEW ep \in Epochs, Entered(p, t, ep) PROVE Owed
    <3>1. nextRunSeq + 1 \notin StepsOf(c)
      BY <1>1, <2>3, NextIsFresh DEF Entered
    <3>2. \A x \in StepsOf(c) : phase'[x] = phase[x] /\ ident'[x] = ident[x]
      BY <1>0, <2>0, <2>3, <3>1 DEF Entered
    <3> QED BY <1>0, <2>0, <2>3, <3>2 DEF Entered
  <2>4. ASSUME NEW r \in Ids, Dropped(r) \/ Promoted(r) \/ Left(r) \/ \E ph \in ResPhases : Advanced(r, ph)
        PROVE  Owed
    <3>1. Held(r) /\ phase[r] # "none"
      BY <2>4 DEF Dropped, Promoted, Left, Advanced, Held, Reserved, Running, ResPhases
    <3>2. \A x \in Ids : x # r => phase'[x] = phase[x] /\ ident'[x] = ident[x]
      BY <1>0, <2>4 DEF Dropped, Promoted, Left, Advanced
    <3>7. Held(r)' => ident'[r] = ident[r]
      BY <1>0, <2>4 DEF Dropped, Promoted, Left, Advanced, ResPhases
    <3>3. \A x \in Ids : Ordinary(r) \/ x # ident[r].parent => coord'[x] = coord[x]
      BY <1>0, <2>4 DEF Dropped, Promoted, Left, Advanced
    <3>4. \A x \in Ids : coord'[x] = coord[x] \/ coord'[x] \in {"record", "started"}
      BY <1>0, <2>4 DEF Dropped, Promoted, Left, Advanced
    <3>5. ~Ordinary(r) => /\ coord[ident[r].parent] \in {"launch", "started", "wait"}
                          /\ ident[r].parent \in Ids
      BY <3>1 DEF IInv, CoordinatorOwnsLeaf
    <3>6. UNCHANGED <<nextRunSeq, current, stepState>>
      BY <2>4 DEF Dropped, Promoted, Left, Advanced
    <3> QED BY <1>0, <2>0, <3>1, <3>2, <3>3, <3>4, <3>5, <3>6, <3>7
  <2>5. ASSUME NEW a \in Compounds, NEW ep \in Epochs, StartCompound(a, ep) PROVE Owed
    <3>1. /\ nextRunSeq + 1 \in Ids /\ nextRunSeq + 1 # c /\ nextRunSeq + 1 \notin StepsOf(c)
      BY <1>1, <2>5, BlockOfIds, NextIsFresh
    <3>2. \A x \in StepsOf(c) : x \notin nextRunSeq + 1 + 1 .. nextRunSeq + 1 + Len(Plan[a])
      <4>1. \A x \in StepsOf(c) : x \in Int /\ x <= nextRunSeq
        BY <1>1, StepsAreIds
      <4>2. nextRunSeq \in Int
        BY <1>0
      <4> DEFINE last == nextRunSeq + 1 + Len(Plan[a])
      <4> HIDE DEF Owed, last
      <4>3. \A x \in StepsOf(c) : x \notin nextRunSeq + 1 + 1 .. last
        BY <4>1, <4>2
      <4> QED BY <4>3 DEF last
    <3>3. /\ coord'[c] = coord[c] /\ current'[c] = current[c] /\ UNCHANGED phase
          /\ \A x \in StepsOf(c) : coord'[x] = coord[x] /\ stepState'[x] = stepState[x] /\ ident'[x] = ident[x]
      BY <1>0, <2>0, <2>5, <3>1, <3>2 DEF StartCompound
    <3>4. nextRunSeq' \in Int /\ nextRunSeq <= nextRunSeq'
      BY <2>5, BlockOfIds
    <3> QED BY <2>0, <3>3, <3>4
  <2>6. ASSUME NEW d \in Ids, d # c, CoordinatorKind(d) PROVE Owed
    <3>1. coord[d] # "none"
      BY <2>6, CoordinatorFrame
    <3>2. \A x \in StepsOf(c) : x \notin StepsOf(d) /\ x # d
      BY <1>1, <2>0, <2>6, <3>1, StepsApart
    <3>3. /\ \A x \in StepsOf(c) : /\ coord'[x] = coord[x] /\ phase'[x] = phase[x]
                                   /\ stepState'[x] = stepState[x] /\ ident'[x] = ident[x]
          /\ coord'[c] = coord[c] /\ current'[c] = current[c]
          /\ nextRunSeq' = nextRunSeq
      BY <2>0, <2>6, <3>2, CoordinatorFrame
    <3> QED BY <1>0, <2>0, <3>3
  <2>7. ASSUME CoordinatorKind(c) PROVE Owed
    <3>1. c \notin StepsOf(c)
      BY <1>1, <2>0
    <3>2. CASE LeafLeft(c)
      BY <1>0, <2>0, <3>1, <3>2 DEF LeafLeft, ResPhases
    <3>3. CASE Admitted(c)
      BY <1>0, <2>0, <3>1, <3>3 DEF Admitted
    <3>4. CASE Moved(c)
      BY <1>0, <2>0, <3>1, <3>4 DEF Moved
    <3>5. CASE Finished(c)
      BY <1>0, <2>0, <3>1, <3>5 DEF Finished
    <3>6. CASE \E r \in Ids : Marked(c, r)
      BY <1>0, <2>0, <3>1, <3>6 DEF Marked
    <3>7. CASE \E pc \in {"top", "finish"}, res \in Outcomes : Recorded(c, pc, res)
      BY <1>0, <2>0, <3>1, <3>7 DEF Recorded, Outcomes
    <3> QED BY <2>7, <3>2, <3>3, <3>4, <3>5, <3>6, <3>7 DEF CoordinatorKind
  <2>8. Owed
    BY <2>1, <2>2, <2>3, <2>4, <2>5, <2>6, <2>7 DEF Kind, LaunchKind, CompoundKind, EnteredRestart
  <2>9. c + Len(Plan[ident[c].profile]) <= nextRunSeq'
    <3>1. Len(Plan[ident[c].profile]) \in Nat
      BY <2>0, PlanLen
    <3> HIDE DEF Owed
    <3>2. nextRunSeq' \in Int /\ nextRunSeq <= nextRunSeq'
      BY <2>8 DEF Owed
    <3> QED BY <1>0, <2>0, <3>1, <3>2 DEF Ids
  <2> QED BY <1>1, <2>0, <2>8, <2>9, CompoundStays
<1>2. CASE coord[c] = "none"
  <2>1. PICK a \in Compounds, ep \in Epochs : StartCompound(a, ep) /\ c = nextRunSeq + 1
    BY <1>2, NewCompound
  <2>2. /\ ident'[c].profile = a
        /\ current'[c] = c + 1
        /\ coord'[c] = "top"
        /\ phase' = phase
        /\ \A x \in Ids : x # c => coord'[x] = coord[x]
    BY <1>0, <2>1 DEF StartCompound
  <2>3. StepsOf(c)' = c + 1 .. c + Len(Plan[a])
    BY <2>2 DEF StepsOf
  <2>4. nextRunSeq' = c + Len(Plan[a]) /\ nextRunSeq' <= MaxRuns
    BY <2>1, BlockOfIds
  <2>5. \A x \in c + 1 .. c + Len(Plan[a]) : x \in Ids /\ x > nextRunSeq /\ x # c
    <3> DEFINE last == c + Len(Plan[a])
    <3>1. nextRunSeq \in Nat /\ c = nextRunSeq + 1
      BY <1>0, <2>1, BoundAssumption
    <3>2. last \in Int /\ last <= MaxRuns
      BY <2>4, <2>1, BlockOfIds
    <3> HIDE DEF Owed, last
    <3>3. \A x \in c + 1 .. last : x \in Ids /\ x > nextRunSeq /\ x # c
      BY <3>1, <3>2, BoundAssumption DEF Ids
    <3> QED BY <3>3 DEF last
  <2>6. c > nextRunSeq
    BY <1>0, <2>1
  <2>7. \A x \in Ids : x > nextRunSeq => phase[x] = "none" /\ coord[x] = "none"
    BY DEF IInv, Fresh
  <2>8. c + 1 \in c + 1 .. c + Len(Plan[a])
    <3>1. Len(Plan[a]) \in Nat \ {0}
      BY PlanLen
    <3> QED BY <3>1 DEF Ids
  <2>9. c + Len(Plan[a]) <= nextRunSeq'
    <3>1. Len(Plan[a]) \in Nat
      BY PlanLen
    <3> QED BY <2>4, <3>1 DEF Ids
  <2>10. \A x \in Ids : phase'[x] = "none" => ~Held(x)'
    BY DEF Held, Reserved, Running, ResPhases
  <2> QED BY <2>2, <2>3, <2>5, <2>6, <2>7, <2>8, <2>9, <2>10
<1> QED BY <1>1, <1>2

-----------------------------------------------------------------------------
\* Exact restarts.

\* The steps that change which launches are held, or what they are.
LEMMA LaunchCases ==
  ASSUME Kind
  PROVE  \/ UNCHANGED <<phase, ident>>
         \/ \E a \in Compounds, ep \in Epochs : StartCompound(a, ep)
         \/ \E p \in Singles, ep \in Epochs : Entered(p, 0, ep)
         \/ \E t \in Ids, ep \in Epochs : EnteredRestart(t, ep)
         \/ \E r \in Ids : Dropped(r) \/ Promoted(r) \/ Left(r)
         \/ \E r \in Ids, ph \in ResPhases : Advanced(r, ph)
         \/ \E c \in Ids : LeafLeft(c) \/ Admitted(c)
BY DEF Kind, LaunchKind, CompoundKind, CoordinatorKind, Quiet, Refused, Moved, Finished, Marked, Recorded

\* What an exact restart replaces stays running or gone, whatever step is taken:
\* its id is never handed out again and its done channel is waited for.
LEMMA ReplacementShapeStep == IInv /\ Kind => ReplacementShape'
<1> SUFFICES ASSUME IInv, Kind PROVE ReplacementShape'
  OBVIOUS
<1>0. /\ phase \in [Ids -> Phases]
      /\ ident \in [Ids -> RunIdentity]
      /\ ReplacementShape
  BY DEF IInv, TypeOK
<1>01. 0 \notin Ids
  BY DEF Ids
<1>02. \A r \in Ids : ident[r].replaces \in Ids \cup {0}
  BY <1>0, BoundAssumption DEF RunIdentity, Ids
<1> USE DEF ReplacementShape, Held, Reserved, Running, Ordinary, ResPhases
<1>1. CASE UNCHANGED <<phase, ident>>
  BY <1>0, <1>1
<1>2. ASSUME NEW a \in Compounds, NEW ep \in Epochs, StartCompound(a, ep) PROVE ReplacementShape'
  <2>1. nextRunSeq + 1 \in Ids /\ phase[nextRunSeq + 1] = "none"
    BY <1>2, BlockOfIds, NextIsFresh
  <2>2. phase' = phase /\ \A x \in Ids : x # nextRunSeq + 1 => ident'[x] = ident[x]
    BY <1>0, <1>2 DEF StartCompound
  <2> QED BY <1>0, <1>01, <1>02, <2>1, <2>2
<1>3. ASSUME NEW p \in Singles, NEW ep \in Epochs, Entered(p, 0, ep) PROVE ReplacementShape'
  <2>1. nextRunSeq + 1 \in Ids /\ phase[nextRunSeq + 1] = "none"
    BY <1>3, NextIsFresh DEF Entered
  <2> QED BY <1>0, <1>01, <1>02, <1>3, <2>1 DEF Entered
<1>4. ASSUME NEW t \in Ids, NEW ep \in Epochs, EnteredRestart(t, ep) PROVE ReplacementShape'
  <2>1. nextRunSeq + 1 \in Ids /\ phase[nextRunSeq + 1] = "none"
    BY <1>4, NextIsFresh DEF Entered, EnteredRestart
  <2>2. t # nextRunSeq + 1
    BY <1>4, <2>1 DEF EnteredRestart
  <2> QED BY <1>0, <1>01, <1>02, <1>4, <2>1, <2>2 DEF Entered, EnteredRestart
<1>5. ASSUME NEW r \in Ids, Dropped(r) PROVE ReplacementShape'
  BY <1>0, <1>01, <1>02, <1>5 DEF Dropped
<1>6. ASSUME NEW r \in Ids, Promoted(r) PROVE ReplacementShape'
  BY <1>0, <1>01, <1>02, <1>6 DEF Promoted
<1>7. ASSUME NEW r \in Ids, Left(r) PROVE ReplacementShape'
  BY <1>0, <1>01, <1>02, <1>7 DEF Left
<1>8. ASSUME NEW r \in Ids, NEW ph \in ResPhases, Advanced(r, ph) PROVE ReplacementShape'
  BY <1>0, <1>01, <1>02, <1>8 DEF Advanced, RunningIds
<1>9. ASSUME NEW c \in Ids, LeafLeft(c) PROVE ReplacementShape'
  <2>1. current[c] \in Ids
    BY <1>9, CurrentIsStep DEF LeafLeft
  <2> QED BY <1>0, <1>01, <1>02, <1>9, <2>1 DEF LeafLeft
<1>10. ASSUME NEW c \in Ids, Admitted(c) PROVE ReplacementShape'
  <2>1. current[c] \in Ids /\ phase[current[c]] = "none"
    BY <1>10, CurrentIsStep DEF Admitted, IInv, CompoundShape
  <2> QED BY <1>0, <1>01, <1>02, <1>10, <2>1 DEF Admitted
<1> QED
  BY <1>1, <1>2, <1>3, <1>4, <1>5, <1>6, <1>7, <1>8, <1>9, <1>10, LaunchCases

\* A target that has a pending replacement gets no second one: Restart looks at
\* every reservation, and no other step reserves a replacement.
LEMMA UniqueReplacementStep == IInv /\ Kind => UniqueReplacement'
<1> SUFFICES ASSUME IInv, Kind PROVE UniqueReplacement'
  OBVIOUS
<1>0. /\ phase \in [Ids -> Phases]
      /\ ident \in [Ids -> RunIdentity]
      /\ UniqueReplacement
  BY DEF IInv, TypeOK
<1> USE DEF UniqueReplacement, Reserved, Running, ResPhases
<1>1. CASE UNCHANGED <<phase, ident>>
  BY <1>0, <1>1
<1>2. ASSUME NEW a \in Compounds, NEW ep \in Epochs, StartCompound(a, ep) PROVE UniqueReplacement'
  <2>1. nextRunSeq + 1 \in Ids /\ phase[nextRunSeq + 1] = "none"
    BY <1>2, BlockOfIds, NextIsFresh
  <2>2. phase' = phase /\ \A x \in Ids : x # nextRunSeq + 1 => ident'[x] = ident[x]
    BY <1>0, <1>2 DEF StartCompound
  <2> QED BY <1>0, <2>1, <2>2
<1>3. ASSUME NEW p \in Singles, NEW ep \in Epochs, Entered(p, 0, ep) PROVE UniqueReplacement'
  BY <1>0, <1>3, NextIsFresh DEF Entered
<1>4. ASSUME NEW t \in Ids, NEW ep \in Epochs, EnteredRestart(t, ep) PROVE UniqueReplacement'
  BY <1>0, <1>4, NextIsFresh DEF Entered, EnteredRestart
<1>5. ASSUME NEW r \in Ids, Dropped(r) \/ Promoted(r) \/ Left(r) PROVE UniqueReplacement'
  BY <1>0, <1>5 DEF Dropped, Promoted, Left
<1>6. ASSUME NEW r \in Ids, NEW ph \in ResPhases, Advanced(r, ph) PROVE UniqueReplacement'
  BY <1>0, <1>6 DEF Advanced
<1>7. ASSUME NEW c \in Ids, LeafLeft(c) \/ Admitted(c) PROVE UniqueReplacement'
  <2>1. current[c] \in Ids
    BY <1>7, CurrentIsStep DEF LeafLeft, Admitted
  <2>2. CASE LeafLeft(c)
    BY <1>0, <2>1, <2>2 DEF LeafLeft, NoIdent
  <2>3. CASE Admitted(c)
    BY <1>0, <2>1, <2>3 DEF Admitted
  <2> QED BY <1>7, <2>2, <2>3
<1> QED
  BY <1>1, <1>2, <1>3, <1>4, <1>5, <1>6, <1>7, LaunchCases


-----------------------------------------------------------------------------
\* Compound steps and their coordinators.

\* A step's launch and its coordinator move together: whoever moves one of the
\* two moves the other in the same critical section.
LEMMA CoordinatorOwnsLeafStep == IInv /\ Kind => CoordinatorOwnsLeaf'
<1> SUFFICES ASSUME IInv, Kind, NEW r \in Ids, Held(r)', ~Ordinary(r)'
             PROVE  /\ ident'[r].parent \in Ids /\ r = current'[ident'[r].parent]
                    /\ stepState'[r] = "running"
                    /\ IF Running(r)' THEN coord'[ident'[r].parent] \in {"started", "wait"}
                       ELSE coord'[ident'[r].parent] = "launch"
  BY DEF CoordinatorOwnsLeaf
<1> DEFINE Owned ==
             /\ ident'[r].parent \in Ids /\ r = current'[ident'[r].parent]
             /\ stepState'[r] = "running"
             /\ IF Running(r)' THEN coord'[ident'[r].parent] \in {"started", "wait"}
                ELSE coord'[ident'[r].parent] = "launch"
<1>0. /\ phase \in [Ids -> Phases]
      /\ ident \in [Ids -> RunIdentity]
      /\ coord \in [Ids -> LivePcs \cup {"none", "done"}]
      /\ current \in [Ids -> 0..MaxRuns]
      /\ stepState \in [Ids -> StepStates \cup {"none"}]
  BY DEF IInv, TypeOK
\* What the invariant says of a leaf that was held before the step.
<1>1. ASSUME Held(r), ~Ordinary(r)
      PROVE  /\ ident[r].parent \in Ids /\ r = current[ident[r].parent]
             /\ r \in StepsOf(ident[r].parent)
             /\ coord[r] = "none" /\ coord[ident[r].parent] # "none"
             /\ stepState[r] = "running" /\ r <= nextRunSeq
             /\ IF Running(r) THEN coord[ident[r].parent] \in {"started", "wait"}
                ELSE coord[ident[r].parent] = "launch"
  BY <1>1, ParentIsLive, HeldIsNoCompound DEF IInv, CoordinatorOwnsLeaf
<1> USE DEF Held, Reserved, Running, Ordinary, ResPhases
<1>2. Quiet \/ Refused => Owned
  BY <1>0, <1>1 DEF Quiet, Refused
<1>3. ASSUME NEW p, NEW t, NEW ep \in Epochs, Entered(p, t, ep) PROVE Owned
  <2>1. nextRunSeq + 1 \in Ids
    BY <1>3, NextIsFresh DEF Entered
  <2> QED BY <1>0, <1>1, <1>3, <2>1 DEF Entered
<1>4. ASSUME NEW x \in Ids, Dropped(x) PROVE Owned
  <2>1. r # x
    BY <1>0, <1>4 DEF Dropped, NoIdent
  <2>2. Held(r) /\ ~Ordinary(r)
    BY <1>0, <1>4, <2>1 DEF Dropped
  <2>3. ~Ordinary(x) => ident[x].parent # ident[r].parent
    BY <1>1, <2>1, <2>2, <1>4, ParentIsLive DEF Dropped
  <2> QED BY <1>0, <1>1, <1>4, <2>1, <2>2, <2>3 DEF Dropped
<1>5. ASSUME NEW x \in Ids, Promoted(x) PROVE Owned
  <2>1. Held(r) /\ ~Ordinary(r)
    BY <1>0, <1>5 DEF Promoted
  <2>2. (x # r /\ ~Ordinary(x)) => ident[x].parent # ident[r].parent
    BY <1>1, <2>1, <1>5, ParentIsLive DEF Promoted
  <2> QED BY <1>0, <1>1, <1>5, <2>1, <2>2 DEF Promoted
<1>6. ASSUME NEW x \in Ids, Left(x) PROVE Owned
  BY <1>0, <1>1, <1>6 DEF Left
<1>7. ASSUME NEW x \in Ids, NEW ph \in ResPhases, Advanced(x, ph) PROVE Owned
  BY <1>0, <1>1, <1>7 DEF Advanced
<1>8. ASSUME NEW a \in Compounds, NEW ep \in Epochs, StartCompound(a, ep) PROVE Owned
  <2>1. /\ nextRunSeq + 1 \in Ids /\ phase[nextRunSeq + 1] = "none"
        /\ coord[nextRunSeq + 1] = "none"
    BY <1>8, BlockOfIds, NextIsFresh
  <2>2. r # nextRunSeq + 1
    BY <1>8, <2>1 DEF StartCompound
  <2>3. Held(r) /\ ~Ordinary(r)
    BY <1>0, <1>8, <2>2 DEF StartCompound
  <2>4. r \notin nextRunSeq + 1 + 1 .. nextRunSeq + 1 + Len(Plan[a])
    <3>1. r <= nextRunSeq /\ r \in Int /\ nextRunSeq \in Int
      BY <1>1, <2>3 DEF IInv, TypeOK, Ids
    <3> DEFINE last == nextRunSeq + 1 + Len(Plan[a])
    <3> HIDE DEF last, Owned
    <3>2. r \notin nextRunSeq + 1 + 1 .. last
      BY <3>1
    <3> QED BY <3>2 DEF last
  <2> QED BY <1>0, <1>1, <1>8, <2>1, <2>2, <2>3, <2>4 DEF StartCompound
<1>9. ASSUME NEW d \in Ids, CoordinatorKind(d) PROVE Owned
  <2>1. /\ current[d] \in Ids /\ current[d] \in StepsOf(d) /\ coord[d] # "none"
    BY <1>9, CoordinatorFrame, CurrentIsStep
  <2>2. CASE r # current[d]
    <3>1. Held(r) /\ ~Ordinary(r)
      BY <1>9, <2>2, CoordinatorFrame
    <3>2. ident[r].parent # d /\ r \notin StepsOf(d)
      BY <1>1, <2>1, <2>2, <3>1, StepsApart
    <3>3. /\ ident'[r] = ident[r] /\ phase'[r] = phase[r] /\ stepState'[r] = stepState[r]
          /\ coord'[ident[r].parent] = coord[ident[r].parent]
          /\ current'[ident[r].parent] = current[ident[r].parent]
      BY <1>1, <1>9, <3>1, <3>2, CoordinatorFrame
    <3> QED BY <1>1, <3>1, <3>3
  <2>3. CASE r = current[d]
    <3>0. (Held(r) /\ ~Ordinary(r)) => ident[r].parent = d
      BY <1>1, <2>1, <2>3, StepsApart
    <3>1. CASE LeafLeft(d)
      BY <1>0, <2>1, <2>3, <3>1 DEF LeafLeft, NoIdent
    <3>2. CASE Admitted(d)
      <4>1. stepState[r] = "running"
        BY <2>3, <3>2 DEF IInv, CompoundShape, Admitted
      <4> QED BY <1>0, <2>1, <2>3, <3>2, <4>1 DEF Admitted
    <3>3. CASE Moved(d)
      BY <1>0, <1>1, <3>0, <3>3 DEF Moved
    <3>4. CASE Finished(d)
      BY <1>0, <1>1, <3>0, <3>4 DEF Finished
    <3>5. CASE \E x \in Ids : Marked(d, x)
      BY <1>0, <1>1, <3>0, <3>5 DEF Marked
    <3>6. CASE \E pc \in {"top", "finish"}, res \in Outcomes : Recorded(d, pc, res)
      BY <1>0, <1>1, <3>0, <3>6 DEF Recorded
    <3> QED BY <1>9, <3>1, <3>2, <3>3, <3>4, <3>5, <3>6 DEF CoordinatorKind
  <2> QED BY <2>2, <2>3
<1> QED
  BY <1>2, <1>3, <1>4, <1>5, <1>6, <1>7, <1>8, <1>9
  DEF Kind, LaunchKind, CompoundKind, EnteredRestart


-----------------------------------------------------------------------------
\* Mutual exclusion of profiles.

\* Only admission lets two launches of one profile meet, and it refuses them
\* unless both are ordinary (reserveProcessCapacityLocked).
LEMMA StepExclusiveStep == IInv /\ Kind => StepExclusive'
<1> SUFFICES ASSUME IInv, Kind PROVE StepExclusive'
  OBVIOUS
<1>0. /\ phase \in [Ids -> Phases]
      /\ ident \in [Ids -> RunIdentity]
      /\ StepExclusive
  BY DEF IInv, TypeOK
<1> USE DEF StepExclusive, Held, Reserved, Running, Ordinary, ResPhases
<1>1. CASE UNCHANGED <<phase, ident>>
  BY <1>0, <1>1
<1>2. ASSUME NEW a \in Compounds, NEW ep \in Epochs, StartCompound(a, ep) PROVE StepExclusive'
  <2>1. nextRunSeq + 1 \in Ids /\ phase[nextRunSeq + 1] = "none"
    BY <1>2, BlockOfIds, NextIsFresh
  <2>2. phase' = phase /\ \A x \in Ids : x # nextRunSeq + 1 => ident'[x] = ident[x]
    BY <1>0, <1>2 DEF StartCompound
  <2> QED BY <1>0, <2>1, <2>2
<1>3. ASSUME NEW p, NEW t, NEW ep \in Epochs, Entered(p, t, ep),
             t \in Ids => Ordinary(t)
      PROVE  StepExclusive'
  <2>1. nextRunSeq + 1 \in Ids /\ phase[nextRunSeq + 1] = "none"
    BY <1>3, NextIsFresh DEF Entered
  <2>2. \A x \in Ids : (Held(x) /\ ident[x].profile = p) => Ordinary(x)
    BY <1>3 DEF Entered, HasCapacity, RunningOf, PendingOf
  <2> QED BY <1>0, <1>3, <2>1, <2>2 DEF Entered
<1>4. ASSUME NEW r \in Ids, Dropped(r) PROVE StepExclusive'
  BY <1>0, <1>4 DEF Dropped
<1>5. ASSUME NEW r \in Ids, Promoted(r) \/ Left(r) PROVE StepExclusive'
  BY <1>0, <1>5 DEF Promoted, Left
<1>6. ASSUME NEW r \in Ids, NEW ph \in ResPhases, Advanced(r, ph) PROVE StepExclusive'
  BY <1>0, <1>6 DEF Advanced
<1>7. ASSUME NEW c \in Ids, LeafLeft(c) PROVE StepExclusive'
  BY <1>0, <1>7, CurrentIsStep DEF LeafLeft
<1>8. ASSUME NEW c \in Ids, Admitted(c) PROVE StepExclusive'
  <2>1. current[c] \in Ids
    BY <1>8, CurrentIsStep DEF Admitted
  <2>2. c # 0
    BY DEF Ids
  <2>3. \A x \in Ids : Held(x) => ident[x].profile # StepProfile(c, current[c])
    <3>1. 0 \notin Ids
      BY DEF Ids
    <3> QED BY <1>8, <2>2, <3>1 DEF Admitted, HasCapacity, RunningOf, PendingOf
  <2> QED BY <1>0, <1>8, <2>1, <2>3 DEF Admitted
<1>9. 0 \notin Ids
  BY DEF Ids
<1> QED
  BY <1>1, <1>2, <1>3, <1>4, <1>5, <1>6, <1>7, <1>8, <1>9, LaunchCases DEF EnteredRestart

\* A coordinator that is live after a step was live before it, or is new.
LEMMA LiveBefore ==
  ASSUME IInv, Kind, NEW c \in Ids, LiveComp(c)'
  PROVE  \/ LiveComp(c) /\ ident'[c] = ident[c]
         \/ \E a \in Compounds, ep \in Epochs : StartCompound(a, ep) /\ c = nextRunSeq + 1
<1>0. coord \in [Ids -> LivePcs \cup {"none", "done"}]
  BY DEF IInv, TypeOK
<1>1. coord'[c] # "none"
  BY DEF LiveComp, LivePcs
<1>2. CASE coord[c] = "none"
  BY <1>1, <1>2, NewCompound
<1>3. CASE coord[c] # "none"
  <2>1. ident'[c] = ident[c]
    BY <1>3, CompoundStays
  <2>2. Quiet \/ Refused \/ (\E p, t : \E ep \in Epochs : Entered(p, t, ep)) => LiveComp(c)
    BY DEF Quiet, Refused, Entered, LiveComp
  <2>3. ASSUME NEW r \in Ids, Dropped(r) \/ Promoted(r) \/ Left(r) \/ \E ph \in ResPhases : Advanced(r, ph)
        PROVE  LiveComp(c)
    <3>1. Held(r)
      BY <2>3 DEF Dropped, Promoted, Left, Advanced, Held, Reserved, ResPhases
    <3>2. (~Ordinary(r) /\ c = ident[r].parent) => LiveComp(c)
      BY <3>1, ParentIsLive
    <3> QED BY <1>0, <2>3, <3>2 DEF Dropped, Promoted, Left, Advanced, LiveComp
  <2>4. ASSUME NEW d \in Ids, CoordinatorKind(d) PROVE LiveComp(c)
    BY <2>4, CoordinatorFrame DEF LiveComp
  <2>5. ASSUME NEW a \in Compounds, NEW ep \in Epochs, StartCompound(a, ep) PROVE LiveComp(c)
    <3>1. c # nextRunSeq + 1
      BY <1>3, <2>5, BlockOfIds, NextIsFresh
    <3> QED BY <1>0, <2>5, <3>1 DEF StartCompound, LiveComp
  <2> QED
    BY <2>1, <2>2, <2>3, <2>4, <2>5 DEF Kind, LaunchKind, CompoundKind, EnteredRestart
<1> QED BY <1>2, <1>3

\* A launch held after a step was held before it, or was just admitted.
LEMMA HeldBefore ==
  ASSUME IInv, Kind, NEW r \in Ids, Held(r)'
  PROVE  \/ Held(r) /\ ident'[r] = ident[r]
         \/ \E t : HasCapacity(r, ident'[r].profile, 0, t) /\ UNCHANGED coord
         \/ \E c \in Ids : /\ HasCapacity(r, ident'[r].profile, c, 0)
                           /\ CoordinatorKind(c)
<1>0. /\ phase \in [Ids -> Phases]
      /\ ident \in [Ids -> RunIdentity]
  BY DEF IInv, TypeOK
<1> USE DEF Held, Reserved, Running, ResPhases
<1>1. CASE UNCHANGED <<phase, ident>>
  BY <1>0, <1>1
<1>2. ASSUME NEW a \in Compounds, NEW ep \in Epochs, StartCompound(a, ep)
      PROVE  Held(r) /\ ident'[r] = ident[r]
  <2>1. phase[nextRunSeq + 1] = "none" /\ phase' = phase
    BY <1>2, BlockOfIds, NextIsFresh DEF StartCompound
  <2> QED BY <1>0, <1>2, <2>1 DEF StartCompound
<1>3. ASSUME NEW p, NEW t, NEW ep \in Epochs, Entered(p, t, ep), r # nextRunSeq + 1
      PROVE  Held(r) /\ ident'[r] = ident[r]
  BY <1>0, <1>3 DEF Entered
<1>4. ASSUME NEW p, NEW t, NEW ep \in Epochs, Entered(p, t, ep), r = nextRunSeq + 1
      PROVE  HasCapacity(r, ident'[r].profile, 0, t) /\ UNCHANGED coord
  BY <1>0, <1>4 DEF Entered
<1>5. ASSUME NEW x \in Ids, Dropped(x) PROVE Held(r) /\ ident'[r] = ident[r]
  BY <1>0, <1>5 DEF Dropped
<1>6. ASSUME NEW x \in Ids, Promoted(x) \/ Left(x) PROVE Held(r) /\ ident'[r] = ident[r]
  BY <1>0, <1>6 DEF Promoted, Left
<1>7. ASSUME NEW x \in Ids, NEW ph \in ResPhases, Advanced(x, ph) PROVE Held(r) /\ ident'[r] = ident[r]
  BY <1>0, <1>7 DEF Advanced
<1>8. ASSUME NEW c \in Ids, LeafLeft(c) PROVE Held(r) /\ ident'[r] = ident[r]
  BY <1>0, <1>8, CurrentIsStep DEF LeafLeft
<1>9. ASSUME NEW c \in Ids, Admitted(c), r # current[c] PROVE Held(r) /\ ident'[r] = ident[r]
  BY <1>0, <1>9, CurrentIsStep DEF Admitted
<1>10. ASSUME NEW c \in Ids, Admitted(c), r = current[c]
       PROVE  HasCapacity(r, ident'[r].profile, c, 0) /\ CoordinatorKind(c)
  <2>1. ident'[r].profile = StepProfile(c, current[c])
    BY <1>0, <1>10 DEF Admitted
  <2> QED BY <1>10, <2>1 DEF Admitted, CoordinatorKind
<1> QED
  BY <1>1, <1>2, <1>3, <1>4, <1>5, <1>6, <1>7, <1>8, <1>9, <1>10, LaunchCases DEF EnteredRestart

\* A profile is not admitted as a compound while held as a single, nor as a
\* single while live as a compound.
LEMMA AggregateExclusiveStep == IInv /\ Kind => AggregateExclusive'
<1> SUFFICES ASSUME IInv, Kind, NEW a \in Ids, NEW b \in Ids, a # b, LiveComp(a)',
                    ident'[a].profile = ident'[b].profile
             PROVE  ~Held(b)' /\ ~LiveComp(b)'
  BY DEF AggregateExclusive
<1>0. /\ ident \in [Ids -> RunIdentity]
      /\ AggregateExclusive
  BY DEF IInv, TypeOK
<1>1. CASE LiveComp(a) /\ ident'[a] = ident[a]
  <2>1. ASSUME LiveComp(b)' PROVE FALSE
    <3>1. CASE LiveComp(b) /\ ident'[b] = ident[b]
      BY <1>0, <1>1, <3>1 DEF AggregateExclusive
    <3>2. ASSUME NEW p \in Compounds, NEW ep \in Epochs, StartCompound(p, ep), b = nextRunSeq + 1
          PROVE  FALSE
      <4>1. ident'[b].profile = p /\ ActiveOf(p) = {}
        BY <1>0, <3>2 DEF StartCompound
      <4> QED BY <1>1, <4>1 DEF ActiveOf
    <3> QED BY <2>1, <3>1, <3>2, LiveBefore
  <2>2. ASSUME Held(b)' PROVE FALSE
    <3>1. CASE Held(b) /\ ident'[b] = ident[b]
      BY <1>0, <1>1, <3>1 DEF AggregateExclusive
    <3>2. ASSUME NEW t, NEW c, HasCapacity(b, ident'[b].profile, c, t) PROVE FALSE
      BY <1>1, <3>2 DEF HasCapacity
    <3> QED BY <2>2, <3>1, <3>2, HeldBefore
  <2> QED BY <2>1, <2>2
<1>2. ASSUME NEW p \in Compounds, NEW ep \in Epochs, StartCompound(p, ep), a = nextRunSeq + 1
      PROVE  ~Held(b)' /\ ~LiveComp(b)'
  <2>1. /\ ident'[a].profile = p /\ ActiveOf(p) = {} /\ PendingOf(p) = {}
        /\ phase' = phase /\ coord'[b] = coord[b] /\ ident'[b] = ident[b]
    <3>1. coord \in [Ids -> LivePcs \cup {"none", "done"}]
      BY DEF IInv, TypeOK
    <3> QED BY <1>0, <1>2, <3>1 DEF StartCompound
  <2> QED BY <2>1 DEF ActiveOf, PendingOf, Held, Reserved, Running, LiveComp
<1> QED BY <1>1, <1>2, LiveBefore


-----------------------------------------------------------------------------
\* Capacity.

\* Two elements of a set with fewer than two are the same.
LEMMA FewerThanTwo ==
  ASSUME NEW S, IsFiniteSet(S), Cardinality(S) < 2, NEW a \in S, NEW b \in S
  PROVE  a = b
<1> SUFFICES ASSUME a # b PROVE FALSE
  OBVIOUS
<1>1. /\ IsFiniteSet(S \ {a})
      /\ Cardinality(S \ {a}) = Cardinality(S) - 1
  BY FS_RemoveElement
<1>2. /\ IsFiniteSet((S \ {a}) \ {b})
      /\ Cardinality((S \ {a}) \ {b}) = Cardinality(S \ {a}) - 1
  BY <1>1, FS_RemoveElement
<1>3. Cardinality(S) \in Nat /\ Cardinality((S \ {a}) \ {b}) \in Nat
  BY <1>2, FS_CardinalityType
<1> QED
  BY <1>1, <1>2, <1>3

\* Capacity for an ordinary launch that replaces nothing means that at most one
\* launch owns a slot.
LEMMA OneOwner ==
  ASSUME NEW id, NEW p, HasCapacity(id, p, 0, 0), NEW a \in Owners(p), NEW b \in Owners(p)
  PROVE  a = b
<1>1. IsFiniteSet(Ids)
  BY BoundAssumption, FS_Interval DEF Ids
<1>2. SlotsOf(p, 0) \subseteq Ids
  BY DEF SlotsOf, RunningOf, PendingOf
<1>3. IsFiniteSet(SlotsOf(p, 0))
  BY <1>1, <1>2, FS_Subset
<1>4. Owners(p) \subseteq SlotsOf(p, 0)
  <2>1. 0 \notin Ids
    BY DEF Ids
  <2> QED BY <2>1 DEF Owners, SlotsOf, RunningOf, PendingOf, RunningIds
<1>5. Cardinality(SlotsOf(p, 0)) < 2
  BY DEF HasCapacity
<1> HIDE DEF SlotsOf
<1> QED BY <1>3, <1>4, <1>5, FewerThanTwo

\* A new owner of a slot was counted against the owners before it; an exit that
\* turns a replacement into an owner takes the exited owner away.
LEMMA ProfileCapacityStep == IInv /\ Kind => ProfileCapacity'
<1> SUFFICES ASSUME IInv, Kind, NEW p \in Profiles PROVE
               \A a, b, e \in Owners(p)' : a = b \/ b = e \/ a = e
  BY DEF ProfileCapacity
<1>0. /\ phase \in [Ids -> Phases]
      /\ ident \in [Ids -> RunIdentity]
      /\ \A a, b, e \in Owners(p) : a = b \/ b = e \/ a = e
  BY DEF IInv, TypeOK, ProfileCapacity
<1>01. 0 \notin Ids
  BY DEF Ids
<1> DEFINE NoneNew == Owners(p)' \subseteq Owners(p)
           AtMostTwo == \A a, b, e \in Owners(p)' : a = b \/ b = e \/ a = e
<1>1. UNCHANGED <<phase, ident>> => NoneNew
  BY DEF Owners, Ordinary, Reserved, Running, RunningIds
<1> USE DEF Ordinary, Reserved, Running, ResPhases
<1>2. ASSUME NEW c \in Compounds, NEW ep \in Epochs, StartCompound(c, ep) PROVE NoneNew
  <2>1. nextRunSeq + 1 \in Ids /\ phase[nextRunSeq + 1] = "none"
    BY <1>2, BlockOfIds, NextIsFresh
  <2>2. phase' = phase /\ \A x \in Ids : x # nextRunSeq + 1 => ident'[x] = ident[x]
    BY <1>0, <1>2 DEF StartCompound
  <2> QED BY <1>0, <2>1, <2>2 DEF Owners, RunningIds
<1>3. ASSUME NEW q \in Singles, NEW ep \in Epochs, Entered(q, 0, ep) PROVE AtMostTwo
  <2>1. nextRunSeq + 1 \in Ids /\ phase[nextRunSeq + 1] = "none"
    BY <1>3, NextIsFresh DEF Entered
  <2>2. Owners(p)' \subseteq Owners(p) \cup {nextRunSeq + 1}
    BY <1>0, <1>3, <2>1 DEF Entered, Owners, RunningIds
  <2>3. CASE p = q
    <3>1. \A a, b \in Owners(p) : a = b
      BY <1>3, <2>3, OneOwner DEF Entered
    <3> QED BY <2>2, <3>1
  <2>4. CASE p # q
    <3>1. nextRunSeq + 1 \notin Owners(p)'
      BY <1>0, <1>3, <2>1, <2>4 DEF Entered, Owners
    <3> QED BY <1>0, <2>2, <3>1
  <2> QED BY <2>3, <2>4
<1>4. ASSUME NEW t \in Ids, NEW ep \in Epochs, EnteredRestart(t, ep) PROVE NoneNew
  <2>1. nextRunSeq + 1 \in Ids /\ phase[nextRunSeq + 1] = "none" /\ t # nextRunSeq + 1
    BY <1>4, NextIsFresh DEF Entered, EnteredRestart
  <2>2. \A x \in Ids : x # nextRunSeq + 1 => phase'[x] = phase[x] /\ ident'[x] = ident[x]
    BY <1>0, <1>4 DEF Entered, EnteredRestart
  <2>3. phase'[nextRunSeq + 1] = "restart" /\ ident'[nextRunSeq + 1].replaces = t
    BY <1>0, <1>4, <1>01, <2>1 DEF Entered, EnteredRestart
  <2>4. t \in RunningIds /\ t \in RunningIds' /\ RunningIds' = RunningIds
    BY <1>4, <2>1, <2>2, <2>3 DEF RunningIds, EnteredRestart
  <2> QED BY <2>1, <2>2, <2>3, <2>4 DEF Owners
<1>5. ASSUME NEW r \in Ids, Dropped(r) PROVE NoneNew
  <2>1. RunningIds' = RunningIds
    BY <1>0, <1>5 DEF Dropped, RunningIds
  <2> QED BY <1>0, <1>5, <2>1 DEF Dropped, Owners
<1>6. ASSUME NEW r \in Ids, Promoted(r) PROVE NoneNew
  <2>1. RunningIds' = RunningIds \cup {r}
    BY <1>0, <1>6 DEF Promoted, RunningIds
  <2>2. ident[r].replaces \notin RunningIds
    BY <1>6, ReplacedIsGone DEF Promoted
  <2> QED BY <1>0, <1>6, <2>1, <2>2 DEF Promoted, Owners
<1>7. ASSUME NEW r \in Ids, NEW ph \in ResPhases, Advanced(r, ph) PROVE NoneNew
  <2>1. RunningIds' = RunningIds
    BY <1>0, <1>7 DEF Advanced, RunningIds
  <2> QED BY <1>0, <1>7, <2>1 DEF Advanced, Owners
<1>8. ASSUME NEW c \in Ids, Admitted(c) PROVE NoneNew
  <2>1. current[c] \in Ids /\ phase[current[c]] = "none" /\ c # 0
    BY <1>01, <1>8, CurrentIsStep DEF Admitted, IInv, CompoundShape
  <2>2. RunningIds' = RunningIds
    BY <1>0, <1>8, <2>1 DEF Admitted, RunningIds
  <2>3. ident'[current[c]].parent = c
    BY <1>0, <1>8, <2>1 DEF Admitted
  <2>4. \A x \in Ids : x # current[c] => phase'[x] = phase[x] /\ ident'[x] = ident[x]
    BY <1>0, <1>8, <2>1 DEF Admitted
  <2> QED BY <2>1, <2>2, <2>3, <2>4 DEF Owners
<1>9. ASSUME NEW c \in Ids, LeafLeft(c) PROVE NoneNew
  <2>1. /\ current[c] \in Ids /\ c # 0
        /\ Running(current[c]) => ident[current[c]].parent = c
    BY <1>01, <1>9, CurrentIsStep DEF LeafLeft, IInv, CompoundShape, Held
  <2>2. RunningIds' = RunningIds \ {current[c]}
    BY <1>0, <1>9, <2>1 DEF LeafLeft, RunningIds
  <2>3. \A x \in Ids : (x # current[c] /\ Reserved(x) /\ ident[x].replaces = current[c])
                         => ~Running(current[c])
    BY <2>1, <1>01 DEF IInv, ReplacementShape, Held
  <2>4. \A x \in Ids : x # current[c] => phase'[x] = phase[x] /\ ident'[x] = ident[x]
    BY <1>0, <1>9, <2>1 DEF LeafLeft
  <2>5. phase'[current[c]] = "gone"
    BY <1>0, <1>9, <2>1 DEF LeafLeft
  <2> QED BY <2>1, <2>2, <2>3, <2>4, <2>5 DEF Owners, RunningIds
<1>10. ASSUME NEW t \in Ids, Left(t) PROVE AtMostTwo
  <2>1. RunningIds' = RunningIds \ {t}
    BY <1>0, <1>10 DEF Left, RunningIds
  <2>2. /\ phase'[t] = "gone" /\ ident' = ident
        /\ \A x \in Ids : x # t => phase'[x] = phase[x]
    BY <1>0, <1>10 DEF Left
  <2> DEFINE New(x) == x \in Ids /\ Reserved(x) /\ ident[x].replaces = t
  <2>3. \A x \in Owners(p)' : x # t /\ (x \in Owners(p) \/ New(x))
    BY <2>1, <2>2 DEF Owners
  <2>4. \A x, y : New(x) /\ New(y) => x = y
    BY <1>01 DEF IInv, UniqueReplacement
  <2>5. ASSUME NEW x \in Owners(p)', New(x) PROVE t \in Owners(p) /\ x \notin Owners(p)
    <3>1. ident[x].profile = p
      BY <2>2, <2>5 DEF Owners
    <3>2. ident[t].profile = ident[x].profile
      BY <1>01, <1>10, <2>5 DEF IInv, ReplacementShape, Held, Left
    <3> QED BY <1>10, <2>5, <3>1, <3>2 DEF Owners, RunningIds, Left
  <2> HIDE DEF New
  <2> QED BY <1>0, <2>3, <2>4, <2>5
<1>11. NoneNew => AtMostTwo
  BY <1>0
<1> HIDE DEF NoneNew, AtMostTwo
<1>12. AtMostTwo
  BY <1>1, <1>2, <1>3, <1>4, <1>5, <1>6, <1>7, <1>8, <1>9, <1>10, <1>11, LaunchCases
<1> QED BY <1>12 DEF AtMostTwo


-----------------------------------------------------------------------------
\* Operating-system processes.

\* The executor forgets a process only when it reaps it or waited for it, and
\* kills a process before it reaps it.
LEMMA ProcessPhaseStep == IInv /\ [Next]_vars => ProcessPhase'
<1> SUFFICES ASSUME IInv, [Next]_vars PROVE ProcessPhase'
  OBVIOUS
<1>0. /\ phase \in [Ids -> Phases]
      /\ os \in [Ids -> OsStates]
      /\ ProcessPhase
  BY DEF IInv, TypeOK
<1> USE DEF ProcessPhase
<1>1. ASSUME NEW r \in Ids, RestartSignal(r) PROVE ProcessPhase'
  BY <1>0, <1>1 DEF RestartSignal
<1>2. ASSUME NEW r \in Ids, RestartTargetExited(r) PROVE ProcessPhase'
  BY <1>0, <1>2 DEF RestartTargetExited
<1>3. ASSUME NEW r \in Ids, PreSpawnCheck(r) PROVE ProcessPhase'
  BY <1>0, <1>3 DEF PreSpawnCheck, FailLaunch
<1>4. ASSUME NEW r \in Ids, Spawn(r) PROVE ProcessPhase'
  BY <1>0, <1>4 DEF Spawn
<1>5. ASSUME NEW r \in Ids, SpawnFails(r) PROVE ProcessPhase'
  BY <1>0, <1>5 DEF SpawnFails, FailLaunch
<1>6. ASSUME NEW r \in Ids, Promote(r) PROVE ProcessPhase'
  BY <1>0, <1>6 DEF Promote, ForceKill
<1>7. ASSUME NEW r \in Ids, Reap(r) PROVE ProcessPhase'
  BY <1>0, <1>7 DEF Reap, FailLaunch
<1>8. ASSUME NEW r \in Ids, Exit(r) PROVE ProcessPhase'
  BY <1>0, <1>8 DEF Exit
<1>9. ASSUME NEW r \in Ids, Watchdog(r) PROVE ProcessPhase'
  BY <1>0, <1>9 DEF Watchdog, ForceKill, Running
<1>10. ASSUME NEW r \in Ids, WaitProcess(r) PROVE ProcessPhase'
  BY <1>0, <1>10 DEF WaitProcess, Unregister, Running
<1>11. ASSUME NEW c \in Ids, CompoundAdmit(c) PROVE ProcessPhase'
  <2>1. current[c] \in Ids /\ phase[current[c]] = "none"
    BY <1>11, CurrentIsStep DEF CompoundAdmit, IInv, CompoundShape
  <2> QED BY <1>0, <1>11, <2>1 DEF CompoundAdmit
<1>12. ASSUME NEW c \in Ids, CompoundWait(c) PROVE ProcessPhase'
  <2>1. current[c] \in Ids
    BY <1>12, CurrentIsStep DEF CompoundWait
  <2> QED BY <1>0, <1>12, <2>1 DEF CompoundWait, Unregister, Running
<1>13. ASSUME NEW c \in Ids, CompoundTop(c) PROVE ProcessPhase'
  BY <1>0, <1>13 DEF CompoundTop, launchVars
<1>14. ASSUME NEW c \in Ids, CompoundMark(c) PROVE ProcessPhase'
  BY <1>0, <1>14 DEF CompoundMark, launchVars
<1>15. ASSUME NEW c \in Ids, CompoundStarted(c) PROVE ProcessPhase'
  BY <1>0, <1>15 DEF CompoundStarted, launchVars
<1>16. ASSUME NEW c \in Ids, CompoundRecord(c) PROVE ProcessPhase'
  BY <1>0, <1>16 DEF CompoundRecord, launchVars
<1>17. ASSUME NEW c \in Ids, FinishCompound(c) PROVE ProcessPhase'
  BY <1>0, <1>17 DEF FinishCompound, launchVars
<1>18. ASSUME NEW p \in Singles, NEW ep \in Epochs, Start(p, ep) PROVE ProcessPhase'
  BY <1>0, <1>18, NextIsFresh DEF Start
<1>19. ASSUME NEW t \in Ids, NEW ep \in Epochs, Restart(t, ep) PROVE ProcessPhase'
  BY <1>0, <1>19, NextIsFresh DEF Restart
<1>20. ASSUME NEW c \in Compounds, NEW ep \in Epochs, StartCompound(c, ep) PROVE ProcessPhase'
  BY <1>0, <1>20 DEF StartCompound
<1>21. ASSUME NEW s \in Stoppers, StopCompoundCancel(s) PROVE ProcessPhase'
  BY <1>0, <1>21 DEF StopCompoundCancel
<1>22. ASSUME NEW s \in Stoppers, StopCompoundReturn(s) PROVE ProcessPhase'
  BY <1>0, <1>22 DEF StopCompoundReturn, launchVars
<1>23. ASSUME NEW d \in Drainers, StopAllBegin(d) PROVE ProcessPhase'
  BY <1>0, <1>23 DEF StopAllBegin
<1>24. ASSUME NEW d \in Drainers, StopAllSignal(d) PROVE ProcessPhase'
  BY <1>0, <1>24 DEF StopAllSignal, launchVars
<1>25. ASSUME NEW d \in Drainers, StopAllKill(d) PROVE ProcessPhase'
  BY <1>0, <1>25 DEF StopAllKill, ForceKill
<1>26. ASSUME NEW d \in Drainers, StopAllDone(d) PROVE ProcessPhase'
  BY <1>0, <1>26 DEF StopAllDone, launchVars
<1>27. ASSUME NEW d \in Drainers, StopAllTimeout(d) PROVE ProcessPhase'
  BY <1>0, <1>27 DEF StopAllTimeout, launchVars
<1>28. ASSUME NEW r \in Ids, StopRunInstance(r) PROVE ProcessPhase'
  BY <1>0, <1>28 DEF StopRunInstance
<1>29. ASSUME NEW d \in Drainers, BeginDrain(d) PROVE ProcessPhase'
  BY <1>0, <1>29 DEF BeginDrain
<1>30. ASSUME NEW d \in Drainers, ClearTerminalStatuses(d) PROVE ProcessPhase'
  BY <1>0, <1>30 DEF ClearTerminalStatuses, launchVars
<1>31. ASSUME NEW d \in Drainers, FinishSwitch(d) PROVE ProcessPhase'
  BY <1>0, <1>31 DEF FinishSwitch, EndDrain, launchVars
<1>32. ASSUME NEW d \in Drainers, SwitchLoadFails(d) PROVE ProcessPhase'
  BY <1>0, <1>32 DEF SwitchLoadFails, launchVars
<1>33. ASSUME NEW d \in Drainers, Reload(d) PROVE ProcessPhase'
  BY <1>0, <1>33 DEF Reload, EndDrain, launchVars
<1>34. ASSUME NEW s \in Stoppers, NEW r \in Ids, StopCompoundRead(s, r) PROVE ProcessPhase'
  BY <1>0, <1>34 DEF StopCompoundRead, launchVars
<1>35. CASE UNCHANGED vars
  BY <1>0, <1>35 DEF vars, launchVars
<1> QED
  BY <1>1, <1>2, <1>3, <1>4, <1>5, <1>6, <1>7, <1>8, <1>9, <1>10, <1>11, <1>12,
     <1>13, <1>14, <1>15, <1>16, <1>17, <1>18, <1>19, <1>20, <1>21, <1>22, <1>23, <1>24,
     <1>25, <1>26, <1>27, <1>28, <1>29, <1>30, <1>31, <1>32, <1>33, <1>34, <1>35, StopIsExact
  DEF Next, InternalNext, CallerNext, LaunchStep, CoordinatorStep, StopperStep, StopAllStep

-----------------------------------------------------------------------------
\* The invariant.

\* An executor just made, with no launch and nothing live, satisfies the
\* invariant (NewExecutor).
LEMMA InitInvariant == Init => IInv
<1> SUFFICES ASSUME Init PROVE IInv
  OBVIOUS
<1>1. TypeOK
  <2>1. /\ nextRunSeq \in 0..MaxRuns /\ workspaceEpoch \in Epochs
        /\ current \in [Ids -> 0..MaxRuns]
    BY BoundAssumption DEF Init, Epochs
  <2> QED
    BY <2>1, IdleRecords
    DEF Init, TypeOK, Phases, OsStates, LivePcs, StepStates, Outcomes
<1>2. \A r \in Ids : ~Held(r) /\ ~LiveComp(r)
  BY DEF Init, Held, Reserved, Running, LiveComp, ResPhases, LivePcs
<1> QED
  BY <1>1, <1>2
  DEF Init, IInv, Fresh, CompoundShape, ReplacementShape, UniqueReplacement, ProcessPhase,
      CoordinatorOwnsLeaf, ProfileCapacity, StepExclusive, AggregateExclusive, Owners,
      Held, Reserved, Running, ResPhases

\* Every step keeps the invariant.
LEMMA InductiveStep == IInv /\ [Next]_vars => IInv'
<1> SUFFICES ASSUME IInv, [Next]_vars PROVE IInv'
  OBVIOUS
<1>1. Kind
  BY StepKinds
<1>2. TypeOK' /\ ProcessPhase'
  BY TypeStep, ProcessPhaseStep
<1>3. Fresh' /\ CompoundShape' /\ ReplacementShape' /\ UniqueReplacement'
  BY <1>1, FreshStep, CompoundShapeStep, ReplacementShapeStep, UniqueReplacementStep
<1>4. CoordinatorOwnsLeaf' /\ StepExclusive' /\ AggregateExclusive' /\ ProfileCapacity'
  BY <1>1, CoordinatorOwnsLeafStep, StepExclusiveStep, AggregateExclusiveStep, ProfileCapacityStep
<1> QED
  BY <1>2, <1>3, <1>4 DEF IInv

\* The invariant behind every theorem below holds in every reachable state.
THEOREM Invariance == Spec => []IInv
BY InitInvariant, InductiveStep, PTL DEF Spec

\* Every variable keeps its type, whatever the profiles, plans and bounds.
THEOREM TypeCorrectness == Spec => []TypeOK
<1>1. IInv => TypeOK
  BY DEF IInv
<1> QED BY <1>1, Invariance, PTL

\* However concurrent launches, exact restarts, exits and drains interleave, no
\* three launches of a profile own a capacity slot
\* (reserveProcessCapacityLocked, executor.go:370-431).
THEOREM CapacityIsKept == Spec => []ProfileCapacity
<1>1. IInv => ProfileCapacity
  BY DEF IInv
<1> QED BY <1>1, Invariance, PTL

\* A compound step never shares its profile with another launch, whichever was
\* admitted first (executor.go:384-403), and a profile is never live as a compound
\* run together with any other launch of it (executor_compound.go:135-147).
THEOREM ProfilesAreExclusive == Spec => []ProfilesExclude
<1>1. IInv => ProfilesExclude
  BY DEF IInv, ProfilesExclude
<1> QED BY <1>1, Invariance, PTL

\* A registered or reserved leaf always has a live coordinator that is on that
\* very step (runCompound, executor_compound.go:205-354).
THEOREM LeavesAreOwned == Spec => []CoordinatorOwnsLeaf
<1>1. IInv => CoordinatorOwnsLeaf
  BY DEF IInv
<1> QED BY <1>1, Invariance, PTL

\* The process of an exact restart is never up while the process it replaces
\* exists (RestartAtEpoch, executor.go:681-711).
THEOREM RestartsDoNotOverlap == Spec => []RestartNeverOverlaps
<1>1. IInv => RestartNeverOverlaps
  <2> SUFFICES ASSUME IInv, NEW r \in Ids, os[r] = "up", ident[r].replaces # 0
               PROVE  os[ident[r].replaces] = "none"
    BY DEF RestartNeverOverlaps
  <2>1. phase[r] \in {"spawned", "running"}
    BY DEF IInv, ProcessPhase
  <2>2. phase[ident[r].replaces] = "gone"
    BY <2>1 DEF IInv, ReplacementShape, Held, Reserved, Running, ResPhases
  <2>3. ident[r].replaces \in Ids
    BY BoundAssumption DEF IInv, TypeOK, RunIdentity, Ids
  <2> QED BY <2>2, <2>3 DEF IInv, ProcessPhase
<1> QED BY <1>1, Invariance, PTL

\* A process that was not killed is registered or in the hands of the launch
\* that spawned it (startReservedProcess, executor.go:265-319).
THEOREM ProcessesAreManaged == Spec => []NoUnmanagedProcess
<1>1. IInv => NoUnmanagedProcess
  BY DEF IInv, ProcessPhase, NoUnmanagedProcess
<1> QED BY <1>1, Invariance, PTL

-----------------------------------------------------------------------------
(***************************************************************************)
(* Draining.                                                               *)
(***************************************************************************)
\* While admission is closed no process is promoted, no launch is reserved and
\* no compound run starts: what is live only gets less.
LEMMA ClosedDwindles ==
  ASSUME IInv, Kind, draining, NEW r \in Ids
  PROVE  /\ Running(r)' => Running(r)
         /\ Reserved(r)' => Reserved(r)
         /\ LiveComp(r)' => LiveComp(r)
<1> DEFINE Dwindles == /\ Running(r)' => Running(r)
                       /\ Reserved(r)' => Reserved(r)
                       /\ LiveComp(r)' => LiveComp(r)
<1>0. /\ phase \in [Ids -> Phases]
      /\ coord \in [Ids -> LivePcs \cup {"none", "done"}]
  BY DEF IInv, TypeOK
<1> USE DEF Running, Reserved, LiveComp
<1>1. (Quiet => Dwindles) /\ (Refused => Dwindles)
  BY DEF Quiet, Refused
<1>2. ASSUME NEW q \in Ids, Dropped(q) PROVE Dwindles
  <2>1. ~Ordinary(q) => LiveComp(ident[q].parent)
    BY <1>2, ParentIsLive DEF Dropped, Held
  <2> QED BY <1>0, <1>2, <2>1 DEF Dropped, ResPhases
<1>3. ASSUME NEW q \in Ids, Left(q) \/ \E ph \in ResPhases : Advanced(q, ph) PROVE Dwindles
  BY <1>0, <1>3 DEF Left, Advanced, ResPhases
<1>4. ASSUME NEW c \in Ids, CoordinatorKind(c) PROVE Dwindles
  <2>1. LiveComp(c) /\ \A x \in Ids : x # c => coord'[x] = coord[x]
    BY <1>4, CoordinatorFrame
  <2>2. UNCHANGED phase \/ phase' = [phase EXCEPT ![current[c]] = "gone"]
    BY <1>4 DEF CoordinatorKind, LeafLeft, Admitted, Moved, Finished, Marked, Recorded
  <2> QED BY <1>0, <2>1, <2>2 DEF ResPhases
<1> QED
  BY <1>1, <1>2, <1>3, <1>4
  DEF Kind, LaunchKind, CompoundKind, Entered, EnteredRestart, Promoted, StartCompound, CheckAdmission

\* The steps of an executor's launches and compound runs and of its callers
\* other than drains.
Aside == UNCHANGED <<workspaceEpoch, draining, drain>>

\* Only the drains and a reload touch the epoch, the drain calls and admission.
LEMMA DrainSteps ==
  ASSUME IInv, [Next]_vars
  PROVE  \/ Aside
         \/ \E d \in Drainers :
              \/ StopAllStep(d) \/ StopAllTimeout(d) \/ BeginDrain(d) \/ ClearTerminalStatuses(d)
              \/ FinishSwitch(d) \/ SwitchLoadFails(d) \/ Reload(d)
<1> USE DEF Aside, admissionVars
<1>1. ASSUME NEW r \in Ids, LaunchStep(r) PROVE Aside
  BY <1>1
  DEF LaunchStep, RestartSignal, RestartTargetExited, PreSpawnCheck, Spawn, SpawnFails, Promote, Reap
<1>2. ASSUME NEW r \in Ids, Exit(r) \/ Watchdog(r) \/ WaitProcess(r) \/ StopRunInstance(r) PROVE Aside
  BY <1>2 DEF Exit, Watchdog, WaitProcess, StopRunInstance
<1>3. ASSUME NEW c \in Ids, CoordinatorStep(c) PROVE Aside
  BY <1>3
  DEF CoordinatorStep, CompoundTop, CompoundMark, CompoundAdmit, CompoundStarted, CompoundWait,
      CompoundRecord, FinishCompound
<1>4. ASSUME NEW s \in Stoppers, StopperStep(s) \/ \E c \in Ids : StopCompoundRead(s, c) PROVE Aside
  BY <1>4 DEF StopperStep, StopCompoundCancel, StopCompoundReturn, StopCompoundRead
<1>5. ASSUME NEW ep \in Epochs, \/ \E p \in Singles : Start(p, ep)
                                \/ \E c \in Compounds : StartCompound(c, ep)
                                \/ \E r \in Ids : Restart(r, ep)
      PROVE  Aside
  BY <1>5 DEF Start, StartCompound, Restart
<1>6. ASSUME NEW p \in Profiles, NEW s \in Stoppers, Stop(p, s) PROVE Aside
  BY <1>2, <1>4, <1>6, StopIsExact
<1>7. CASE UNCHANGED vars
  BY <1>7 DEF vars
<1> QED
  BY <1>1, <1>2, <1>3, <1>4, <1>5, <1>6, <1>7 DEF Next, InternalNext, CallerNext

\* No step uncovers a drain: a launch it missed could only be one admitted while
\* admission was closed, or in an epoch that is over.
LEMMA DrainCoversStep == IInv /\ DrainCovers /\ [Next]_vars => DrainCovers'
<1> USE DEF Covered
<1> SUFFICES ASSUME IInv, DrainCovers, [Next]_vars, NEW x \in Drainers PROVE Covered(x)'
  BY DEF DrainCovers
<1>0. /\ drain \in [Drainers -> DrainCall]
      /\ workspaceEpoch \in Nat /\ draining \in BOOLEAN
      /\ Covered(x) /\ drain[x].epoch \in Nat
  BY BoundAssumption DEF IInv, TypeOK, DrainCovers, DrainCall, Epochs
<1>1. Kind
  BY StepKinds
<1>2. CASE Aside
  BY <1>0, <1>1, <1>2, ClosedDwindles DEF Aside
<1> USE DEF Running, Reserved, LiveComp
<1>3. ASSUME NEW d \in Drainers, BeginDrain(d) PROVE Covered(x)'
  <2>1. CASE x = d
    BY <1>0, <1>3, <2>1 DEF BeginDrain
  <2>2. CASE x # d
    BY <1>0, <1>3, <2>2 DEF BeginDrain
  <2> QED BY <2>1, <2>2
<1>4. ASSUME NEW d \in Drainers, StopAllBegin(d) PROVE Covered(x)'
  <2>1. CASE x # d
    <3>1. drain'[x] = drain[x] /\ UNCHANGED <<workspaceEpoch, draining, phase, coord>>
      BY <1>0, <1>4, <2>1 DEF StopAllBegin, admissionVars, compVars
    <3> QED BY <1>0, <3>1
  <2>2. CASE x = d
    <3>1. CASE /\ RunningIds \cup {c \in Ids : LiveComp(c)} \cup {r \in Ids : Reserved(r)} = {}
               /\ drain' = [drain EXCEPT ![d].pc = "clean"]
      BY <1>0, <1>4, <2>2, <3>1 DEF StopAllBegin, RunningIds, admissionVars, compVars
    <3>2. CASE drain' = [drain EXCEPT ![d] = [@ EXCEPT !.pc = "signal", !.procs = RunningIds,
                                       !.comps = {c \in Ids : LiveComp(c)},
                                       !.resvs = {r \in Ids : Reserved(r)}]]
      BY <1>0, <1>4, <2>2, <3>2 DEF StopAllBegin, RunningIds, DrainCall, admissionVars, compVars
    <3> QED BY <1>4, <3>1, <3>2 DEF StopAllBegin
  <2> QED BY <2>1, <2>2
<1>5. ASSUME NEW d \in Drainers, StopAllSignal(d) \/ StopAllKill(d) PROVE Covered(x)'
  <2>1. /\ UNCHANGED <<workspaceEpoch, draining, phase, coord>>
        /\ \E pc \in {"wait", "killed"} : drain' = [drain EXCEPT ![d].pc = pc]
        /\ drain[d].pc \in {"signal", "wait"}
    BY <1>5 DEF StopAllSignal, StopAllKill, admissionVars, launchVars, compVars
  <2> QED BY <1>0, <2>1
<1>6. ASSUME NEW d \in Drainers, StopAllDone(d) PROVE Covered(x)'
  BY <1>0, <1>6 DEF StopAllDone, AllDone, admissionVars, launchVars, compVars
<1>7. ASSUME NEW d \in Drainers, ClearTerminalStatuses(d) PROVE Covered(x)'
  BY <1>0, <1>7 DEF ClearTerminalStatuses, admissionVars, launchVars, compVars
<1>8. ASSUME NEW d \in Drainers, StopAllTimeout(d) \/ SwitchLoadFails(d) \/ FinishSwitch(d)
      PROVE  Covered(x)'
  <2>1. /\ UNCHANGED <<workspaceEpoch, phase, coord>> /\ (draining' => draining)
        /\ drain' = [drain EXCEPT ![d] = NoDrain]
    BY <1>0, <1>8
    DEF StopAllTimeout, SwitchLoadFails, FinishSwitch, EndDrain, admissionVars, launchVars, compVars
  <2> QED BY <1>0, <2>1 DEF NoDrain
<1>9. ASSUME NEW d \in Drainers, Reload(d) PROVE Covered(x)'
  BY <1>0, <1>9 DEF Reload, EndDrain
<1> QED
  BY <1>2, <1>3, <1>4, <1>5, <1>6, <1>7, <1>8, <1>9, DrainSteps DEF StopAllStep

\* Once StopAll reported success for the drain of the current epoch, nothing is
\* registered, reserved, spawned or coordinated until admission reopens, however
\* many drains overlap (BeginDrainWithReason, StopAllWithReason, EndDrain).
THEOREM DrainsAreClean == Spec => []DrainLeavesNothing
<1>1. Init => DrainCovers
  BY DEF Init, DrainCovers, Covered, NoDrain
<1>2. IInv /\ DrainCovers => DrainLeavesNothing
  BY DEF IInv, DrainCovers, Covered, DrainLeavesNothing, ProcessPhase, Held, Running, Reserved, ResPhases
<1> QED BY <1>1, <1>2, DrainCoversStep, Invariance, PTL DEF Spec

-----------------------------------------------------------------------------
(***************************************************************************)
(* Plans.                                                                  *)
(***************************************************************************)
\* A step that is not the coordinator's own leaves a plan where it is: a launch
\* moves it at most from one step's launch to the record of that step.
LEMMA PlanFrame ==
  ASSUME IInv, Kind, NEW c \in Ids, coord[c] # "none", ~CoordinatorKind(c)
  PROVE  /\ \A r \in StepsOf(c) : stepState'[r] = stepState[r]
         /\ current'[c] = current[c]
         /\ \/ coord'[c] = coord[c]
            \/ coord[c] = "launch" /\ coord'[c] \in {"started", "record"}
         /\ coord[c] \in {"finish", "done"} => result'[c] = result[c]
<1> DEFINE Framed ==
      /\ \A r \in StepsOf(c) : stepState'[r] = stepState[r]
      /\ current'[c] = current[c]
      /\ \/ coord'[c] = coord[c]
         \/ coord[c] = "launch" /\ coord'[c] \in {"started", "record"}
      /\ coord[c] \in {"finish", "done"} => result'[c] = result[c]
<1>0. /\ coord \in [Ids -> LivePcs \cup {"none", "done"}]
      /\ current \in [Ids -> 0..MaxRuns]
      /\ result \in [Ids -> Outcomes]
      /\ stepState \in [Ids -> StepStates \cup {"none"}]
      /\ \A r \in StepsOf(c) : r \in Ids
  BY StepsAreIds DEF IInv, TypeOK
<1>1. (Quiet => Framed) /\ (Refused => Framed)
  BY DEF Quiet, Refused
<1>2. ASSUME NEW p, NEW t, NEW ep \in Epochs, Entered(p, t, ep) PROVE Framed
  BY <1>2 DEF Entered
<1>3. ASSUME NEW r \in Ids, Dropped(r) \/ Promoted(r) PROVE Framed
  <2>1. ~Ordinary(r) => ident[r].parent \in Ids /\ coord[ident[r].parent] = "launch"
    BY <1>3 DEF IInv, CoordinatorOwnsLeaf, Held, Reserved, Running, Dropped, Promoted, ResPhases
  <2>2. UNCHANGED <<current, stepState>>
    BY <1>3 DEF Dropped, Promoted
  <2>3. CASE Dropped(r)
    <3>1. coord'[c] = coord[c] \/ (coord[c] = "launch" /\ coord'[c] = "record")
      BY <1>0, <2>1, <2>3 DEF Dropped
    <3>2. coord[c] # "launch" => result'[c] = result[c]
      BY <1>0, <2>1, <2>3 DEF Dropped
    <3> QED BY <2>2, <3>1, <3>2
  <2>4. CASE Promoted(r)
    BY <1>0, <2>1, <2>2, <2>4 DEF Promoted
  <2> QED BY <1>3, <2>3, <2>4
<1>4. ASSUME NEW r \in Ids, Left(r) \/ \E ph \in ResPhases : Advanced(r, ph) PROVE Framed
  BY <1>4 DEF Left, Advanced
<1>5. ASSUME NEW a \in Compounds, NEW ep \in Epochs, StartCompound(a, ep) PROVE Framed
  <2>1. /\ nextRunSeq + 1 \in Ids /\ nextRunSeq + 1 # c
    BY <1>5, BlockOfIds, NextIsFresh
  <2>2. \A x \in StepsOf(c) : x \notin nextRunSeq + 1 + 1 .. nextRunSeq + 1 + Len(Plan[a])
    <3>1. \A x \in StepsOf(c) : x \in Int /\ x <= nextRunSeq
      BY StepsAreIds
    <3>2. nextRunSeq \in Int
      BY DEF IInv, TypeOK
    <3> DEFINE last == nextRunSeq + 1 + Len(Plan[a])
    <3> HIDE DEF Framed, last
    <3>3. \A x \in StepsOf(c) : x \notin nextRunSeq + 1 + 1 .. last
      BY <3>1, <3>2
    <3> QED BY <3>3 DEF last
  <2> QED BY <1>0, <1>5, <2>1, <2>2 DEF StartCompound
<1>6. ASSUME NEW d \in Ids, d # c, CoordinatorKind(d) PROVE Framed
  <2>1. \A x \in StepsOf(c) : x \notin StepsOf(d)
    BY <1>6, CoordinatorFrame, StepsApart
  <2>2. result'[c] = result[c]
    BY <1>0, <1>6 DEF CoordinatorKind, LeafLeft, Admitted, Moved, Finished, Marked, Recorded
  <2> QED BY <1>0, <1>6, <2>1, <2>2, CoordinatorFrame
<1> QED
  BY <1>1, <1>2, <1>3, <1>4, <1>5, <1>6 DEF Kind, LaunchKind, CompoundKind, EnteredRestart

\* A coordinator keeps its plan in order.
LEMMA OwnPlanStep ==
  ASSUME IInv, Kind, NEW c \in Ids, CoordinatorKind(c), Progress(c)
  PROVE  Progress(c)'
<1>0. /\ coord \in [Ids -> LivePcs \cup {"none", "done"}]
      /\ current \in [Ids -> 0..MaxRuns]
      /\ result \in [Ids -> Outcomes]
      /\ stepState \in [Ids -> StepStates \cup {"none"}]
      /\ coord[c] # "none"
  BY CoordinatorFrame DEF IInv, TypeOK
<1>1. /\ current[c] \in StepsOf(c)
      /\ \A r \in StepsOf(c) : r \in Ids /\ r \in Int
      /\ StepsOf(c)' = StepsOf(c)
      /\ coord[c] \in {"admit", "launch", "started", "wait", "record"} => stepState[current[c]] = "running"
  BY <1>0, StepsAreIds, CompoundStays DEF IInv, CompoundShape
<1> USE <1>0, <1>1 DEF Progress
<1>2. CASE LeafLeft(c) \/ Admitted(c)
  BY <1>2 DEF LeafLeft, Admitted
<1>3. CASE Moved(c)
  BY <1>3 DEF Moved, PlanExhausted
<1>4. CASE Finished(c)
  BY <1>4 DEF Finished
<1>5. ASSUME NEW r \in Ids, Marked(c, r) PROVE Progress(c)'
  <2>1. \A q \in StepsOf(c) : q < r => stepState[q] = "success"
    BY <1>5 DEF Marked
  <2>2. \A q \in StepsOf(c) : q > r => stepState[q] = "pending"
    BY <1>5 DEF Marked
  <2> QED BY <1>5, <2>1, <2>2 DEF Marked
<1>6. ASSUME NEW pc \in {"top", "finish"}, NEW res \in Outcomes, Recorded(c, pc, res) PROVE Progress(c)'
  <2>1. \A q \in StepsOf(c) : q > current[c] => stepState[q] = "pending"
    BY <1>6 DEF Recorded
  <2>2. \A q \in StepsOf(c) : q < current[c] => stepState[q] = "success"
    BY <1>6 DEF Recorded
  <2> QED BY <1>6, <2>1, <2>2 DEF Recorded, Outcomes
<1> QED BY <1>2, <1>3, <1>4, <1>5, <1>6 DEF CoordinatorKind

\* Every plan stays in order, from its first step to its outcome.
LEMMA PlanProgressStep == IInv /\ PlanProgress /\ [Next]_vars => PlanProgress'
<1> SUFFICES ASSUME IInv, PlanProgress, [Next]_vars, NEW c \in Ids, coord'[c] # "none"
             PROVE  Progress(c)'
  BY DEF PlanProgress
<1>1. Kind
  BY StepKinds
<1>2. CASE coord[c] # "none"
  <2>1. Progress(c)
    BY <1>2 DEF PlanProgress
  <2>2. CASE ~CoordinatorKind(c)
    <3>1. StepsOf(c)' = StepsOf(c)
      BY <1>1, <1>2, CompoundStays
    <3> QED BY <1>1, <1>2, <2>1, <2>2, <3>1, PlanFrame DEF Progress
  <2> QED BY <1>1, <2>1, <2>2, OwnPlanStep
<1>3. CASE coord[c] = "none"
  <2>1. PICK a \in Compounds, ep \in Epochs : StartCompound(a, ep) /\ c = nextRunSeq + 1
    BY <1>1, <1>3, NewCompound
  <2>2. coord'[c] = "top" /\ ident'[c].profile = a
    BY <2>1 DEF StartCompound, IInv, TypeOK
  <2>3. StepsOf(c)' = c + 1 .. c + Len(Plan[a])
    BY <2>2 DEF StepsOf
  <2>4. \A r \in Ids : r \in c + 1 .. c + Len(Plan[a]) => stepState'[r] = "pending"
    BY <2>1 DEF StartCompound
  <2>5. \A r \in StepsOf(c)' : r \in Ids
    <3>1. nextRunSeq' = c + Len(Plan[a]) /\ nextRunSeq' <= MaxRuns /\ nextRunSeq' \in Int
      BY <2>1, BlockOfIds
    <3>2. c \in Nat /\ c > 0
      BY DEF Ids
    <3> QED BY <2>3, <3>1, <3>2, BoundAssumption DEF Ids
  <2> QED BY <2>2, <2>3, <2>4, <2>5 DEF Progress
<1> QED BY <1>2, <1>3

\* The plan of a compound run runs in order and the run reports its outcome
\* truly, whatever fails, exits or is stopped on the way (runCompound,
\* executor_compound.go:205-354).
THEOREM PlansRunInOrder == Spec => []PlanOrder
<1>1. Init => PlanProgress
  BY DEF Init, PlanProgress
<1>2. PlanProgress => PlanOrder
  BY DEF PlanProgress, Progress, PlanOrder
<1> QED BY <1>1, <1>2, PlanProgressStep, Invariance, PTL DEF Spec

\* A cancelled compound run past the look at its context starts no step.
LEMMA CancelStep ==
  ASSUME IInv, [Next]_vars, NEW c \in Ids, LiveComp(c), cancelled[c], coord[c] # "mark"
  PROVE  /\ coord'[c] # "mark"
         /\ \A r \in StepsOf(c) : stepState[r] = "pending" =>
              stepState'[r] \in {"pending", "skipped"}
<1>0. /\ coord[c] # "none"
      /\ coord \in [Ids -> LivePcs \cup {"none", "done"}]
      /\ stepState \in [Ids -> StepStates \cup {"none"}]
      /\ \A r \in StepsOf(c) : r \in Ids
      /\ coord[c] = "record" => stepState[current[c]] = "running"
  BY StepsAreIds DEF IInv, TypeOK, LiveComp, LivePcs, CompoundShape
<1>1. Kind
  BY StepKinds
<1>2. CASE ~CoordinatorKind(c)
  BY <1>0, <1>1, <1>2, PlanFrame
<1>3. CASE LeafLeft(c) \/ Admitted(c) \/ Moved(c) \/ Finished(c)
  BY <1>0, <1>3 DEF LeafLeft, Admitted, Moved, Finished
<1>4. CASE \E r \in Ids : Marked(c, r)
  BY <1>4 DEF Marked
<1>5. CASE \E pc \in {"top", "finish"}, res \in Outcomes : Recorded(c, pc, res)
  BY <1>0, <1>5 DEF Recorded
<1> QED BY <1>2, <1>3, <1>4, <1>5 DEF CoordinatorKind

\* A plan is kept to its end or to its cancel: in order, truly reported, and with
\* at most the one step started whose coordinator had already looked at its
\* context (runCompound, stopCompoundRunInstance).
THEOREM PlansAreKept == Spec => PlanKept
<1>1. IInv /\ [Next]_vars =>
        [\A c \in Ids : (LiveComp(c) /\ cancelled[c] /\ coord[c] # "mark") =>
           /\ coord'[c] # "mark"
           /\ \A r \in StepsOf(c) : stepState[r] = "pending" =>
                stepState'[r] \in {"pending", "skipped"}]_vars
  BY CancelStep
<1> QED BY <1>1, PlansRunInOrder, Invariance, PTL DEF Spec, PlanKept, CancelStopsPlan

-----------------------------------------------------------------------------
(***************************************************************************)
(* Retained terminal statuses.                                             *)
(***************************************************************************)
\* A set of ids that is not empty has a greatest element.
LEMMA Greatest ==
  ASSUME NEW S \in SUBSET Ids, S # {}
  PROVE  \E m \in S : \A q \in S : q <= m
<1> DEFINE T == {MaxRuns - q : q \in S}
           R == OpToRel(<, Nat)
<1>1. T \subseteq Nat /\ T # {}
  BY BoundAssumption DEF Ids
<1>2. IsWellFoundedOn(R, Nat)
  BY NatLessThanWellFounded
<1>3. PICK n \in T : \A k \in T : ~ (<<k, n>> \in R)
  <2> HIDE DEF R, T
  <2> QED BY <1>1, <1>2, WFMin
<1>4. \A k \in T : ~ (k < n)
  BY <1>1, <1>3 DEF OpToRel
<1>5. PICK m \in S : n = MaxRuns - m
  OBVIOUS
<1>6. \A q \in S : q <= m
  <2> SUFFICES ASSUME NEW q \in S PROVE q <= m
    OBVIOUS
  <2>1. ~ (MaxRuns - q < MaxRuns - m)
    BY <1>4, <1>5
  <2> QED BY <2>1, BoundAssumption DEF Ids
<1> QED BY <1>6

\* The two newest, said without counting.
LEMMA Newest2Is ==
  ASSUME NEW S \in SUBSET Ids, NEW r \in S
  PROVE  r \in Newest2(S) <=> \A a, b \in S : (a > r /\ b > r) => a = b
<1> DEFINE Above == {q \in S : q > r}
<1>1. IsFiniteSet(Above)
  <2>1. IsFiniteSet(Ids)
    BY BoundAssumption, FS_Interval DEF Ids
  <2>2. Above \subseteq Ids
    OBVIOUS
  <2> HIDE DEF Above
  <2> QED BY <2>1, <2>2, FS_Subset
<1>2. r \in Newest2(S) <=> Cardinality(Above) < 2
  BY DEF Newest2
<1>3. ASSUME Cardinality(Above) < 2, NEW a \in Above, NEW b \in Above PROVE a = b
  <2> HIDE DEF Above
  <2> QED BY <1>1, <1>3, FewerThanTwo
<1>4. ASSUME \A a, b \in Above : a = b PROVE Cardinality(Above) < 2
  <2>1. CASE Above = {}
    BY <2>1, FS_EmptySet
  <2>2. CASE Above # {}
    <3>1. PICK a \in Above : TRUE
      BY <2>2
    <3>2. Above = {a}
      BY <1>4, <3>1
    <3> HIDE DEF Above
    <3> QED BY <3>2, FS_Singleton
  <2> QED BY <2>1, <2>2
<1> QED BY <1>2, <1>3, <1>4

\* What a set has above x, its two newest have: one if it has one, two if two.
LEMMA Newest2Above ==
  ASSUME NEW S \in SUBSET Ids, NEW x \in Ids, NEW a \in S, a > x
  PROVE  \E m \in Newest2(S) :
           /\ m > x
           /\ \A q \in S : q > x => q <= m
           /\ a # m => \E n \in Newest2(S) : n > x /\ n # m
<1> USE DEF Ids
<1> DEFINE Above == {q \in S : q > x}
<1>1. PICK m \in Above : \A q \in Above : q <= m
  <2>1. Above \in SUBSET Ids /\ Above # {}
    OBVIOUS
  <2> HIDE DEF Above
  <2> QED BY <2>1, Greatest
<1>2. m \in Newest2(S)
  <2>1. \A q \in S : ~ (q > m)
    BY <1>1
  <2> QED BY <1>1, <2>1, Newest2Is
<1>3. ASSUME a # m PROVE \E n \in Newest2(S) : n > x /\ n # m
  <2>1. PICK n \in Above \ {m} : \A q \in Above \ {m} : q <= n
    <3>1. (Above \ {m}) \in SUBSET Ids /\ (Above \ {m}) # {}
      BY <1>3
    <3> HIDE DEF Above
    <3> QED BY <3>1, Greatest
  <2>2. \A q \in S : q > n => q = m
    BY <2>1
  <2>3. n \in Newest2(S)
    BY <2>1, <2>2, Newest2Is
  <2> QED BY <2>1, <2>3
<1> QED BY <1>1, <1>2, <1>3

\* Evicting as one goes keeps what evicting at the end would.
LEMMA Newest2Again ==
  ASSUME NEW S \in SUBSET Ids, NEW r \in Ids
  PROVE  Newest2(Newest2(S) \cup {r}) = Newest2(S \cup {r})
<1> DEFINE A == Newest2(S) \cup {r}
           B == S \cup {r}
<1>1. A \in SUBSET Ids /\ B \in SUBSET Ids /\ A \subseteq B
  BY DEF Newest2
<1>2. ASSUME NEW x \in Newest2(B) PROVE x \in Newest2(A)
  <2>1. x \in B /\ \A a, b \in B : (a > x /\ b > x) => a = b
    <3>1. x \in B
      BY DEF Newest2
    <3> HIDE DEF B
    <3> QED BY <1>1, <1>2, <3>1, Newest2Is
  <2>2. x \in A
    BY <2>1, Newest2Is
  <2> HIDE DEF A, B
  <2> QED BY <1>1, <2>1, <2>2, Newest2Is
<1>3. ASSUME NEW x \in Newest2(A) PROVE x \in Newest2(B)
  <2>1. x \in A /\ \A a, b \in A : (a > x /\ b > x) => a = b
    <3>1. x \in A
      BY DEF Newest2
    <3> HIDE DEF A
    <3> QED BY <1>1, <1>3, <3>1, Newest2Is
  <2>2. ASSUME NEW a \in B, NEW b \in B, a > x, b > x, a # b PROVE FALSE
    <3>1. PICK q \in S : q > x /\ q # r
      BY <2>2
    <3>2. x \in Ids
      BY <1>1, <2>1
    <3>3. PICK m \in Newest2(S) :
            /\ m > x
            /\ \A y \in S : y > x => y <= m
            /\ q # m => \E n \in Newest2(S) : n > x /\ n # m
      BY <3>1, <3>2, Newest2Above
    <3>4. q = m
      BY <2>1, <3>3
    <3>5. ~ (r > x)
      BY <2>1, <3>1, <3>3, <3>4
    <3>6. a \in S /\ b \in S
      BY <2>2, <3>5
    <3>7. PICK y \in S : y > x /\ y # m
      BY <2>2, <3>6
    <3>8. PICK k \in Newest2(S) :
            /\ k > x
            /\ \A z \in S : z > x => z <= k
            /\ y # k => \E n \in Newest2(S) : n > x /\ n # k
      BY <3>2, <3>7, Newest2Above
    <3> QED BY <2>1, <3>3, <3>7, <3>8
  <2>3. x \in B
    BY <1>1, <2>1
  <2> HIDE DEF A, B
  <2> QED BY <1>1, <2>2, <2>3, Newest2Is
<1> QED BY <1>2, <1>3

\* A launch that is over stays over and keeps its identity.
LEMMA OverStays ==
  ASSUME IInv, Kind, NEW r \in Ids, phase[r] = "gone" \/ coord[r] = "done"
  PROVE  /\ ident'[r] = ident[r]
         /\ phase'[r] = "gone" \/ coord'[r] = "done"
<1> DEFINE Stays == /\ ident'[r] = ident[r]
                    /\ phase'[r] = "gone" \/ coord'[r] = "done"
<1>0. /\ phase \in [Ids -> Phases]
      /\ ident \in [Ids -> RunIdentity]
      /\ coord \in [Ids -> LivePcs \cup {"none", "done"}]
  BY DEF IInv, TypeOK
<1>1. (Quiet => Stays) /\ (Refused => Stays)
  BY DEF Quiet, Refused
<1>2. ASSUME NEW p, NEW t, NEW ep \in Epochs, Entered(p, t, ep) PROVE Stays
  BY <1>0, <1>2, NextIsFresh DEF Entered
<1>3. ASSUME NEW q \in Ids, Dropped(q) \/ Promoted(q) \/ Left(q) \/ \E ph \in ResPhases : Advanced(q, ph)
      PROVE  Stays
  <2>1. Held(q) /\ phase[q] # "gone"
    BY <1>3 DEF Dropped, Promoted, Left, Advanced, Held, Reserved, Running, ResPhases
  <2>2. q # r
    BY <2>1, HeldIsNoCompound
  <2>3. ~Ordinary(q) => /\ ident[q].parent \in Ids
                        /\ coord[ident[q].parent] # "done"
    BY <2>1, ParentIsLive DEF LiveComp, LivePcs
  <2>4. /\ phase'[r] = phase[r] /\ ident'[r] = ident[r]
        /\ coord[r] = "done" => coord'[r] = "done"
    BY <1>0, <1>3, <2>2, <2>3 DEF Dropped, Promoted, Left, Advanced
  <2> QED BY <2>4
<1>4. ASSUME NEW a \in Compounds, NEW ep \in Epochs, StartCompound(a, ep) PROVE Stays
  <2>1. nextRunSeq < MaxRuns
    BY <1>4, BlockOfIds
  <2> QED BY <1>0, <1>4, <2>1, NextIsFresh DEF StartCompound
<1>5. ASSUME NEW d \in Ids, CoordinatorKind(d) PROVE Stays
  <2>1. /\ coord[d] # "none" /\ coord[d] # "done"
        /\ \A x \in Ids : x # d => coord'[x] = coord[x]
        /\ \A x \in Ids : x # current[d] => phase'[x] = phase[x] /\ ident'[x] = ident[x]
    BY <1>5, CoordinatorFrame DEF LiveComp, LivePcs
  <2>2. coord[current[d]] = "none"
    BY <2>1, CurrentIsStep DEF IInv, CompoundShape
  <2>3. CASE r # current[d]
    <3>1. phase'[r] = phase[r] /\ ident'[r] = ident[r]
      BY <2>1, <2>3
    <3>2. coord[r] = "done" => coord'[r] = coord[r]
      BY <2>1
    <3> QED BY <3>1, <3>2
  <2>4. CASE r = current[d]
    <3>1. phase[r] = "gone"
      BY <2>2, <2>4
    <3>2. coord[d] # "admit" /\ coord[d] # "wait" => UNCHANGED <<phase, ident>>
      BY <1>5 DEF CoordinatorKind, LeafLeft, Admitted, Moved, Finished, Marked, Recorded
    <3>3. coord[d] # "admit"
      BY <2>1, <2>4, <3>1 DEF IInv, CompoundShape
    <3>4. coord[d] = "wait" => UNCHANGED <<phase, ident>>
      BY <1>5, <2>4, <3>1 DEF CoordinatorKind, LeafLeft, Admitted, Moved, Finished, Marked, Recorded, Running
    <3> QED BY <3>1, <3>2, <3>3, <3>4
  <2> QED BY <2>3, <2>4
<1> QED
  BY <1>1, <1>2, <1>3, <1>4, <1>5 DEF Kind, LaunchKind, CompoundKind, EnteredRestart

\* A terminal status is retained in the step its run is over, and a clear, which
\* drops every status, ends no run.
LEMMA StatusSteps ==
  ASSUME IInv, [Next]_vars
  PROVE  \/ UNCHANGED statusVars
         \/ terminal' = [p \in Profiles |-> {}] /\ finished' = {}
         \/ \E r \in Ids : /\ Retain(r) /\ UNCHANGED ident
                           /\ phase'[r] = "gone" \/ coord'[r] = "done"
<1> DEFINE Quietly == UNCHANGED statusVars
<1>1. ASSUME NEW r \in Ids, LaunchStep(r) \/ Exit(r) \/ Watchdog(r) \/ StopRunInstance(r) PROVE Quietly
  BY <1>1
  DEF LaunchStep, RestartSignal, RestartTargetExited, PreSpawnCheck, Spawn, SpawnFails, Promote, Reap,
      Exit, Watchdog, StopRunInstance
<1>2. ASSUME NEW r \in Ids, WaitProcess(r)
      PROVE  Retain(r) /\ UNCHANGED ident /\ phase'[r] = "gone"
  BY <1>2 DEF WaitProcess, Unregister, IInv, TypeOK
<1>3. ASSUME NEW c \in Ids, CoordinatorStep(c), ~FinishCompound(c) PROVE Quietly
  BY <1>3
  DEF CoordinatorStep, CompoundTop, CompoundMark, CompoundAdmit, CompoundStarted, CompoundWait,
      CompoundRecord
<1>4. ASSUME NEW c \in Ids, FinishCompound(c)
      PROVE  Retain(c) /\ UNCHANGED ident /\ coord'[c] = "done"
  BY <1>4 DEF FinishCompound, launchVars, IInv, TypeOK
<1>5. ASSUME NEW s \in Stoppers, StopperStep(s) \/ \E c \in Ids : StopCompoundRead(s, c) PROVE Quietly
  BY <1>5 DEF StopperStep, StopCompoundCancel, StopCompoundReturn, StopCompoundRead
<1>6. ASSUME NEW ep \in Epochs, \/ \E p \in Singles : Start(p, ep)
                                \/ \E c \in Compounds : StartCompound(c, ep)
                                \/ \E r \in Ids : Restart(r, ep)
      PROVE  Quietly
  BY <1>6 DEF Start, StartCompound, Restart
<1>7. ASSUME NEW p \in Profiles, NEW s \in Stoppers, Stop(p, s) PROVE Quietly
  BY <1>1, <1>5, <1>7, StopIsExact
<1>8. ASSUME NEW d \in Drainers, \/ StopAllStep(d) \/ StopAllTimeout(d) \/ BeginDrain(d)
                                 \/ FinishSwitch(d) \/ SwitchLoadFails(d) \/ Reload(d)
      PROVE  Quietly
  BY <1>8
  DEF StopAllStep, StopAllBegin, StopAllSignal, StopAllKill, StopAllDone, StopAllTimeout, BeginDrain,
      FinishSwitch, SwitchLoadFails, Reload, EndDrain
<1>9. ASSUME NEW d \in Drainers, ClearTerminalStatuses(d)
      PROVE  terminal' = [p \in Profiles |-> {}] /\ finished' = {}
  BY <1>9 DEF ClearTerminalStatuses
<1>10. CASE UNCHANGED vars
  BY <1>10 DEF vars
<1> QED
  BY <1>1, <1>2, <1>3, <1>4, <1>5, <1>6, <1>7, <1>8, <1>9, <1>10 DEF Next, InternalNext, CallerNext

\* Retention keeps the two newest, and what it has retained is over.
LEMMA RetainedStep == IInv /\ RetainedAreOver /\ [Next]_vars => RetainedAreOver'
<1> SUFFICES ASSUME IInv, RetainedAreOver, [Next]_vars PROVE RetainedAreOver'
  OBVIOUS
<1> DEFINE Ended(p) == {r \in finished : ident[r].profile = p}
<1>0. /\ terminal \in [Profiles -> SUBSET Ids]
      /\ finished \in SUBSET Ids
      /\ \A p \in Profiles : terminal[p] = Newest2(Ended(p))
      /\ \A r \in finished : phase[r] = "gone" \/ coord[r] = "done"
  BY DEF IInv, TypeOK, RetainedAreOver, RetainedAreNewest
<1>1. Kind
  BY StepKinds
<1>2. \A r \in finished : /\ ident'[r] = ident[r]
                          /\ phase'[r] = "gone" \/ coord'[r] = "done"
  BY <1>0, <1>1, OverStays
<1>3. CASE UNCHANGED statusVars
  <2>0. finished' = finished /\ terminal' = terminal
    BY <1>3 DEF statusVars
  <2>1. ASSUME NEW p \in Profiles PROVE Ended(p)' = Ended(p)
    <3>1. \A r \in finished : ident'[r].profile = ident[r].profile
      BY <1>2
    <3> QED BY <2>0, <3>1
  <2>2. \A p \in Profiles : terminal'[p] = Newest2(Ended(p)')
    <3> HIDE DEF Ended
    <3> QED BY <1>0, <2>0, <2>1
  <2>3. RetainedAreNewest'
    BY <2>2 DEF RetainedAreNewest, Newest2
  <2> QED BY <1>2, <2>0, <2>3 DEF RetainedAreOver
<1>4. CASE terminal' = [p \in Profiles |-> {}] /\ finished' = {}
  BY <1>4 DEF RetainedAreOver, RetainedAreNewest, Newest2
<1>5. ASSUME NEW r \in Ids, Retain(r), UNCHANGED ident, phase'[r] = "gone" \/ coord'[r] = "done"
      PROVE  RetainedAreOver'
  <2>1. finished' = finished \cup {r}
    BY <1>5 DEF Retain
  <2>2. ASSUME NEW p \in Profiles PROVE terminal'[p] = Newest2(Ended(p)')
    <3>1. CASE ident[r].profile = p
      <4>1. Ended(p)' = Ended(p) \cup {r}
        BY <1>5, <2>1, <3>1
      <4>2. terminal'[p] = Newest2(terminal[p] \cup {r})
        BY <1>0, <1>5, <2>2, <3>1 DEF Retain
      <4>3. Ended(p) \in SUBSET Ids
        BY <1>0
      <4> HIDE DEF Ended
      <4> QED BY <1>0, <2>2, <4>1, <4>2, <4>3, Newest2Again
    <3>2. CASE ident[r].profile # p
      <4>1. Ended(p)' = Ended(p)
        BY <1>5, <2>1, <3>2
      <4>2. terminal'[p] = terminal[p]
        BY <1>0, <1>5, <2>2, <3>2 DEF Retain
      <4> QED BY <1>0, <4>1, <4>2
    <3> QED BY <3>1, <3>2
  <2>3. RetainedAreNewest'
    BY <2>2 DEF RetainedAreNewest, Newest2
  <2> QED BY <1>2, <1>5, <2>1, <2>3 DEF RetainedAreOver
<1> QED BY <1>3, <1>4, <1>5, StatusSteps

\* Whatever order the runs of a profile finish in, the statuses it retains are
\* those of its two newest launches since the last clear
\* (retainTerminalStatusLocked, clearTerminalStatuses).
THEOREM NewestAreRetained == Spec => []RetainedAreNewest
<1>1. Init => RetainedAreOver
  BY DEF Init, RetainedAreOver, RetainedAreNewest, Newest2
<1>2. RetainedAreOver => RetainedAreNewest
  BY DEF RetainedAreOver
<1> QED BY <1>1, <1>2, RetainedStep, Invariance, PTL DEF Spec
=============================================================================
