# TLA+ for Firn IDE

Firn is a desktop IDE: a Go backend (`app.go`, `internal/`) and a React front end
(`frontend/src`) joined by Wails bindings and events. This directory holds TLA+ models of its
concurrent core, the TLC configurations that check them and TLAPS proofs about them.

    tlc -workers 2 -config Backend.cfg MCBackend.tla     one run
    tlapm RunExecutorProofs.tla                          the proofs of one component

| Component | Specification | TLC instance | Proofs |
|---|---|---|---|
| run executor | `RunExecutor` | `MCBackend`: `Backend`; `MCCompounds`: `ExecCompound`; `MCRunsFiles`: `ExecLive`; `MCRunExecutor`: `ExecLostStop` | `RunExecutorProofs` |
| workspace loads, launches, history routing | `RunWorkspace`, extends `RunExecutor` | `MCRunWorkspace`: `Workspace` | `RunProofs` |
| app close | `AppClose` | `MCFrontend`: `Frontend`; `MCAppClose`: `CloseStaleBackstop` | `FrontendProofs` |
| moving the Golem chat between windows | `DraftOwnership` (what it promises), `GolemWindow` (how) | `MCGolemWindow`: `Window` | `GolemWindowProofs` |
| merge sessions | `MergeSession` | `MCMergeSession`: `Merge`, `MergeOverwrite` | `MergeSessionProofs` |
| documents at a language server | `LspDocuments` | `MCFrontend`: `Frontend`; `MCLspDocuments`: `LspLatest` | `FrontendProofs` |
| writes of a file | `FileWrites` | `MCRunsFiles`: `ExecLive` | `FrontendProofs` |
| turns of a Golem conversation | `GolemTurns` | `MCFrontend`: `Frontend`; `MCGolemTurns`: `TurnsIgnored` | `GolemTurnsProofs` |
| run history | `RunHistory` | `MCBackend`: `Backend` | `RunProofs` |
| approved destinations | `ConsentStore` | `MCBackend`: `Backend` | `GolemSettingsProofs` |
| language servers | `LspManager` | `MCBackend`: `Backend` | `LspManagerProofs` |
| Golem configuration | `GolemSettings` | `MCCompounds`: `ExecCompound` | `GolemSettingsProofs` |

Section 1 is the inventory of the whole repository, 2 the plan and what is left of it, 3 to 14 the
components, 15 what is left out. `MCBackend`, `MCCompounds`, `MCRunsFiles` and `MCFrontend` put components that
share no state into one instance (section 5 says how).

## 1. Inventory

| Component | Source | State | Operations | What makes it hard |
|---|---|---|---|---|
| Run executor | `internal/runprofile/executor*.go`, `identity.go` | live processes, reservations, compound runs, retained statuses, workspace epoch, draining flag | start, exact stop and restart, stop by profile, compound run, drain, StopAll | a launch takes four critical sections with an OS spawn in the middle; coordinators, stop calls, watchdogs, process exits and a workspace switch interleave |
| Profile stores | `internal/runprofile/{project_manager,store,detector,...}.go` | profile files, caches | load, save, detect, migrate | file formats; sequential under one lock |
| Output batcher | `internal/runprofile/batcher.go` | pending segments | write, flush, close | one goroutine owns the buffer |
| Run history | `internal/runhistory/store.go` | record files and an index | append, redact, reconcile | crashes between two files, limits, failing rollbacks |
| App: switching, history routing, close | `app.go` | loaded root, history workspace and epoch, close phase, backstop timer | load profiles, append record, close handshake | switch against launches in flight; shutdown against switch; timer against answer |
| Golem service | `internal/ai/service.go` | repository binding, settings snapshot, conversations, runners | bind, start turn, cancel, reload, close | admission in several critical sections, everything it read may change |
| Consent store, settings apply | `internal/ai/{consent,settings_apply}.go` | grants in memory and on disk, challenges | grant, apply, confirm | partial failures after a durable write |
| Golem window and relay | `app_golem_window.go`, `frontend/src/golem/` | window instance, hand-off number, draft owner, timers | open, bootstrap, dock, close | a two-party hand-off that may time out, abort or be closed at any step |
| Language servers | `internal/lsp/manager.go` | servers by (family, root), open documents, pending installs | open, close, crash restart, provision, shut down | the entry is used after the lock is released; restarts after a backoff |
| Git and merges | `internal/git`, `frontend/src/stores/gitStore.ts` | status, conflict sessions | refresh, resolve, finalise | answers of an older workspace or an older session |
| Search, watcher | `internal/search`, `internal/watcher` | active requests, debounce timers | search, cancel, debounce | a fired timer or a superseded request that still acts |
| Front-end writes | `frontend/src/utils/{fileWrites,lspDocumentSync}.ts`, `hooks/useAutosave.ts` | per-path queues, tracked documents | save, flush, open, close | asynchronous code that reads shared maps after an `await` |
| Terminal, app state, filesystem helpers, UI, bindings, build | rest | - | - | I/O, presentation or generated code |

How they interact. The front end calls bindings of `App`; a run binding resolves a profile, its
root and the workspace epoch under the profile lock and hands them to the executor, which runs
goroutines of its own and reports by events. A workspace load drains the executor under the
profile lock. Closing the app drains it too, together with the language servers, the searches and
the Golem service. Run history takes finished runs back from the front end, tagged with their
epoch.

What makes each correct, in a sentence: the executor never exceeds a profile's slots, never
overlaps a restart with its target, never loses a process, and a drain leaves nothing; a workspace
switch never mixes roots, epochs and histories; a document is open on exactly the server that lives;
a turn runs only with the binding, settings and consent it was admitted under; the draft has one
owner through every hand-off; what was reported durable survives a crash; no answer of an old
session changes a new one.

`PROJECT.json` lists the hazards behind these sentences, each at its line.

## 2. Plan

Done, in this order:

1. **RunExecutor**, the whole executor, with proofs of its safety invariants (section 3).
2. **RunWorkspace** on top of it, and **AppClose** (sections 4 and 5).
3. **GolemWindow**, host, relay and both composers in one module, proved to implement the abstract
   **DraftOwnership** (section 6).
4. **MergeSession**, with proofs of its safety properties (section 7).
5. **LspDocuments**, **FileWrites** and **GolemTurns** (sections 8 to 10), with proofs.
6. **RunHistory** and **ConsentStore**, with crashes and power losses between the calls of the file system,
   and proofs (sections 11 and 12).
7. **LspManager**: several servers, shutdown with the last document, crashes, provisioning, workspace
   loads, with proofs (section 13). `LspDocuments` has one server that is up or crashed, and the texts.
8. **GolemSettings**: the configuration surface and the service's writes and approvals, with proofs
   (section 14).

Left: retirement of runners and `Close` of the Golem service; the selector groups of a configuration
draft.

## 3. The run executor

`RunExecutor.tla` models `executor.go`, `executor_compound.go`, `identity.go` and the part of
`app.go` that drives a workspace switch. One action is one critical section of `Executor.mu`, or
one channel or operating-system event outside it.

State. A run instance id `"r<n>"` is its launch sequence number, so ids are numbers and every map
of the executor is a set of ids with some phase:

| Code | Model |
|---|---|
| `nextRunSeq`, `workspaceEpoch`, `draining` | the same names |
| `reservations` | ids whose `phase` is restart, awaitexit, reserved, spawning, spawned or reaping |
| `processes` | ids whose `phase` is running |
| `compounds` | ids whose `coord` is the program point of a coordinator |
| `identity`, `replacesRunInstanceID` | `ident` |
| `reservation.invalid`, `rp.stopped`, `rp.stopOnce` + watchdog | `invalid`, `stopped`, `watched` |
| the OS process | `os`: none, up, kill (SIGKILL sent, not landed), dead (exited, not reaped) |
| `compoundRun.current`, its context, step states | `current`, `cancelled`, `stepState`; `result` is the coordinator's local state |
| `terminalStatusIDsByProfile`, `lastStatus` | `terminal`; `finished` is a history variable |
| goroutines inside `stopCompoundRunInstance` and inside a drain | `stopper`, `drain` |

Two merges need a word. A launch that finds itself invalidated finishes its reservation in a later
critical section; both are one step (`FailLaunch`), since invalidation never goes away and the
reservation only holds capacity in between. `activeByProfile` is recomputed from the other maps
before every read, so `ActiveOf` replaces it. `reapInvalidatedProcess` stops waiting after a grace
period, so `Reap` may happen before the kill has landed.

A setup error of a compound step (missing directory, bad environment file) is a choice of
`CompoundAdmit`; for ordinary launches it happens before any state changes. Left out: output,
exit codes beyond their classification, durations, event payloads, the drain's reason text, the
Windows kill path.

### Runs

| Run | Question | Instance |
|---|---|---|
| `backend` | can starts, stops, concurrent exact restarts, exits and one workspace switch exceed a profile's two slots, overlap a restart, lose a process or retain the wrong statuses? | one profile, 4 launches, 2 epochs |
| `exec_compound` | can compound runs and ordinary launches share a profile they must not share, can a plan run out of order or go on after a cancel? | two compounds sharing a step profile, one id used both as single and compound, 5 launches, one stop call, at most two ordinary launches (constraint) |
| `exec_live` | does a drain leave nothing and complete, do stops take effect, are reservations released? | a compound, single launches, one switch, 3 launches, fair |
| `exec_lost_stop` | does a stop of a compound run always return? | expected violation, see below |

Bounds. Slots are two, so four launches give three competitors and a replacement; two concurrent
restarts of both live runs need exactly four ids. A compound with two steps shows every order of two
steps, and five ids leave room for a second compound or for two ordinary launches beside it. One epoch
change separates launches into before, during and after a drain. `CHECK_DEADLOCK FALSE` is set
because nobody is obliged to launch anything.

Fairness (`Fairness`): goroutines of the executor proceed, timers fire, and a process that was sent
SIGKILL goes away. A caller is never obliged to call, a process nobody killed need not exit (a
development server does not), and SIGTERM may be ignored. StopAll's deadline is not fair either:
`LaunchesAndDrainsEnd` (a reservation is released, `ReservationReleased`; a drain ends, `DrainCompletes`)
shows that it is not needed once a drain escalates.

### Result that disagrees with the source

`exec_lost_stop`: `stopCompoundRunInstance` reads the current leaf, unlocks and then cancels. A leaf
promoted in between, whose coordinator makes its post-start check before the cancel, is signalled by
nobody; the stop call waits until the leaf exits by itself. `executor_compound.go:300-305` says that
check closes this race. Reading the leaf after `cancel()` would.

### Proofs

`RunExecutorProofs.tla` proves, for every set of profiles, every plan and every bound, that the
specification keeps every safety property of the runs: `TypeOK`, `ProfileCapacity`, `ProfilesExclude`
(`StepExclusive` and `AggregateExclusive`), `CoordinatorOwnsLeaf`, `RestartNeverOverlaps`, `NoUnmanagedProcess`,
`PlanKept` (`PlanOrder` and the action property `CancelStopsPlan`), `DrainLeavesNothing` and
`RetainedAreNewest`. Assumed are only
`PlanAssumption` (what `ResolveSteps` returns: a plan is a non-empty sequence of single profiles) and
`BoundAssumption`.

The inductive invariant `IInv` adds to these:

- `Fresh`: ids not handed out name nothing, so an admission cannot meet an older launch;
- `CompoundShape`: an aggregate and its steps own a block of consecutive ids, a pending step has no
  launch, and a launch under a step's id belongs to that aggregate; without it a step's reservation
  could collide with another coordinator's;
- `ReplacementShape`, `UniqueReplacement`: the target of a restart is running or gone for good, is an
  ordinary launch of the same profile, and has one pending replacement; this is what makes sharing a
  slot sound, because an exit turns exactly one replacement into an owner;
- `ProcessPhase`: a process exists exactly from its spawn to its reap.

The proof first classifies every step of `Next` by what it does to the launches (`Kind`: refused,
entered, entered for a restart, advanced, promoted, dropped, left, ...), each in terms of the
variables the invariants read. Each conjunct is then preserved by a case split over a dozen kinds
rather than some forty actions. `InductiveStep` joins them and `Invariance` is the temporal step.

Three properties need more than `IInv`, and each has an invariant of its own that is proved on top of it:

- `DrainCovers`, for `DrainLeavesNothing`: as long as admission has not reopened, what is live is in the
  snapshot of every drain that took one in the current epoch. Nothing enters while admission is closed except
  what a coordinator or a restart had reserved before, and that was in the snapshot; two drains may overlap,
  and then either finds what it took. An epoch of its own per drain is what keeps an older drain from saying
  anything of a later one.
- `PlanProgress`, for `PlanOrder`: where a coordinator is says which of its steps are over, which may run and
  that the outcome it carries is that of the steps. `CancelStopsPlan` follows from what each
  step does to one coordinator under `IInv`.
- `RetainedAreOver`, for `RetainedAreNewest`: a run that finished never runs again, so its identity, by which
  it is retained, stays.

TLC checked the three on the runs before they were proved. Only model-checked are the liveness properties,
which need fairness and are out of the prover's reach.

## 4. Workspace loads, launches and history

`RunWorkspace.tla` extends `RunExecutor` with the state of `App` around it. The executor's actions
are used as they are: a load and the shutdown each drive a drain of their own, a binding calls
`Start`, `StartCompound`, `Restart`, `Stop` or `StopRunInstance`.

| Code | Model |
|---|---|
| `profileMu` | `load`: one load holds it for writing across its steps (drain, load), every reader needs `load.pc = "idle"` |
| `profileWorkspaceRoot` (with `profileManager` nil or not) | `loaded` |
| `activeHistoryWorkspace`, `activeHistoryEpoch` | `active` |
| `runShutdown`, `shutdownHistoryWorkspace`, `shutdownHistoryEpoch` | `runShutdown`, `atShutdown` |
| what `resolveRunProfile` returned to a binding still in progress | `ticket` |
| root and epoch that a run carries in its payloads | `home`, per run id |
| an `AppendRunHistoryRecord` call between reading the root and routing the record | `record` |
| (history) the epoch of the latest switch | `switched` |

| Code | Action |
|---|---|
| `loadRunProfilesLocked`: same root or `BeginDrain` | `LoadBegin` |
| its `StopAll` succeeding, or missing the deadline | `LoadDrained`, `LoadTimesOut` |
| its manager failing to load, or its block under `closeMu` | `LoadFails`, `LoadSucceeds` |
| `resolveRunProfile`, then the launch or its refusal | `Resolve`, `Launch`, `LaunchRefused` |
| `AppendRunHistoryRecord` | `AppendRead`, `AppendRoute` |
| `beginRunShutdown`, and the runner part of the close drain | `BeginRunShutdown`, `CloseDrainStep` |

Restart of a finished run, or of a compound, is a launch like a start as far as roots and epochs go;
the stop that may precede it is `StopBinding`. Which finished runs the front end reports
(`useRunOutput.ts`) is over-approximated by `Recordable`: the front end sends none of a run it was
not told of, and an append that never happens violates nothing. Profile files are abstracted to
"the load succeeds or fails".

### Run

`workspace`: can roots mix, can a record land in another workspace's history or be lost, does
shutdown stay final and does a load reopen admission? Two roots give every switch there and back;
three epochs give two switches, a switch and a failed one, or a switch and the shutdown, the last
being the case in which an old record still has a home; two launches give a survivor and a
newcomer, or a compound with its step. One binding is in progress at a time, since two bindings share
only the executor, which the executor's own runs explore. At most one record is appended
(`OneAppend`): two appends read shared state and write none. The roots are symmetric.
`CHECK_DEADLOCK FALSE` since nobody is obliged to call. There is no fairness: all properties are
safety properties.

`ExecutorSpec` says that every step of the app is a step of the executor's specification or leaves it
alone, so all that section 3 says of the executor holds in the app; in particular the app never clears
statuses, reopens or fails a drain in an order the executor was not checked for.

`RecordsKept` has two halves: a record is written only to the root its run executed in (`RecordsGoHome`), and it
is refused only when a switch began after its launch (`RefusedOnlyBySwitch`). The second does not say that records of a switched workspace are kept: the code refuses
them by design, also when the switch then fails and the old workspace stays loaded. What it shows is
that closing the app loses none.

### Proofs

`RunProofs.tla` proves `ExecutorSpec`, `RecordsKept`, `AdmissionFollowsLoads` (shutdown is final, and a
finished load leaves admission open) and `OneRoot`, for every set of roots, bindings, profiles and plans and every
bound. Assumed besides the executor's assumptions: `NoRoot` is no root, and the two drains differ.

The refinement comes first (`AppStepIsExecutorStep`), which gives `IInv` of the executor in every
state. `AppInv` is then inductive. Its heart is `Fits`: an epoch, once a binding took it together with
a root, belongs to that root for good, because an epoch is published by one load only or again by a
load of the same root. A record's route compares epochs and never roots, so `RecordsGoHome` needs
exactly that. `LoadShape`, `EpochOrder` and `OpenIffCurrent` tie the load, its drain and the
published pair together; `HomesFit` and `AppendsFit` apply `Fits` to launches and to appends in
progress. `AppInv` also proves the type invariant `WTypeOK`.

`OneRoot` rests on `DrainLeavesNothing` of the executor: a switch changes the root only after a clean drain.
Its invariant `LoadedIsHome` says it of everything in progress, also the steps of a compound run that are not
launched yet, and also while admission is closed: a switch that fails leaves launches behind, of the root that
is still loaded, and the next load of that root may open admission with them running.

## 5. App close

`AppClose.tla` models the close machine of `app.go`. One action is one critical section of `closeMu`
or one step outside it. A handshake is numbered by the request that opened it, and so is its
backstop; the code has no such number, only the one timer field.

| Code | Model |
|---|---|
| `closePhase` | the same name |
| `closeBackstopTimer` | `backstop`, the handshake whose timer it holds |
| a `time.AfterFunc` timer | `timer`: armed, fired (its goroutine runs, not yet in the lock), stopped, done |
| `handleBeforeClose` of the front end | `answered`: it confirms or cancels a handshake at most once |
| `shouldQuit` between its unlock and `enterCloseDrain` | `request` |
| `startCloseDrain`, its three goroutines, `permitAndQuit` | `drainPc`, `task` |
| (history) calls of `startCloseDrain`, the handshake it was begun for | `starts`, `opener` |

`EnterCloseDrain` is the common critical section of the confirmation, the repeated request
(`ForceDrain`) and the backstop (`BackstopCallback`). That a timer which has fired is not stopped by
`Stop()` is the documented behaviour of the Go library, modelled in `Disarmed`. What the teardown
does to the runs is `RunWorkspace`'s business (`BeginRunShutdown`, `CloseDrainStep`); the language
servers and the Golem service are here only tasks that end or do not. The saving of the Golem window's
frame is left out.

### Runs

| Run | Question | Instance |
|---|---|---|
| `frontend` | does the teardown start exactly once, does a cancel leave nothing, does every handshake end and every drain end the app? | two requesters, three handshakes, three tasks, fair |
| `close_stale_backstop` | is a drain only forced by the timer of the open handshake? | expected violation |

`MCFrontend` puts the close beside the components of sections 8 and 10. The three share no state, so
nothing is gained from their interleavings: `moves` names the one that takes the steps of a behaviour, and
the run explores each completely. The fairness of a component that does not move asks for nothing,
because none of its fair steps is enabled in its initial state.

Two requesters let one be caught between its two critical sections while the other acts; three
handshakes let one be cancelled while an older timer is still about to run. `CHECK_DEADLOCK FALSE`
because the app ends. Fairness: timers fire, goroutines run, the drain's own two-second deadline passes
(`DrainWaitEnds` is enabled whatever the tasks do). Nobody has to ask to quit, to answer, or to
finish a teardown task.

### Result that disagrees with the source

`close_stale_backstop`: the user asks to quit, the backstop fires after a minute, and before its
callback takes `closeMu` the front end cancels and the user asks again. `Stop()` comes too late and
its result is ignored; the callback finds `awaiting_frontend` and tears the app down over the new
prompt, though `app.go:128-132` gives that prompt the full backstop. Comparing the callback's timer
with `closeBackstopTimer` under the lock would close the gap.

### Proofs

`FrontendProofs.tla` proves `TeardownOnce` and `CancelRestores` for every number of requesters,
handshakes and tasks, from `MaxHandshakes \in Nat` alone. The invariant `CloseInv` adds that phase,
drain and tasks move together and that only the open handshake's timer is armed. `CloseEnds` (an open handshake
ends, `HandshakeEnds`, and a drain ends the app, `DrainEndsApp`) needs fairness and stays with TLC.

## 6. Moving the Golem chat between windows

`GolemWindow.tla` models `app_golem_window.go` (the host), `golem/windowRelay.ts` (main window),
`golem/windowSatellite.ts` (Golem window) and the part of `golem/relayCore.ts` they share: undocking,
bootstrap, docking, native close, timeouts, aborts, the observer of a window that does not go away, and
the Sends of the Golem window, which main carries out.

| Code | Model |
|---|---|
| `golemWindowRuntime` (mode, phase, instance, hand-off, authorisations) | `go`; `seqs` are its two counters |
| `OpenGolemWindow` between its unlocked steps | `open` |
| the native window: created, run, closing, removed | `win` |
| published states on their way to a window | `news`, in any order: a state carries its sequence number |
| `PostGolemWindowMessage` calls | `posts`; a post that is uncertain may be repeated up to `MaxPosts` times |
| relayed messages | `relayed`, in order per window |
| the two `Owner` objects with their cores | `main`, `sat` |
| the text of a composer | the number of the text the user typed, 0 when empty |

`DraftOwnership.tla` is what all this is for: one composer text, at most one window that accepts
typing, each text submitted at most once and shown to nobody afterwards. `MovesDraft` is the refinement
`INSTANCE DraftOwnership WITH host <- Host, text <- ComposerText`: the text is main's while the chat is
docked and the Golem window's otherwise, except that a Send main has accepted has already left the
composer, though the Golem window clears it only when the acknowledgement arrives.

`golem_window` checks it with one window, two transitions (undock and dock, or undock twice because the
first failed), one text, one Send, each post tried twice, and one retirement the observer gives up on. Two
transitions are what it takes for a late message of the first to meet the second; a second window
differs from the first only by its number, which the first's late messages already fail to match.
`HandoffsEnd`: after every transition, however it ends, a composer accepts typing again. Fair are calls,
timers, posts and events. `BootstrapGolemWindow` is not: the page of the new window may never load, and
the transition timeout must do. Excused are a stall that only the user can end (the observer gave up,
or the native close came before the window was run) and a Dock whose closing state main never saw.

A projection main cannot post is left out: `postView` (`relayCore.ts:115-129`) then posts a `view-error`, which
keeps the Golem window frozen until a newer projection arrives (`projectionError`, `windowSatellite.ts:155-165`),
and main publishes one only when something it shows changes. In the model no `view-error` is sent
(`Barrier` asks only whether a projection is held), so `HandoffsEnd` says nothing of a Golem window that such an
error keeps frozen after the hand-off. When it is the first projection that fails, no `ready` follows and the
transition timeout ends the opening, as in the model.

### Proofs

`GolemWindowProofs.tla` proves `MovesDraft` for every number of windows, transitions, texts, Sends, repeated
posts, posts under way and retirements the observer gives up on, from `BoundsAssumption` (they are natural
numbers, and something may be posted). The text and the windows that accept typing do not suffice: what
happens to the text when the chat changes hands was decided by messages and states long before. So the
invariant `WindowInv` says of everything that may still be seen or delivered what it must agree with.

| Part of `WindowInv` | What it says |
|---|---|
| `HostFits` | the phase, the mode, the native window and the goroutine that opens one fit together: undocked means ready or closing with a window that runs until the host has authorized its close |
| `StatesFit` | of the states published and not seen yet: nothing of an older instance comes after one of the current instance, an instance's states are not interrupted, and once the move back has begun nobody will see the window ready again |
| `MainFits`, `SatFits` | the cores: main's is bound to the instance of its state, the text it transfers is the text it froze; the Golem window waits for a Send only with the text it sent still in its composer, and accepts typing only while it sees itself ready |
| `MessagesFit` | of every message posted, relayed, claimed or set aside: a Send that main has not executed is the one the Golem window waits for; a map carries the text of the window that is frozen for it; an answer is what main answered; and main has no core left for an instance that is gone |
| `MovesFit` | once the map of the move back is on its way no Send is under way and nothing changes the text; the host authorizes the close only with the map installed in main |

Where the two windows overtake each other the invariant has to speak of both: an acknowledgement that reaches the
Golem window after main has executed the Send (`ClearsKeeps`), a map that arrives before the first projection and is
installed later (`DeliveredMapKeeps`), a state main reads out of order (`InstallsKeeps`).

The proof is organised by what a step does, not by action. Most steps move nothing, and `Stays` is one lemma for
all of them: messages, states and moves go on fitting. Beside it there is one lemma for each kind of step that
does move something: of the host (`RedocksKeeps`, `RetiresKeeps`, `ReadiedKeeps`, `ReservesKeeps`, `RunsKeeps`,
`RemovedKeeps`), of main (`InstallsKeeps`, `ExecutesKeeps`, `ClaimsKeeps`, `TakesKeeps`, `MainEditsKeeps`) and of
the Golem window (`HearsKeeps`, `DrainsKeeps`, `ClearsKeeps`, `GetsKeeps`, `SatSendsKeeps`, `SatEditsKeeps`). Each
action is then one of these.

For the refinement a step keeps the text, types, or submits (`StepOutcome`). At most one window
accepts typing (`OneLive`: main only while it sees no window, the Golem window only while undocked), and no step
changes both (`OneWindow`), so between two windows that accept typing there is a time when none does. With `TextFits` (the text in the composer was
typed and not submitted) each outcome is a step of `DraftOwnership` or none (`OwnerStep`). TLC checked
`WindowInv` and `TextFits` on the instance of the run before they were proved, and by simulation with two
windows, four transitions and three texts. `HandoffsEnd` is liveness and stays with TLC.

## 7. Merge sessions

`MergeSession.tla` models `gitStore.ts` from `openMergeResolution` to `finalizeMergeSession`, the controls
of `MergeResolutionView.tsx` that enable them, the guarded mutations of `internal/git/conflicts.go` (each a
compare and a mutation under one lock) and the write queue as far as it meets them.

| Code | Model |
|---|---|
| worktree content and conflict identity of a path | `world`; `Version` is the pair the backend compares |
| tab of the path, queued save, `getFileWriteRevision` | `tab`, `saves`, `writes` |
| `epoch`, `opInFlight`, `mergeRequestRevision`, `mergeSession`, `mergeAdvancePending` | the same, shorter |
| calls in flight, with what they captured before their awaits | `opens`, `checks`, `over`, `fin` |
| (history) versions a session or notice showed, or an overwrite read | `reviewed`, `reread` |

| Run | Question | Instance |
|---|---|---|
| `merge_session` | is nothing unseen written over and nothing else staged, is the session the newest request, do decisions survive the checks, does every reload, finalize and advance end? | a text conflict and a whole-file one in the queue, two finalizes, a reload, two checks in flight, one disturbance anywhere, any call failing, fair |
| `merge_overwrite` | is a version that moved while the overwrite dialog was open refused? | expected violation |

One disturbance is enough for the safety questions since each compare is against one captured value; two
finalizes give a retry after a failure. After a workspace switch the model has no new session:
what is checked is that the calls of the old one change nothing.

`merge_overwrite`: `mergeOverwriteAndStage` reads the conflict again and takes what it reads as the
version to be replaced, without comparing it with what the notice showed; `MergeResolutionView.tsx:330-332`
says that such a version is refused.

### Proofs

`MergeSessionProofs.tla` proves `OneSession`, `Guarded` and `KeepsDecisions` for every set of paths and every
bound. None of them is inductive: each depends on what a call captured before its await. The invariant
`MergeInv`, which TLC checked on the instance of `merge_session` before, adds what is true of the calls in
flight:

- `RequestsFit`: a request number is given out once and a session outlives the call that opened it, so the
  answers of an older request find a number that is not theirs. This gives `OneSession`, with `Advances` (an
  advance has its open in flight) and `OpFits` (the operation of a merge is held by the finalize that is past
  its compare, in the workspace it began in).
- `VersionsFit`: what a finalize goes by was shown or read again, or a merge wrote it (`Known`). Since versions
  only grow, `Written` says that of a version in the past as well: if the file still has it, a merge was the
  last to write it. The compares of `conflicts.go` turn the first into the guard of the write and the second
  into that of the stage; `StageGrows` and `OneFileChanges` are the lemmas about a stage and about a step's one file.
- `ChecksFit`: only one check is not stale, and while a forced one may land the session waits for its reload.
  So a check that finds the conflict changed on disk either lands in a session that asked for it or leaves
  what was decided alone, which is `KeepsDecisions`.

That reloads, finalizes and advances end needs fairness and stays with TLC.

## 8. Documents at a language server

`LspDocuments.tla` models one document: `lspDocumentSync.ts`, the subscriptions of
`useLSPDocumentSync.ts`, and `DidOpen`, `DidChange`, `DidClose` and the restart after a crash of
`internal/lsp/manager.go`.

| Code | Model |
|---|---|
| the editor file | `buffer`; a reload by the watcher is a change followed by a save |
| `TrackedDocument` objects, the one in `documents`, the newest entry of `closeBarriers` | `docs`, `tracked`, `barrier` |
| `flushLSPDocumentChange` calls: awaiting the open, sent, arrived | `flushes` |
| `closeTrackedDocument` calls | `closes` |
| reference count and text at the server; the `lsp:reconnect` event | `server`, `reconnect` |
| (history) crossings after which the text may be old | `lost` |

What awaited an open goes on before any other task runs, in the order the awaits began (`Waiting`,
`Idle`, `turn`): these are microtasks. Calls of the backend are served and answered in any order. A save
is a flush with its own text; the `didSave` that follows tells the server no text and is left out.

Two documents (`MaxDocs`) give a close and an open behind its barrier, or a restart; two texts give the
change and the way back; three actions that are changes, requests or crashes, in every mix, give a
change, a second one that overtakes it and a crash. Calls return and timers fire (fairness).

`ServerFollows` says both:

- `ClosedIsClosed`: a closed document does not stay open at the server, however its open was delayed.
- `LatestStateApart`: once nothing is left to be sent, the server has the text of the buffer, except after
  three crossings: an older text comes back while a change is in flight (`reverted`), a change or an open
  is sent beside a change in flight (`overtaken`), a restart announces a document that was opened since
  (`reannounced`).
- `lsp_latest`, an expected violation, drops the exceptions, as `docs/roadmap.md:526` does ("without
  dropping latest state"). The shortest way is `reverted`: `scheduleLSPDocumentChange` compares with
  `syncedContent`, which is set only when the call returns.

### Proofs

`FrontendProofs.tla` proves `LatestStateApart` (`LatestStateIsKept`) and the state that `ClosedIsClosed` leads
to (`ClosesRelease`: while the file is closed and no close is left, the server does not hold it), for every
set of texts and number of documents, calls and crashes. That the state is reached needs fairness and stays
with TLC. The invariant is `LspInv` (`DocumentInvariance`). Two parts hold whatever was lost:

- `Tracks`: only an open file has a tracked document, the newest one, whose open is awaited or through; a
  change is sent for opened documents only.
- `ClosesInTurn`: every document created after one that is closing waits for a close that is not through
  either, so that closes end in the order of the documents, each before the next open goes.

The rest holds until one of the crossings of `lost`, and is why only those matter:

- `OneAnnounced`: the server holds at most one reference, of a document that is tracked or closing. An open
  that goes therefore finds no other (`AwaitedIsFirst`), and its text becomes the server's.
- `UpToDate`, of the tracked document: it alone has a change on its way, and one at a time (`OneChange`);
  a pending text is the buffer's and has a timer or a waiting flush to send it (`PendingIsLatest`); without
  one the buffer's text is in flight or synced (`LatestIsSent`); a flush that waits with a text of its own
  stands beside one that was not sent yet (`OwnIsUnsent`), or its return would take back a newer text; the
  server has what arrived last (`ServerHasLast`).

`Repends` and `StructureKeeps` say what every change of texts leaves alone, `Flushed` and `SendsKeeps` what a
flush does whether it goes at once or after the open; one lemma for each action shows the rest. TLC checked
`LspInv` first, on three documents and four actions.

## 9. Writes of a file

`FileWrites.tla` models one path: `utils/fileWrites.ts`, `hooks/useAutosave.ts`, opening a tab
(`editorNavigation.ts`), the reload of `App.tsx`, and the file in `ideStore.ts`. Texts are numbered in the
order somebody wrote them, so that the properties can tell which was the last; but the code compares what texts
say, and a user who undoes comes back to an earlier one. Whatever is typed or written by another program may
therefore say the same as any text there was, the file's first one included (`NewText`). `alike` has the pairs that do,
and wherever the code compares contents the model compares with `Same`.

| Code | Model |
|---|---|
| `writeQueues` entry of the path | `chain`: its operations in order, the first one running |
| autosave timer, `savingFiles` | `debounce`, `saving` |
| `pendingWorkingTreeEdits` entry | `pend`; its `draining` promise is the drain in `chain` |
| `ensureEditorFileOpen`, `flushAllFileEdits`, `saveOpenFileToDisk` calls | `visit`, `flush`, `save` |
| the watcher's event and `ReadFile` calls | `watch`, `reads` |
| `content ===` and `!==` between texts | `Same`, by the pairs of `alike` |
| (history) last text typed, last failure reported | `typed`, `told` |
| (history) last text the user returned to that was wrongly taken for saved | `undone` |
| (history) an edit in a diff view crossed the opening of a tab | `crossed` |

`withFileWriteLock` is given up behind a failed operation, every other operation runs (`Aborts`, `Rest`).
Kinds of operation: autosave, drain, close of a tab, flush, lock.

- `Kept`: the last text typed in any surface is on its way to the disk, or there (itself, or a text that says the
  same) and not overwritten by an older one, or its failure was shown.
- `ReportsAreTrue`: when `flushAllFileEdits` returns without an error, everything typed before it was called is
  written, or the user was told (`FlushSaves`; the close handshake of section 5 relies on it); the same for
  `saveOpenFileToDisk`, which a merge or a stage awaits (`SaveSaves`).
- `AutosaveEnds`: a modified tab is saved in the end, through failures and typing. Fairness: timers fire
  and calls return; writes fail only as often as the bound says.

The first two make two exceptions by name (`Excepted`), `undone` and `crossed`. Both are losses in the code, described
below. `undone` is set in two places only, each on the condition that harm is done (`Bypassed`: the disk lacks the text,
or an operation in the queue will write another one): when a tab is marked as saved that has a text typed after the
one that was written (`Undone`), and when an edit of the diff view leaves a clean tab clean (`Matched`). Any other
loss violates the properties, whichever texts repeat.

| Run | Question | Instance |
|---|---|---|
| `exec_live` | is nothing lost untold but for the exceptions, do a flush and a save tell the truth, is a modified tab saved in the end? | three actions, one reload in flight, fair; beside the executor of section 3 |

An action is a text, typed or written by another program, a failure, the opening of a tab, or a call of a flush or a
save; any three of them, in every mix. Two texts and a tab are what the second loss below takes, with its
exception; a failed save, its retry, and typing in between need three as well. The first loss takes a fourth, and
all properties of the run were also checked once with four actions on their own. What takes more, such as a save
called after three texts and a flush, is covered by the proof.

Not covered by the properties: `saveOpenFileToDisk` returns at once for a tab
closed while it waited for the lock, so that what was typed after its call lands behind its return (what was
typed before is written by then: `SaveSaves` makes no exception for it); and two reads of the watcher that come back
in the other order leave a clean tab behind the disk, which contradicts none of the properties above since
nothing was typed.

### Losses the exceptions name

TLC finds a violation as soon as one of them is no longer excepted.

`undone`, an undo during an autosave. An autosave of A is in flight; the user types B, and a flush queues B behind
it; the user undoes to A. The autosave returns, finds in the tab the text it wrote (`useAutosave.ts:35`) and marks it
as saved. Then B lands. The tab shows A and is clean, the disk has B, and nothing saves A again; a `saveOpenFileToDisk`
called after the undo finds a clean tab (`fileWrites.ts:144`) and returns with B on disk. `saveOpenFileToDisk` itself
looks for queued writes before it compares ("A save queued while this write was in flight must run before we can
decide which buffer revision is durably last", `fileWrites.ts:151-152`); the autosave does not.

`undone`, an undo in the diff view. A tab with the unsaved text A is closed and its write is in flight; the file is
opened again and read before A lands; in the diff view the user comes back to the old text, which the tab has.
`queueWorkingTreeEdit` finds nothing to do, because it looks only for a drain in flight (`fileWrites.ts:194`), though the
reason its comment gives holds for any write: "or that write could leave disk behind a clean buffer". A lands over
the user's last text.

Both happen without a queued write too, when another program has changed the file and its event has not been handled
yet: the text that was returned to equals what the editor last wrote or read, and is not written over the other
program's.

`crossed`. An edit made in a diff while a tab of the file is being opened, after its flush, lands behind the read
and may be lost (`fileWrites.ts:270` says a pending edit is flushed before any surface reads the file).

### Proofs

`FrontendProofs.tla` proves `Kept` (`TextsAreKept`) and `ReportsAreTrue` (`ReportsHold`) for every number of
texts, failures, tabs, calls and reloads, and whichever texts repeat. Neither is inductive: a queue may hold any
texts in any order for all they say. The invariant `FileInv` (`FileInvariance`) adds, while no edit crossed the opening of a tab:

- `QueueFits`: only the first operation runs; there is at most one autosave (which holds `savingFiles`), one
  drain (that of the pending edit) and one lock; texts are queued in the order they were typed, but for the
  lock's, which is read when it runs; what an autosave or a lock writes is still in a modified tab, or is
  written again by the close of that tab; what the first operation landed is on disk, or something newer.
- `SurfacesFit`: the tab or the pending edit has the last text, never both, since a pending edit is drained
  before a tab opens.
- `LastIsSafe`, with `Safe` for any text: neither the text on disk nor one that an operation left will write does
  it harm, or an operation whose failure is shown will write it or a newer one, or its failure was shown.
  `Harmless` has the pairs of a text and one whose writing leaves the disk with the first or a newer one, be it
  by saying the same; and, for a text up to `undone`, all pairs. It only grows (`HarmlessGrows`), so what was safe
  stays safe when a new text turns out to say the same as an old one (`GrowsSafe`).
- `FlushFits`, `SaveFits`, `LockFits`: what a call has promised is in the tab, in its drain, or safe; behind
  a lock that has been requested nothing older than the promise is left to write.

Lemmas on sequences say how each clause fares when an operation joins the queue (`Extends...`), leaves it
with the lock it aborts (`Shift...`), or runs (`Like...`); `HandsOver` states what every step has in common
(a text that was safe stays safe, and a surface gives up its text only when that is safe), and one lemma for
each action shows it. Where an autosave or a diff edit takes a text for saved that was returned to, either what is left to
be written is harmless, or the step has set `undone` (`ReturnedTo`); `undone` is never newer than the last text
typed (`UndoneStep`), so a text typed afterwards is promised again. `AutosaveEnds` is liveness and stays with TLC.

## 10. Turns of a Golem conversation

`GolemTurns.tla` models one conversation from the user's Send to the terminal event: `golemStore.ts`,
`useGolemBridge.ts` and, at the service, `internal/ai/service.go`.

| Code | Model |
|---|---|
| conversation in the store with its runs, queue and pending consent; `bridgePhase`, `hydratedIdentity`, `hydratedEpochFloor` | `win` |
| run ids with what they were made for | `made` |
| `RunGolemTurn`, `CancelGolemRun`, `GetGolemStatus` calls | `turns`, `cancels`, `status` (only the newest status request counts) |
| `bindChainRef` | `rebinds` |
| binding, `conversationRecord`, `runClaims`, challenge, grant | `svc` |
| events on their way | `events`, in order |
| past deadlines of challenges | `expired` |
| (history) launches and requests per message, runs whose end was applied, crossings | `launches`, `wanted`, `over`, `gaps` |

`StartTurn` is one step: `admit` holds the binding gate and the conversation throughout, so that what it read
cannot change. The run's end is two, `RunEnds` and `EmitsEnd`: the conversation is released before the
terminal is emitted, and the next turn may start in between. Answers of calls race the events.

- `TurnsOnce`: no message runs more often than the user asked for it, through queueing, consent,
  retries and rebinding (`OncePerAsking`), and a run that has ended never takes the conversation again
  (`EndsOnce`).
- `RunsCompleteApart`: the run the conversation waits for ends, or waits for the user's consent.
- `turn_ignored`, an expected violation, drops the exceptions of the last.

Three actions in every mix of messages, closed repositories, retries, cancels, clears, refusals, deadlines
and changes of settings: two messages are a queue, a third action disturbs it; one message and two others
are a retry after a rebinding, or a cancel after a deadline. Fairness: calls are served and answered, events
arrive, runs end, and so does a rebinding that has begun. The user need not consent, retry or come back.

Three crossings the properties name (`gaps`):

- `ignored` (`turn_ignored`): a run that ends without a terminal event after its repository was reopened. The
  service sends `golem:run-status` with the run's identity, the store compares it with the identity of the
  new binding and drops it; the run stays active for ever.
- `revived`: an answer of `GetGolemStatus` that lists a run is in flight while the run ends and the
  conversation is cleared; the clear forgets the tombstones (`golemStore.ts:1270-1285`) on which
  `golemStore.ts:34-37` relies.
- `shelved`: the repository is closed while a consent is being granted; the prompt goes back on the queue
  although its turn may run.

`GolemTurnsProofs.tla` proves `TurnsOnce` for every bound on the actions (`TurnBounds`), from the invariant
`TurnInv /\ Submitted`:

- `WindowPart`: the calls, the active and the pending run are runs that were made, no two calls are for the same
  run, and (`Balance`) for each message the launches so far, its places in the queue and the runs that may still
  launch it (`LiveRuns`: their call is open or their consent is asked for) are together at most the number of
  times it was asked for, unless a consent was shelved. `OncePerAsking` alone is not inductive: it does not see
  the prompt that is about to be sent a second time;
- `ServicePart`: what the service holds and what is on its way was claimed; the call of a run that waits at
  admission is of a run not claimed yet, so a run is launched by one call; the end of a run is the last event of
  it (`EventsFit`) and nothing of a run whose end the window has seen is left at the service (`OverFits`);
- `EndsPart`: such a run is shown as ended, or is unknown and not listed by a status on its way, unless an
  answer of `GetGolemStatus` crossed a clear (`revived`);
- `Submitted`: the messages that runs, queue and last failure name were submitted. A retry asks once more for the
  failed message and not for one that is yet to come.

There is one lemma for each action and part. What actions share is stated once: a dispatch (`DispatchFits`), a run
set to a phase (`PhasedFits`), a pending consent that is given up, a service that drops a run or a challenge
(`QuieterFits`), and counting lemmas that move a message between queue, runs and launches. That runs complete
(`RunsCompleteApart`) is liveness and stays with TLC.

## 11. Run history

`RunHistory.tla` models `internal/runhistory/store.go` for one workspace, and `WriteFileAtomic` of
`internal/filesystem/atomic.go` under it. The workspace lock lets operations follow each other, so the
interleaving is with what fails: a call of the file system, the process, the power.

| Code | Model |
|---|---|
| record files and `index.json`, as a process sees them | `disk` |
| the same, as of the last sync of the directory | `synced` |
| temp files left by writes that were interrupted | `temps` (bytes) |
| the record a file holds | with output, without, redacted, damaged, none; `stamp` stands for size and time |
| the operation with its list of records, its problems, its place | `op` |
| (history) what was answered, removed, cleared; renames that may not be synced; files a power loss brought back | `answer`, `removed`, `cleared`, `strays`, `revived` |

| Code | Action |
|---|---|
| lock and `reconcileLocked` | `AppendRecord`, `Snapshot`, `ClearRecord`, `ClearAll` |
| one removal, one redaction, or the index write of `enforceLimitsLocked` | `Prune`, `Redact`, `WriteIndex` |
| a clear's removal of a damaged file, its redaction | `ClearProblem`, `ClearOutput` |
| the write of the new record, its rollback | `WriteRecord`, `Rollback` |

Every one of them may also fail at each of its calls, or end with the process in the middle of
`WriteFileAtomic`. A power loss undoes any subset of the changes of the directory since its last sync, each
file for itself; contents are synced before the rename. The temp files are not subject to it: they are
only counted.

- `AnswersHold`: `Append` tells the truth. A record reported as saved has its file until a limit removes it,
  through crashes and power losses; one reported as failed leaves none. The exceptions of the second half
  are in the history variables: when the sync after the rename fails, `WriteFileAtomic` returns an error
  though the file is there (`strays`), and the removal of a rollback may be undone by a power loss
  (`revived`). The next reconciliation shows such a record; nothing in the code promises otherwise.
- `ClearedStays`: output that a clear which succeeded was to redact is never to be had again.
- `IndexIsTrue`: what an operation takes from the index is what the files hold.
- `RichBounded`: however often the limits cannot be enforced, a profile has at most one record with output
  above its limit.

The instance (`Backend.cfg`, shared with sections 3, 12 and 13): three records of two profiles, two completion
times, with and without output, one clear and two faults. The limits are small enough for each to
bind with three records: three records and two per profile, one with output, an index of two, and a byte target
that two records with output exceed. Two faults are a crash and the power loss that follows, or a
failure and the failing rollback. `RichBounded` was also checked once with four records and four faults.
`CHECK_DEADLOCK FALSE` because the bounds end.

A file that cannot be read is modelled as damaged for good. In the code a `stat` or a read that fails for the
moment makes the file a problem of that reconciliation only (`store.go:463-470`, `506-516`) and the next one takes
it as it is; until then it is handled as a damaged file is.

`RunProofs.tla` proves `AnswersHold`, `ClearedStays`, `IndexIsTrue` and `RichBounded` for all limits and bounds, from
`HistoryLimits` (they are natural numbers, as the code's constants are). The invariant `HistInv` says what is
durable besides what is visible: a saved record and a redaction are there in both directories
(`SavedDurable`, `ClearedDurable`), a file that has the stamp of a first write is what the record's kind says
(`Stamped`, which makes the index true), a new record is nowhere before its write and in both directories
after it (`Appending`), and a clear redacts all it was asked to before it ends (`Clearing`). Redactions and
removals share one lemma about what they leave (`Lessened`), and everything that ends the operation
another (`Ends`), so each action's proof is about its own fields only.

`RichBounded` needs to count. Its invariant `RichFits`, inductive on top of `HistInv` and checked by TLC
first, says besides that no profile is above its limit while a record is about to be written: a write
follows an index that was written when nothing had to be removed or redacted any more (`NotLavish`, which needs
`RecsTrue`: the operation counts what the files hold). So the one action that adds output adds it to a profile
within its limit; all others satisfy `NoOutputBut({})`, and a set that does not grow does not count more
(`OutputsShrink`, from the theorems on finite sets).

## 12. Approved destinations

`ConsentStore.tla` models `internal/ai/consent.go`: `OpenConsentStore` with its sync of the directory before
the file is read, `Grant` and `GrantMany`, which write the whole merged set and let memory follow, and every
way either can fail or be interrupted.

| Code | Model |
|---|---|
| `golem-consent.json`, as seen, and as of the last sync | `stored`, `durable` |
| `granted`, `loadErr` | `granted`, `store` |

`Backed`: every destination the process authorizes is in the file, also if power is lost now. A grant that
reported an error may be in the file all the same, and a later open takes it over; the comment of `Grant`
says so. Two destinations and four mishaps give a failed grant, the end of the process, an open that finds
the unsynced file, and a power loss. `GolemSettingsProofs.tla` ends with a proof of `Backed` for every set of
destinations and every number of mishaps; the invariant adds what `store` says of the memory.

## 13. Language servers

`LspManager.tla` models `internal/lsp/manager.go` for one language family: several project roots, each with
at most one server, and the documents that are opened there. The editor is in it as far as it opens and
closes documents and answers `lsp:reconnect` (`lspDocumentSync.ts`, `useLSPDocumentSync.ts`); the texts are
the business of section 8. One action is one critical section of `Manager.mu`, or one wait outside it: the
start of a process, its shutdown, the backoff, the install.

| Code | Model |
|---|---|
| `servers`, `docKeys`, `pendingProvisionDocs` | `servers`, `docKeys`, `pending` |
| `serverEntry` objects with their client and process | `entries`: none, init, up, shutting, dead; `open` are the reference counts, `told` the documents the process has |
| `workspaceRoot`, `stopped`, the cancelled context | `workspaceRoot`, `managerStopped`, `ctxDone` |
| calls of the bindings, `monitorServer`, `beginProvision` and restart goroutines | `threads`, each with its program point and what it has read: the entry, the process, the documents it will announce |
| `SetLSPWorkspaceRoot` (`ShutdownAll`, then `SetWorkspaceRoot`) | `asked`, `load` |
| the cache of managed servers, `provisioning` | `cached`, `provisioning` |
| the status events, as far as they are errors | `failed` |
| (history) documents that were left without a server | `crossed` |

| Code | Action |
|---|---|
| `DidOpen`: barrier and lookup, entry into the server, the notification | `DidOpen`, `EntersDocument`, `SendsOpen` |
| `ensureServer`, `startServer` | `EnsureServer`, `Provision`, `StartServer`, `InitializeFails`, `StartSuperfluous`, `Registers`, `AfterShutdown` |
| `DidClose`, `shutdownServerIfEmpty`, `serverForPath` | `DidClose`, `TellsClosed`, `ShutdownServerIfEmpty`, `ServerForPath` |
| `monitorServer` | `ServerCrash`, `CrashSeen`, `BackoffEnds`, `Restarted` |
| `beginProvision`, `RetryProvision`, `restartFamily` | `InstallBegins`, `Installed`, `InstallFails`, `RetryProvision`, `FamilyRestarted` |
| `SetInterpreterOverride`, `restartRunningFamily` | `SetInterpreter`, `ShutdownServer` |
| `ShutdownAll`, `SetWorkspaceRoot` | `ShutdownAll`, `ShutdownOne`, `SetWorkspaceRoot` |

- `ServersAreManaged`: no process runs that is neither registered for its root nor in the hands of the
  goroutine that starts it (`Managed`), and once a load is over no server is left of a root outside the
  workspace (`Here`), whatever was starting, backing off or installing when the load began.
- `Serves`: once everything settled, a file that is open in the editor is open at the server of its root, or
  an error is shown for the root; `crossed` names the exceptions.

The instance (`Backend.cfg`): a workspace with a nested project root and a second workspace, two documents
of one root, of two roots or of two workspaces, with and without a cached server; three acts (of the user, a
crash, a failure) in every mix, two opens of a document, three processes, one restart after a crash. Two
acts bring a server up and disturb it, the third meets the disturbance; a third process is the one that starts
while a first is shut down and a second has lost. The last two crossings below need three documents, or four
opens of one, so the instance does not reach them: they came out of the proof, and TLC confirmed each on a
larger instance. `CHECK_DEADLOCK FALSE`, because the user may stop.

What leaves a document without a server and without an error, found while modelling (`crossed`):

- An open that arrives before `SetWorkspaceRoot` returned, or for a document outside the workspace's roots:
  `DidOpen` answers without an error, and nothing opens the document later.
- An install is single-flight by family: a document of another root that needs the same server waits for it,
  but `restartFamily` announces only the documents of the install's own root. One that a load cut off ends
  without a reconnect.
- A start that fails, or is abandoned by a load, while other documents wait for it in `pendingProvisionDocs`.
- `DidOpen` uses the entry `ensureServer` returned after `m.mu` was released; when that server was shut down
  meanwhile, the document is entered where nobody looks for it.
- A change of the interpreter, and a load of the same workspace, shut servers down and announce only the
  documents that waited for an install, not those the servers had open.
- A server given up after its last retry, or whose restart a load drops during the backoff.
- An install fails, and documents of its root go on waiting in `pendingProvisionDocs` beside the error. Once
  an install of another root has filled the cache, any later open starts the first root's server: the error is
  taken away (`startServer`, `manager.go:862`), and nobody announces the documents that waited, since
  `restartFamily` does so only for the root it was called for (`Forgotten`).
- A `lsp:reconnect` repeats an open that is on its way; the second of the two is answered first, and the file
  is closed. If the first open comes in after `DidClose` counted to zero and before its notification
  (`manager.go:361`), the process hears of the open first and of the close last, while the count stays at one.
  When the file is opened again, the count is above zero and nothing is sent (`Untold`).

Three smaller ones contradict no property: a crash between the registration of a restarted server and the
carry-over of its count (`manager.go:1047`) is counted from zero; a document opened twice at one server
and closed once keeps it alive; the status "starting" stays after a start that lost against another.

`LspManagerProofs.tla` proves `ServersAreManaged` and `Serves` for every set of documents, workspaces and
roots and every bound. The assumptions are that a workspace is a root of its own, that `NoRoot` is none, and that the bounds
are natural numbers. The invariant `ManagerInv` adds to it that a goroutine that starts a process has it to
itself (`StartsOwn`, which makes the failed and the superfluous start harmless), that a registered process
is up or has crashed and was started for that root (`Registered`, so that taking a root's server away leaves
the others alone), and that during a load the manager is stopped and the servers left are those the load
will shut down (`Loading`, from which `Here` follows when it ends). Most actions touch neither processes nor
their starts and share one lemma (`CallFrame`); the others are lemmas about a start that ends
(`StartGivenUp`), a process that ends (`ProcessGone`) and a root that loses its server (`Unregistered`).

`Serves` speaks of settled states; its invariant `ServeInv` says of every state in whose hands a document is
that is open in the editor and crossed nothing (`Cares`): its newest open is on its way (`Opening`); it waits
for an install that will announce it, or beside the error of one (`WaitsInstall`); a reconnect lists it
(`Announced`); the server of its root counts it, and was told, is about to be, or is dead (`HasServer`); a
restart after a crash carries it (`Restarting`). Every action passes the document from one of these to
another, or it is the action the document crosses; when nothing is under way only the server and the error
are left, which is `Serves`. The other parts are what the passing on rests on:

- `StepsFit`: which points a goroutine of each kind can be at, and that one with a server knows which;
- `OpensFit`, `Barriers`: an open is for the root its file has and its number is its own; a close of a file
  that is open again is older than the newest open, and that open waits behind it, so no close takes away
  what the newest open is about to achieve;
- `Uncached`: until the first install ends no server has run, exactly one install is out while `provisioning`
  says so, and the opens of one document get to the manager one after the other: an older open was given up
  by a close that awaits its answer. So an open that returns without a server leaves no other open of its
  document, and its place in `pendingProvisionDocs` is what an install finds.

Two attempts at this proof failed for good reasons: the last two crossings above. TLC checked `ServeInv` with
three documents of two roots, one open of each and four acts completely (505 thousand states), and with three
roots, four opens, six processes and nine acts by simulation (26 million states). The proof has one lemma per action; the frame
they share is that of a thread that goes on while the others stay (`Forward`, `CaresOn`), with variants for
steps of no thread (`CaresStill`), for a close (`CloseServes`), for an answer (`ReturnsServes`) and for the
opens and closes of several documents at once (`Opens`, `Closes`).

## 14. Golem configuration

`GolemSettings.tla` models the surface on which a configuration is drafted and applied
(`GolemConfigWorkspace.tsx`, the draft of `types/golemConfig.ts`, the close guard) together with the service
behind it (`ReloadSettings`, `writeSettings`, the two calls of a destination approval, in
`internal/ai/service.go` and `settings_apply.go`). A write that reaches a new remote destination takes two
calls: the first answers with a challenge, the second repeats the whole request with its token.

| Code | Model |
|---|---|
| the configuration file, the curated profile, grants, the snapshot, `pendingApplies` | `host`; a configuration is the destinations it reaches and whether a key is set |
| the call between `beginOperation` and `endOperation`, and the service's progress in it | `rpc` |
| best-effort cancels, `ReloadGolemSettings` and `LoadGolemProfile` calls, the generation | `strays`, `loads` |
| `phase`, `draft`, `preview`, `outcome`, the kept request, the key refs, open editors | `page` |
| the discard dialog, `confirmConfigClose` waiting for the call in flight | `dialog`, `closing` |
| (history) what became of a token the surface gave up | `fate` |

The controls are the actions under `Controls`, each with the conditions under which it is enabled on the
screen; calls, answers, deadlines, turns and other programs are under `Serving`. Three things are one step
although the code has more: what React batches between two events; a stale reload may read the file any
number of times, since of its answer nothing is left; and a close that waited for a call resumes before
anything else, as its continuation is queued before any later event (`Due`). Whether it sees the page with
or without the answer depends on React's render, so `Ends` lets it see either.

- `ConsentCovers`: a published configuration reaches no destination that the file did not reach before and
  nobody approved, and the service records an approval only for the destinations listed in the prompt that
  is on the screen, by the token it shows.
- `SurfaceIsTrue`: what Retry and Confirm send again is what the page shows; a key value is held exactly
  while its change is staged; and the page says it is loading exactly while a load that may land is out.
- `TokensTracked`: a challenge the service still honours is on the screen, in a call or about to be
  cancelled, unless its cancel or the answer that carried it was lost; and one the user was told is cancelled
  authorizes nothing.

The instance (`ExecCompound.cfg`, shared with section 3): one remote destination, one challenge, one upset
(a turn, a change of a file, a lost call or a failed step), and a user who may use every control at any time,
without a bound. One destination suffices because the properties compare sets by inclusion and a draft either
reaches the destination or not; the second challenge of a user differs from the first in its number. An upset
beside an unbounded user reaches each answer of the service and each way to fail. The executor's part of the
run is over one configuration, which it never looks at. `CHECK_DEADLOCK FALSE`, because nobody has to do
anything; there is no fairness.

`GolemSettingsProofs.tla` proves the three properties for every set of destinations and every bound, from
`SettingsBounds` (the bounds are natural numbers). Their common invariant `SettingsInv` says, part by part:

- `LoadsFit`: at most one load may still land, only such a one is answered, and the page says so;
- `PageFits`: while the service holds a request or a challenge of the page, the page shows a configuration,
  loads nothing and reports nothing else, and the request that would be sent again is the draft. This is what
  makes a second call, or a retry, mean what the user sees;
- `CallFits`: the point a call has reached says what it holds: a first call has no token, a second one has the
  token of the page, and what a prepared write reaches is covered;
- `ChallengesFit`: a challenge lists what its prompt shows, and approving it covers what its request plans to
  reach from the file it was prepared for. The plan is a function of the request alone (`PlannedReach`), since
  a request is published only over the file it names; without that the coverage would have to be proved anew
  whenever somebody edits the file;
- `TokensFit`: a token that was used or cancelled is gone for good.

The proof has one lemma per action and a few about who steps: the page alone (`PageStep`), the service alone
(`ServiceStep`), a call that is sent (`SendStep`) and one that lands (`LandStep`); each action shows only its
own fields. `SurfaceIsTrue` and `TokensTracked` are parts of the invariant. `ConsentCovers` is an action
property: only `Publishes` turns a prepared write into a file, only the two approvals grant, and the
invariant covers both. TLC checked every part of `SettingsInv` first, with one destination and one challenge
completely, and partly with two of either and with two upsets.

Seen while modelling, none of them against a property:

- A tab closed while `PrepareGolemDestinationGrants` is out and the draft is clean may skip the cancel
  (`unsavedRef` is as of the last render); the token lives on for its ten minutes (`"slipped"`).
- After "Discard & quit", when the quit is abandoned by a failing flush, the preview of a source stays on the
  screen although the draft is of the applied configuration again.
- A close that waited for a successful Apply may still ask whether to discard it.
- A quit requested while the cancel of a closing tab is out asks on a surface that is gone; only the next
  request to quit goes on.
- After a conflict every row can be staged again against the old document before it is reloaded, and nothing is
  left under review.

## 15. Not modelled

What is here is the part of the repository in which the order of events decides: it is a small part of its
lines. More than half of the source is presentation, generated bindings, themes, type declarations and form
validation (the parsers of `types/golemConfig.ts`, `bindings/`, `theme.ts`), and most of
`ideStore.ts` and `gitStore.ts` are reducers that run to completion on one thread.

Out of reach, or better served by other tools: byte-stream framing of the language server transport, git's
and ripgrep's own behaviour, terminals. Profile files and detection are sequential and format-bound, where
unit tests are the better tool. The run output batcher is one goroutine behind one channel; the search is a
token comparison.

Left for later, with the plan of section 2: `Close` of the Golem service, the watcher's debouncer.

Of the modelled components: transcripts and the batching of deltas (data without control), several
conversations at once (they share the service's binding only), editing and removing queued turns, branch
lists and refreshes of the git store (`loadBranches`, `gitStore.ts:619-624`, applies its answer without
comparing the epoch; overlapping refreshes apply in the order of their answers), encodings that cannot be
written back, the read budget of a reconciliation (`maxReconcileReadBytes`) and an index of a newer version,
the selector groups, capability floors and document mutations of a configuration change, endpoints and
identities of destinations, file modes and unsafe paths, the discovery of language servers and
of interpreters, and the report of the doctor.

Model-checked only: all liveness, which is out of the prover's reach.
