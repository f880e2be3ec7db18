---------------------------- MODULE MergeSession ----------------------------
(***************************************************************************)
(* Resolving conflicted files one after the other (gitStore.ts): a session *)
(* is opened from the state of a conflict on disk, checked again whenever  *)
(* something happened to its file, reloaded, and finalized, which writes   *)
(* the result and stages it.  Editors of the same files save beside it,    *)
(* other programs change them, other git operations run, and the workspace *)
(* may be switched at any step.                                            *)
(*                                                                         *)
(* The backend (internal/git/conflicts.go) compares the version it is      *)
(* given and mutates in one step.  A version is the number of the content  *)
(* in the working tree and the identity of the conflict (stages and heads).*)
(***************************************************************************)
EXTENDS Naturals, FiniteSets

CONSTANTS
  Texts,          \* conflicted files resolved region by region
  Sides,          \* those of which one side is taken whole
  NoPath,
  MaxDisturbs,    \* bound on the changes of other programs, texts typed into
                  \* editors, other git operations and workspace switches
  MaxOpens,       \* bound on the sessions the user asks for
  MaxReloads,     \* bound on the reloads the user asks for
  MaxChecks,      \* bound on the checks in flight
  MaxTries        \* bound on the finalizes the user asks for

ASSUME PathsAssumption == Texts \cap Sides = {} /\ NoPath \notin Texts \cup Sides
ASSUME BoundsAssumption ==
  /\ MaxDisturbs \in Nat /\ MaxOpens \in Nat /\ MaxReloads \in Nat
  /\ MaxChecks \in Nat /\ MaxTries \in Nat

VARIABLES
  world,          \* path -> what is on disk and in the index
  tab,            \* path -> its editor tab: "closed", "clean" or "dirty"
  saves,          \* path -> whether a save of it is queued
  writes,         \* path -> getFileWriteRevision
  epoch,          \* epoch of the store
  op,             \* opInFlight, and the epoch it was started in
  request,        \* mergeRequestRevision
  session,        \* mergeSession
  opens,          \* calls of openMergeResolution in flight
  checks,         \* calls of revalidateMergeSession in flight
  over,           \* the call of mergeOverwriteAndStage in flight
  fin,            \* the call of finalizeMergeSession in flight
  advancing,      \* mergeAdvancePending
  spent,          \* counters of the bounds
  reviewed,       \* history: path -> versions shown by a session or a notice
  reread          \* history: path -> versions read to overwrite a notice's

vars == <<world, tab, saves, writes, epoch, op, request, session, opens, checks,
          over, fin, advancing, spent, reviewed, reread>>

Paths == Texts \cup Sides

Version(p) == <<world[p].ver, world[p].conflict>>

NoSession ==
  [path |-> NoPath, req |-> 0, wrev |-> 0, src |-> <<0, 0>>, dirty |-> FALSE,
   reload |-> FALSE, external |-> "none", chosen |-> FALSE, applied |-> FALSE, queue |-> {}]

NoFin ==
  [pc |-> "idle", path |-> NoPath, req |-> 0, epoch |-> 0, wrev |-> 0, expected |-> <<0, 0>>,
   applied |-> FALSE, ahead |-> FALSE, queue |-> {}]

NoOver == [pc |-> "idle", path |-> NoPath, req |-> 0, state |-> [read |-> FALSE]]

(* GitConflictState: one coherent read, or an error. *)
State(p) ==
  [read |-> TRUE, src |-> Version(p), conflict |-> world[p].conflict, markers |-> world[p].markers]
Failure == [read |-> FALSE]

IsSession == session.path # NoPath
(* The view disables its controls from the click until the call returns. *)
Finalizing == fin.pc # "idle" \/ over.pc # "idle"
Locked(p) == fin.pc \in {"write", "wrote", "stage", "staged"} /\ fin.path = p

(***************************************************************************)
(* Other programs, the editor tabs and other git operations.               *)
(***************************************************************************)
Disturbable == spent.disturbs < MaxDisturbs
Disturbs == spent' = [spent EXCEPT !.disturbs = @ + 1]

Changed(p, by, markers, conflict) ==
  world' = [world EXCEPT ![p] = [ver |-> @.ver + 1, by |-> by, markers |-> markers,
                                 conflict |-> conflict]]

Outside(p) ==
  /\ Disturbable /\ world[p].conflict # 0
  /\ \/ Changed(p, "outside", world[p].markers, world[p].conflict)
     \/ Changed(p, "outside", FALSE, world[p].conflict)
     \/ Changed(p, "outside", FALSE, 0)
     \/ Changed(p, "outside", TRUE, world[p].conflict + 1)
  /\ Disturbs
  /\ UNCHANGED <<tab, saves, writes, epoch, op, request, session, opens, checks,
                 over, fin, advancing, reviewed, reread>>

TabOpens(p) ==
  /\ tab[p] = "closed" /\ epoch = 0 /\ Disturbable
  /\ tab' = [tab EXCEPT ![p] = "clean"]
  /\ UNCHANGED <<world, saves, writes, epoch, op, request, session, opens, checks,
                 over, fin, advancing, spent, reviewed, reread>>

TabTypes(p) ==
  /\ tab[p] # "closed" /\ Disturbable
  /\ tab' = [tab EXCEPT ![p] = "dirty"]
  /\ Disturbs
  /\ UNCHANGED <<world, saves, writes, epoch, op, request, session, opens, checks,
                 over, fin, advancing, reviewed, reread>>

(* Autosave, and closing a modified tab, queue a save of its text. *)
TabSaves(p) ==
  /\ tab[p] = "dirty" /\ ~saves[p]
  /\ saves' = [saves EXCEPT ![p] = TRUE]
  /\ tab' = [tab EXCEPT ![p] = "clean"] \/ tab' = [tab EXCEPT ![p] = "closed"]
  /\ UNCHANGED <<world, writes, epoch, op, request, session, opens, checks,
                 over, fin, advancing, spent, reviewed, reread>>

(* A queued save runs, or fails, when the lock on its path is free; a       *)
(* finalize queued behind a failed save is rejected with it.                *)
SaveRuns(p) ==
  /\ saves[p] /\ ~Locked(p)
  /\ fin.pc = "lock" /\ fin.path = p => fin.ahead
  /\ saves' = [saves EXCEPT ![p] = FALSE]
  /\ writes' = [writes EXCEPT ![p] = @ + 1]
  /\ \/ /\ Changed(p, "editor", world[p].markers, world[p].conflict)
        /\ fin' = IF fin.path = p THEN [fin EXCEPT !.ahead = FALSE] ELSE fin
     \/ /\ fin' = IF fin.path = p /\ fin.ahead THEN [fin EXCEPT !.pc = "rejected"] ELSE fin
        /\ UNCHANGED world
  /\ UNCHANGED <<tab, epoch, op, request, session, opens, checks, over,
                 advancing, spent, reviewed, reread>>

(* runOp of any other operation, from its start to its end. *)
OtherOpStarts ==
  /\ op.held = "none" /\ Disturbable
  /\ op' = [held |-> "other", epoch |-> epoch]
  /\ Disturbs
  /\ UNCHANGED <<world, tab, saves, writes, epoch, request, session, opens, checks,
                 over, fin, advancing, reviewed, reread>>

OtherOpEnds ==
  /\ op.held = "other"
  /\ op' = [op EXCEPT !.held = "none"]
  /\ UNCHANGED <<world, tab, saves, writes, epoch, request, session, opens, checks,
                 over, fin, advancing, spent, reviewed, reread>>

(* resetForWorkspace; the tabs have been saved and closed.  The results of  *)
(* calls of the old epoch are still on their way.                           *)
Switch ==
  /\ epoch = 0 /\ Disturbable
  /\ epoch' = epoch + 1
  /\ session' = NoSession /\ advancing' = FALSE
  /\ op' = [held |-> "none", epoch |-> epoch + 1]
  /\ saves' = [p \in Paths |-> saves[p] \/ tab[p] = "dirty"]
  /\ tab' = [p \in Paths |-> "closed"]
  /\ Disturbs
  /\ UNCHANGED <<world, writes, request, opens, checks, over, fin, reviewed, reread>>

(***************************************************************************)
(* openMergeResolution: save the open tab, read the conflict, install the  *)
(* session.  The newest request of the workspace wins.                     *)
(***************************************************************************)
Asked(p, queue, advance) ==
  [path |-> p, req |-> request + 1, epoch |-> epoch, pc |-> "saving", wrev |-> 0,
   state |-> Failure, queue |-> queue, advance |-> advance]

Current(call) == call.epoch = epoch /\ call.req = request

OpenStarts(p) ==
  /\ ~IsSession /\ fin.pc = "idle" /\ epoch = 0 /\ spent.opens < MaxOpens
  /\ request' = request + 1
  /\ opens' = opens \cup {Asked(p, Paths, FALSE)}
  /\ spent' = [spent EXCEPT !.opens = @ + 1]
  /\ UNCHANGED <<world, tab, saves, writes, epoch, op, session, checks, over, fin, advancing,
                 reviewed, reread>>

OpenReturns(o) ==
  /\ opens' = opens \ {o}
  /\ advancing' = (advancing /\ ~o.advance)

OpenMoves(o, next) == opens' = (opens \ {o}) \cup {next} /\ UNCHANGED advancing

(* saveOpenFileToDisk returns when no write of the path is queued. *)
OpenSaved(o) ==
  /\ o.pc = "saving" /\ ~saves[o.path] /\ ~Locked(o.path)
  /\ \/ /\ tab[o.path] = "dirty"
        /\ Changed(o.path, "editor", world[o.path].markers, world[o.path].conflict)
        /\ tab' = [tab EXCEPT ![o.path] = "clean"]
        /\ writes' = [writes EXCEPT ![o.path] = @ + 1]
     \/ tab[o.path] # "dirty" /\ UNCHANGED <<world, tab, writes>>
  /\ IF Current(o)
     THEN OpenMoves(o, [o EXCEPT !.pc = "asking", !.wrev = writes'[o.path]])
     ELSE OpenReturns(o)
  /\ UNCHANGED <<saves, epoch, op, request, session, checks, over, fin, spent, reviewed, reread>>

OpenSaveFails(o) ==
  /\ o.pc = "saving" /\ tab[o.path] = "dirty"
  /\ OpenReturns(o)
  /\ UNCHANGED <<world, tab, saves, writes, epoch, op, request, session, checks, over, fin,
                 spent, reviewed, reread>>

OpenReads(o) ==
  /\ o.pc = "asking"
  /\ \E state \in {State(o.path), Failure} :
       OpenMoves(o, [o EXCEPT !.pc = "read", !.state = state])
  /\ UNCHANGED <<world, tab, saves, writes, epoch, op, request, session, checks, over, fin,
                 spent, reviewed, reread>>

(* A text session needs its markers; a path without stages is resolved. *)
Resolvable(p, state) == state.conflict # 0 /\ (p \in Texts => state.markers)

SessionOf(p, req, state, queue) ==
  [NoSession EXCEPT !.path = p, !.req = req, !.wrev = writes[p], !.src = state.src,
                    !.queue = queue]

Shows(p, src) == reviewed' = [reviewed EXCEPT ![p] = @ \cup {src}]

(* A defect: a superseded request still installs its session. *)
OpenInstalls_Superseded(o) ==
  /\ o.pc = "read"
  /\ OpenReturns(o)
  /\ IF o.state.read /\ writes[o.path] = o.wrev /\ Resolvable(o.path, o.state)
     THEN /\ session' = SessionOf(o.path, o.req, o.state, o.queue)
          /\ Shows(o.path, o.state.src)
     ELSE UNCHANGED <<session, reviewed>>
  /\ UNCHANGED <<world, tab, saves, writes, epoch, op, request, checks, over, fin, spent, reread>>

OpenInstalls(o) ==
  /\ o.pc = "read"
  /\ OpenReturns(o)
  /\ IF Current(o) /\ o.state.read /\ writes[o.path] = o.wrev /\ Resolvable(o.path, o.state)
     THEN /\ session' = SessionOf(o.path, o.req, o.state, o.queue)
          /\ Shows(o.path, o.state.src)
     ELSE UNCHANGED <<session, reviewed>>
  /\ UNCHANGED <<world, tab, saves, writes, epoch, op, request, checks, over, fin, spent, reread>>

(***************************************************************************)
(* The user works on the session.                                          *)
(***************************************************************************)
sessionOnly == <<world, tab, saves, writes, epoch, op, opens, over, fin, reread>>

(* Decide a region or reopen it; choose a side, which forgets an applied    *)
(* other one.                                                               *)
Decides(chosen, keeps) ==
  /\ IsSession /\ ~Finalizing /\ ~session.reload
  /\ session.path \in Sides => chosen
  /\ session' = [session EXCEPT !.dirty = TRUE, !.chosen = chosen, !.applied = @ /\ keeps]
  /\ UNCHANGED <<sessionOnly, request, checks, advancing, spent, reviewed>>

(* requestMergeClose, with its confirmation of a session that was touched. *)
Closes ==
  /\ IsSession /\ ~Finalizing
  /\ session' = NoSession /\ request' = request + 1 /\ advancing' = FALSE
  /\ UNCHANGED <<sessionOnly, checks, spent, reviewed>>

(***************************************************************************)
(* revalidateMergeSession: only the newest read may be applied.            *)
(***************************************************************************)
CheckOf(s, force) ==
  [path |-> s.path, req |-> s.req, epoch |-> epoch, force |-> force, stale |-> FALSE,
   pc |-> "asking", state |-> Failure]

WithCheck(cs, s, force) == {[c EXCEPT !.stale = TRUE] : c \in cs} \cup {CheckOf(s, force)}

(* A defect: a background check supersedes the read of a reload. *)
MayCheck_BesideReload(s) == s.path # NoPath

(* Not while a finalize runs, nor beside a reload. *)
MayCheck(s) == s.path # NoPath /\ ~s.reload

(* A watcher event of its file, or a refresh that misses it in the status  *)
(* (bound: only when there is something to see).                           *)
Notices ==
  /\ MayCheck(session) /\ fin.pc = "idle"
  /\ Version(session.path) # session.src \/ session.external = "failed"
  /\ Cardinality(checks) < MaxChecks
  /\ checks' = WithCheck(checks, session, FALSE)
  /\ UNCHANGED <<sessionOnly, request, session, advancing, spent, reviewed>>

(* The notice of the view offers Reload, or Retry; of a file resolved        *)
(* outside only Close; and Finalize asks first when only the file changed.  *)
Reloadable == session.external \in {"worktree", "conflict", "failed"}
Overwritable == session.external = "worktree"

Reloads ==
  /\ IsSession /\ ~Finalizing /\ ~session.reload /\ Reloadable
  /\ spent.reloads < MaxReloads
  /\ session' = [session EXCEPT !.reload = TRUE]
  /\ checks' = WithCheck(checks, session, TRUE)
  /\ spent' = [spent EXCEPT !.reloads = @ + 1]
  /\ UNCHANGED <<sessionOnly, request, advancing, reviewed>>

CheckReads(c) ==
  /\ c.pc = "asking"
  /\ \E state \in {State(c.path), Failure} :
       checks' = (checks \ {c}) \cup {[c EXCEPT !.pc = "read", !.state = state]}
  /\ UNCHANGED <<sessionOnly, request, session, advancing, spent, reviewed>>

Live(c) ==
  /\ session.path = c.path /\ session.req = c.req
  /\ epoch = c.epoch /\ ~c.stale

(* resolved-outside stays; the end of a reload settles it. *)
Outdated(s, why) ==
  [s EXCEPT !.external = IF @ = "resolved" THEN @ ELSE why]

(* What a live read makes of the session, when it is not replaced. *)
Verdict(c) ==
  LET s == session
      state == c.state
  IN CASE ~state.read -> Outdated(s, "failed")
       [] state.read /\ state.conflict = 0 -> Outdated(s, "resolved")
       [] state.read /\ state.conflict # 0 /\ state.src = s.src ->
            [s EXCEPT !.external = "none"]
       [] state.read /\ state.src # s.src /\ state.conflict # 0
            /\ ~Resolvable(s.path, state) -> Outdated(s, "resolved")
       [] OTHER -> Outdated(s, IF state.conflict = s.src[2] THEN "worktree" ELSE "conflict")

(* A defect: what was decided while the read was out is not looked at. *)
Replaces_Decided(c) ==
  c.state.read /\ c.state.src # session.src /\ Resolvable(session.path, c.state)

(* An untouched session, or a reload, starts again from the new state. *)
Replaces(c) ==
  /\ c.state.read /\ c.state.src # session.src /\ Resolvable(session.path, c.state)
  /\ ~session.dirty \/ c.force

CheckEnds(c) ==
  /\ c.pc = "read"
  /\ CASE ~Live(c) ->
            /\ checks' = checks \ {c}
            /\ UNCHANGED <<request, session, reviewed>>
       [] Live(c) /\ Replaces(c) ->
            /\ request' = request + 1
            /\ session' = SessionOf(c.path, request + 1, c.state, session.queue)
            /\ Shows(c.path, c.state.src)
            /\ checks' = IF c.force /\ fin.pc = "idle"
                         THEN WithCheck(checks \ {c}, session', FALSE) ELSE checks \ {c}
       [] OTHER ->
            /\ session' = [Verdict(c) EXCEPT !.reload = @ /\ ~c.force]
            /\ checks' = checks \ {c}
            /\ IF session'.external = "worktree" THEN Shows(c.path, c.state.src)
                                                ELSE UNCHANGED reviewed
            /\ UNCHANGED request
  /\ UNCHANGED <<sessionOnly, advancing, spent>>

(* Any number of further checks may be asked for by the end of a finalize.  *)
ChecksAfter(s, refused) ==
  IF refused /\ MayCheck(s) THEN WithCheck(checks, s, FALSE) ELSE checks

(***************************************************************************)
(* finalizeMergeSession: write the result where the file is still what was *)
(* reviewed, stage it where it is still what was written, go to the next.  *)
(* Flushing the pending edit and waiting for the lock on the path are      *)
(* awaited; a side is chosen before the lock, and may be applied already.  *)
(***************************************************************************)
Begun(expected) ==
  [NoFin EXCEPT !.pc = "flush", !.path = session.path, !.req = session.req, !.epoch = epoch,
                !.wrev = session.wrev, !.expected = expected,
                !.applied = session.applied /\ expected = session.src,
                !.ahead = saves[session.path], !.queue = session.queue]

(* Nothing is done for a superseded session or beside another operation,   *)
(* and a file saved since the session was opened invalidates it.           *)
Finalize(expected) ==
  IF session.req # request \/ (writes[session.path] = session.wrev /\ op.held # "none")
  THEN UNCHANGED <<request, session, fin>>
  ELSE IF writes[session.path] # session.wrev
  THEN session' = NoSession /\ request' = request + 1 /\ UNCHANGED fin
  ELSE fin' = Begun(expected) /\ UNCHANGED <<request, session>>

FinStarts ==
  /\ IsSession /\ ~Finalizing /\ ~session.reload /\ session.chosen
  /\ session.external = "none" /\ spent.tries < MaxTries
  /\ Finalize(session.src)
  /\ spent' = [spent EXCEPT !.tries = @ + 1]
  /\ UNCHANGED <<world, tab, saves, writes, epoch, op, opens, checks, over, advancing, reviewed, reread>>

(* The user overwrites what changed in the working tree: the conflict is    *)
(* read once more, and what that read saw is what may be replaced.          *)
OverStarts ==
  /\ IsSession /\ ~Finalizing /\ ~session.reload /\ session.chosen
  /\ Overwritable /\ spent.tries < MaxTries
  /\ over' = [pc |-> "asking", path |-> session.path, req |-> session.req, state |-> Failure]
  /\ spent' = [spent EXCEPT !.tries = @ + 1]
  /\ UNCHANGED <<world, tab, saves, writes, epoch, op, request, session, opens, checks, fin,
                 advancing, reviewed, reread>>

OverReads ==
  /\ over.pc = "asking"
  /\ \E state \in {State(over.path), Failure} : over' = [over EXCEPT !.pc = "read", !.state = state]
  /\ UNCHANGED <<world, tab, saves, writes, epoch, op, request, session, opens, checks, fin,
                 advancing, spent, reviewed, reread>>

OverContinues ==
  /\ over.pc = "read"
  /\ over' = NoOver
  /\ LET state == over.state
         gone  == state.conflict = 0 \/ ~Resolvable(session.path, state)
     IN CASE session.path # over.path \/ session.req # over.req \/ ~state.read ->
               UNCHANGED <<request, session, fin, reread>>
          [] session.path = over.path /\ session.req = over.req /\ state.read
               /\ (state.conflict # session.src[2] \/ gone) ->
               /\ session' = Outdated(session, IF state.conflict # 0 /\ state.conflict # session.src[2]
                                               THEN "conflict" ELSE "resolved")
               /\ UNCHANGED <<request, fin, reread>>
          [] OTHER -> /\ Finalize(state.src)
                      /\ reread' = [reread EXCEPT ![session.path] = @ \cup {state.src}]
  /\ UNCHANGED <<world, tab, saves, writes, epoch, op, opens, checks, advancing, spent, reviewed>>

Stays == fin.epoch = epoch
Ours == session.path = fin.path /\ session.req = fin.req
FinCurrent == Stays /\ fin.req = request

(* The captured session is dropped, with the requests of its time. *)
ClearsCaptured ==
  IF Stays /\ Ours THEN session' = NoSession /\ request' = request + 1
                   ELSE UNCHANGED <<session, request>>

FinEnds == fin' = NoFin

(* The pending edit of the file is saved, or could not be. *)
FinFlushes ==
  /\ fin.pc = "flush"
  /\ fin' = [fin EXCEPT !.pc = "lock", !.ahead = saves[fin.path]] \/ FinEnds
  /\ UNCHANGED <<world, tab, saves, writes, epoch, op, request, session, opens, checks, over,
                 advancing, spent, reviewed, reread>>

FinRejected ==
  /\ fin.pc = "rejected"
  /\ FinEnds /\ ClearsCaptured
  /\ UNCHANGED <<world, tab, saves, writes, epoch, op, opens, checks, over, advancing, spent,
                 reviewed, reread>>

(* With the lock everything is looked at again, a save queued behind the    *)
(* finalize included.  A text whose tab shows another content is refused.   *)
Stable == writes[fin.path] = fin.wrev /\ ~saves[fin.path]

FinLocks ==
  /\ fin.pc = "lock" /\ ~fin.ahead
  /\ IF ~FinCurrent \/ op.held # "none"
     THEN FinEnds /\ UNCHANGED <<request, session, op>>
     ELSE IF ~Stable
     THEN FinEnds /\ ClearsCaptured /\ UNCHANGED op
     ELSE \/ /\ tab[fin.path] = "dirty" \/ (fin.path \in Texts /\ tab[fin.path] = "clean")
             /\ FinEnds /\ UNCHANGED <<request, session, op>>
          \/ /\ tab[fin.path] # "dirty"
             /\ fin' = [fin EXCEPT !.pc = IF fin.applied THEN "stage" ELSE "write"]
             /\ op' = IF fin.applied THEN [held |-> "merge", epoch |-> epoch] ELSE op
             /\ UNCHANGED <<request, session>>
  /\ UNCHANGED <<world, tab, saves, writes, epoch, opens, checks, over, advancing, spent, reviewed, reread>>

(* The backend writes over the expected version only. *)
FinWrites ==
  /\ fin.pc = "write"
  /\ \/ /\ Version(fin.path) = fin.expected
        /\ Changed(fin.path, "merge", FALSE, world[fin.path].conflict)
        /\ fin' = [fin EXCEPT !.pc = "wrote", !.expected = <<world[fin.path].ver + 1, @[2]>>]
     \/ /\ Version(fin.path) # fin.expected
        /\ fin' = [fin EXCEPT !.pc = "refused"] /\ UNCHANGED world
     \/ fin' = [fin EXCEPT !.pc = "rejected"] /\ UNCHANGED world
  /\ UNCHANGED <<tab, saves, writes, epoch, op, request, session, opens, checks, over, advancing,
                 spent, reviewed, reread>>

FinRefused ==
  /\ fin.pc = "refused"
  /\ FinEnds
  /\ checks' = ChecksAfter(session, TRUE)
  /\ UNCHANGED <<world, tab, saves, writes, epoch, op, request, session, opens, over, advancing,
                 spent, reviewed, reread>>

(* A save queued or a text typed meanwhile keeps a text out of the index.   *)
(* runOp is refused while another operation runs.                           *)
FinWrote ==
  /\ fin.pc = "wrote"
  /\ writes' = [writes EXCEPT ![fin.path] = @ + 1]
  /\ LET mixed == saves[fin.path] \/ tab[fin.path] = "dirty"
         retry == [session EXCEPT !.src = fin.expected, !.wrev = writes[fin.path] + 1,
                                  !.applied = fin.path \in Sides]
     IN IF ~Stays
        THEN FinEnds /\ UNCHANGED <<request, session, op>>
        ELSE IF fin.path \in Texts /\ mixed
        THEN FinEnds /\ ClearsCaptured /\ UNCHANGED op
        ELSE /\ session' = IF Ours THEN retry ELSE session
             /\ UNCHANGED request
             /\ IF op.held # "none" THEN FinEnds /\ UNCHANGED op
                ELSE fin' = [fin EXCEPT !.pc = "stage"] /\ op' = [held |-> "merge", epoch |-> epoch]
  /\ UNCHANGED <<world, tab, saves, epoch, opens, checks, over, advancing, spent, reviewed, reread>>

(* A defect: stage whatever the file holds by now. *)
FinStages_Unguarded ==
  /\ fin.pc = "stage"
  /\ world' = [world EXCEPT ![fin.path].conflict = 0]
  /\ fin' = [fin EXCEPT !.pc = "staged"]
  /\ UNCHANGED <<tab, saves, writes, epoch, op, request, session, opens, checks, over, advancing,
                 spent, reviewed, reread>>

(* The backend stages the expected version only. *)
FinStages ==
  /\ fin.pc = "stage"
  /\ \/ /\ Version(fin.path) = fin.expected
        /\ world' = [world EXCEPT ![fin.path].conflict = 0]
        /\ fin' = [fin EXCEPT !.pc = "staged"]
     \/ /\ Version(fin.path) # fin.expected
        /\ fin' = [fin EXCEPT !.pc = "unstaged"] /\ UNCHANGED world
     \/ fin' = [fin EXCEPT !.pc = "failed"] /\ UNCHANGED world
  /\ UNCHANGED <<tab, saves, writes, epoch, op, request, session, opens, checks, over, advancing,
                 spent, reviewed, reread>>

ReleasesOp == op' = IF Stays THEN [op EXCEPT !.held = "none"] ELSE op

(* Not staged: a text with a save queued is given up, a refusal is looked at.*)
FinUnstaged ==
  /\ fin.pc \in {"unstaged", "failed"}
  /\ FinEnds /\ ReleasesOp
  /\ IF fin.path \in Texts /\ saves[fin.path] THEN ClearsCaptured ELSE UNCHANGED <<session, request>>
  /\ checks' = ChecksAfter(session', fin.pc = "unstaged" /\ Stays)
  /\ UNCHANGED <<world, tab, saves, writes, epoch, opens, over, advancing, spent, reviewed, reread>>

(* Staged: a side closes the clean tab of its file; the session gives way   *)
(* to that of the next path of the queue.                                   *)
FinStaged ==
  /\ fin.pc = "staged"
  /\ FinEnds /\ ReleasesOp
  /\ tab' = IF fin.path \in Sides /\ Stays /\ tab[fin.path] = "clean"
            THEN [tab EXCEPT ![fin.path] = "closed"] ELSE tab
  /\ IF ~FinCurrent
     THEN UNCHANGED <<session, request, opens, advancing>>
     ELSE LET remaining == fin.queue \ {fin.path}
          IN /\ session' = NoSession
             /\ advancing' = (remaining # {})
             /\ IF remaining = {} THEN UNCHANGED <<request, opens>>
                ELSE /\ request' = request + 1
                     /\ \E next \in remaining : opens' = opens \cup {Asked(next, remaining, TRUE)}
  /\ UNCHANGED <<world, saves, writes, epoch, checks, over, spent, reviewed, reread>>

(***************************************************************************)
(* The specification.                                                      *)
(***************************************************************************)
Init ==
  /\ world = [p \in Paths |-> [ver |-> 1, by |-> "git", markers |-> p \in Texts, conflict |-> 1]]
  /\ tab = [p \in Paths |-> "closed"] /\ saves = [p \in Paths |-> FALSE]
  /\ writes = [p \in Paths |-> 0] /\ epoch = 0
  /\ op = [held |-> "none", epoch |-> 0] /\ request = 0
  /\ session = NoSession /\ opens = {} /\ checks = {} /\ over = NoOver /\ fin = NoFin
  /\ advancing = FALSE
  /\ spent = [disturbs |-> 0, opens |-> 0, reloads |-> 0, tries |-> 0]
  /\ reviewed = [p \in Paths |-> {}] /\ reread = [p \in Paths |-> {}]

(* Every call that was made goes on, and every queued save. *)
Continues ==
  \/ \E p \in Paths : SaveRuns(p)
  \/ OtherOpEnds
  \/ \E o \in opens : OpenSaved(o) \/ OpenReads(o) \/ OpenInstalls(o)
  \/ \E c \in checks : CheckReads(c) \/ CheckEnds(c)
  \/ OverReads \/ OverContinues
  \/ FinFlushes \/ FinRejected \/ FinLocks \/ FinWrites \/ FinRefused \/ FinWrote
  \/ FinStages \/ FinUnstaged \/ FinStaged

Next ==
  \/ \E p \in Paths : Outside(p) \/ TabOpens(p) \/ TabTypes(p) \/ TabSaves(p) \/ OpenStarts(p)
  \/ \E o \in opens : OpenSaveFails(o)
  \/ OtherOpStarts \/ Switch
  \/ \E chosen, keeps \in BOOLEAN : Decides(chosen, keeps)
  \/ Closes \/ Notices \/ Reloads \/ FinStarts \/ OverStarts
  \/ Continues

Spec == Init /\ [][Next]_vars

FairSpec == Spec /\ WF_vars(Continues)

(***************************************************************************)
(* Properties.                                                             *)
(***************************************************************************)
(* A merge writes only over a version the user was shown, or one that was   *)
(* read when he confirmed to overwrite, whatever editors, other programs    *)
(* and older calls do meanwhile; and stages only what a merge wrote last.   *)
Writes(p) == world'[p].ver # world[p].ver /\ world'[p].by = "merge" /\ world[p].by # "merge"

Guarded ==
  [][\A p \in Paths :
       /\ Writes(p) => Version(p) \in reviewed[p] \cup reread[p]
       /\ world'[p].ver = world[p].ver /\ world'[p].conflict # world[p].conflict
            => world[p].by = "merge"]_vars

(* MergeResolutionView.tsx:330 says of the confirmation that a version that  *)
(* moved again while the dialog was open is refused rather than clobbered:  *)
(* only what a session or a notice showed is written over.                  *)
RefusesMoved == [][\A p \in Paths : Writes(p) => Version(p) \in reviewed[p]]_vars

(* An installed session is the newest request of its workspace, shows a     *)
(* state that was read, and no call that ended left the advance pending.    *)
OneSession ==
  /\ IsSession => session.req = request /\ epoch = 0
  /\ advancing => \E o \in opens : o.advance
  /\ op.held = "merge" => fin.pc \in {"stage", "staged", "unstaged", "failed"}

(* What the user decided is not replaced by what a check found on disk,      *)
(* unless that check is the reload he asked for.                            *)
KeepsDecisions ==
  [][session.dirty /\ session'.path = session.path /\ ~session'.dirty => session.reload]_vars

(* A reload is settled, so that the controls it disables come back; and a    *)
(* finalize ends, and the hand-over to the next path of the queue.          *)
Settles ==
  /\ session.reload ~> ~session.reload
  /\ fin.pc # "idle" \/ advancing ~> fin.pc = "idle" /\ ~advancing

(***************************************************************************)
(* The inductive strengthening behind the properties.                      *)
(***************************************************************************)
Versions == Nat \X Nat
Worlds   == [ver : Nat, by : {"git", "outside", "editor", "merge"}, markers : BOOLEAN, conflict : Nat]
States   == {Failure} \cup [read : {TRUE}, src : Versions, conflict : Nat, markers : BOOLEAN]
Sessions == [path : Paths \cup {NoPath}, req : Nat, wrev : Nat, src : Versions, dirty : BOOLEAN,
             reload : BOOLEAN, external : {"none", "failed", "resolved", "worktree", "conflict"},
             chosen : BOOLEAN, applied : BOOLEAN, queue : SUBSET Paths]
OpenCalls  == [path : Paths, req : Nat, epoch : Nat, pc : {"saving", "asking", "read"}, wrev : Nat,
               state : States, queue : SUBSET Paths, advance : BOOLEAN]
CheckCalls == [path : Paths, req : Nat, epoch : Nat, force : BOOLEAN, stale : BOOLEAN,
               pc : {"asking", "read"}, state : States]
OverCalls  == [pc : {"idle", "asking", "read"}, path : Paths \cup {NoPath}, req : Nat, state : States]
Finalizes  == [pc : {"idle", "flush", "lock", "write", "wrote", "refused", "rejected", "stage",
                     "staged", "unstaged", "failed"},
               path : Paths \cup {NoPath}, req : Nat, epoch : Nat, wrev : Nat, expected : Versions,
               applied : BOOLEAN, ahead : BOOLEAN, queue : SUBSET Paths]

MergeTypeOK ==
  /\ world \in [Paths -> Worlds] /\ tab \in [Paths -> {"closed", "clean", "dirty"}]
  /\ saves \in [Paths -> BOOLEAN] /\ writes \in [Paths -> Nat] /\ epoch \in Nat
  /\ op \in [held : {"none", "other", "merge"}, epoch : Nat] /\ request \in Nat
  /\ session \in Sessions /\ opens \in SUBSET OpenCalls /\ checks \in SUBSET CheckCalls
  /\ over \in OverCalls /\ fin \in Finalizes /\ advancing \in BOOLEAN
  /\ spent \in [disturbs : Nat, opens : Nat, reloads : Nat, tries : Nat]
  /\ reviewed \in [Paths -> SUBSET Versions] /\ reread \in [Paths -> SUBSET Versions]
  /\ over.pc # "idle" => over.path # NoPath
  /\ fin.pc # "idle" => fin.path # NoPath

(* A number of a request is asked for once, and a session outlives the call  *)
(* it was opened by.                                                         *)
RequestsFit ==
  /\ \A o \in opens : o.epoch = 0 /\ o.req <= request
  /\ \A o, n \in opens : o.req = n.req => o = n
  /\ \A c \in checks : c.req <= request /\ \A o \in opens : c.req # o.req
  /\ IsSession => session.req = request /\ epoch = 0 /\ \A o \in opens : o.req # request
  /\ fin.epoch = 0

(* The operation held by a finalize is that of its workspace; and a save can *)
(* be ahead of it only before it has the lock.                               *)
OpFits ==
  /\ op.held = "merge" => fin.pc \in {"stage", "staged", "unstaged", "failed"} /\ fin.epoch = epoch
  /\ fin.ahead => fin.pc \in {"flush", "lock", "rejected"}

(* What the file holds at version v, if it is still there, a merge wrote. *)
Written(p, v) == v[1] <= world[p].ver /\ (v[1] = world[p].ver => world[p].by = "merge")
Known(p, v) == v \in reviewed[p] \cup reread[p] \/ Written(p, v)

VersionsFit ==
  /\ IsSession => Known(session.path, session.src)
  /\ IsSession /\ session.applied => Written(session.path, session.src)
  /\ fin.pc \in {"flush", "lock", "write"} => Known(fin.path, fin.expected)
  /\ fin.pc \in {"flush", "lock"} /\ fin.applied => Written(fin.path, fin.expected)
  /\ fin.pc \in {"wrote", "stage"} => Written(fin.path, fin.expected)

(* One check may still be applied; when it is a reload, the session waits. *)
ChecksFit ==
  /\ \A c, d \in checks : ~c.stale /\ ~d.stale => c = d
  /\ \A c \in checks : c.force /\ Live(c) => session.reload
  /\ session.dirty => IsSession

Advances == advancing => \E o \in opens : o.advance

MergeInv == MergeTypeOK /\ RequestsFit /\ OpFits /\ VersionsFit /\ ChecksFit /\ Advances
=============================================================================
