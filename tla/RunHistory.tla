----------------------------- MODULE RunHistory -----------------------------
(***************************************************************************)
(* The saved runs of one workspace (internal/runhistory/store.go): a file   *)
(* per record and an index that is derived from them. The lock of the       *)
(* workspace makes its operations follow each other; what interrupts one is *)
(* a call of the file system that fails, the end of the process, or a power *)
(* loss, which may undo every change of the directory since its last sync.  *)
(***************************************************************************)
EXTENDS Naturals, FiniteSets

CONSTANTS
  Runs,             \* runs to save: profile, completion time and kind
  RecordLimit,      \* canonicalRecordLimit
  MaxSummaries,     \* records kept per profile
  MaxRich,          \* maxRichRecords: records with output kept per profile
  IndexLimit,       \* records that fit an index of indexByteLimit
  RichSize,         \* size of a record with output; one without has size 1
  ByteTarget,       \* workspaceByteTarget
  MaxRecords,       \* bound on the calls of AppendRecord
  MaxClears,        \* bound on the calls of ClearRecord and ClearAll
  MaxFaults         \* bound on failed calls, crashes, power losses and damaged files

ASSUME HistoryLimits ==
  /\ {MaxRecords, MaxClears, MaxFaults, MaxRich, ByteTarget} \subseteq Nat
  /\ {RecordLimit, MaxSummaries, IndexLimit, RichSize} \subseteq Nat \ {0}

VARIABLES
  disk,             \* the directory as the process sees it: record files, entries of the index
  synced,           \* the directory as it was synced last
  temps,            \* bytes of temp files that interrupted writes left behind
  meta,             \* records appended so far: profile, completion time, kind
  op,               \* the operation that holds the lock of the workspace
  clears, faults,   \* counters of the bounds
  answer,           \* history: what Append said of each record
  removed,          \* history: records removed by a limit, or as damaged by a clear
  cleared,          \* history: records that a clear which succeeded was to redact
  strays,           \* history: new records whose rename may not have been synced
  revived           \* history: files a power loss brought back

histVars == <<disk, synced, temps, meta, op, clears, faults, answer, removed, cleared, strays, revived>>

RecordIds == 1 .. MaxRecords
Used == DOMAIN meta

NoFile == [is |-> "none", stamp |-> 0]
Rich == [is |-> "rich", stamp |-> 1]
Bare == [is |-> "bare", stamp |-> 1]
Redacted == [is |-> "bare", stamp |-> 2]
Damaged == [is |-> "damaged", stamp |-> 0]

(* buildRecord: only ordinary runs have output. *)
NewFile(i) == IF meta[i].kind = "ordinary" THEN Rich ELSE Bare

Idle == [kind |-> "none", pc |-> "idle", id |-> 0, recs |-> <<>>, odd |-> 0, asked |-> {}, todo |-> {}]

(* sortStoredRecords *)
Before(i, j) == meta[i].at < meta[j].at \/ (meta[i].at = meta[j].at /\ i < j)
Oldest(i, ids) == i \in ids /\ \A j \in ids \ {i} : Before(i, j)

(***************************************************************************)
(* reconcileLocked: an entry of the index stands for a file whose size and  *)
(* time it has, every other file is read. "left": bytes of temp files that  *)
(* are recent, or could not be removed. The record files it may not read    *)
(* (maxReconcileReadBytes) are left out.                                    *)
(***************************************************************************)
Listed_ById(i) == IF i \in DOMAIN disk.index THEN disk.index[i] ELSE disk.file[i]

Listed(i) ==
  IF i \in DOMAIN disk.index /\ disk.index[i].stamp = disk.file[i].stamp THEN disk.index[i] ELSE disk.file[i]

Holding(kinds) == {i \in Used : disk.file[i].is \in kinds}

Reconciled(left) ==
  [Idle EXCEPT !.pc = "limits", !.odd = left + RichSize * Cardinality(Holding({"damaged"})),
               !.recs = [i \in Holding({"rich", "bare"}) |-> Listed(i)]]

(***************************************************************************)
(* What may happen to a call of the file system.                            *)
(***************************************************************************)
Fault == faults < MaxFaults /\ faults' = faults + 1
Fine == UNCHANGED faults

WithFile(i, file) == [disk EXCEPT !.file[i] = file]
WithIndex(recs) == [disk EXCEPT !.index = recs]

(* WriteFileAtomic: temp file, rename and sync of the directory succeed.    *)
Publishes_Unsynced(new) == disk' = new /\ UNCHANGED <<synced, temps>>

Publishes(new) == disk' = new /\ synced' = new /\ UNCHANGED temps

(* WriteFileAtomic: an error before the rename, or of the sync after it.    *)
WriteFails(new) == disk' \in {disk, new} /\ UNCHANGED <<synced, temps>>

(* The process ends in WriteFileAtomic, and nothing removes the temp file.  *)
DiesWriting(new, size) ==
  /\ Fault /\ op' = Idle
  /\ \/ disk' = new /\ UNCHANGED temps
     \/ UNCHANGED disk /\ temps' = temps + size
  /\ UNCHANGED <<synced, answer, removed, cleared, strays, revived>>

(* removeIfExists: the directory is not synced. *)
Removes(i) == Fine /\ disk' = WithFile(i, NoFile) /\ UNCHANGED <<synced, temps>>
RemoveFails == Fault /\ UNCHANGED <<disk, synced, temps>>

(***************************************************************************)
(* The operations take the lock and reconcile.                              *)
(***************************************************************************)
Starts(begun, left) ==
  /\ op.pc = "idle" /\ op' = begun /\ temps' = left
  /\ UNCHANGED <<disk, synced, faults, answer, removed, cleared, strays, revived>>

AppendRecord(run) ==
  \E id \in RecordIds \ Used, left \in 0 .. temps :
    /\ \A i \in RecordIds \ Used : id <= i
    /\ Starts([Reconciled(left) EXCEPT !.kind = "append", !.id = id], left)
    /\ meta' = [i \in Used \cup {id} |-> IF i = id THEN run ELSE meta[i]]
    /\ UNCHANGED clears

Snapshot ==
  \E left \in 0 .. temps :
    Starts([Reconciled(left) EXCEPT !.kind = "snapshot"], left) /\ UNCHANGED <<meta, clears>>

Clear(ids, left) ==
  /\ clears < MaxClears /\ clears' = clears + 1
  /\ Starts([Reconciled(left) EXCEPT !.kind = "clear", !.asked = ids, !.todo = ids], left)
  /\ UNCHANGED meta

(* A record that is neither listed nor damaged is fs.ErrNotExist.           *)
ClearRecord(i) ==
  i \in Holding({"rich", "bare", "damaged"}) /\ \E left \in 0 .. temps : Clear({i}, left)

(* reconcileLocked(clearAll) removes temp files of every age.               *)
ClearAll == Clear(Holding({"rich", "bare", "damaged"}), 0)

(***************************************************************************)
(* Their ends. An error after the new record was written has it rolled back. *)
(***************************************************************************)
Answers(what) ==
  /\ op' = Idle
  /\ answer' = IF op.kind = "append" THEN [answer EXCEPT ![op.id] = what] ELSE answer

Errs_NoRollback == Answers("failed")

Errs_WritesOn ==
  IF op.kind = "append" /\ op.pc = "limits" THEN op' = [op EXCEPT !.pc = "write"] /\ UNCHANGED answer
  ELSE Answers("failed")

Errs ==
  IF op.pc = "relimits" THEN op' = [op EXCEPT !.pc = "rollback"] /\ UNCHANGED answer ELSE Answers("failed")

Recs == DOMAIN op.recs
RichOf(ids) == {i \in ids : op.recs[i].is = "rich"}
Alike(i, ids) == {j \in ids : meta[j].profile = meta[i].profile}
Bytes == Cardinality(Recs) + (RichSize - 1) * Cardinality(RichOf(Recs))
NewBytes == IF meta[op.id].kind = "ordinary" THEN RichSize ELSE 1

(* The limits hold: the operation goes on, or is done. *)
Proceeds ==
  CASE op.kind = "append" /\ op.pc = "limits" ->
         IF op.odd = 0 \/ Bytes + NewBytes + op.odd <= ByteTarget
         THEN op' = [op EXCEPT !.pc = "write"] /\ UNCHANGED <<answer, cleared>>
         ELSE Answers("failed") /\ UNCHANGED cleared
    [] op.kind = "append" /\ op.pc = "relimits" ->
         Answers(IF op.id \in Recs THEN "saved" ELSE "failed") /\ UNCHANGED cleared
    [] OTHER -> op' = Idle /\ cleared' = cleared \cup op.asked /\ UNCHANGED answer

(***************************************************************************)
(* enforceLimitsLocked, oldest records first.                               *)
(***************************************************************************)
Excess ==
  IF Cardinality(Recs) > RecordLimit THEN Recs
  ELSE {i \in Recs : Cardinality(Alike(i, Recs)) > MaxSummaries}
Lavish == {i \in RichOf(Recs) : Cardinality(Alike(i, RichOf(Recs))) > MaxRich}

Enforcing == op.pc \in {"limits", "relimits"} /\ op.todo = {}

Removable ==
  IF Excess # {} THEN Excess
  ELSE IF Lavish # {} THEN {}
  ELSE IF Cardinality(Recs) > IndexLimit \/ (Bytes > ByteTarget /\ RichOf(Recs) = {}) THEN Recs ELSE {}

Redactable ==
  IF Excess # {} THEN {}
  ELSE IF Lavish # {} THEN Lavish
  ELSE IF Cardinality(Recs) <= IndexLimit /\ Bytes > ByteTarget THEN RichOf(Recs) ELSE {}

(* A record is removed; "goes": the operation without it.                   *)
Drops(i, goes) ==
  \/ /\ Removes(i) /\ op' = goes
     /\ removed' = removed \cup {i} /\ UNCHANGED <<answer, cleared, strays, revived>>
  \/ RemoveFails /\ Errs /\ UNCHANGED <<removed, cleared, strays, revived>>

(* redactLocked *)
Redacts(i) ==
  LET new == WithFile(i, Redacted) IN
  \/ /\ Fine /\ Publishes(new)
     /\ op' = [op EXCEPT !.recs[i] = Redacted, !.todo = @ \ {i}]
     /\ UNCHANGED <<answer, removed, cleared, strays, revived>>
  \/ Fault /\ (WriteFails(new) \/ Publishes(new)) /\ Errs /\ UNCHANGED <<removed, cleared, strays, revived>>
  \/ DiesWriting(new, 1)

Prune ==
  /\ Enforcing
  /\ \E i \in Removable : Oldest(i, Removable) /\ Drops(i, [op EXCEPT !.recs = [j \in Recs \ {i} |-> op.recs[j]]])
  /\ UNCHANGED <<meta, clears>>

Redact ==
  /\ Enforcing
  /\ \E i \in Redactable : Oldest(i, Redactable) /\ Redacts(i)
  /\ UNCHANGED <<meta, clears>>

(* An index that cannot be written is a warning.                            *)
WriteIndex ==
  LET new == WithIndex(op.recs) IN
  /\ Enforcing /\ Removable = {} /\ Redactable = {}
  /\ \/ Fine /\ Publishes(new) /\ Proceeds /\ UNCHANGED <<removed, strays, revived>>
     \/ Fault /\ WriteFails(new) /\ Proceeds /\ UNCHANGED <<removed, strays, revived>>
     \/ DiesWriting(new, 1)
  /\ UNCHANGED <<meta, clears>>

(***************************************************************************)
(* ClearRecord and ClearAll: damaged files are removed, records redacted.   *)
(***************************************************************************)
ClearProblem ==
  /\ op.pc = "limits"
  /\ \E i \in op.todo \ Recs : Drops(i, [op EXCEPT !.todo = @ \ {i}])
  /\ UNCHANGED <<meta, clears>>

ClearOutput ==
  /\ op.pc = "limits" /\ op.todo \subseteq Recs
  /\ \E i \in op.todo : Oldest(i, op.todo) /\ Redacts(i)
  /\ UNCHANGED <<meta, clears>>

(***************************************************************************)
(* Append: the new record.                                                  *)
(***************************************************************************)
WriteRecord ==
  LET new == WithFile(op.id, NewFile(op.id)) IN
  /\ op.pc = "write"
  /\ \/ /\ Fine /\ Publishes(new)
        /\ op' = [op EXCEPT !.pc = "relimits",
                            !.recs = [i \in Recs \cup {op.id} |-> IF i = op.id THEN NewFile(i) ELSE op.recs[i]]]
        /\ UNCHANGED <<answer, removed, cleared, strays, revived>>
     \/ /\ Fault /\ Publishes(new) /\ op' = [op EXCEPT !.pc = "rollback"]
        /\ UNCHANGED <<answer, removed, cleared, strays, revived>>
     \/ /\ Fault /\ WriteFails(new) /\ Answers("failed")
        /\ strays' = strays \cup {op.id} /\ UNCHANGED <<removed, cleared, revived>>
     \/ DiesWriting(new, RichSize)
  /\ UNCHANGED <<meta, clears>>

(* A record that cannot be taken back counts as saved.                      *)
Rollback ==
  /\ op.pc = "rollback"
  /\ \/ Removes(op.id) /\ Answers("failed")
     \/ RemoveFails /\ Answers("saved")
  /\ UNCHANGED <<meta, clears, removed, cleared, strays, revived>>

(***************************************************************************)
(* The process ends; power is lost; files are damaged.                      *)
(***************************************************************************)
Crash ==
  /\ op.pc # "idle" /\ Fault /\ op' = Idle
  /\ UNCHANGED <<disk, synced, temps, meta, clears, answer, removed, cleared, strays, revived>>

PowerLoss ==
  \E lost \in SUBSET {i \in Used : disk.file[i] # synced.file[i]}, index \in {disk.index, synced.index} :
    /\ disk # synced /\ Fault /\ op' = Idle
    /\ disk' = [file |-> [i \in RecordIds |-> IF i \in lost THEN synced.file[i] ELSE disk.file[i]], index |-> index]
    /\ synced' = disk'
    /\ revived' = revived \cup {i \in lost : synced.file[i] # NoFile}
    /\ UNCHANGED <<temps, meta, clears, answer, removed, cleared, strays>>

Damage ==
  /\ op.pc = "idle" /\ disk = synced /\ Fault
  /\ \/ \E i \in Holding({"rich", "bare"}) : disk' = WithFile(i, Damaged)
     \/ disk.index # <<>> /\ disk' = WithIndex(<<>>)
  /\ synced' = disk'
  /\ UNCHANGED <<temps, meta, op, clears, answer, removed, cleared, strays, revived>>

HistInit ==
  /\ disk = [file |-> [i \in RecordIds |-> NoFile], index |-> <<>>] /\ synced = disk
  /\ temps = 0 /\ meta = <<>> /\ op = Idle /\ clears = 0 /\ faults = 0
  /\ answer = [i \in RecordIds |-> "none"]
  /\ removed = {} /\ cleared = {} /\ strays = {} /\ revived = {}

HistNext ==
  \/ \E run \in Runs : AppendRecord(run)
  \/ Snapshot \/ (\E i \in Used : ClearRecord(i)) \/ ClearAll
  \/ Prune \/ Redact \/ WriteIndex \/ ClearProblem \/ ClearOutput \/ WriteRecord \/ Rollback
  \/ Crash \/ PowerLoss \/ Damage

HistSpec == HistInit /\ [][HistNext]_histVars

(***************************************************************************)
(* Properties.                                                              *)
(***************************************************************************)
(* A record that Append reported as saved has its file until a limit        *)
(* removes it, through every crash and power loss.                          *)
SavedStays == \A i \in Used : answer[i] = "saved" /\ disk.file[i] = NoFile => i \in removed

(* A record that Append reported as not saved left no file behind, unless   *)
(* the rename of that file was never synced or undone.                      *)
FailedGone == \A i \in Used : answer[i] = "failed" /\ disk.file[i] # NoFile => i \in strays \cup revived

(* The user is told the truth about every record (AppendRunHistoryRecord).  *)
AnswersHold == SavedStays /\ FailedGone

(* Output that was cleared is never to be had again, through every crash    *)
(* and power loss, from the file or from an entry of the index.             *)
ClearedStays ==
  \A i \in cleared : disk.file[i].is # "rich" /\ (i \in DOMAIN op.recs => op.recs[i].is # "rich")

(* What an operation takes from the index is what the files hold, whatever  *)
(* interrupted the writes of the two.                                       *)
IndexIsTrue == op.pc \in {"limits", "relimits", "write"} => \A i \in Recs : op.recs[i] = disk.file[i]

(* However often the limits cannot be enforced, a profile has at most one   *)
(* record with output more than the limit, but for those a power loss       *)
(* brought back.                                                            *)
RichBounded ==
  \A run \in Runs :
    Cardinality({i \in Holding({"rich"}) \ revived : meta[i].profile = run.profile}) <= MaxRich + 1
=============================================================================
