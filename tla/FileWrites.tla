----------------------------- MODULE FileWrites -----------------------------
(***************************************************************************)
(* The texts of one file on their way to the disk: the editor tab and its  *)
(* autosave, the edits of the diff view of a file without a tab, the queue *)
(* of writes of the path, the flush before the app closes, the watcher's   *)
(* reload of a clean tab and the opening of a tab (utils/fileWrites.ts,    *)
(* hooks/useAutosave.ts, utils/editorNavigation.ts, App.tsx).              *)
(* Texts are numbered in the order they were written by somebody; a text   *)
(* that returns to what another one says has a number of its own and is     *)
(* alike, which is all the code can see of it.                              *)
(***************************************************************************)
EXTENDS Naturals, Sequences, FiniteSets

CONSTANTS
  FileActs,       \* bound on the texts typed or written by other programs, the writes that fail,
                  \* the tabs opened, and the calls of flushAllFileEdits and saveOpenFileToDisk
  MaxReloads      \* bound on the reloads in flight

ASSUME FileBounds ==
  FileActs \in Nat /\ MaxReloads \in Nat

VARIABLES
  disk,           \* text on disk
  watch,          \* an event of the watcher is on its way
  tab,            \* editor tab: open, text and isModified
  debounce,       \* autosave debounce timer of the tab
  saving,         \* savingFiles holds the file
  pend,           \* pendingWorkingTreeEdits entry of the path
  chain,          \* writeQueues entry of the path: operations in order
  visit,          \* the call of ensureEditorFileOpen in flight
  reads,          \* ReadFile calls of the watcher in flight
  flush,          \* the call of flushAllFileEdits in flight
  save,           \* the call of saveOpenFileToDisk in flight
  texts,          \* texts there were so far
  alike,          \* pairs of texts that say the same
  tabs, failures, called, \* counters of the bounds
  typed,          \* history: the last text the user typed
  told,           \* history: the newest text the user was told is not saved
  undone,         \* history: the newest text the user returned to that was taken for saved
                  \* while the disk had another one or was about to get it
  crossed         \* history: a diff edit was made while a tab was being opened

fileVars == <<disk, watch, tab, debounce, saving, pend, chain, visit, reads, flush, save,
              texts, alike, tabs, failures, called, typed, told, undone, crossed>>

NoPend == [id |-> 0, text |-> 0, debounce |-> FALSE]
NoTab == [open |-> FALSE, text |-> 0, modified |-> FALSE]
NoVisit == [pc |-> "idle", of |-> 0, text |-> 0]
Uncalled == [pc |-> "idle", of |-> 0, goal |-> 0]

(* An operation of the queue; "same" of a drain: its edit was not typed on.  *)
Operation(kind, text) == [kind |-> kind, text |-> text, pc |-> "queued", id |-> 0, same |-> TRUE]
DrainOf(p) == [Operation("drain", p.text) EXCEPT !.id = p.id]

Foremost == chain[1]
Draining(id) == id # 0 /\ \E i \in 1 .. Len(chain) : chain[i].kind = "drain" /\ chain[i].id = id

(***************************************************************************)
(* Texts: what somebody writes is new, or says the same as a text there was. *)
(***************************************************************************)
Same(a, b) == a = b \/ <<a, b>> \in alike

Room == texts + failures + tabs + called < FileActs
NewText ==
  /\ Room /\ texts' = texts + 1
  /\ \/ UNCHANGED alike
     \/ \E t \in 0 .. texts :
          LET repeated == {s \in 0 .. texts : Same(s, t)}
          IN  alike' = alike \cup ({texts'} \X repeated) \cup (repeated \X {texts'})

(* To have "a" written leaves the disk with the text, or one that came since. *)
Covers(a, text, pairs) == text <= a \/ \E p \in pairs : text <= p[1] /\ p[2] = a

(* The text is not on disk, or the operations given will write another one.  *)
Bypassed(text, ops, pairs) ==
  \/ ~Covers(disk, text, pairs)
  \/ \E i \in 1 .. Len(ops) : ops[i].pc # "ready" /\ ~Covers(ops[i].text, text, pairs)

(***************************************************************************)
(* The editor tab and its autosave.                                        *)
(***************************************************************************)
(* updateFileContent of another text; a file that becomes modified gets an   *)
(* autosave timer.                                                          *)
Updated(text) ==
  /\ tab' = [tab EXCEPT !.text = text, !.modified = TRUE]
  /\ debounce' = (debounce \/ ~tab.modified)

TypesInTab ==
  /\ tab.open /\ NewText /\ <<texts', tab.text>> \notin alike'
  /\ Updated(texts + 1) /\ typed' = texts + 1
  /\ UNCHANGED <<disk, watch, saving, pend, chain, visit, reads, flush, save, tabs, failures, told,
                 undone, crossed, called>>

(* The timer, Cmd-S, a blur of the window or another tab becoming active.    *)
(* One save of a file at a time.                                            *)
SaveStarts ==
  /\ debounce \/ tab.modified
  /\ debounce' = FALSE
  /\ IF saving \/ ~tab.modified THEN UNCHANGED <<saving, chain>>
     ELSE saving' = TRUE /\ chain' = Append(chain, Operation("auto", tab.text))
  /\ UNCHANGED <<disk, watch, tab, pend, visit, reads, flush, save, texts, alike, tabs, failures,
                 typed, told, undone, crossed, called>>

(* A tab that is closed with unsaved text has it written. *)
TabCloses ==
  /\ tab.open
  /\ tab' = NoTab /\ debounce' = (debounce /\ ~tab.modified)
  /\ chain' = IF tab.modified THEN Append(chain, Operation("close", tab.text)) ELSE chain
  /\ UNCHANGED <<disk, watch, saving, pend, visit, reads, flush, save, texts, alike, tabs,
                 failures, typed, told, undone, crossed, called>>

(***************************************************************************)
(* Edits in the diff view: to the tab when there is one, else pending      *)
(* behind a timer and then drained.                                        *)
(***************************************************************************)
(* The tab has the text of the edit; a clean one is saved again only behind  *)
(* a drain.                                                                 *)
Matched ==
  /\ tab' = [tab EXCEPT !.text = texts', !.modified = @ \/ Draining(pend.id)]
  /\ debounce' = (debounce \/ (~tab.modified /\ Draining(pend.id)))
  /\ undone' = IF ~tab'.modified /\ Bypassed(texts', chain, alike') THEN texts' ELSE undone

TypesInDiff ==
  /\ NewText /\ typed' = texts + 1
  /\ IF tab.open
     THEN /\ pend' = NoPend /\ UNCHANGED chain
          /\ IF <<texts', tab.text>> \in alike' THEN Matched
             ELSE Updated(texts') /\ UNCHANGED undone
     ELSE /\ pend' = [id |-> IF pend.id = 0 THEN texts + 1 ELSE pend.id,
                      text |-> texts + 1, debounce |-> TRUE]
          /\ chain' = [i \in DOMAIN chain |->
                         [chain[i] EXCEPT !.same = @ /\ (chain[i].id = 0 \/ chain[i].id # pend.id)]]
          /\ UNCHANGED <<tab, debounce, undone>>
  /\ crossed' = (crossed \/ visit.pc = "read" \/ (visit.pc = "flush" /\ ~tab.open))
  /\ UNCHANGED <<disk, watch, saving, visit, reads, flush, save, tabs, failures, told, called>>

(* One turn of the loop of drainWorkingTreeEdit, behind the operations given. *)
DrainTurn(others) ==
  IF tab.open
  THEN /\ IF ~Same(tab.text, pend.text) THEN Updated(pend.text) ELSE UNCHANGED <<tab, debounce>>
       /\ pend' = NoPend /\ chain' = others
  ELSE /\ pend' = [pend EXCEPT !.debounce = FALSE]
       /\ chain' = Append(others, DrainOf(pend))
       /\ UNCHANGED <<tab, debounce>>

(* drainWorkingTreeEdit: one drain of an entry at a time. *)
Drain ==
  IF pend.id = 0 THEN UNCHANGED <<tab, debounce, pend, chain>>
  ELSE IF Draining(pend.id)
  THEN pend' = [pend EXCEPT !.debounce = FALSE] /\ UNCHANGED <<tab, debounce, chain>>
  ELSE DrainTurn(chain)

DrainTimer ==
  /\ pend.debounce /\ Drain
  /\ UNCHANGED <<disk, watch, saving, visit, reads, flush, save, texts, alike, tabs, failures,
                 typed, told, undone, crossed, called>>

(***************************************************************************)
(* The queue of writes: each starts when the one before it is through.     *)
(***************************************************************************)
Lands ==
  /\ chain # << >> /\ Foremost.pc = "queued"
  /\ \/ /\ disk' = Foremost.text /\ watch' = TRUE
        /\ chain' = [chain EXCEPT ![1].pc = "landed"]
        /\ UNCHANGED failures
     \/ /\ Room /\ failures' = failures + 1
        /\ chain' = [chain EXCEPT ![1].pc = "failed"]
        /\ UNCHANGED <<disk, watch>>
  /\ UNCHANGED <<tab, debounce, saving, pend, visit, reads, flush, save, texts, alike, tabs, typed,
                 told, undone, crossed, called>>

Returned(kind) == chain # << >> /\ Foremost.kind = kind /\ Foremost.pc \in {"landed", "failed"}
Failed == Foremost.pc = "failed"

(* Behind a failure, a waiting operation of withFileWriteLock is given up.    *)
Aborts == Failed /\ Len(chain) > 1 /\ chain[2].kind = "lock"
Rest == IF Aborts THEN Tail(Tail(chain)) ELSE Tail(chain)

(* A call that waits for the drain at the front of the queue. *)
Awaits(call) == call.pc = "flush" /\ call.of # 0 /\ call.of = Foremost.id

(* What a failure means to saveOpenFileToDisk: its drain, its operation, or   *)
(* a write it waits for, when that was the last one as it looked.           *)
SaveHears ==
  \/ save' = Uncalled /\ (Aborts \/ (Failed /\ (save.pc = "wait" \/ Awaits(save))))
  \/ UNCHANGED save /\ ~Aborts /\ ~(Failed /\ Awaits(save))

Told == told' = IF Failed /\ Foremost.text > told THEN Foremost.text ELSE told

(* A tab is marked as saved whose text has been left and returned to. *)
Undone(others) ==
  undone' = IF tab.modified /\ ~tab'.modified /\ tab.text > undone
               /\ tab.text # Foremost.text /\ Bypassed(tab.text, others, alike)
            THEN tab.text ELSE undone

(* A defect: the file is marked as saved whatever was typed since. *)
AutoReturns_Unchecked ==
  /\ Returned("auto") /\ SaveHears
  /\ saving' = FALSE /\ debounce' = (debounce \/ Failed) /\ chain' = Rest
  /\ tab' = IF Failed THEN tab ELSE [tab EXCEPT !.modified = FALSE]
  /\ UNCHANGED <<disk, watch, pend, visit, reads, flush, texts, alike, tabs, failures, typed, told,
                 undone, crossed, called>>

(* A defect: a failed save is not scheduled again. *)
AutoReturns_Unarmed ==
  /\ Returned("auto") /\ SaveHears
  /\ IF ~Failed /\ tab.modified /\ ~Same(tab.text, Foremost.text)
     THEN chain' = Append(Rest, Operation("auto", tab.text)) /\ UNCHANGED <<saving, debounce, tab>>
     ELSE /\ saving' = FALSE /\ chain' = Rest /\ UNCHANGED debounce
          /\ tab' = IF ~Failed /\ Same(tab.text, Foremost.text)
                     THEN [tab EXCEPT !.modified = FALSE] ELSE tab
  /\ UNCHANGED <<disk, watch, pend, visit, reads, flush, texts, alike, tabs, failures, typed, told,
                 undone, crossed, called>>

(* The save goes on while the text has changed, and comes back after a       *)
(* failure.                                                                 *)
AutoReturns ==
  /\ Returned("auto") /\ SaveHears
  /\ IF ~Failed /\ tab.modified /\ ~Same(tab.text, Foremost.text)
     THEN chain' = Append(Rest, Operation("auto", tab.text)) /\ UNCHANGED <<saving, debounce, tab>>
     ELSE /\ saving' = FALSE /\ debounce' = (debounce \/ Failed) /\ chain' = Rest
          /\ tab' = IF ~Failed /\ Same(tab.text, Foremost.text)
                     THEN [tab EXCEPT !.modified = FALSE] ELSE tab
  /\ Undone(Rest)
  /\ UNCHANGED <<disk, watch, pend, visit, reads, flush, texts, alike, tabs, failures, typed, told,
                 crossed, called>>

(* The entry of the path is dropped when nothing was typed since; else one   *)
(* more turn, if the entry is still there.  A flush whose drain failed goes *)
(* on but throws in the end: it has promised nothing.                       *)
DrainReturns ==
  /\ Returned("drain") /\ SaveHears /\ Told
  /\ IF Failed \/ (~Foremost.same /\ pend.id # Foremost.id)
     THEN chain' = Rest /\ UNCHANGED <<tab, debounce, pend>>
     ELSE IF Foremost.same
     THEN pend' = NoPend /\ chain' = Rest /\ UNCHANGED <<tab, debounce>>
     ELSE DrainTurn(Rest)
  /\ visit' = IF Failed /\ Awaits(visit) THEN NoVisit ELSE visit
  /\ flush' = IF Failed /\ Awaits(flush) THEN [flush EXCEPT !.goal = 0] ELSE flush
  /\ UNCHANGED <<disk, watch, saving, reads, texts, alike, tabs, failures, typed, undone, crossed,
                 called>>

OtherReturns ==
  /\ Returned("close") \/ Returned("flush")
  /\ SaveHears /\ Told /\ chain' = Rest
  /\ UNCHANGED <<disk, watch, tab, debounce, saving, pend, visit, reads, flush, texts, alike, tabs,
                 failures, typed, undone, crossed, called>>

(***************************************************************************)
(* flushAllFileEdits: drain the pending edits, write the modified tabs,    *)
(* wait for every queue.                                                   *)
(***************************************************************************)
FlushStarts ==
  /\ flush.pc = "idle" /\ Drain
  /\ Room /\ called' = called + 1
  /\ flush' = [pc |-> "flush", of |-> pend.id, goal |-> typed]
  /\ UNCHANGED <<disk, watch, saving, visit, reads, save, texts, alike, tabs, failures, typed,
                 told, undone, crossed>>

FlushWrites ==
  /\ flush.pc = "flush" /\ ~Draining(flush.of)
  /\ flush' = [flush EXCEPT !.pc = "settle"]
  /\ chain' = IF tab.modified THEN Append(chain, Operation("flush", tab.text)) ELSE chain
  /\ UNCHANGED <<disk, watch, tab, debounce, saving, pend, visit, reads, save, texts, alike, tabs,
                 failures, typed, told, undone, crossed, called>>

(* A defect: the other writes under way are not waited for. *)
FlushEnds_Unsettled ==
  /\ flush.pc = "settle" /\ \A i \in 1 .. Len(chain) : chain[i].kind # "flush"
  /\ flush' = Uncalled
  /\ UNCHANGED <<disk, watch, tab, debounce, saving, pend, chain, visit, reads, save, texts, alike,
                 tabs, failures, typed, told, undone, crossed, called>>

FlushEnds ==
  /\ flush.pc = "settle" /\ chain = << >>
  /\ flush' = Uncalled
  /\ UNCHANGED <<disk, watch, tab, debounce, saving, pend, chain, visit, reads, save, texts, alike,
                 tabs, failures, typed, told, undone, crossed, called>>

(***************************************************************************)
(* saveOpenFileToDisk: drain, wait for the queue, then write the tab under *)
(* the lock of the path until its text stays the same.                     *)
(***************************************************************************)
SaveCalled ==
  /\ save.pc = "idle" /\ Drain
  /\ Room /\ called' = called + 1
  /\ save' = [pc |-> "flush", of |-> pend.id, goal |-> typed]
  /\ UNCHANGED <<disk, watch, saving, visit, reads, flush, texts, alike, tabs, failures, typed,
                 told, undone, crossed>>

SaveDrained ==
  /\ save.pc = "flush" /\ ~Draining(save.of)
  /\ save' = [save EXCEPT !.pc = "wait"]
  /\ UNCHANGED <<disk, watch, tab, debounce, saving, pend, chain, visit, reads, flush, texts,
                 alike, tabs, failures, typed, told, undone, crossed, called>>

(* The operation of the lock starts when it is the first of the queue. *)
LockRuns(others) ==
  IF tab.modified
  THEN chain' = << Operation("lock", tab.text) >> \o others /\ save' = [save EXCEPT !.pc = "lock"]
  ELSE chain' = others /\ save' = Uncalled

(* A defect: the writes under way are not waited for when the tab is clean. *)
SaveLocks_Unsettled ==
  /\ save.pc = "wait"
  /\ IF tab.modified THEN chain = << >> /\ LockRuns(<< >>) ELSE UNCHANGED chain /\ save' = Uncalled
  /\ UNCHANGED <<disk, watch, tab, debounce, saving, pend, visit, reads, flush, texts, alike, tabs,
                 failures, typed, told, undone, crossed, called>>

SaveLocks ==
  /\ save.pc = "wait" /\ chain = << >>
  /\ LockRuns(<< >>)
  /\ UNCHANGED <<disk, watch, tab, debounce, saving, pend, visit, reads, flush, texts, alike, tabs,
                 failures, typed, told, undone, crossed, called>>

LockStarts ==
  /\ chain # << >> /\ Foremost.pc = "ready"
  /\ LockRuns(Tail(chain))
  /\ UNCHANGED <<disk, watch, tab, debounce, saving, pend, visit, reads, flush, texts, alike, tabs,
                 failures, typed, told, undone, crossed, called>>

(* Again, when another write was queued meanwhile or the text has changed.   *)
LockReturns ==
  /\ Returned("lock")
  /\ IF ~Failed /\ (Len(chain) > 1 \/ (tab.open /\ ~Same(tab.text, Foremost.text)))
     THEN /\ IF Rest = << >> THEN LockRuns(<< >>)
             ELSE /\ chain' = Append(Rest, [Operation("lock", 0) EXCEPT !.pc = "ready"])
                  /\ UNCHANGED save
          /\ UNCHANGED tab
     ELSE /\ chain' = Rest /\ save' = Uncalled
          /\ tab' = IF ~Failed THEN [tab EXCEPT !.modified = FALSE] ELSE tab
  /\ Undone(Rest)
  /\ UNCHANGED <<disk, watch, debounce, saving, pend, visit, reads, flush, texts, alike, tabs,
                 failures, typed, told, crossed, called>>

(***************************************************************************)
(* Opening a tab, other programs, and the watcher.                         *)
(***************************************************************************)
VisitStarts ==
  /\ visit.pc = "idle" /\ ~tab.open /\ Room
  /\ tabs' = tabs + 1 /\ visit' = [pc |-> "flush", of |-> pend.id, text |-> 0] /\ Drain
  /\ UNCHANGED <<disk, watch, saving, reads, flush, save, texts, alike, failures, typed, told,
                 undone, crossed, called>>

VisitReads ==
  /\ visit.pc = "flush" /\ ~Draining(visit.of)
  /\ visit' = IF tab.open THEN NoVisit ELSE [visit EXCEPT !.pc = "read", !.text = disk]
  /\ UNCHANGED <<disk, watch, tab, debounce, saving, pend, chain, reads, flush, save, texts, alike,
                 tabs, failures, typed, told, undone, crossed, called>>

(* The file may be unreadable, or the user has gone elsewhere meanwhile.     *)
VisitOpens ==
  /\ visit.pc = "read" /\ visit' = NoVisit
  /\ \/ UNCHANGED tab
     \/ tab' = IF tab.open THEN tab ELSE [open |-> TRUE, text |-> visit.text, modified |-> FALSE]
  /\ UNCHANGED <<disk, watch, debounce, saving, pend, chain, reads, flush, save, texts, alike,
                 tabs, failures, typed, told, undone, crossed, called>>

OtherWrites ==
  /\ NewText
  /\ disk' = texts + 1 /\ watch' = TRUE
  /\ UNCHANGED <<tab, debounce, saving, pend, chain, visit, reads, flush, save, tabs, failures,
                 typed, told, undone, crossed, called>>

(* A modified file is read again when its tab is open and clean, *)
Watched ==
  /\ watch /\ watch' = FALSE
  /\ Cardinality(reads) < MaxReloads
  /\ reads' = IF tab.open /\ ~tab.modified THEN reads \cup {disk} ELSE reads
  /\ UNCHANGED <<disk, tab, debounce, saving, pend, chain, visit, flush, save, texts, alike, tabs,
                 failures, typed, told, undone, crossed, called>>

(* and shown when it still is; for a moment it counts as modified.           *)
Reloaded(text) ==
  /\ reads' = reads \ {text}
  /\ IF tab.open /\ ~tab.modified
     THEN tab' = [tab EXCEPT !.text = text] /\ debounce' = (debounce \/ ~Same(tab.text, text))
     ELSE UNCHANGED <<tab, debounce>>
  /\ UNCHANGED <<disk, watch, saving, pend, chain, visit, flush, save, texts, alike, tabs,
                 failures, typed, told, undone, crossed, called>>

(***************************************************************************)
(* The specification.                                                      *)
(***************************************************************************)
FileInit ==
  /\ disk = 0 /\ watch = FALSE /\ debounce = FALSE /\ saving = FALSE
  /\ tab \in {NoTab, [NoTab EXCEPT !.open = TRUE]}
  /\ pend = NoPend /\ chain = << >> /\ visit = NoVisit /\ reads = {}
  /\ flush = Uncalled /\ save = Uncalled
  /\ texts = 0 /\ alike = {} /\ tabs = 0 /\ failures = 0 /\ called = 0
  /\ typed = 0 /\ told = 0 /\ undone = 0 /\ crossed = FALSE

(* Timers fire, and calls of the backend return. *)
FileContinues ==
  \/ (debounce /\ SaveStarts) \/ DrainTimer
  \/ Lands \/ AutoReturns \/ DrainReturns \/ OtherReturns \/ LockStarts \/ LockReturns
  \/ FlushWrites \/ FlushEnds \/ SaveDrained \/ SaveLocks \/ VisitReads \/ VisitOpens
  \/ Watched \/ \E text \in reads : Reloaded(text)

FileNext ==
  \/ TypesInTab \/ SaveStarts \/ TabCloses \/ TypesInDiff \/ FlushStarts \/ SaveCalled
  \/ VisitStarts \/ OtherWrites \/ FileContinues

FileSpec == FileInit /\ [][FileNext]_fileVars
FileFairSpec == FileSpec /\ WF_fileVars(FileContinues)

(***************************************************************************)
(* Properties.                                                             *)
(***************************************************************************)
Written(text) == Covers(disk, text, alike)

(* Promises end for what was said to be unsaved, for a text the user returned *)
(* to that was wrongly taken for saved (Undone, Matched), and with *)
(* an edit made in a diff view while a tab of the file was being opened.     *)
Excepted(text) == text <= told \/ text <= undone \/ crossed

(* The last text the user typed, in whatever surface, is on its way to the   *)
(* disk, or there and not overwritten by an older one, or the user was told *)
(* that it is not saved; but for the exceptions named.                      *)
Kept ==
  \/ Written(typed) \/ Excepted(typed)
  \/ tab.modified /\ tab.text = typed
  \/ pend.text = typed
  \/ \E i \in 1 .. Len(chain) : chain[i].text = typed

(* When flushAllFileEdits returns, what was typed before it was called, or   *)
(* something newer, has been written, or the user was told of the failure:  *)
(* the app may close.                                                       *)
FlushSaves ==
  [][flush.pc = "settle" /\ flush'.pc = "idle"
       => Written(flush.goal) \/ Excepted(flush.goal)]_fileVars

(* When saveOpenFileToDisk is through with its file, so is what was typed    *)
(* before it was called, and Git is shown nothing older.                    *)
SaveSaves ==
  [][save.pc # "idle" /\ save'.pc = "idle" /\ (SaveLocks \/ LockStarts \/ (LockReturns /\ ~Failed))
       => Written(save.goal) \/ Excepted(save.goal)]_fileVars

(* What a flush or a save says is on disk is there.                         *)
ReportsAreTrue == FlushSaves /\ SaveSaves

(* A modified tab is saved in the end, through failures and further typing. *)
AutosaveEnds == tab.modified ~> ~tab.modified
=============================================================================
