----------------------------- MODULE LspManager -----------------------------
(***************************************************************************)
(* The language server manager (internal/lsp/manager.go) for one language  *)
(* family: servers by project root, documents by server, crashes and       *)
(* restarts, managed installs, changes of the interpreter, workspace loads. *)
(* One action is one critical section of Manager.mu or one wait outside it. *)
(* The editor calls it as utils/lspDocumentSync.ts does; the texts it sends *)
(* are the business of LspDocuments. The history variable crossed names the *)
(* documents whose open or whose server crossed something that nothing in   *)
(* the code makes up for: no server has them, and no error is shown.        *)
(***************************************************************************)
EXTENDS Naturals, FiniteSets

CONSTANTS
  Documents,
  Workspaces,
  Within,             \* workspace -> the project roots inside it, itself among them
  Main,               \* workspace -> itself as a project root
  NoRoot,             \* no workspace, or no project root
  MaxCrashRetries,
  MaxOpens,           \* bound on the opens of one document
  MaxServers,         \* bound on the processes started
  ManagerActs         \* bound on what the user does, what crashes and what fails, together

Keys == UNION {Within[w] : w \in Workspaces}
Procs == 1..MaxServers

ASSUME RootAssumption == NoRoot \notin Workspaces \cup Keys
ASSUME MainAssumption == Main \in [Workspaces -> Keys]
ASSUME BudgetAssumption == MaxCrashRetries \in Nat /\ MaxServers \in Nat

VARIABLES
  view, files,        \* the editor: its workspace and its open files
  docs,               \* documents of lspDocumentSync, by path
  home,               \* document -> its project root (ResolveProjectRoot)
  asked,              \* the load that waits to begin, or NoRoot
  load,               \* SetLSPWorkspaceRoot in progress
  workspaceRoot, managerStopped, ctxDone,
  servers, docKeys,
  pending,            \* pendingProvisionDocs
  entries,            \* serverEntry objects, with their client and process
  cached,             \* the managed server is installed
  provisioning,
  threads,            \* calls and goroutines in progress
  reconnects,         \* lsp:reconnect events on their way
  failed,             \* roots whose last status is an error
  acts,               \* counter of ManagerActs
  crossed             \* history: documents that were left without a server

editorVars  == <<view, files, docs, asked>>
rootVars    == <<load, workspaceRoot, managerStopped, ctxDone>>
mapVars     == <<servers, docKeys, pending, entries>>
installVars == <<cached, provisioning>>
shownVars   == <<reconnects, failed>>
managerVars == <<editorVars, home, rootVars, mapVars, installVars, threads, shownVars, acts,
                 crossed>>

Acts == acts < ManagerActs /\ acts' = acts + 1
Inside(k) == workspaceRoot # NoRoot /\ k \in Within[workspaceRoot]

Thread(kind, doc, gen, pc, key) ==
  [kind |-> kind, doc |-> doc, gen |-> gen, pc |-> pc, key |-> key, entry |-> 0,
   proc |-> 0, docs |-> {}, crashes |-> 0, cut |-> FALSE]
Becomes(t, u) == threads' = (threads \ {t}) \cup {u}
Crosses(ds) == crossed' = crossed \cup ds
Goes(t, pc) == Becomes(t, [t EXCEPT !.pc = pc])
Ends(t) == threads' = threads \ {t}

(***************************************************************************)
(* The editor.                                                              *)
(***************************************************************************)
Opened(d) == [gen |-> docs[d].gen + 1, tracked |-> TRUE, opened |-> FALSE]
OpenCall(d) == Thread("open", d, docs[d].gen + 1, "barrier", home[d])

OpenFile(d) ==
  /\ Acts
  /\ d \notin files /\ home[d] \in Within[view] /\ docs[d].gen < MaxOpens
  /\ files' = files \cup {d}
  /\ docs' = [docs EXCEPT ![d] = Opened(d)]
  /\ threads' = threads \cup {OpenCall(d)}
  /\ crossed' = crossed \ {d}
  /\ UNCHANGED <<view, asked, home, rootVars, mapVars, installVars, shownVars>>

(* closeLSPDocument: the close of a document still being opened waits for the answer. *)
CloseCalls(ds) ==
  {Thread("close", d, docs[d].gen, IF docs[d].opened THEN "close" ELSE "await", NoRoot) :
     d \in {x \in ds : docs[x].tracked}}
Forgets(ds) ==
  docs' = [d \in Documents |-> IF d \in ds THEN [docs[d] EXCEPT !.tracked = FALSE] ELSE docs[d]]

CloseFile(d) ==
  /\ Acts
  /\ d \in files /\ files' = files \ {d}
  /\ Forgets({d}) /\ threads' = threads \cup CloseCalls({d})
  /\ UNCHANGED <<view, asked, home, rootVars, mapVars, installVars, shownVars, crossed>>

(* Another workspace: its documents are closed at once, its load waits its turn. *)
SwitchView(w) ==
  /\ Acts
  /\ view # w /\ view' = w /\ asked' = w
  /\ files' = {} /\ Forgets(Documents)
  /\ threads' = threads \cup CloseCalls(Documents)
  /\ UNCHANGED <<home, rootVars, mapVars, installVars, shownVars, crossed>>

(* reloadRunProfiles: the same workspace once more. *)
ReloadView ==
  /\ Acts
  /\ asked = NoRoot /\ asked' = view
  /\ UNCHANGED <<view, files, docs, home, rootVars, mapVars, installVars, threads, shownVars,
                 crossed>>

(* The listener of lsp:reconnect forgets and opens again the open files it lists. *)
Reconnect(r) ==
  LET again == IF r.key \in Within[view] THEN r.docs \cap files ELSE {} IN
  /\ \A d \in again : docs[d].gen < MaxOpens
  /\ reconnects' = reconnects \ {r}
  /\ docs' = [d \in Documents |-> IF d \in again THEN Opened(d) ELSE docs[d]]
  /\ threads' = threads \cup {OpenCall(d) : d \in again}
  /\ crossed' = crossed \ again
  /\ UNCHANGED <<view, files, asked, home, rootVars, mapVars, installVars, failed, acts>>

Current(t) == docs[t.doc].tracked /\ docs[t.doc].gen = t.gen

(* closeBarriers *)
Behind(t) == \E c \in threads : c.kind = "close" /\ c.doc = t.doc /\ c.gen < t.gen

(* The answer of an open; a close that waited for it goes on, or has nothing to close. *)
Awaits(c, t) == c.kind = "close" /\ c.pc = "await" /\ c.doc = t.doc /\ c.gen = t.gen
AfterReturn(t, ok) ==
  {c \in threads \ {t} : ~Awaits(c, t)} \cup
  {[c EXCEPT !.pc = "close"] : c \in {x \in threads : ok /\ Awaits(x, t)}}
DocsAfter(t, ok) ==
  IF Current(t) THEN [docs EXCEPT ![t.doc].opened = ok, ![t.doc].tracked = ok] ELSE docs
Returns(t, ok) == threads' = AfterReturn(t, ok) /\ docs' = DocsAfter(t, ok)

(***************************************************************************)
(* DidOpen, and the start of the server it needs.                           *)
(***************************************************************************)
Waiting(t) == IF t.kind = "open" THEN {t.doc} ELSE t.docs \cup pending[t.key]
Untracked(d) == [k \in Keys |-> pending[k] \ {d}]

(* The goroutine ends with an error: DidOpen answers it, the others log it. *)
Fails(t) ==
  IF t.kind = "open" THEN Returns(t, FALSE) /\ pending' = Untracked(t.doc)
                     ELSE Ends(t) /\ UNCHANGED <<docs, pending>>

(* An open goes out behind its barrier, unless its file was closed meanwhile. DidOpen
   resolves the project root, notes the document where no server runs, and looks for
   the server once more; what happens between these makes no difference to them. *)
DidOpen(t) ==
  /\ t.kind = "open" /\ t.pc = "barrier" /\ ~Behind(t)
  /\ \/ ~Current(t) /\ Returns(t, FALSE) /\ UNCHANGED <<pending, crossed>>
     \/ /\ Current(t) /\ ~Inside(t.key)
        /\ Returns(t, workspaceRoot # NoRoot) /\ Crosses({t.doc})
        /\ UNCHANGED pending
     \/ /\ Current(t) /\ Inside(t.key) /\ servers[t.key] # 0
        /\ Becomes(t, [t EXCEPT !.pc = "have", !.entry = servers[t.key]])
        /\ UNCHANGED <<docs, pending, crossed>>
     \/ /\ Current(t) /\ Inside(t.key) /\ servers[t.key] = 0
        /\ Goes(t, "config") /\ pending' = [pending EXCEPT ![t.key] = @ \cup {t.doc}]
        /\ UNCHANGED <<docs, crossed>>
  /\ UNCHANGED <<view, files, asked, home, rootVars, servers, docKeys, entries, installVars,
                 shownVars, acts>>

(* ensureServer for restartFamily *)
EnsureServer(t) ==
  /\ t.pc = "ensure"
  /\ Becomes(t, IF servers[t.key] # 0 THEN [t EXCEPT !.pc = "have", !.entry = servers[t.key]]
                                      ELSE [t EXCEPT !.pc = "config"])
  /\ UNCHANGED <<editorVars, home, rootVars, mapVars, installVars, shownVars, acts, crossed>>

(* ServerConfigFor misses: beginProvision, unless an install of the family is running;
   the call returns without a server. *)
Install(k) == Thread("install", NoRoot, 0, "begin", k)
Provision(t) ==
  /\ t.pc = "config" /\ ~cached
  /\ provisioning' = TRUE
  /\ LET rest == IF t.kind = "open" THEN AfterReturn(t, TRUE) ELSE threads \ {t} IN
     threads' = IF provisioning THEN rest ELSE rest \cup {Install(t.key)}
  /\ docs' = IF t.kind = "open" THEN DocsAfter(t, TRUE) ELSE docs
  /\ failed' = IF provisioning THEN failed ELSE failed \ {t.key}
  /\ Crosses(IF \E i \in threads : i.kind = "install" /\ (i.key # t.key \/ i.cut)
             THEN {t.doc} \cap Documents ELSE {})
  /\ UNCHANGED <<view, files, asked, home, rootVars, mapVars, cached, reconnects, acts>>

(* Documents nobody will announce: the install they wait for is over. Whoever starts the
   server takes the error away and tells them nothing. *)
Announces(t, k) == t.kind \in {"install", "override"} /\ t.key = k /\ t.pc # "abandoned"
Forgotten(k) ==
  {d \in pending[k] : \A t \in threads : ~Announces(t, k) /\ ~(t.kind = "open" /\ t.doc = d)}

(* startServer: a process is started, ... *)
Unstarted == {e \in Procs : entries[e].client = "none"}
NextId == CHOOSE e \in Unstarted : TRUE
StartServer(t) ==
  /\ t.pc = "start" \/ (t.pc = "config" /\ cached)
  /\ Unstarted # {}
  /\ entries' = [entries EXCEPT ![NextId].key = t.key, ![NextId].client = "init"]
  /\ failed' = failed \ {t.key}
  /\ Becomes(t, [t EXCEPT !.pc = "init", !.proc = NextId])
  /\ Crosses(Forgotten(t.key))
  /\ UNCHANGED <<editorVars, home, rootVars, servers, docKeys, pending, installVars, reconnects,
                 acts>>

(* ... does not initialize, as when its context is cancelled, ... *)
InitializeFails(t) ==
  /\ t.pc = "init" /\ IF t.cut THEN UNCHANGED acts ELSE Acts
  /\ entries' = [entries EXCEPT ![t.proc].client = "dead"]
  /\ failed' = failed \cup {t.key}
  /\ Fails(t)
  /\ Crosses(Waiting(t))
  /\ UNCHANGED <<view, files, asked, home, rootVars, servers, docKeys, installVars, reconnects>>

(* ... is not wanted any more, or lost against another start, and is shut down again, ... *)
Unwanted_Stopped(t) == managerStopped
Unwanted(t) == managerStopped \/ ~Inside(t.key)
StartSuperfluous(t) ==
  /\ t.pc = "init" /\ (Unwanted(t) \/ servers[t.key] # 0)
  /\ entries' = [entries EXCEPT ![t.proc].client = "shutting"]
  /\ Becomes(t, IF Unwanted(t) THEN [t EXCEPT !.pc = "abandoned"]
                               ELSE [t EXCEPT !.pc = "lost", !.entry = servers[t.key]])
  /\ Crosses(IF Unwanted(t) THEN Waiting(t) ELSE {})
  /\ UNCHANGED <<editorVars, home, rootVars, servers, docKeys, pending, installVars, shownVars,
                 acts>>

(* ... or becomes the server of its root. *)
Registers_Again(t) ==
  /\ t.pc = "init" /\ ~Unwanted(t)
  /\ entries' = [entries EXCEPT ![t.proc].client = "up"]
  /\ servers' = [servers EXCEPT ![t.key] = t.proc]
  /\ failed' = failed \ {t.key}
  /\ Becomes(t, [t EXCEPT !.pc = "have", !.entry = t.proc])
  /\ Crosses(Forgotten(t.key))
  /\ UNCHANGED <<editorVars, home, rootVars, docKeys, pending, installVars, reconnects, acts>>

Registers(t) ==
  /\ t.pc = "init" /\ ~Unwanted(t) /\ servers[t.key] = 0
  /\ entries' = [entries EXCEPT ![t.proc].client = "up"]
  /\ servers' = [servers EXCEPT ![t.key] = t.proc]
  /\ failed' = failed \ {t.key}
  /\ Becomes(t, [t EXCEPT !.pc = "have", !.entry = t.proc])
  /\ Crosses(Forgotten(t.key))
  /\ UNCHANGED <<editorVars, home, rootVars, docKeys, pending, installVars, reconnects, acts>>

(* Client.Shutdown, with the kill of a process that does not exit. *)
ProcessExits(e) ==
  /\ entries[e].client = "shutting"
  /\ entries' = [entries EXCEPT ![e].client = "dead"]
  /\ UNCHANGED <<editorVars, home, rootVars, servers, docKeys, pending, installVars, threads,
                 shownVars, acts, crossed>>

(* restartFamily, under the context of that moment: it looks for a server, and starts one. *)
RestartFamily(t) == Becomes(t, [t EXCEPT !.pc = "ensure", !.cut = ctxDone])

(* What goes on once the process it shut down is gone. *)
AfterShutdown(t) ==
  /\ t.pc \in {"abandoned", "lost", "stopping"} /\ entries[t.proc].client = "dead"
  /\ \/ t.pc = "abandoned" /\ Fails(t)
     \/ t.pc = "lost" /\ Goes(t, "have") /\ UNCHANGED <<docs, pending>>
     \/ /\ t.pc = "stopping" /\ UNCHANGED <<docs, pending>>
        /\ IF t.kind = "override" THEN RestartFamily(t) ELSE Ends(t)
  /\ UNCHANGED <<view, files, asked, home, rootVars, servers, docKeys, entries, installVars,
                 shownVars, acts, crossed>>

(* The process counts the document but was not told, nor is about to be: an open of it that
   reconnect repeated came in between the count and the notification of its close. *)
Sending(t, d, e) == t.pc = "send" /\ t.doc = d /\ t.entry = e
Untold(d, e) ==
  /\ entries[e].client = "up" /\ entries[e].open[d] > 0 /\ d \notin entries[e].told
  /\ \A t \in threads : ~Sending(t, d, e)

(* DidOpen enters the document into the entry it was given, whatever became of it, ... *)
EntersDocument(t) ==
  /\ t.kind = "open" /\ t.pc = "have"
  /\ entries' = [entries EXCEPT ![t.entry].open[t.doc] = @ + 1]
  /\ docKeys' = [docKeys EXCEPT ![t.doc] = t.key]
  /\ pending' = Untracked(t.doc)
  /\ IF entries[t.entry].open[t.doc] = 0 THEN Goes(t, "send") /\ UNCHANGED docs
                                          ELSE Returns(t, TRUE)
  /\ Crosses(IF servers[t.key] # t.entry \/ Untold(t.doc, t.entry) THEN {t.doc} ELSE {})
  /\ UNCHANGED <<view, files, asked, home, rootVars, servers, installVars, shownVars, acts>>

(* ... and tells its process, which may be going or gone. *)
SendsOpen(t) ==
  /\ t.kind = "open" /\ t.pc = "send"
  /\ \/ /\ entries[t.entry].client = "up" /\ Returns(t, TRUE)
        /\ entries' = [entries EXCEPT ![t.entry].told = @ \cup {t.doc}]
     \/ entries[t.entry].client = "shutting" /\ Returns(t, TRUE) /\ UNCHANGED entries
     \/ entries[t.entry].client # "up" /\ Returns(t, FALSE) /\ UNCHANGED entries
  /\ UNCHANGED <<view, files, asked, home, rootVars, servers, docKeys, pending, installVars,
                 shownVars, acts, crossed>>

(***************************************************************************)
(* DidClose, and the end of a server without documents.                     *)
(***************************************************************************)
OpenDocs(e) == {d \in Documents : entries[e].open[d] > 0}
Stops(e) == entries' = [entries EXCEPT ![e].client = IF @ = "up" THEN "shutting" ELSE @]

DidClose(t) ==
  LET d == t.doc
      e == IF docKeys[d] = NoRoot THEN 0 ELSE servers[docKeys[d]]
      waiting == \E k \in Keys : d \in pending[k]
      open == IF e = 0 THEN 0 ELSE entries[e].open[d]
      last == open = 1 IN
  /\ t.kind = "close" /\ t.pc = "close"
  /\ \/ /\ waiting /\ pending' = Untracked(d) /\ Ends(t)
        /\ UNCHANGED <<docKeys, entries>>
     \/ /\ ~waiting /\ open = 0 /\ docKeys' = [docKeys EXCEPT ![d] = NoRoot] /\ Ends(t)
        /\ UNCHANGED <<pending, entries>>
     \/ /\ ~waiting /\ open > 0
        /\ entries' = [entries EXCEPT ![e].open[d] = open - 1]
        /\ docKeys' = IF last THEN [docKeys EXCEPT ![d] = NoRoot] ELSE docKeys
        /\ IF ~last THEN Ends(t)
           ELSE Becomes(t, [t EXCEPT !.pc = IF OpenDocs(e) = {d} THEN "tell last" ELSE "tell",
                                     !.key = docKeys[d], !.entry = e])
        /\ UNCHANGED pending
  /\ UNCHANGED <<editorVars, home, rootVars, servers, installVars, shownVars, acts, crossed>>

TellsClosed(t) ==
  /\ t.pc \in {"tell", "tell last"}
  /\ entries' = [entries EXCEPT ![t.entry].told = @ \ {t.doc}]
  /\ IF t.pc = "tell last" THEN Goes(t, "ifempty") ELSE Ends(t)
  /\ UNCHANGED <<editorVars, home, rootVars, servers, docKeys, pending, installVars, shownVars,
                 acts, crossed>>

(* shutdownServerIfEmpty looks at the server its root has by now. *)
ShutdownServerIfEmpty_Unchecked(t) ==
  LET e == servers[t.key] IN
  /\ t.pc = "ifempty"
  /\ IF e = 0
       THEN Ends(t) /\ UNCHANGED <<servers, entries>>
       ELSE /\ servers' = [servers EXCEPT ![t.key] = 0] /\ Stops(e)
            /\ Becomes(t, [t EXCEPT !.pc = "stopping", !.proc = e])
  /\ UNCHANGED <<editorVars, home, rootVars, docKeys, pending, installVars, shownVars, acts,
                 crossed>>

ShutdownServerIfEmpty(t) ==
  LET e == servers[t.key] IN
  /\ t.pc = "ifempty"
  /\ IF IF e = 0 THEN TRUE ELSE OpenDocs(e) # {}
       THEN Ends(t) /\ UNCHANGED <<servers, entries>>
       ELSE /\ servers' = [servers EXCEPT ![t.key] = 0] /\ Stops(e)
            /\ Becomes(t, [t EXCEPT !.pc = "stopping", !.proc = e])
  /\ UNCHANGED <<editorVars, home, rootVars, docKeys, pending, installVars, shownVars, acts,
                 crossed>>

(* serverForPath, for DidChange, DidSave and the requests: it drops a stale route. *)
ServerForPath(d) ==
  /\ d \in files /\ docs[d].opened /\ docKeys[d] # NoRoot /\ servers[docKeys[d]] = 0
  /\ docKeys' = [docKeys EXCEPT ![d] = NoRoot]
  /\ UNCHANGED <<editorVars, home, rootVars, servers, pending, entries, installVars, threads,
                 shownVars, acts, crossed>>

(***************************************************************************)
(* Crashes.                                                                 *)
(***************************************************************************)
ServerCrash(e) ==
  /\ Acts
  /\ entries[e].client = "up" /\ entries' = [entries EXCEPT ![e].client = "dead"]
  /\ UNCHANGED <<editorVars, home, rootVars, servers, docKeys, pending, installVars, threads,
                 shownVars, crossed>>

(* monitorServer, when Done is closed for the server its root still has. *)
CrashSeen(k) ==
  LET e == servers[k]
      n == entries[e].crashCount + 1 IN
  /\ e # 0 /\ entries[e].client = "dead"
  /\ servers' = [servers EXCEPT ![k] = 0]
  /\ entries' = [entries EXCEPT ![e].crashCount = n]
  /\ failed' = failed \cup {k}
  /\ threads' = IF n > MaxCrashRetries THEN threads
       ELSE threads \cup {[Thread("monitor", NoRoot, e, "backoff", k)
                             EXCEPT !.docs = OpenDocs(e), !.crashes = n]}
  /\ Crosses(IF n > MaxCrashRetries THEN OpenDocs(e) ELSE {})
  /\ UNCHANGED <<editorVars, home, rootVars, docKeys, pending, installVars, reconnects, acts>>

(* The backoff is over. *)
BackoffEnds(t) ==
  /\ t.pc = "backoff"
  /\ IF Unwanted(t) THEN Ends(t) ELSE Goes(t, "start")
  /\ Crosses(IF Unwanted(t) THEN t.docs ELSE {})
  /\ UNCHANGED <<editorVars, home, rootVars, mapVars, installVars, shownVars, acts>>

(* The crash count is carried over, and the editor told to open the documents again. *)
Restarted(t) ==
  /\ t.kind = "monitor" /\ t.pc = "have"
  /\ entries' = [entries EXCEPT ![t.entry].crashCount = t.crashes]
  /\ reconnects' = IF t.docs = {} THEN reconnects
                   ELSE reconnects \cup {[key |-> t.key, docs |-> t.docs]}
  /\ Ends(t)
  /\ UNCHANGED <<editorVars, home, rootVars, servers, docKeys, pending, installVars, failed, acts,
                 crossed>>

(***************************************************************************)
(* Managed installs and the interpreter.                                    *)
(***************************************************************************)
(* provisionCtx is read when the goroutine runs. *)
InstallBegins(t) ==
  /\ t.pc = "begin" /\ Becomes(t, [t EXCEPT !.pc = "installing", !.cut = ctxDone])
  /\ UNCHANGED <<editorVars, home, rootVars, mapVars, installVars, shownVars, acts, crossed>>

Installed(t) ==
  /\ t.pc = "installing"
  /\ cached' = TRUE /\ provisioning' = FALSE
  /\ RestartFamily(t)
  /\ UNCHANGED <<editorVars, home, rootVars, mapVars, shownVars, acts, crossed>>

InstallFails(t) ==
  /\ t.pc = "installing" /\ IF t.cut THEN UNCHANGED acts ELSE Acts
  /\ provisioning' = FALSE
  /\ failed' = failed \cup {t.key}
  /\ Ends(t)
  /\ UNCHANGED <<editorVars, home, rootVars, mapVars, cached, reconnects, crossed>>

(* restartFamily has a server: the documents that waited for it are announced. *)
FamilyRestarted_Silent(t) ==
  /\ t.kind \in {"install", "override"} /\ t.pc = "have"
  /\ pending' = [pending EXCEPT ![t.key] = {}]
  /\ Ends(t)
  /\ UNCHANGED <<editorVars, home, rootVars, servers, docKeys, entries, installVars, shownVars,
                 acts,
                 crossed>>

FamilyRestarted(t) ==
  /\ t.kind \in {"install", "override"} /\ t.pc = "have"
  /\ reconnects' = IF pending[t.key] = {} THEN reconnects
                   ELSE reconnects \cup {[key |-> t.key, docs |-> pending[t.key]]}
  /\ pending' = [pending EXCEPT ![t.key] = {}]
  /\ Ends(t)
  /\ UNCHANGED <<editorVars, home, rootVars, servers, docKeys, entries, installVars, failed, acts,
                 crossed>>

RetryProvision(k) ==
  /\ Acts
  /\ k \in failed \cap Within[view] /\ ~provisioning
  /\ provisioning' = TRUE /\ failed' = failed \ {k}
  /\ threads' = threads \cup {Install(k)}
  /\ UNCHANGED <<editorVars, home, rootVars, mapVars, cached, reconnects, crossed>>

(* SetInterpreterOverride and ClearInterpreterOverride: restartRunningFamily *)
SetInterpreter ==
  /\ Acts
  /\ servers[Main[view]] # 0
  /\ threads' = threads \cup {Thread("override", NoRoot, acts, "restart", Main[view])}
  /\ UNCHANGED <<editorVars, home, rootVars, mapVars, installVars, shownVars, crossed>>

ShutdownServer(t) ==
  LET e == servers[t.key] IN
  /\ t.pc = "restart"
  /\ IF e = 0 THEN RestartFamily(t) /\ UNCHANGED <<servers, entries>>
     ELSE /\ servers' = [servers EXCEPT ![t.key] = 0] /\ Stops(e)
          /\ Becomes(t, [t EXCEPT !.pc = "stopping", !.proc = e])
  /\ Crosses(IF e = 0 THEN {} ELSE OpenDocs(e))
  /\ UNCHANGED <<editorVars, home, rootVars, docKeys, pending, installVars, shownVars, acts>>

(***************************************************************************)
(* Workspace loads: ShutdownAll, then SetWorkspaceRoot.                     *)
(***************************************************************************)
NoLoad == [pc |-> "idle", root |-> NoRoot, left |-> {}, procs |-> {}]
Cut(ts) ==
  {IF t.kind \in {"install", "override"} THEN [t EXCEPT !.cut = TRUE] ELSE t : t \in ts}

ShutdownAll ==
  /\ load = NoLoad /\ asked # NoRoot
  /\ load' = [pc |-> "shut", root |-> asked, left |-> {k \in Keys : servers[k] # 0}, procs |-> {}]
  /\ asked' = NoRoot
  /\ managerStopped' = TRUE /\ ctxDone' = TRUE
  /\ pending' = [k \in Keys |-> {}]
  /\ threads' = Cut(threads)
  /\ Crosses(UNION {pending[k] : k \in Keys})
  /\ UNCHANGED <<view, files, docs, home, workspaceRoot, servers, docKeys, entries, installVars,
                 shownVars, acts>>

ShutdownOne(k) ==
  LET e == servers[k] IN
  /\ k \in load.left
  /\ IF e = 0 THEN load' = [load EXCEPT !.left = @ \ {k}] /\ UNCHANGED <<servers, entries>>
     ELSE /\ load' = [load EXCEPT !.left = @ \ {k}, !.procs = @ \cup {e}]
          /\ servers' = [servers EXCEPT ![k] = 0] /\ Stops(e)
  /\ Crosses(IF e = 0 THEN {} ELSE OpenDocs(e))
  /\ UNCHANGED <<editorVars, home, workspaceRoot, managerStopped, ctxDone, docKeys, pending,
                 installVars, threads, shownVars, acts>>

SetWorkspaceRoot ==
  /\ load.pc = "shut" /\ load.left = {} /\ \A e \in load.procs : entries[e].client = "dead"
  /\ load' = NoLoad
  /\ workspaceRoot' = load.root /\ managerStopped' = FALSE /\ ctxDone' = FALSE
  /\ threads' = Cut(threads)
  /\ UNCHANGED <<editorVars, home, mapVars, installVars, shownVars, acts, crossed>>

-----------------------------------------------------------------------------
ManagerInit ==
  /\ view \in Workspaces /\ files = {}
  /\ \/ workspaceRoot = view /\ asked = NoRoot
     \/ workspaceRoot = NoRoot /\ asked = view
  /\ docs = [d \in Documents |-> [gen |-> 0, tracked |-> FALSE, opened |-> FALSE]]
  /\ home \in [Documents -> Keys]
  /\ load = NoLoad /\ managerStopped = FALSE /\ ctxDone = FALSE
  /\ servers = [k \in Keys |-> 0] /\ docKeys = [d \in Documents |-> NoRoot]
  /\ pending = [k \in Keys |-> {}]
  /\ entries = [e \in Procs |->
       [key |-> NoRoot, client |-> "none", open |-> [d \in Documents |-> 0], told |-> {},
        crashCount |-> 0]]
  /\ cached \in BOOLEAN /\ provisioning = FALSE
  /\ threads = {} /\ reconnects = {} /\ failed = {} /\ acts = 0 /\ crossed = {}

CallNext(t) ==
  \/ DidOpen(t) \/ EnsureServer(t) \/ Provision(t) \/ StartServer(t)
  \/ StartSuperfluous(t) \/ Registers(t) \/ AfterShutdown(t) \/ EntersDocument(t) \/ SendsOpen(t)
  \/ DidClose(t) \/ TellsClosed(t) \/ ShutdownServerIfEmpty(t) \/ BackoffEnds(t) \/ Restarted(t)
  \/ InstallBegins(t) \/ Installed(t) \/ (t.cut /\ InstallFails(t)) \/ FamilyRestarted(t)
  \/ ShutdownServer(t)

ManagerContinues ==
  \/ \E t \in threads : CallNext(t)
  \/ \E r \in reconnects : Reconnect(r)
  \/ \E e \in Procs : ProcessExits(e)
  \/ \E k \in Keys : CrashSeen(k) \/ ShutdownOne(k)
  \/ ShutdownAll \/ SetWorkspaceRoot

ManagerNext ==
  \/ ManagerContinues
  \/ \E d \in Documents : OpenFile(d) \/ CloseFile(d) \/ ServerForPath(d)
  \/ \E w \in Workspaces : SwitchView(w)
  \/ \E t \in threads : InitializeFails(t) \/ (~t.cut /\ InstallFails(t))
  \/ \E e \in Procs : ServerCrash(e)
  \/ \E k \in Keys : RetryProvision(k)
  \/ ReloadView \/ SetInterpreter

ManagerSpec == ManagerInit /\ [][ManagerNext]_managerVars

-----------------------------------------------------------------------------
(* Nothing is under way but the installs, starts and shutdowns that ended.  *)
Quiet ==
  /\ threads = {} /\ reconnects = {} /\ asked = NoRoot /\ load = NoLoad
  /\ \A e \in Procs : entries[e].client # "shutting"
  /\ \A k \in Keys : servers[k] # 0 => entries[servers[k]].client = "up"

(* Once everything settled, a file open in the editor is open at the server *)
(* of its project root, or an error of that root is shown, over every order *)
(* of opens, closes, crashes, installs, loads and interpreters; but for the *)
(* documents that crossed one of these as the comments above tell.          *)
Serves ==
  Quiet => \A d \in files :
    \/ d \in crossed \/ home[d] \in failed
    \/ servers[home[d]] # 0 /\ d \in entries[servers[home[d]]].told

(* No process runs that neither serves its root nor is in the hands of a    *)
(* call that will register it or shut it down, ...                          *)
Managed ==
  \A e \in Procs : entries[e].client \in {"init", "up"} =>
    servers[entries[e].key] = e \/ \E t \in threads : t.pc = "init" /\ t.proc = e

(* ... and none serves a root outside the workspace once its load is over,  *)
(* whatever was starting, restarting or installing when the load began.     *)
Here == load = NoLoad => \A k \in Keys : servers[k] # 0 => Inside(k)

ServersAreManaged == Managed /\ Here
=============================================================================
