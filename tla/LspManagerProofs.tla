--------------------------- MODULE LspManagerProofs ---------------------------
(* The processes of LspManager are managed, and the files open in the editor  *)
(* served, for every number of documents, roots and processes and every bound. *)
EXTENDS LspManager, TLAPS

-----------------------------------------------------------------------------
(* Types. *)
Roots == Workspaces \cup {NoRoot}
Served == Procs \cup {0}
DocStates == [gen : Nat, tracked : BOOLEAN, opened : BOOLEAN]
Clients == {"none", "init", "up", "shutting", "dead"}
Entries ==
  [key : Keys \cup {NoRoot}, client : Clients, open : [Documents -> Nat], told : SUBSET Documents,
   crashCount : Nat]
Kinds == {"open", "close", "install", "override", "monitor"}
CloseSteps == {"await", "close", "tell", "tell last", "ifempty", "stopping"}
Steps == CloseSteps \cup
  {"barrier", "ensure", "config", "start", "init", "abandoned", "lost", "have", "send", "backoff",
   "begin", "installing", "restart"}
ThreadRecords ==
  [kind : Kinds, doc : Documents \cup {NoRoot}, gen : Nat, pc : Steps, key : Keys \cup {NoRoot},
   entry : Served, proc : Served, docs : SUBSET Documents, crashes : Nat, cut : BOOLEAN]

(* Calls of the editor have a document, and only a close may not know its root. *)
Threads ==
  {t \in ThreadRecords :
     /\ t.kind \in {"open", "close"} => t.doc \in Documents
     /\ t.kind = "close" => t.pc \in CloseSteps
     /\ t.key \in Keys \/ (t.kind = "close" /\ t.pc \in {"await", "close"})}

Loads == [pc : {"idle", "shut"}, root : Roots, left : SUBSET Keys, procs : SUBSET Procs]

EditorTypeOK ==
  /\ view \in Workspaces /\ asked \in Roots
  /\ files \subseteq Documents /\ docs \in [Documents -> DocStates] /\ home \in [Documents -> Keys]
RootTypeOK ==
  /\ load \in Loads /\ workspaceRoot \in Roots
  /\ managerStopped \in BOOLEAN /\ ctxDone \in BOOLEAN
MapTypeOK ==
  /\ servers \in [Keys -> Served] /\ docKeys \in [Documents -> Keys \cup {NoRoot}]
  /\ pending \in [Keys -> SUBSET Documents] /\ entries \in [Procs -> Entries]
ThreadTypeOK ==
  /\ threads \subseteq Threads /\ acts \in Nat
  /\ reconnects \subseteq [key : Keys, docs : SUBSET Documents]
ManagerTypeOK == EditorTypeOK /\ RootTypeOK /\ MapTypeOK /\ ThreadTypeOK

-----------------------------------------------------------------------------
(* The inductive invariant. *)
Starting == {t \in threads : t.pc = "init"}

(* A goroutine that starts a process has it to itself. *)
StartsOwn ==
  /\ \A t \in Starting :
       t.proc \in Procs /\ entries[t.proc].client = "init" /\ entries[t.proc].key = t.key
  /\ \A t, u \in Starting : t.proc = u.proc => t = u

(* A registered server was started for its root, and nobody shuts it down. *)
Registered ==
  \A k \in Keys : servers[k] # 0 =>
    entries[servers[k]].client \in {"up", "dead"} /\ entries[servers[k]].key = k

(* A load has stopped the manager, and the servers left are those it will shut down. *)
Loading ==
  IF load.pc = "idle" THEN load = NoLoad
  ELSE managerStopped /\ \A k \in Keys : servers[k] # 0 => k \in load.left

ManagerInv == ManagerTypeOK /\ StartsOwn /\ Registered /\ Loading /\ Managed /\ Here

-----------------------------------------------------------------------------
(* The beginning. *)
LEMMA InitInv == ManagerInit => ManagerInv
<1> SUFFICES ASSUME ManagerInit PROVE ManagerInv
  OBVIOUS
<1> USE DEF ManagerInit
<1>1. EditorTypeOK
  BY RootAssumption DEF EditorTypeOK, Roots, DocStates
<1>2. RootTypeOK
  BY RootAssumption DEF RootTypeOK, Roots, Loads, NoLoad
<1>3. MapTypeOK
  BY DEF MapTypeOK, Served, Entries, Clients
<1>4. ThreadTypeOK
  BY DEF ThreadTypeOK
<1>5. StartsOwn /\ Registered /\ Loading /\ Managed /\ Here
  BY DEF StartsOwn, Starting, Registered, Loading, Managed, Here, NoLoad
<1> QED
  BY <1>1, <1>2, <1>3, <1>4, <1>5 DEF ManagerInv, ManagerTypeOK

-----------------------------------------------------------------------------
(* Threads. *)
LEMMA ThreadFields ==
  ASSUME NEW t \in Threads
  PROVE  /\ t \in ThreadRecords
         /\ t.kind \in {"open", "close"} => t.doc \in Documents
         /\ t.kind = "close" => t.pc \in CloseSteps
         /\ t.key \in Keys \/ (t.kind = "close" /\ t.pc \in {"await", "close"})
BY DEF Threads

(* A new call or goroutine. *)
LEMMA NewThread ==
  ASSUME NEW kind \in Kinds, NEW doc \in Documents \cup {NoRoot}, NEW gen \in Nat, NEW pc \in Steps,
         NEW key \in Keys \cup {NoRoot},
         kind \in {"open", "close"} => doc \in Documents, kind = "close" => pc \in CloseSteps,
         key \in Keys \/ (kind = "close" /\ pc \in {"await", "close"})
  PROVE  Thread(kind, doc, gen, pc, key) \in Threads /\ Thread(kind, doc, gen, pc, key).pc = pc
BY DEF Thread, Threads, ThreadRecords, Served

(* A thread goes on. *)
LEMMA NextStep ==
  ASSUME NEW t \in Threads, t.key \in Keys, NEW pc \in Steps, t.kind = "close" => pc \in CloseSteps
  PROVE  [t EXCEPT !.pc = pc] \in Threads /\ [t EXCEPT !.pc = pc].pc = pc
BY DEF Threads, ThreadRecords

LEMMA ThreadsBecome ==
  ASSUME threads \subseteq Threads, NEW t \in threads, NEW u \in Threads, Becomes(t, u)
  PROVE  /\ threads' \subseteq Threads
         /\ Starting' = (Starting \ {t}) \cup {x \in {u} : x.pc = "init"}
BY DEF Becomes, Starting

LEMMA ThreadsEnd ==
  ASSUME threads \subseteq Threads, NEW t \in threads, Ends(t)
  PROVE  threads' \subseteq Threads /\ Starting' = Starting \ {t}
BY DEF Ends, Starting

LEMMA ThreadsBegin ==
  ASSUME threads \subseteq Threads, NEW us \in SUBSET Threads, threads' = threads \cup us,
         \A u \in us : u.pc # "init"
  PROVE  threads' \subseteq Threads /\ Starting' = Starting
BY DEF Starting

LEMMA AfterReturnOK ==
  ASSUME threads \subseteq Threads, NEW t \in threads, NEW ok \in BOOLEAN
  PROVE  /\ AfterReturn(t, ok) \subseteq Threads
         /\ {u \in AfterReturn(t, ok) : u.pc = "init"} = Starting \ {t}
<1>1. ASSUME NEW c \in threads, Awaits(c, t)
      PROVE  [c EXCEPT !.pc = "close"] \in Threads /\ [c EXCEPT !.pc = "close"].pc = "close" /\ c.pc # "init"
  BY <1>1 DEF Awaits, Threads, ThreadRecords, Steps, CloseSteps
<1> QED
  BY <1>1 DEF AfterReturn, Starting

LEMMA DocsAfterOK ==
  ASSUME docs \in [Documents -> DocStates], NEW t, t.doc \in Documents, NEW ok \in BOOLEAN
  PROVE  DocsAfter(t, ok) \in [Documents -> DocStates]
BY DEF DocsAfter, DocStates

LEMMA CallReturns ==
  ASSUME threads \subseteq Threads, docs \in [Documents -> DocStates],
         NEW t \in threads, t.kind = "open", NEW ok \in BOOLEAN, Returns(t, ok)
  PROVE  threads' \subseteq Threads /\ Starting' = Starting \ {t} /\ docs' \in [Documents -> DocStates]
<1>1. t.doc \in Documents
  BY ThreadFields
<1>2. threads' = AfterReturn(t, ok) /\ docs' = DocsAfter(t, ok)
  BY DEF Returns
<1> QED
  BY <1>1, <1>2, AfterReturnOK, DocsAfterOK DEF Starting

LEMMA UntrackedOK ==
  ASSUME pending \in [Keys -> SUBSET Documents], NEW d
  PROVE  Untracked(d) \in [Keys -> SUBSET Documents]
BY DEF Untracked

(* A start that fails answers its call, or just ends. *)
LEMMA StartFails ==
  ASSUME threads \subseteq Threads, docs \in [Documents -> DocStates], pending \in [Keys -> SUBSET Documents],
         NEW t \in threads, Fails(t)
  PROVE  /\ threads' \subseteq Threads /\ Starting' = Starting \ {t}
         /\ docs' \in [Documents -> DocStates] /\ pending' \in [Keys -> SUBSET Documents]
<1>1. CASE t.kind = "open"
  BY <1>1, CallReturns, UntrackedOK DEF Fails
<1>2. CASE t.kind # "open"
  BY <1>2, ThreadsEnd DEF Fails
<1> QED
  BY <1>1, <1>2

-----------------------------------------------------------------------------
(* Steps that start, register and end no process.                            *)
LEMMA Frame ==
  ASSUME ManagerInv, ManagerTypeOK', UNCHANGED <<servers, load, workspaceRoot, managerStopped>>,
         \A e \in Procs : entries'[e].client = entries[e].client /\ entries'[e].key = entries[e].key,
         Starting' = Starting
  PROVE  ManagerInv'
<1> USE DEF ManagerInv
<1>1. StartsOwn'
  <2>1. \A t \in Starting :
          t.proc \in Procs /\ entries[t.proc].client = "init" /\ entries[t.proc].key = t.key
    BY DEF StartsOwn
  <2>2. \A t, u \in Starting : t.proc = u.proc => t = u
    BY DEF StartsOwn
  <2> QED
    BY <2>1, <2>2 DEF StartsOwn
<1>2. Registered'
  BY DEF Registered, ManagerTypeOK, MapTypeOK, Served
<1>3. Loading'
  BY DEF Loading
<1>4. Managed'
  <2>1. \A e \in Procs : entries[e].client \in {"init", "up"} =>
          servers[entries[e].key] = e \/ \E t \in Starting : t.proc = e
    BY DEF Managed, Starting
  <2>2. \A e \in Procs : entries'[e].client \in {"init", "up"} =>
          servers'[entries'[e].key] = e \/ \E t \in Starting' : t.proc = e
    BY <2>1
  <2> QED
    BY <2>2 DEF Managed, Starting
<1>5. Here'
  BY DEF Here, Inside
<1> QED
  BY <1>1, <1>2, <1>3, <1>4, <1>5

(* Steps of the editor. *)
LEMMA OpenCallOK ==
  ASSUME ManagerTypeOK, NEW d \in Documents
  PROVE  OpenCall(d) \in Threads /\ OpenCall(d).pc # "init" /\ Opened(d) \in DocStates
<1>1. docs[d].gen + 1 \in Nat /\ home[d] \in Keys
  BY DEF ManagerTypeOK, EditorTypeOK, DocStates
<1> QED
  BY <1>1, NewThread DEF OpenCall, Opened, DocStates, Kinds, Steps

LEMMA CloseCallsOK ==
  ASSUME ManagerTypeOK, NEW ds \in SUBSET Documents
  PROVE  CloseCalls(ds) \subseteq Threads /\ \A c \in CloseCalls(ds) : c.pc # "init"
<1> SUFFICES ASSUME NEW d \in ds, NEW pc \in {"close", "await"}
             PROVE  Thread("close", d, docs[d].gen, pc, NoRoot) \in Threads
                    /\ Thread("close", d, docs[d].gen, pc, NoRoot).pc # "init"
  BY DEF CloseCalls
<1>1. docs[d].gen \in Nat
  BY DEF ManagerTypeOK, EditorTypeOK, DocStates
<1>2. pc \in Steps /\ pc \in CloseSteps /\ pc # "init" /\ "close" \in Kinds
  BY DEF Kinds, Steps, CloseSteps
<1> QED
  BY <1>1, <1>2, NewThread

LEMMA ForgetsOK ==
  ASSUME ManagerTypeOK, NEW ds \in SUBSET Documents, Forgets(ds)
  PROVE  docs' \in [Documents -> DocStates]
BY DEF Forgets, ManagerTypeOK, EditorTypeOK, DocStates

LEMMA EditorFrame ==
  ASSUME ManagerInv, EditorTypeOK', threads' \subseteq Threads, Starting' = Starting, acts' \in Nat,
         reconnects' \subseteq reconnects, UNCHANGED <<rootVars, mapVars>>
  PROVE  ManagerInv'
<1> USE DEF rootVars, mapVars
<1>1. RootTypeOK' /\ MapTypeOK'
  BY DEF ManagerInv, ManagerTypeOK, RootTypeOK, MapTypeOK
<1>2. ThreadTypeOK'
  BY DEF ManagerInv, ManagerTypeOK, ThreadTypeOK
<1>3. ManagerTypeOK'
  BY <1>1, <1>2 DEF ManagerTypeOK
<1> QED
  BY <1>3, Frame

LEMMA InvTypes ==
  ASSUME ManagerInv
  PROVE  /\ ManagerTypeOK /\ EditorTypeOK /\ RootTypeOK /\ MapTypeOK /\ ThreadTypeOK
         /\ threads \subseteq Threads /\ acts \in Nat /\ acts + 1 \in Nat
BY DEF ManagerInv, ManagerTypeOK, ThreadTypeOK

LEMMA OpenFileStep ==
  ASSUME ManagerInv, NEW d \in Documents, OpenFile(d)
  PROVE  ManagerInv'
<1>1. threads' = threads \cup {OpenCall(d)} /\ acts' = acts + 1 /\ UNCHANGED <<rootVars, mapVars>>
      /\ reconnects' = reconnects
  BY DEF OpenFile, Acts, shownVars
<1>2. threads' \subseteq Threads /\ Starting' = Starting
  <2> DEFINE calls == {OpenCall(d)}
  <2>1. calls \in SUBSET Threads /\ \A u \in calls : u.pc # "init"
    BY InvTypes, OpenCallOK
  <2>2. threads' = threads \cup calls
    BY <1>1
  <2> HIDE DEF calls
  <2> QED
    BY <2>1, <2>2, InvTypes, ThreadsBegin
<1>3. EditorTypeOK'
  BY InvTypes, OpenCallOK DEF OpenFile, EditorTypeOK
<1> QED
  BY <1>1, <1>2, <1>3, InvTypes, EditorFrame

LEMMA CloseFileStep ==
  ASSUME ManagerInv, NEW d \in Documents, CloseFile(d)
  PROVE  ManagerInv'
<1>1. threads' = threads \cup CloseCalls({d}) /\ acts' = acts + 1 /\ UNCHANGED <<rootVars, mapVars>>
      /\ reconnects' = reconnects
  BY DEF CloseFile, Acts, shownVars
<1>2. threads' \subseteq Threads /\ Starting' = Starting
  BY <1>1, InvTypes, CloseCallsOK, ThreadsBegin
<1>3. EditorTypeOK'
  BY InvTypes, ForgetsOK DEF CloseFile, EditorTypeOK
<1> QED
  BY <1>1, <1>2, <1>3, InvTypes, EditorFrame

LEMMA SwitchViewStep ==
  ASSUME ManagerInv, NEW w \in Workspaces, SwitchView(w)
  PROVE  ManagerInv'
<1>1. threads' = threads \cup CloseCalls(Documents) /\ acts' = acts + 1
      /\ UNCHANGED <<rootVars, mapVars>> /\ reconnects' = reconnects
  BY DEF SwitchView, Acts, shownVars
<1>2. threads' \subseteq Threads /\ Starting' = Starting
  BY <1>1, InvTypes, CloseCallsOK, ThreadsBegin
<1>3. EditorTypeOK'
  BY InvTypes, ForgetsOK DEF SwitchView, EditorTypeOK, Roots
<1> QED
  BY <1>1, <1>2, <1>3, InvTypes, EditorFrame

LEMMA ReloadViewStep ==
  ASSUME ManagerInv, ReloadView
  PROVE  ManagerInv'
<1>1. threads' = threads /\ acts' = acts + 1 /\ UNCHANGED <<rootVars, mapVars>>
      /\ reconnects' = reconnects
  BY DEF ReloadView, Acts, shownVars
<1>2. threads' \subseteq Threads /\ Starting' = Starting
  BY <1>1, InvTypes DEF Starting
<1>3. EditorTypeOK'
  BY InvTypes DEF ReloadView, EditorTypeOK, Roots
<1> QED
  BY <1>1, <1>2, <1>3, InvTypes, EditorFrame

LEMMA ReconnectStep ==
  ASSUME ManagerInv, NEW r \in reconnects, Reconnect(r)
  PROVE  ManagerInv'
<1> DEFINE again == IF r.key \in Within[view] THEN r.docs \cap files ELSE {}
           calls == {OpenCall(d) : d \in again}
<1>1. threads' = threads \cup calls /\ acts' = acts /\ UNCHANGED <<rootVars, mapVars>>
      /\ reconnects' \subseteq reconnects
  BY DEF Reconnect
<1>2. again \subseteq Documents
  BY InvTypes DEF EditorTypeOK
<1>3. threads' \subseteq Threads /\ Starting' = Starting
  <2>1. calls \subseteq Threads /\ \A u \in calls : u.pc # "init"
    BY <1>2, InvTypes, OpenCallOK
  <2> HIDE DEF calls
  <2> QED
    BY <1>1, <2>1, InvTypes, ThreadsBegin
<1>4. EditorTypeOK'
  BY <1>2, InvTypes, OpenCallOK DEF Reconnect, EditorTypeOK
<1> QED
  BY <1>1, <1>3, <1>4, InvTypes, EditorFrame

-----------------------------------------------------------------------------
(* Calls and goroutines that start, register and end no process.             *)
LEMMA CallFrame ==
  ASSUME ManagerInv, threads' \subseteq Threads, Starting' = Starting,
         docs' \in [Documents -> DocStates], docKeys' \in [Documents -> Keys \cup {NoRoot}],
         pending' \in [Keys -> SUBSET Documents], entries' \in [Procs -> Entries],
         \A e \in Procs : entries'[e].client = entries[e].client /\ entries'[e].key = entries[e].key,
         reconnects' \subseteq [key : Keys, docs : SUBSET Documents], acts' \in Nat,
         UNCHANGED <<view, files, asked, home, rootVars, servers>>
  PROVE  ManagerInv'
<1> USE DEF rootVars
<1>1. EditorTypeOK' /\ RootTypeOK'
  BY InvTypes DEF EditorTypeOK, RootTypeOK
<1>2. MapTypeOK' /\ ThreadTypeOK'
  BY InvTypes DEF MapTypeOK, ThreadTypeOK
<1>3. ManagerTypeOK'
  BY <1>1, <1>2 DEF ManagerTypeOK
<1> QED
  BY <1>3, Frame

LEMMA ClientBecomes ==
  ASSUME entries \in [Procs -> Entries], NEW p \in Procs, NEW c \in Clients,
         entries' = [entries EXCEPT ![p].client = c]
  PROVE  /\ entries' \in [Procs -> Entries] /\ entries'[p].client = c
         /\ entries'[p].key = entries[p].key
         /\ \A e \in Procs : e # p => entries'[e] = entries[e]
<1> DEFINE r == [entries[p] EXCEPT !.client = c]
<1>1. r \in Entries /\ r.client = c /\ r.key = entries[p].key
  BY DEF Entries
<1>2. entries' = [entries EXCEPT ![p] = r]
  OBVIOUS
<1> HIDE DEF r
<1> QED
  BY <1>1, <1>2

LEMMA InvFacts ==
  ASSUME ManagerInv
  PROVE  /\ threads \subseteq Threads /\ docs \in [Documents -> DocStates]
         /\ docKeys \in [Documents -> Keys \cup {NoRoot}] /\ pending \in [Keys -> SUBSET Documents]
         /\ entries \in [Procs -> Entries] /\ servers \in [Keys -> Served]
         /\ reconnects \subseteq [key : Keys, docs : SUBSET Documents] /\ acts \in Nat /\ acts + 1 \in Nat
BY InvTypes DEF EditorTypeOK, MapTypeOK, ThreadTypeOK

(* A thread that is not starting a process goes on to something else. *)
LEMMA Onward ==
  ASSUME ManagerInv, NEW t \in threads, t.pc # "init", NEW u \in Threads, u.pc # "init", Becomes(t, u)
  PROVE  threads' \subseteq Threads /\ Starting' = Starting
<1>1. t \notin Starting
  BY DEF Starting
<1> QED
  BY <1>1, InvTypes, ThreadsBecome

LEMMA OnwardTo ==
  ASSUME ManagerInv, NEW t \in threads, t.pc # "init", t.key \in Keys, NEW pc \in Steps \ {"init"},
         t.kind = "close" => pc \in CloseSteps, Goes(t, pc)
  PROVE  threads' \subseteq Threads /\ Starting' = Starting
<1> DEFINE u == [t EXCEPT !.pc = pc]
<1>1. u \in Threads /\ u.pc = pc
  BY InvTypes, NextStep
<1>2. Becomes(t, u)
  BY DEF Goes
<1> HIDE DEF u
<1> QED
  BY <1>1, <1>2, Onward

(* The same, with a server, a process or a context of its own. *)
LEMMA OnwardWith ==
  ASSUME ManagerInv, NEW t \in threads, t.pc # "init", t.key \in Keys, NEW pc \in Steps \ {"init"},
         t.kind = "close" => pc \in CloseSteps, NEW e \in Served,
         \/ Becomes(t, [t EXCEPT !.pc = pc, !.entry = e])
         \/ Becomes(t, [t EXCEPT !.pc = pc, !.proc = e])
  PROVE  threads' \subseteq Threads /\ Starting' = Starting
<1> DEFINE u == [t EXCEPT !.pc = pc, !.entry = e]
           v == [t EXCEPT !.pc = pc, !.proc = e]
<1>1. t \in ThreadRecords /\ (t.kind \in {"open", "close"} => t.doc \in Documents)
  BY InvTypes, ThreadFields
<1>2. u \in ThreadRecords /\ u.pc = pc /\ u.key = t.key /\ u.kind = t.kind /\ u.doc = t.doc
  BY <1>1 DEF ThreadRecords
<1>3. v \in ThreadRecords /\ v.pc = pc /\ v.key = t.key /\ v.kind = t.kind /\ v.doc = t.doc
  BY <1>1 DEF ThreadRecords
<1>4. Becomes(t, u) \/ Becomes(t, v)
  OBVIOUS
<1> HIDE DEF u, v
<1>5. u \in Threads /\ v \in Threads
  BY <1>1, <1>2, <1>3 DEF Threads
<1> QED
  BY <1>2, <1>3, <1>4, <1>5, Onward

LEMMA OnwardCut ==
  ASSUME ManagerInv, NEW t \in threads, t.pc # "init", t.key \in Keys, NEW pc \in Steps \ {"init"},
         t.kind # "close", Becomes(t, [t EXCEPT !.pc = pc, !.cut = ctxDone])
  PROVE  threads' \subseteq Threads /\ Starting' = Starting
<1> DEFINE u == [t EXCEPT !.pc = pc, !.cut = ctxDone]
<1>1. t \in ThreadRecords /\ (t.kind \in {"open", "close"} => t.doc \in Documents) /\ ctxDone \in BOOLEAN
  BY InvTypes, ThreadFields DEF RootTypeOK
<1>2. u \in ThreadRecords /\ u.pc = pc /\ u.key = t.key /\ u.kind = t.kind /\ u.doc = t.doc
  BY <1>1 DEF ThreadRecords
<1>3. Becomes(t, u)
  OBVIOUS
<1> HIDE DEF u
<1>4. u \in Threads
  BY <1>1, <1>2 DEF Threads
<1> QED
  BY <1>2, <1>3, <1>4, Onward

LEMMA Over ==
  ASSUME ManagerInv, NEW t \in threads, t.pc # "init", Ends(t)
  PROVE  threads' \subseteq Threads /\ Starting' = Starting
<1>1. t \notin Starting
  BY DEF Starting
<1> QED
  BY <1>1, InvTypes, ThreadsEnd

LEMMA Answered ==
  ASSUME ManagerInv, NEW t \in threads, t.pc # "init", t.kind = "open", NEW ok \in BOOLEAN, Returns(t, ok)
  PROVE  threads' \subseteq Threads /\ Starting' = Starting /\ docs' \in [Documents -> DocStates]
<1>1. t \notin Starting
  BY DEF Starting
<1>2. threads \subseteq Threads /\ docs \in [Documents -> DocStates]
  BY InvFacts
<1>3. threads' \subseteq Threads /\ Starting' = Starting \ {t} /\ docs' \in [Documents -> DocStates]
  BY <1>2, CallReturns
<1> QED
  BY <1>1, <1>3

(* The root and the document of a thread. *)
LEMMA ThreadKey ==
  ASSUME ManagerInv, NEW t \in threads
  PROVE  /\ t \in Threads /\ t \in ThreadRecords
         /\ t.kind \in {"open", "close"} => t.doc \in Documents
         /\ t.kind # "close" \/ t.pc \notin {"await", "close"} => t.key \in Keys
         /\ t.kind = "close" => t.pc \in CloseSteps
BY InvTypes, ThreadFields

LEMMA DidOpenStep ==
  ASSUME ManagerInv, NEW t \in threads, DidOpen(t)
  PROVE  ManagerInv'
<1>1. t.kind = "open" /\ t.pc = "barrier" /\ t.key \in Keys /\ t \in Threads /\ t.doc \in Documents
  BY ThreadKey DEF DidOpen
<1>2. UNCHANGED <<view, files, asked, home, rootVars, servers, docKeys, entries, reconnects, acts>>
  BY DEF DidOpen, shownVars
<1>3. /\ threads' \subseteq Threads /\ Starting' = Starting /\ docs' \in [Documents -> DocStates]
      /\ pending' \in [Keys -> SUBSET Documents]
  <2>1. CASE ~Current(t) \/ ~Inside(t.key)
    <3>1. \E ok \in BOOLEAN : Returns(t, ok)
      BY <2>1 DEF DidOpen
    <3>2. pending' = pending
      BY <2>1 DEF DidOpen
    <3> QED
      BY <1>1, <3>1, <3>2, Answered, InvFacts
  <2>2. CASE Current(t) /\ Inside(t.key) /\ servers[t.key] # 0
    <3>1. Becomes(t, [t EXCEPT !.pc = "have", !.entry = servers[t.key]]) /\ docs' = docs /\ pending' = pending
      BY <2>2 DEF DidOpen
    <3>2. "have" \in Steps \ {"init"} /\ servers[t.key] \in Served
      BY <1>1, InvFacts DEF Steps
    <3> QED
      BY <1>1, <3>1, <3>2, OnwardWith, InvFacts
  <2>3. CASE Current(t) /\ Inside(t.key) /\ servers[t.key] = 0
    <3>1. Goes(t, "config") /\ docs' = docs /\ pending' = [pending EXCEPT ![t.key] = @ \cup {t.doc}]
      BY <2>3 DEF DidOpen
    <3>2. "config" \in Steps \ {"init"}
      BY DEF Steps
    <3> QED
      BY <1>1, <3>1, <3>2, OnwardTo, InvFacts
  <2> QED
    BY <2>1, <2>2, <2>3
<1> QED
  BY <1>2, <1>3, CallFrame, InvFacts

LEMMA EnsureServerStep ==
  ASSUME ManagerInv, NEW t \in threads, EnsureServer(t)
  PROVE  ManagerInv'
<1>1. t.pc = "ensure" /\ t.key \in Keys /\ t \in Threads /\ t.kind # "close"
  BY ThreadKey DEF EnsureServer, CloseSteps
<1>2. UNCHANGED <<view, files, docs, asked, home, rootVars, servers, docKeys, pending, entries, reconnects, acts>>
  BY DEF EnsureServer, editorVars, mapVars, shownVars
<1>3. \/ Becomes(t, [t EXCEPT !.pc = "have", !.entry = servers[t.key]])
      \/ Goes(t, "config")
  BY DEF EnsureServer, Goes
<1>4. "have" \in Steps \ {"init"} /\ "config" \in Steps \ {"init"} /\ servers[t.key] \in Served
  BY <1>1, InvFacts DEF Steps
<1>5. threads' \subseteq Threads /\ Starting' = Starting
  <2>1. CASE Goes(t, "config")
    BY <1>1, <1>4, <2>1, OnwardTo
  <2>2. CASE Becomes(t, [t EXCEPT !.pc = "have", !.entry = servers[t.key]])
    BY <1>1, <1>4, <2>2, OnwardWith
  <2> QED
    BY <1>3, <2>1, <2>2
<1> QED
  BY <1>2, <1>5, CallFrame, InvFacts

(* A document entered into a server or told to it. *)
LEMMA EntryKept ==
  ASSUME entries \in [Procs -> Entries], NEW e, NEW r, entries' = [entries EXCEPT ![e] = r],
         e \in Procs => r \in Entries /\ r.client = entries[e].client /\ r.key = entries[e].key
  PROVE  /\ entries' \in [Procs -> Entries]
         /\ \A x \in Procs : entries'[x].client = entries[x].client /\ entries'[x].key = entries[x].key
OBVIOUS

LEMMA DocumentEntered ==
  ASSUME ManagerInv, NEW e, NEW d \in Documents, NEW n, e \in Procs => n \in Nat,
         entries' = [entries EXCEPT ![e].open[d] = n]
  PROVE  /\ entries' \in [Procs -> Entries]
         /\ \A x \in Procs : entries'[x].client = entries[x].client /\ entries'[x].key = entries[x].key
<1> DEFINE r == [entries[e] EXCEPT !.open[d] = n]
<1>1. e \in Procs => r \in Entries /\ r.client = entries[e].client /\ r.key = entries[e].key
  <2>1. ASSUME e \in Procs
        PROVE  r \in Entries /\ r.client = entries[e].client /\ r.key = entries[e].key
    BY <2>1, InvFacts DEF Entries
  <2> QED
    BY <2>1
<1>2. entries' = [entries EXCEPT ![e] = r]
  BY InvFacts
<1> HIDE DEF r
<1> QED
  BY <1>1, <1>2, EntryKept, InvFacts

LEMMA DocumentTold ==
  ASSUME ManagerInv, NEW e, NEW ds, e \in Procs => ds \in SUBSET Documents,
         entries' = [entries EXCEPT ![e].told = ds]
  PROVE  /\ entries' \in [Procs -> Entries]
         /\ \A x \in Procs : entries'[x].client = entries[x].client /\ entries'[x].key = entries[x].key
<1> DEFINE r == [entries[e] EXCEPT !.told = ds]
<1>1. e \in Procs => r \in Entries /\ r.client = entries[e].client /\ r.key = entries[e].key
  <2>1. ASSUME e \in Procs
        PROVE  r \in Entries /\ r.client = entries[e].client /\ r.key = entries[e].key
    BY <2>1, InvFacts DEF Entries
  <2> QED
    BY <2>1
<1>2. entries' = [entries EXCEPT ![e] = r]
  BY InvFacts
<1> HIDE DEF r
<1> QED
  BY <1>1, <1>2, EntryKept, InvFacts

LEMMA InstallOK ==
  ASSUME NEW k \in Keys
  PROVE  Install(k) \in Threads /\ Install(k).pc = "begin"
BY DEF Install, Thread, Threads, ThreadRecords, Kinds, Steps, CloseSteps, Served

LEMMA ProvisionStep ==
  ASSUME ManagerInv, NEW t \in threads, Provision(t)
  PROVE  ManagerInv'
<1> DEFINE rest == IF t.kind = "open" THEN AfterReturn(t, TRUE) ELSE threads \ {t}
           calls == {Install(t.key)}
<1>1. t.pc = "config" /\ t.key \in Keys /\ (t.kind = "open" => t.doc \in Documents)
  BY ThreadKey DEF Provision, CloseSteps
<1>2. UNCHANGED <<view, files, asked, home, rootVars, servers, docKeys, pending, entries, reconnects, acts>>
  BY DEF Provision, mapVars
<1>3. threads' = rest \/ threads' = rest \cup calls
  BY DEF Provision
<1>4. calls \subseteq Threads /\ \A u \in calls : u.pc # "init"
  <2>1. Install(t.key) \in Threads /\ Install(t.key).pc = "begin"
    BY <1>1, InstallOK
  <2> QED
    BY <2>1
<1>5. rest \subseteq Threads /\ {u \in rest : u.pc = "init"} = Starting
  <2>1. t \notin Starting /\ threads \subseteq Threads
    BY <1>1, InvFacts DEF Starting
  <2>2. CASE t.kind = "open"
    BY <2>1, <2>2, AfterReturnOK
  <2>3. CASE t.kind # "open"
    BY <2>1, <2>3 DEF Starting
  <2> QED
    BY <2>2, <2>3
<1>6. docs' \in [Documents -> DocStates]
  BY <1>1, InvFacts, DocsAfterOK DEF Provision
<1> HIDE DEF rest, calls
<1>7. threads' \subseteq Threads /\ Starting' = Starting
  BY <1>3, <1>4, <1>5 DEF Starting
<1> QED
  BY <1>2, <1>6, <1>7, CallFrame, InvFacts

LEMMA AfterShutdownStep ==
  ASSUME ManagerInv, NEW t \in threads, AfterShutdown(t)
  PROVE  ManagerInv'
<1>1. t.pc \in {"abandoned", "lost", "stopping"} /\ t.key \in Keys /\ (t.kind = "close" => t.pc \in CloseSteps)
  BY ThreadKey DEF AfterShutdown
<1>2. UNCHANGED <<view, files, asked, home, rootVars, servers, docKeys, entries, reconnects, acts>>
  BY DEF AfterShutdown, shownVars
<1>3. t.pc # "init" /\ t \notin Starting
  BY <1>1 DEF Starting
<1>4. CASE t.pc = "abandoned"
  <2>1. Fails(t)
    BY <1>4 DEF AfterShutdown
  <2>2. /\ threads' \subseteq Threads /\ Starting' = Starting \ {t}
        /\ docs' \in [Documents -> DocStates] /\ pending' \in [Keys -> SUBSET Documents]
    BY <2>1, InvFacts, StartFails
  <2> QED
    BY <1>2, <1>3, <2>2, CallFrame, InvFacts
<1>5. CASE t.pc = "lost"
  <2>1. Goes(t, "have") /\ docs' = docs /\ pending' = pending
    BY <1>5 DEF AfterShutdown
  <2>2. "have" \in Steps \ {"init"} /\ t.kind # "close"
    BY <1>1, <1>5 DEF Steps, CloseSteps
  <2>3. threads' \subseteq Threads /\ Starting' = Starting
    BY <1>1, <1>3, <2>1, <2>2, OnwardTo
  <2> QED
    BY <1>2, <2>1, <2>3, CallFrame, InvFacts
<1>6. CASE t.pc = "stopping"
  <2>1. docs' = docs /\ pending' = pending
    BY <1>6 DEF AfterShutdown
  <2>2. threads' \subseteq Threads /\ Starting' = Starting
    <3>1. CASE t.kind = "override"
      <4>1. Becomes(t, [t EXCEPT !.pc = "ensure", !.cut = ctxDone]) /\ "ensure" \in Steps \ {"init"}
        BY <1>6, <3>1 DEF AfterShutdown, RestartFamily, Steps
      <4> QED
        BY <1>1, <1>3, <3>1, <4>1, OnwardCut
    <3>2. CASE t.kind # "override"
      BY <1>3, <1>6, <3>2, Over DEF AfterShutdown
    <3> QED
      BY <3>1, <3>2
  <2> QED
    BY <1>2, <2>1, <2>2, CallFrame, InvFacts
<1> QED
  BY <1>1, <1>4, <1>5, <1>6

LEMMA EntersDocumentStep ==
  ASSUME ManagerInv, NEW t \in threads, EntersDocument(t)
  PROVE  ManagerInv'
<1>1. t.kind = "open" /\ t.pc = "have" /\ t.key \in Keys /\ t.doc \in Documents
  BY ThreadKey DEF EntersDocument, CloseSteps
<1>2. UNCHANGED <<view, files, asked, home, rootVars, servers, reconnects, acts>>
  BY DEF EntersDocument, shownVars
<1>3. docKeys' \in [Documents -> Keys \cup {NoRoot}] /\ pending' \in [Keys -> SUBSET Documents]
  BY <1>1, InvFacts, UntrackedOK DEF EntersDocument
<1>4. /\ entries' \in [Procs -> Entries]
      /\ \A e \in Procs : entries'[e].client = entries[e].client /\ entries'[e].key = entries[e].key
  <2> DEFINE n == entries[t.entry].open[t.doc] + 1
  <2>1. entries' = [entries EXCEPT ![t.entry].open[t.doc] = n]
    BY InvFacts DEF EntersDocument
  <2>2. t.entry \in Procs => n \in Nat
    BY <1>1, InvFacts DEF Entries
  <2> HIDE DEF n
  <2> QED
    BY <1>1, <2>1, <2>2, DocumentEntered
<1>5. threads' \subseteq Threads /\ Starting' = Starting /\ docs' \in [Documents -> DocStates]
  <2>1. CASE entries[t.entry].open[t.doc] = 0
    <3>1. Goes(t, "send") /\ docs' = docs /\ "send" \in Steps \ {"init"}
      BY <2>1 DEF EntersDocument, Steps
    <3> QED
      BY <1>1, <3>1, OnwardTo, InvFacts
  <2>2. CASE entries[t.entry].open[t.doc] # 0
    BY <1>1, <2>2, Answered DEF EntersDocument
  <2> QED
    BY <2>1, <2>2
<1> QED
  BY <1>2, <1>3, <1>4, <1>5, CallFrame, InvFacts

LEMMA SendsOpenStep ==
  ASSUME ManagerInv, NEW t \in threads, SendsOpen(t)
  PROVE  ManagerInv'
<1>1. t.kind = "open" /\ t.pc = "send" /\ t.doc \in Documents
  BY ThreadKey DEF SendsOpen
<1>2. UNCHANGED <<view, files, asked, home, rootVars, servers, docKeys, pending, reconnects, acts>>
  BY DEF SendsOpen, shownVars
<1>3. /\ entries' \in [Procs -> Entries]
      /\ \A e \in Procs : entries'[e].client = entries[e].client /\ entries'[e].key = entries[e].key
  <2> DEFINE ds == entries[t.entry].told \cup {t.doc}
  <2>1. entries' = [entries EXCEPT ![t.entry].told = ds] \/ entries' = entries
    BY InvFacts DEF SendsOpen
  <2>2. t.entry \in Procs => ds \in SUBSET Documents
    BY <1>1, InvFacts DEF Entries
  <2> HIDE DEF ds
  <2>3. CASE entries' = [entries EXCEPT ![t.entry].told = ds]
    BY <2>2, <2>3, DocumentTold
  <2> QED
    BY <2>1, <2>3, InvFacts
<1>4. threads' \subseteq Threads /\ Starting' = Starting /\ docs' \in [Documents -> DocStates]
  BY <1>1, Answered DEF SendsOpen
<1> QED
  BY <1>2, <1>3, <1>4, CallFrame, InvFacts

LEMMA DidCloseStep ==
  ASSUME ManagerInv, NEW t \in threads, DidClose(t)
  PROVE  ManagerInv'
<1> DEFINE d == t.doc
           e == IF docKeys[d] = NoRoot THEN 0 ELSE servers[docKeys[d]]
           open == IF e = 0 THEN 0 ELSE entries[e].open[d]
           pc == IF OpenDocs(e) = {d} THEN "tell last" ELSE "tell"
           u == [t EXCEPT !.pc = pc, !.key = docKeys[d], !.entry = e]
<1>1. t.kind = "close" /\ t.pc = "close" /\ d \in Documents /\ t \in ThreadRecords /\ t.pc # "init"
  BY ThreadKey DEF DidClose
<1>2. /\ UNCHANGED <<editorVars, home, rootVars, servers, reconnects, acts>>
      /\ pending' = pending \/ pending' = Untracked(d)
      /\ docKeys' = docKeys \/ docKeys' = [docKeys EXCEPT ![d] = NoRoot]
      /\ entries' = entries \/ (open > 0 /\ entries' = [entries EXCEPT ![e].open[d] = open - 1])
      /\ Ends(t) \/ (open > 0 /\ Becomes(t, u))
  BY DEF DidClose, shownVars
<1>3. UNCHANGED <<view, files, docs, asked, home, rootVars, servers, reconnects, acts>>
  BY <1>2 DEF editorVars
<1>4. docKeys' \in [Documents -> Keys \cup {NoRoot}] /\ pending' \in [Keys -> SUBSET Documents]
  <2>1. docKeys \in [Documents -> Keys \cup {NoRoot}] /\ pending \in [Keys -> SUBSET Documents]
    BY InvFacts
  <2>2. Untracked(d) \in [Keys -> SUBSET Documents]
    BY <2>1, UntrackedOK
  <2> QED
    BY <1>2, <2>1, <2>2
<1>5. e \in Served /\ (e # 0 => docKeys[d] \in Keys /\ e \in Procs) /\ (open > 0 => e # 0) /\ open \in Nat
  BY <1>1, InvFacts DEF Served, Entries
<1>6. /\ entries' \in [Procs -> Entries]
      /\ \A x \in Procs : entries'[x].client = entries[x].client /\ entries'[x].key = entries[x].key
  <2>1. CASE open > 0 /\ entries' = [entries EXCEPT ![e].open[d] = open - 1]
    <3> HIDE DEF e, open
    <3> DEFINE n == open - 1
    <3>1. n \in Nat
      BY <1>5, <2>1
    <3>2. entries' = [entries EXCEPT ![e].open[d] = n]
      BY <2>1
    <3> HIDE DEF n
    <3> QED
      BY <1>1, <3>1, <3>2, DocumentEntered
  <2> QED
    BY <1>2, <2>1, InvFacts
<1>7. threads' \subseteq Threads /\ Starting' = Starting
  <2>1. CASE open > 0 /\ Becomes(t, u)
    <3>1. pc \in CloseSteps /\ pc \in Steps /\ pc # "init"
      BY DEF CloseSteps, Steps
    <3> HIDE DEF pc, e, open
    <3>2. u \in ThreadRecords /\ u.kind = "close" /\ u.pc = pc /\ u.doc = d /\ u.key \in Keys
      BY <1>1, <1>5, <2>1, <3>1 DEF ThreadRecords
    <3>3. u \in Threads /\ u.pc # "init"
      BY <1>1, <3>1, <3>2 DEF Threads
    <3> HIDE DEF u
    <3> QED
      BY <1>1, <2>1, <3>3, Onward
  <2> QED
    BY <1>1, <1>2, <2>1, Over
<1> QED
  BY <1>3, <1>4, <1>6, <1>7, CallFrame, InvFacts

LEMMA TellsClosedStep ==
  ASSUME ManagerInv, NEW t \in threads, TellsClosed(t)
  PROVE  ManagerInv'
<1>1. t.pc \in {"tell", "tell last"} /\ t.key \in Keys /\ t.pc # "init"
  BY ThreadKey DEF TellsClosed
<1>2. UNCHANGED <<view, files, docs, asked, home, rootVars, servers, docKeys, pending, reconnects, acts>>
  BY DEF TellsClosed, editorVars, shownVars
<1>3. /\ entries' \in [Procs -> Entries]
      /\ \A e \in Procs : entries'[e].client = entries[e].client /\ entries'[e].key = entries[e].key
  <2> DEFINE ds == entries[t.entry].told \ {t.doc}
  <2>1. entries' = [entries EXCEPT ![t.entry].told = ds]
    BY InvFacts DEF TellsClosed
  <2>2. t.entry \in Procs => ds \in SUBSET Documents
    BY InvFacts DEF Entries
  <2> HIDE DEF ds
  <2> QED
    BY <2>1, <2>2, DocumentTold
<1>4. threads' \subseteq Threads /\ Starting' = Starting
  <2>1. CASE t.pc = "tell last"
    <3>1. Goes(t, "ifempty") /\ "ifempty" \in Steps \ {"init"} /\ "ifempty" \in CloseSteps
      BY <2>1 DEF TellsClosed, Steps, CloseSteps
    <3> QED
      BY <1>1, <3>1, OnwardTo
  <2>2. CASE t.pc # "tell last"
    BY <1>1, <2>2, Over DEF TellsClosed
  <2> QED
    BY <2>1, <2>2
<1> QED
  BY <1>2, <1>3, <1>4, CallFrame, InvFacts

LEMMA ServerForPathStep ==
  ASSUME ManagerInv, NEW d \in Documents, ServerForPath(d)
  PROVE  ManagerInv'
<1>1. UNCHANGED <<view, files, docs, asked, home, rootVars, servers, pending, entries, threads, reconnects, acts>>
  BY DEF ServerForPath, editorVars, shownVars
<1>2. docKeys' \in [Documents -> Keys \cup {NoRoot}]
  BY InvFacts DEF ServerForPath
<1>3. threads' \subseteq Threads /\ Starting' = Starting
  BY <1>1, InvFacts DEF Starting
<1> QED
  BY <1>1, <1>2, <1>3, CallFrame, InvFacts

LEMMA BackoffEndsStep ==
  ASSUME ManagerInv, NEW t \in threads, BackoffEnds(t)
  PROVE  ManagerInv'
<1>1. t.pc = "backoff" /\ t.key \in Keys /\ t.pc # "init" /\ t.kind # "close"
  BY ThreadKey DEF BackoffEnds, CloseSteps
<1>2. UNCHANGED <<view, files, docs, asked, home, rootVars, servers, docKeys, pending, entries, reconnects, acts>>
  BY DEF BackoffEnds, editorVars, mapVars, shownVars
<1>3. threads' \subseteq Threads /\ Starting' = Starting
  <2>1. CASE Unwanted(t)
    BY <1>1, <2>1, Over DEF BackoffEnds
  <2>2. CASE ~Unwanted(t)
    <3>1. Goes(t, "start") /\ "start" \in Steps \ {"init"}
      BY <2>2 DEF BackoffEnds, Steps
    <3> QED
      BY <1>1, <3>1, OnwardTo
  <2> QED
    BY <2>1, <2>2
<1> QED
  BY <1>2, <1>3, CallFrame, InvFacts

LEMMA RestartedStep ==
  ASSUME ManagerInv, NEW t \in threads, Restarted(t)
  PROVE  ManagerInv'
<1>1. t.kind = "monitor" /\ t.pc = "have" /\ t.key \in Keys /\ t.pc # "init" /\ t \in ThreadRecords
  BY ThreadKey DEF Restarted
<1>2. UNCHANGED <<view, files, docs, asked, home, rootVars, servers, docKeys, pending, acts>>
  BY DEF Restarted, editorVars
<1>3. /\ entries' \in [Procs -> Entries]
      /\ \A e \in Procs : entries'[e].client = entries[e].client /\ entries'[e].key = entries[e].key
  <2> DEFINE r == [entries[t.entry] EXCEPT !.crashCount = t.crashes]
  <2>1. entries' = [entries EXCEPT ![t.entry] = r]
    BY InvFacts DEF Restarted
  <2>2. ASSUME t.entry \in Procs
        PROVE  r \in Entries /\ r.client = entries[t.entry].client /\ r.key = entries[t.entry].key
    <3>1. t.crashes \in Nat
      BY <1>1 DEF ThreadRecords
    <3>2. entries[t.entry] \in Entries
      BY <2>2, InvFacts
    <3> QED
      BY <3>1, <3>2 DEF Entries
  <2> HIDE DEF r
  <2> QED
    BY <2>1, <2>2, EntryKept, InvFacts
<1>4. reconnects' \subseteq [key : Keys, docs : SUBSET Documents]
  BY <1>1, InvFacts DEF Restarted, ThreadRecords
<1>5. threads' \subseteq Threads /\ Starting' = Starting
  BY <1>1, Over DEF Restarted
<1> QED
  BY <1>2, <1>3, <1>4, <1>5, CallFrame, InvFacts

LEMMA InstallBeginsStep ==
  ASSUME ManagerInv, NEW t \in threads, InstallBegins(t)
  PROVE  ManagerInv'
<1>1. t.pc = "begin" /\ t.key \in Keys /\ t.pc # "init" /\ t.kind # "close"
  BY ThreadKey DEF InstallBegins, CloseSteps
<1>2. UNCHANGED <<view, files, docs, asked, home, rootVars, servers, docKeys, pending, entries, reconnects, acts>>
  BY DEF InstallBegins, editorVars, mapVars, shownVars
<1>3. Becomes(t, [t EXCEPT !.pc = "installing", !.cut = ctxDone]) /\ "installing" \in Steps \ {"init"}
  BY DEF InstallBegins, Steps
<1>4. threads' \subseteq Threads /\ Starting' = Starting
  BY <1>1, <1>3, OnwardCut
<1> QED
  BY <1>2, <1>4, CallFrame, InvFacts

LEMMA InstalledStep ==
  ASSUME ManagerInv, NEW t \in threads, Installed(t)
  PROVE  ManagerInv'
<1>1. t.pc = "installing" /\ t.key \in Keys /\ t.pc # "init" /\ t.kind # "close"
  BY ThreadKey DEF Installed, CloseSteps
<1>2. UNCHANGED <<view, files, docs, asked, home, rootVars, servers, docKeys, pending, entries, reconnects, acts>>
  BY DEF Installed, editorVars, mapVars, shownVars
<1>3. Becomes(t, [t EXCEPT !.pc = "ensure", !.cut = ctxDone]) /\ "ensure" \in Steps \ {"init"}
  BY DEF Installed, RestartFamily, Steps
<1>4. threads' \subseteq Threads /\ Starting' = Starting
  BY <1>1, <1>3, OnwardCut
<1> QED
  BY <1>2, <1>4, CallFrame, InvFacts

LEMMA InstallFailsStep ==
  ASSUME ManagerInv, NEW t \in threads, InstallFails(t)
  PROVE  ManagerInv'
<1>1. t.pc = "installing" /\ t.pc # "init"
  BY DEF InstallFails
<1>2. UNCHANGED <<view, files, docs, asked, home, rootVars, servers, docKeys, pending, entries, reconnects>>
  BY DEF InstallFails, editorVars, mapVars
<1>3. acts' \in Nat
  BY InvFacts DEF InstallFails, Acts
<1>4. threads' \subseteq Threads /\ Starting' = Starting
  BY <1>1, Over DEF InstallFails
<1> QED
  BY <1>2, <1>3, <1>4, CallFrame, InvFacts

LEMMA FamilyRestartedStep ==
  ASSUME ManagerInv, NEW t \in threads, FamilyRestarted(t)
  PROVE  ManagerInv'
<1>1. t.pc = "have" /\ t.key \in Keys /\ t.pc # "init"
  BY ThreadKey DEF FamilyRestarted
<1>2. UNCHANGED <<view, files, docs, asked, home, rootVars, servers, docKeys, entries, acts>>
  BY DEF FamilyRestarted, editorVars
<1>3. pending' \in [Keys -> SUBSET Documents] /\ reconnects' \subseteq [key : Keys, docs : SUBSET Documents]
  BY <1>1, InvFacts DEF FamilyRestarted
<1>4. threads' \subseteq Threads /\ Starting' = Starting
  BY <1>1, Over DEF FamilyRestarted
<1> QED
  BY <1>2, <1>3, <1>4, CallFrame, InvFacts

LEMMA RetryProvisionStep ==
  ASSUME ManagerInv, NEW k \in Keys, RetryProvision(k)
  PROVE  ManagerInv'
<1> DEFINE calls == {Install(k)}
<1>1. threads' = threads \cup calls
  BY DEF RetryProvision
<1>2. UNCHANGED <<view, files, docs, asked, home, rootVars, servers, docKeys, pending, entries, reconnects>>
  BY DEF RetryProvision, editorVars, mapVars
<1>3. acts' \in Nat
  BY InvFacts DEF RetryProvision, Acts
<1>4. calls \subseteq Threads /\ \A u \in calls : u.pc # "init"
  BY InstallOK
<1> HIDE DEF calls
<1>5. threads' \subseteq Threads /\ Starting' = Starting
  BY <1>1, <1>4, InvFacts, ThreadsBegin
<1> QED
  BY <1>2, <1>3, <1>5, CallFrame, InvFacts

LEMMA OverrideOK ==
  ASSUME NEW k \in Keys, NEW n \in Nat
  PROVE  Thread("override", NoRoot, n, "restart", k) \in Threads
         /\ Thread("override", NoRoot, n, "restart", k).pc = "restart"
BY DEF Thread, Threads, ThreadRecords, Kinds, Steps, CloseSteps, Served

LEMMA SetInterpreterStep ==
  ASSUME ManagerInv, SetInterpreter
  PROVE  ManagerInv'
<1> DEFINE calls == {Thread("override", NoRoot, acts, "restart", Main[view])}
<1>1. threads' = threads \cup calls
  BY DEF SetInterpreter
<1>2. UNCHANGED <<view, files, docs, asked, home, rootVars, servers, docKeys, pending, entries, reconnects>>
  BY DEF SetInterpreter, editorVars, mapVars, shownVars
<1>3. acts' \in Nat
  BY InvFacts DEF SetInterpreter, Acts
<1>4. calls \subseteq Threads /\ \A u \in calls : u.pc # "init"
  <2>1. Main[view] \in Keys /\ acts \in Nat
    BY InvTypes, MainAssumption DEF EditorTypeOK
  <2> QED
    BY <2>1, OverrideOK
<1> HIDE DEF calls
<1>5. threads' \subseteq Threads /\ Starting' = Starting
  BY <1>1, <1>4, InvFacts, ThreadsBegin
<1> QED
  BY <1>2, <1>3, <1>5, CallFrame, InvFacts

-----------------------------------------------------------------------------
(* Processes started, registered and gone.                                   *)
LEMMA SpecialTypes ==
  ASSUME ManagerInv, threads' \subseteq Threads, docs' \in [Documents -> DocStates],
         docKeys' \in [Documents -> Keys \cup {NoRoot}],
         pending' \in [Keys -> SUBSET Documents], entries' \in [Procs -> Entries],
         servers' \in [Keys -> Served], RootTypeOK', acts' \in Nat, asked' \in Roots,
         UNCHANGED <<view, files, home, reconnects>>
  PROVE  ManagerTypeOK'
<1>1. EditorTypeOK'
  BY InvTypes DEF EditorTypeOK
<1>2. MapTypeOK' /\ ThreadTypeOK'
  BY InvTypes DEF MapTypeOK, ThreadTypeOK
<1> QED
  BY <1>1, <1>2 DEF ManagerTypeOK

LEMMA RootKept ==
  ASSUME ManagerInv, UNCHANGED rootVars
  PROVE  RootTypeOK'
BY InvTypes DEF RootTypeOK, rootVars

(* The parts of the invariant about goroutines that start a process. *)
LEMMA StartFacts ==
  ASSUME ManagerInv
  PROVE  /\ \A t \in Starting : t.proc \in Procs /\ entries[t.proc].client = "init" /\ entries[t.proc].key = t.key
         /\ \A t, u \in Starting : t.proc = u.proc => t = u
         /\ \A e \in Procs : entries[e].client \in {"init", "up"} =>
              servers[entries[e].key] = e \/ \E t \in Starting : t.proc = e
BY DEF ManagerInv, StartsOwn, Managed, Starting

LEMMA ServerFacts ==
  ASSUME ManagerInv, NEW k \in Keys, servers[k] # 0
  PROVE  /\ servers[k] \in Procs /\ entries[servers[k]].client \in {"up", "dead"}
         /\ entries[servers[k]].key = k
BY InvFacts DEF ManagerInv, Registered, Served

(* A process of its own for a goroutine that starts one. *)
LEMMA StartServerStep ==
  ASSUME ManagerInv, NEW t \in threads, StartServer(t)
  PROVE  ManagerInv'
<1> DEFINE n == NextId
           u == [t EXCEPT !.pc = "init", !.proc = n]
<1>1. n \in Procs /\ entries[n].client = "none"
  BY DEF StartServer, NextId, Unstarted
<1>2. t \in Threads /\ t.key \in Keys /\ t.pc # "init" /\ t.kind # "close"
  BY ThreadKey DEF StartServer, CloseSteps
<1>3. u \in Threads /\ u.pc = "init" /\ u.proc = n /\ u.key = t.key
  <2>1. "init" \in Steps /\ n \in Served
    BY <1>1 DEF Steps, Served
  <2> HIDE DEF n
  <2>2. t \in ThreadRecords
    BY <1>2 DEF Threads
  <2>3. /\ u \in ThreadRecords /\ u.pc = "init" /\ u.proc = n /\ u.key = t.key
        /\ u.kind = t.kind /\ u.doc = t.doc
    BY <2>1, <2>2 DEF ThreadRecords
  <2> HIDE DEF u
  <2> QED
    BY <1>2, <2>3 DEF Threads
<1>4. entries' = [entries EXCEPT ![n].key = t.key, ![n].client = "init"] /\ Becomes(t, u)
  BY DEF StartServer
<1>5. UNCHANGED <<view, files, docs, home, asked, rootVars, servers, docKeys, pending, reconnects, acts>>
  BY DEF StartServer, editorVars
<1>6. /\ entries' \in [Procs -> Entries] /\ entries'[n].client = "init" /\ entries'[n].key = t.key
      /\ \A e \in Procs : e # n => entries'[e] = entries[e]
  <2>1. entries \in [Procs -> Entries] /\ "init" \in Clients
    BY InvFacts DEF Clients
  <2> HIDE DEF n
  <2> QED
    BY <1>1, <1>2, <1>4, <2>1 DEF Entries
<1> HIDE DEF n, u
<1>7. threads' \subseteq Threads /\ Starting' = Starting \cup {u}
  <2>1. threads' \subseteq Threads /\ Starting' = (Starting \ {t}) \cup {x \in {u} : x.pc = "init"}
    BY <1>3, <1>4, InvFacts, ThreadsBecome
  <2>2. t \notin Starting
    BY <1>2 DEF Starting
  <2> QED
    BY <1>3, <2>1, <2>2
<1>8. ManagerTypeOK'
  BY <1>5, <1>6, <1>7, InvFacts, InvTypes, RootKept, SpecialTypes DEF EditorTypeOK
<1>9. StartsOwn'
  <2>1. \A x \in Starting : x.proc # n
    BY <1>1, StartFacts
  <2>2. \A x \in Starting' :
          x.proc \in Procs /\ entries'[x.proc].client = "init" /\ entries'[x.proc].key = x.key
    BY <1>1, <1>3, <1>6, <1>7, <2>1, StartFacts
  <2>3. \A x, y \in Starting' : x.proc = y.proc => x = y
    BY <1>3, <1>7, <2>1, StartFacts
  <2> QED
    BY <2>2, <2>3 DEF StartsOwn
<1>10. Registered'
  <2> SUFFICES ASSUME NEW k \in Keys, servers'[k] # 0
               PROVE  entries'[servers'[k]].client \in {"up", "dead"} /\ entries'[servers'[k]].key = k
    BY DEF Registered
  <2>1. servers[k] \in Procs /\ servers[k] # n
    BY <1>1, <1>5, ServerFacts
  <2> QED
    BY <1>5, <1>6, <2>1, ServerFacts
<1>11. Managed'
  <2>1. \A e \in Procs : entries'[e].client \in {"init", "up"} =>
          servers'[entries'[e].key] = e \/ \E x \in Starting' : x.proc = e
    BY <1>3, <1>5, <1>6, <1>7, StartFacts
  <2> QED
    BY <2>1 DEF Managed, Starting
<1>12. Loading' /\ Here'
  BY <1>5 DEF ManagerInv, Loading, Here, Inside, rootVars
<1> QED
  BY <1>8, <1>9, <1>10, <1>11, <1>12 DEF ManagerInv

(* A goroutine that starts a process no longer does. *)
LEMMA StartGivenUp ==
  ASSUME ManagerInv, ManagerTypeOK', NEW t \in Starting, Starting' = Starting \ {t},
         entries'[t.proc].client \in {"dead", "shutting"},
         \A e \in Procs : e # t.proc => entries'[e] = entries[e],
         UNCHANGED <<servers, load, workspaceRoot, managerStopped>>
  PROVE  ManagerInv'
<1>1. t.proc \in Procs /\ entries[t.proc].client = "init"
  BY StartFacts
<1>2. StartsOwn'
  <2>1. \A x \in Starting' : x \in Starting /\ x.proc # t.proc
    BY StartFacts
  <2>2. \A x \in Starting' :
          x.proc \in Procs /\ entries'[x.proc].client = "init" /\ entries'[x.proc].key = x.key
    BY <2>1, StartFacts
  <2>3. \A x, y \in Starting' : x.proc = y.proc => x = y
    BY <2>1, StartFacts
  <2> QED
    BY <2>2, <2>3 DEF StartsOwn
<1>3. Registered'
  <2> SUFFICES ASSUME NEW k \in Keys, servers'[k] # 0
               PROVE  entries'[servers'[k]].client \in {"up", "dead"} /\ entries'[servers'[k]].key = k
    BY DEF Registered
  <2>1. servers[k] \in Procs /\ servers[k] # t.proc
    BY <1>1, ServerFacts
  <2> QED
    BY <2>1, ServerFacts
<1>4. Managed'
  <2>1. ASSUME NEW e \in Procs, entries'[e].client \in {"init", "up"}
        PROVE  servers'[entries'[e].key] = e \/ \E x \in Starting' : x.proc = e
    <3>1. e # t.proc /\ entries'[e] = entries[e]
      BY <2>1
    <3> QED
      BY <2>1, <3>1, StartFacts
  <2> QED
    BY <2>1 DEF Managed, Starting
<1>5. Loading' /\ Here'
  BY DEF ManagerInv, Loading, Here, Inside
<1> QED
  BY <1>2, <1>3, <1>4, <1>5 DEF ManagerInv

LEMMA InitializeFailsStep ==
  ASSUME ManagerInv, NEW t \in threads, InitializeFails(t)
  PROVE  ManagerInv'
<1>1. t \in Starting /\ t.proc \in Procs
  BY StartFacts DEF InitializeFails, Starting
<1>2. UNCHANGED <<view, files, home, asked, rootVars, servers, docKeys, reconnects>>
  BY DEF InitializeFails
<1>3. /\ entries' \in [Procs -> Entries] /\ entries'[t.proc].client = "dead"
      /\ \A e \in Procs : e # t.proc => entries'[e] = entries[e]
  <2>1. entries' = [entries EXCEPT ![t.proc].client = "dead"] /\ "dead" \in Clients
    BY DEF InitializeFails, Clients
  <2>2. entries \in [Procs -> Entries]
    BY InvFacts
  <2> QED
    BY <1>1, <2>1, <2>2, ClientBecomes
<1>4. /\ threads' \subseteq Threads /\ Starting' = Starting \ {t}
      /\ docs' \in [Documents -> DocStates] /\ pending' \in [Keys -> SUBSET Documents]
  BY InvFacts, StartFails DEF InitializeFails
<1>5. acts' \in Nat
  BY InvFacts DEF InitializeFails, Acts
<1>6. ManagerTypeOK'
  BY <1>2, <1>3, <1>4, <1>5, InvFacts, InvTypes, RootKept, SpecialTypes DEF EditorTypeOK
<1> QED
  BY <1>1, <1>2, <1>3, <1>4, <1>6, StartGivenUp DEF rootVars

LEMMA StartSuperfluousStep ==
  ASSUME ManagerInv, NEW t \in threads, StartSuperfluous(t)
  PROVE  ManagerInv'
<1>1. t \in Starting /\ t.proc \in Procs /\ t \in Threads /\ t.key \in Keys /\ t.kind # "close"
  BY StartFacts, ThreadKey DEF StartSuperfluous, Starting, CloseSteps
<1>2. UNCHANGED <<view, files, docs, home, asked, rootVars, servers, docKeys, pending, reconnects, acts>>
  BY DEF StartSuperfluous, editorVars, shownVars
<1>3. /\ entries' \in [Procs -> Entries] /\ entries'[t.proc].client = "shutting"
      /\ \A e \in Procs : e # t.proc => entries'[e] = entries[e]
  <2>1. entries' = [entries EXCEPT ![t.proc].client = "shutting"] /\ "shutting" \in Clients
    BY DEF StartSuperfluous, Clients
  <2>2. entries \in [Procs -> Entries]
    BY InvFacts
  <2> QED
    BY <1>1, <2>1, <2>2, ClientBecomes
<1>4. threads' \subseteq Threads /\ Starting' = Starting \ {t}
  <2>1. CASE Unwanted(t)
    <3> DEFINE u == [t EXCEPT !.pc = "abandoned"]
    <3>1. Becomes(t, u)
      BY <2>1 DEF StartSuperfluous
    <3>2. u \in Threads /\ u.pc = "abandoned"
      <4>1. "abandoned" \in Steps
        BY DEF Steps
      <4> QED
        BY <1>1, <4>1, NextStep
    <3> HIDE DEF u
    <3> QED
      BY <3>1, <3>2, InvFacts, ThreadsBecome
  <2>2. CASE ~Unwanted(t)
    <3> DEFINE u == [t EXCEPT !.pc = "lost", !.entry = servers[t.key]]
    <3>1. Becomes(t, u)
      BY <2>2 DEF StartSuperfluous
    <3>2. u \in Threads /\ u.pc = "lost"
      <4>1. "lost" \in Steps /\ servers[t.key] \in Served
        BY <1>1, InvFacts DEF Steps
      <4>2. t \in ThreadRecords
        BY <1>1 DEF Threads
      <4>3. u \in ThreadRecords /\ u.pc = "lost" /\ u.key = t.key /\ u.kind = t.kind /\ u.doc = t.doc
        BY <4>1, <4>2 DEF ThreadRecords
      <4> HIDE DEF u
      <4> QED
        BY <1>1, <4>3 DEF Threads
    <3> HIDE DEF u
    <3> QED
      BY <3>1, <3>2, InvFacts, ThreadsBecome
  <2> QED
    BY <2>1, <2>2
<1>5. ManagerTypeOK'
  BY <1>2, <1>3, <1>4, InvFacts, InvTypes, RootKept, SpecialTypes DEF EditorTypeOK
<1> QED
  BY <1>1, <1>2, <1>3, <1>4, <1>5, StartGivenUp DEF rootVars

LEMMA RegistersStep ==
  ASSUME ManagerInv, NEW t \in threads, Registers(t)
  PROVE  ManagerInv'
<1> DEFINE u == [t EXCEPT !.pc = "have", !.entry = t.proc]
           p == t.proc
           k == t.key
<1>1. /\ t \in Starting /\ p \in Procs /\ t \in Threads /\ k \in Keys /\ t.kind # "close"
      /\ entries[p].client = "init" /\ entries[p].key = k /\ p # 0
  <2>1. t.pc = "init" /\ t \in Starting
    BY DEF Registers, Starting
  <2>2. p \in Procs /\ entries[p].client = "init" /\ entries[p].key = k
    BY <2>1, StartFacts
  <2>3. t \in Threads /\ k \in Keys /\ t.kind # "close"
    BY <2>1, ThreadKey DEF CloseSteps
  <2>4. p # 0
    BY <2>2 DEF Procs
  <2> QED
    BY <2>1, <2>2, <2>3, <2>4
<1>2. UNCHANGED <<view, files, docs, home, asked, rootVars, docKeys, pending, reconnects, acts>>
  BY DEF Registers, editorVars
<1>3. ~managerStopped /\ Inside(k) /\ servers[k] = 0
  BY DEF Registers, Unwanted
<1>4. /\ entries' \in [Procs -> Entries] /\ entries'[p].client = "up" /\ entries'[p].key = k
      /\ \A e \in Procs : e # p => entries'[e] = entries[e]
  <2>1. entries' = [entries EXCEPT ![t.proc].client = "up"] /\ "up" \in Clients
    BY DEF Registers, Clients
  <2>2. entries \in [Procs -> Entries]
    BY InvFacts
  <2> QED
    BY <1>1, <2>1, <2>2, ClientBecomes
<1>5. servers' = [servers EXCEPT ![k] = p] /\ servers' \in [Keys -> Served]
  BY <1>1, InvFacts DEF Registers, Served
<1>6. threads' \subseteq Threads /\ Starting' = Starting \ {t}
  <2>1. Becomes(t, u)
    BY DEF Registers
  <2>2. u \in Threads /\ u.pc = "have"
    <3>1. "have" \in Steps /\ p \in Served
      BY <1>1 DEF Steps, Served
    <3>2. t \in ThreadRecords
      BY <1>1 DEF Threads
    <3>3. u \in ThreadRecords /\ u.pc = "have" /\ u.key = t.key /\ u.kind = t.kind /\ u.doc = t.doc
      BY <3>1, <3>2 DEF ThreadRecords
    <3> HIDE DEF u
    <3> QED
      BY <1>1, <3>3 DEF Threads
  <2> HIDE DEF u
  <2> QED
    BY <2>1, <2>2, InvFacts, ThreadsBecome
<1> HIDE DEF p, k
<1>7. ManagerTypeOK'
  BY <1>2, <1>4, <1>5, <1>6, InvFacts, InvTypes, RootKept, SpecialTypes DEF EditorTypeOK
<1>8. StartsOwn'
  <2>1. \A x \in Starting' : x \in Starting /\ x.proc # p
    BY <1>1, <1>6, StartFacts DEF p
  <2>2. \A x \in Starting' :
          x.proc \in Procs /\ entries'[x.proc].client = "init" /\ entries'[x.proc].key = x.key
    BY <1>4, <2>1, StartFacts
  <2>3. \A x, y \in Starting' : x.proc = y.proc => x = y
    BY <2>1, StartFacts
  <2> QED
    BY <2>2, <2>3 DEF StartsOwn
<1>9. Registered'
  <2> SUFFICES ASSUME NEW j \in Keys, servers'[j] # 0
               PROVE  entries'[servers'[j]].client \in {"up", "dead"} /\ entries'[servers'[j]].key = j
    BY DEF Registered
  <2>1. CASE j = k
    BY <1>1, <1>4, <1>5, <2>1, InvFacts
  <2>2. CASE j # k
    <3>1. servers'[j] = servers[j] /\ servers[j] # 0
      BY <1>5, <2>2, InvFacts
    <3>2. servers[j] \in Procs /\ servers[j] # p
      BY <1>1, <3>1, ServerFacts
    <3> QED
      BY <1>4, <3>1, <3>2, ServerFacts
  <2> QED
    BY <2>1, <2>2
<1>10. Managed'
  <2>1. ASSUME NEW e \in Procs, entries'[e].client \in {"init", "up"}
        PROVE  servers'[entries'[e].key] = e \/ \E x \in Starting' : x.proc = e
    <3>1. CASE e = p
      BY <1>1, <1>4, <1>5, <3>1, InvFacts
    <3>2. CASE e # p
      <4>1. entries'[e] = entries[e] /\ e # 0
        BY <1>4, <3>2 DEF Procs
      <4>2. CASE servers[entries[e].key] = e
        <5>1. entries[e].key # k
          BY <1>3, <4>1, <4>2
        <5>2. entries[e].key \in Keys \cup {NoRoot}
          BY InvFacts DEF Entries
        <5>3. CASE entries[e].key \in Keys
          BY <1>5, <4>1, <4>2, <5>1, <5>3, InvFacts
        <5>4. CASE entries[e].key = NoRoot
          BY <1>5, <4>1, <4>2, <5>1, <5>4
        <5> QED
          BY <5>2, <5>3, <5>4
      <4>3. CASE \E x \in Starting : x.proc = e
        BY <1>6, <3>2, <4>3 DEF p
      <4> QED
        BY <2>1, <4>1, <4>2, <4>3, StartFacts
    <3> QED
      BY <3>1, <3>2
  <2> QED
    BY <2>1 DEF Managed, Starting
<1>11. Loading'
  BY <1>2, <1>3 DEF ManagerInv, Loading, rootVars
<1>12. Here'
  <2> SUFFICES ASSUME load' = NoLoad, NEW j \in Keys, servers'[j] # 0 PROVE Inside(j)'
    BY DEF Here
  <2>1. CASE j = k
    BY <1>2, <1>3, <2>1 DEF Inside, rootVars
  <2>2. CASE j # k
    <3>1. servers[j] # 0 /\ load = NoLoad
      BY <1>2, <1>5, <2>2, InvFacts DEF rootVars
    <3> QED
      BY <1>2, <3>1 DEF ManagerInv, Here, Inside, rootVars
  <2> QED
    BY <2>1, <2>2
<1> QED
  BY <1>7, <1>8, <1>9, <1>10, <1>11, <1>12 DEF ManagerInv

(* A process that runs or is shut down is gone. *)
LEMMA ProcessGone ==
  ASSUME ManagerInv, NEW e \in Procs, entries[e].client \in {"up", "shutting"},
         entries' = [entries EXCEPT ![e].client = "dead"], acts' \in Nat,
         UNCHANGED <<editorVars, home, rootVars, servers, docKeys, pending, threads, reconnects>>
  PROVE  ManagerInv'
<1>1. /\ entries' \in [Procs -> Entries] /\ entries'[e].client = "dead" /\ entries'[e].key = entries[e].key
      /\ \A x \in Procs : x # e => entries'[x] = entries[x]
  <2>1. entries \in [Procs -> Entries] /\ "dead" \in Clients
    BY InvFacts DEF Clients
  <2> QED
    BY <2>1, ClientBecomes
<1>2. Starting' = Starting
  BY DEF Starting
<1>3. ManagerTypeOK'
  BY <1>1, InvFacts, InvTypes, RootKept, SpecialTypes DEF EditorTypeOK, editorVars
<1>4. StartsOwn'
  <2>1. \A x \in Starting' :
          x.proc \in Procs /\ entries'[x.proc].client = "init" /\ entries'[x.proc].key = x.key
    BY <1>1, <1>2, StartFacts
  <2>2. \A x, y \in Starting' : x.proc = y.proc => x = y
    BY <1>2, StartFacts
  <2> QED
    BY <2>1, <2>2 DEF StartsOwn
<1>5. Registered'
  <2> SUFFICES ASSUME NEW k \in Keys, servers'[k] # 0
               PROVE  entries'[servers'[k]].client \in {"up", "dead"} /\ entries'[servers'[k]].key = k
    BY DEF Registered
  <2> QED
    BY <1>1, ServerFacts
<1>6. Managed'
  <2>1. ASSUME NEW x \in Procs, entries'[x].client \in {"init", "up"}
        PROVE  servers'[entries'[x].key] = x \/ \E t \in Starting' : t.proc = x
    BY <1>1, <1>2, <2>1, StartFacts
  <2> QED
    BY <2>1 DEF Managed, Starting
<1>7. Loading' /\ Here'
  BY DEF ManagerInv, Loading, Here, Inside, rootVars
<1> QED
  BY <1>3, <1>4, <1>5, <1>6, <1>7 DEF ManagerInv

LEMMA ProcessExitsStep ==
  ASSUME ManagerInv, NEW e \in Procs, ProcessExits(e)
  PROVE  ManagerInv'
BY InvFacts, ProcessGone DEF ProcessExits, shownVars

LEMMA ServerCrashStep ==
  ASSUME ManagerInv, NEW e \in Procs, ServerCrash(e)
  PROVE  ManagerInv'
<1>1. acts' \in Nat
  BY InvFacts DEF ServerCrash, Acts
<1> QED
  BY <1>1, ProcessGone DEF ServerCrash, shownVars

(* A server is taken from its root, being dead or shut down. *)
LEMMA Unregistered ==
  ASSUME ManagerInv, ManagerTypeOK', NEW k \in Keys, servers[k] # 0, servers' = [servers EXCEPT ![k] = 0],
         entries'[servers[k]].client \notin {"init", "up"},
         \A x \in Procs : x # servers[k] => entries'[x] = entries[x],
         Starting' = Starting, UNCHANGED <<workspaceRoot, managerStopped>>,
         load' = load \/ (load.pc = "shut" /\ load'.pc = "shut" /\ load'.left = load.left \ {k})
  PROVE  ManagerInv'
<1> DEFINE e == servers[k]
<1>1. e \in Procs /\ entries[e].client \in {"up", "dead"} /\ entries[e].key = k
  BY ServerFacts
<1>2. \A j \in Keys : servers'[j] # 0 => j # k /\ servers'[j] = servers[j] /\ servers[j] # e
  <2> SUFFICES ASSUME NEW j \in Keys, servers'[j] # 0
               PROVE  j # k /\ servers'[j] = servers[j] /\ servers[j] # e
    OBVIOUS
  <2>1. j # k /\ servers'[j] = servers[j]
    BY InvFacts
  <2> QED
    BY <1>1, <2>1, ServerFacts
<1>3. StartsOwn'
  <2>1. \A x \in Starting : x.proc # e
    BY <1>1, StartFacts
  <2>2. \A x \in Starting' :
          x.proc \in Procs /\ entries'[x.proc].client = "init" /\ entries'[x.proc].key = x.key
    BY <2>1, StartFacts
  <2>3. \A x, y \in Starting' : x.proc = y.proc => x = y
    BY StartFacts
  <2> QED
    BY <2>2, <2>3 DEF StartsOwn
<1>4. Registered'
  <2> SUFFICES ASSUME NEW j \in Keys, servers'[j] # 0
               PROVE  entries'[servers'[j]].client \in {"up", "dead"} /\ entries'[servers'[j]].key = j
    BY DEF Registered
  <2>1. servers'[j] = servers[j] /\ servers[j] # e /\ servers[j] \in Procs
    BY <1>2, ServerFacts
  <2> QED
    BY <2>1, ServerFacts
<1>5. Managed'
  <2>1. ASSUME NEW x \in Procs, entries'[x].client \in {"init", "up"}
        PROVE  servers'[entries'[x].key] = x \/ \E t \in Starting' : t.proc = x
    <3>1. x # e /\ entries'[x] = entries[x]
      BY <2>1
    <3>2. CASE servers[entries[x].key] = x
      <4>1. entries[x].key # k
        BY <3>1, <3>2
      <4> QED
        BY <3>1, <3>2, <4>1
    <3> QED
      BY <2>1, <3>1, <3>2, StartFacts
  <2> QED
    BY <2>1 DEF Managed, Starting
<1>6. Loading'
  <2>1. CASE load' = load
    BY <1>2, <2>1 DEF ManagerInv, Loading
  <2>2. CASE load.pc = "shut" /\ load'.pc = "shut" /\ load'.left = load.left \ {k}
    <3>1. managerStopped /\ \A j \in Keys : servers[j] # 0 => j \in load.left
      BY <2>2 DEF ManagerInv, Loading
    <3> QED
      BY <1>2, <2>2, <3>1 DEF Loading
  <2> QED
    BY <2>1, <2>2
<1>7. Here'
  <2> SUFFICES ASSUME load' = NoLoad, NEW j \in Keys, servers'[j] # 0 PROVE Inside(j)'
    BY DEF Here
  <2>1. load = NoLoad
    BY DEF NoLoad
  <2> QED
    BY <1>2, <2>1 DEF ManagerInv, Here, Inside
<1> QED
  BY <1>3, <1>4, <1>5, <1>6, <1>7 DEF ManagerInv

LEMMA StopsOK ==
  ASSUME ManagerInv, NEW e \in Procs, Stops(e)
  PROVE  /\ entries' \in [Procs -> Entries] /\ entries'[e].client \in {entries[e].client, "shutting"}
         /\ entries'[e].client # "up"
         /\ \A x \in Procs : x # e => entries'[x] = entries[x]
<1> DEFINE c == IF entries[e].client = "up" THEN "shutting" ELSE entries[e].client
           r == [entries[e] EXCEPT !.client = c]
<1>1. entries' = [entries EXCEPT ![e] = r]
  BY InvFacts DEF Stops
<1>2. c \in Clients /\ c \in {entries[e].client, "shutting"} /\ c # "up"
  BY InvFacts DEF Entries, Clients
<1> HIDE DEF c
<1>3. r \in Entries /\ r.client = c
  BY <1>2, InvFacts DEF Entries
<1> HIDE DEF r
<1> QED
  BY <1>1, <1>2, <1>3, InvFacts

LEMMA CrashSeenStep ==
  ASSUME ManagerInv, NEW k \in Keys, CrashSeen(k)
  PROVE  ManagerInv'
<1> DEFINE e == servers[k]
           n == entries[e].crashCount + 1
           u == [Thread("monitor", NoRoot, e, "backoff", k) EXCEPT !.docs = OpenDocs(e), !.crashes = n]
           calls == {u}
<1>1. e # 0 /\ e \in Procs /\ e \in Nat /\ entries[e].client = "dead" /\ n \in Nat
  BY ServerFacts, InvFacts DEF CrashSeen, Entries, Procs
<1>2. UNCHANGED <<view, files, docs, home, asked, rootVars, docKeys, pending, reconnects, acts>>
  BY DEF CrashSeen, editorVars
<1>3. servers' = [servers EXCEPT ![k] = 0] /\ servers' \in [Keys -> Served]
  BY InvFacts DEF CrashSeen, Served
<1>4. /\ entries' \in [Procs -> Entries] /\ entries'[e].client = "dead"
      /\ \A x \in Procs : x # e => entries'[x] = entries[x]
  BY <1>1, InvFacts DEF CrashSeen, Entries
<1>5. threads' = threads \/ threads' = threads \cup calls
  BY DEF CrashSeen
<1>6. calls \subseteq Threads /\ \A x \in calls : x.pc # "init"
  <2> HIDE DEF n, e
  <2>1. OpenDocs(e) \in SUBSET Documents
    BY DEF OpenDocs
  <2>2. u \in Threads /\ u.pc = "backoff"
    BY <1>1, <2>1 DEF Thread, Threads, ThreadRecords, Kinds, Steps, CloseSteps, Served
  <2> QED
    BY <2>2
<1> HIDE DEF calls
<1>7. threads' \subseteq Threads /\ Starting' = Starting
  BY <1>5, <1>6, InvFacts, ThreadsBegin DEF Starting
<1>8. ManagerTypeOK'
  BY <1>2, <1>3, <1>4, <1>7, InvFacts, InvTypes, RootKept, SpecialTypes DEF EditorTypeOK
<1> QED
  BY <1>1, <1>2, <1>3, <1>4, <1>7, <1>8, Unregistered DEF rootVars

LEMMA ShutdownServerIfEmptyStep ==
  ASSUME ManagerInv, NEW t \in threads, ShutdownServerIfEmpty(t)
  PROVE  ManagerInv'
<1> DEFINE e == servers[t.key]
           u == [t EXCEPT !.pc = "stopping", !.proc = e]
<1>1. t.pc = "ifempty" /\ t.key \in Keys /\ t.pc # "init" /\ e \in Served
  BY ThreadKey, InvFacts DEF ShutdownServerIfEmpty
<1>2. UNCHANGED <<view, files, docs, home, asked, rootVars, docKeys, pending, reconnects, acts>>
  BY DEF ShutdownServerIfEmpty, editorVars, shownVars
<1>3. CASE Ends(t) /\ UNCHANGED <<servers, entries>>
  <2>1. threads' \subseteq Threads /\ Starting' = Starting
    BY <1>1, <1>3, Over
  <2> QED
    BY <1>2, <1>3, <2>1, CallFrame, InvFacts
<1>4. CASE e # 0 /\ servers' = [servers EXCEPT ![t.key] = 0] /\ Stops(e) /\ Becomes(t, u)
  <2>1. e \in Procs /\ entries[e].client \in {"up", "dead"}
    BY <1>1, <1>4, ServerFacts
  <2>2. /\ entries' \in [Procs -> Entries] /\ entries'[e].client \notin {"init", "up"}
        /\ \A x \in Procs : x # e => entries'[x] = entries[x]
    BY <1>4, <2>1, StopsOK
  <2>3. threads' \subseteq Threads /\ Starting' = Starting
    <3>1. "stopping" \in Steps \ {"init"} /\ "stopping" \in CloseSteps
      BY DEF Steps, CloseSteps
    <3> QED
      BY <1>1, <1>4, <3>1, OnwardWith
  <2>4. servers' \in [Keys -> Served]
    BY <1>4, InvFacts DEF Served
  <2>5. ManagerTypeOK'
    BY <1>2, <2>2, <2>3, <2>4, InvFacts, InvTypes, RootKept, SpecialTypes DEF EditorTypeOK
  <2> QED
    BY <1>1, <1>2, <1>4, <2>2, <2>3, <2>5, Unregistered DEF rootVars
<1> QED
  BY <1>3, <1>4 DEF ShutdownServerIfEmpty

LEMMA ShutdownServerStep ==
  ASSUME ManagerInv, NEW t \in threads, ShutdownServer(t)
  PROVE  ManagerInv'
<1> DEFINE e == servers[t.key]
           u == [t EXCEPT !.pc = "stopping", !.proc = e]
<1>1. t.pc = "restart" /\ t.key \in Keys /\ t.pc # "init" /\ e \in Served /\ t.kind # "close"
  BY ThreadKey, InvFacts DEF ShutdownServer, CloseSteps
<1>2. UNCHANGED <<view, files, docs, home, asked, rootVars, docKeys, pending, reconnects, acts>>
  BY DEF ShutdownServer, editorVars, shownVars
<1>3. CASE RestartFamily(t) /\ UNCHANGED <<servers, entries>>
  <2>1. threads' \subseteq Threads /\ Starting' = Starting
    <3>1. Becomes(t, [t EXCEPT !.pc = "ensure", !.cut = ctxDone]) /\ "ensure" \in Steps \ {"init"}
      BY <1>3 DEF RestartFamily, Steps
    <3> QED
      BY <1>1, <3>1, OnwardCut
  <2> QED
    BY <1>2, <1>3, <2>1, CallFrame, InvFacts
<1>4. CASE e # 0 /\ servers' = [servers EXCEPT ![t.key] = 0] /\ Stops(e) /\ Becomes(t, u)
  <2>1. e \in Procs /\ entries[e].client \in {"up", "dead"}
    BY <1>1, <1>4, ServerFacts
  <2>2. /\ entries' \in [Procs -> Entries] /\ entries'[e].client \notin {"init", "up"}
        /\ \A x \in Procs : x # e => entries'[x] = entries[x]
    BY <1>4, <2>1, StopsOK
  <2>3. threads' \subseteq Threads /\ Starting' = Starting
    <3>1. "stopping" \in Steps \ {"init"}
      BY DEF Steps, CloseSteps
    <3> QED
      BY <1>1, <1>4, <3>1, OnwardWith
  <2>4. servers' \in [Keys -> Served]
    BY <1>4, InvFacts DEF Served
  <2>5. ManagerTypeOK'
    BY <1>2, <2>2, <2>3, <2>4, InvFacts, InvTypes, RootKept, SpecialTypes DEF EditorTypeOK
  <2> QED
    BY <1>1, <1>2, <1>4, <2>2, <2>3, <2>5, Unregistered DEF rootVars
<1> QED
  BY <1>3, <1>4 DEF ShutdownServer

LEMMA ShutdownOneStep ==
  ASSUME ManagerInv, NEW k \in Keys, ShutdownOne(k)
  PROVE  ManagerInv'
<1> DEFINE e == servers[k]
<1>1. UNCHANGED <<view, files, docs, home, asked, workspaceRoot, managerStopped, ctxDone, docKeys, pending,
                  threads, reconnects, acts>>
  BY DEF ShutdownOne, editorVars, shownVars
<1>2. load \in Loads /\ k \in load.left /\ load.pc = "shut" /\ e \in Served
  BY InvFacts, InvTypes DEF ShutdownOne, RootTypeOK, Loads, ManagerInv, Loading, NoLoad
<1>3. Starting' = Starting /\ threads' \subseteq Threads
  BY <1>1, InvFacts DEF Starting
<1>4. CASE e = 0 /\ load' = [load EXCEPT !.left = @ \ {k}] /\ UNCHANGED <<servers, entries>>
  <2>1. load' \in Loads /\ load'.pc = "shut" /\ load'.left = load.left \ {k}
    BY <1>2, <1>4 DEF Loads
  <2>2. RootTypeOK'
    BY <1>1, <2>1, InvTypes DEF RootTypeOK
  <2>3. ManagerTypeOK'
    BY <1>1, <1>3, <1>4, <2>2, InvFacts, InvTypes, SpecialTypes DEF EditorTypeOK
  <2>4. StartsOwn'
    <3>1. \A x \in Starting' :
            x.proc \in Procs /\ entries'[x.proc].client = "init" /\ entries'[x.proc].key = x.key
      BY <1>3, <1>4, StartFacts
    <3>2. \A x, y \in Starting' : x.proc = y.proc => x = y
      BY <1>3, StartFacts
    <3> QED
      BY <3>1, <3>2 DEF StartsOwn
  <2>5. Registered' /\ Managed'
    BY <1>1, <1>4 DEF ManagerInv, Registered, Managed
  <2>6. Loading' /\ Here'
    BY <1>1, <1>2, <1>4, <2>1 DEF ManagerInv, Loading, Here, NoLoad
  <2> QED
    BY <2>3, <2>4, <2>5, <2>6 DEF ManagerInv
<1>5. CASE /\ e # 0 /\ load' = [load EXCEPT !.left = @ \ {k}, !.procs = @ \cup {e}]
           /\ servers' = [servers EXCEPT ![k] = 0] /\ Stops(e)
  <2>1. e \in Procs /\ entries[e].client \in {"up", "dead"}
    BY <1>2, <1>5, ServerFacts
  <2>2. /\ entries' \in [Procs -> Entries] /\ entries'[e].client \notin {"init", "up"}
        /\ \A x \in Procs : x # e => entries'[x] = entries[x]
    BY <1>5, <2>1, StopsOK
  <2>3. load' \in Loads /\ load'.pc = "shut" /\ load'.left = load.left \ {k}
    BY <1>2, <1>5, <2>1 DEF Loads
  <2>4. RootTypeOK' /\ servers' \in [Keys -> Served]
    BY <1>1, <1>5, <2>3, InvFacts, InvTypes DEF RootTypeOK, Served
  <2>5. ManagerTypeOK'
    BY <1>1, <1>3, <2>2, <2>4, InvFacts, InvTypes, SpecialTypes DEF EditorTypeOK
  <2> QED
    BY <1>1, <1>2, <1>3, <1>5, <2>2, <2>3, <2>5, Unregistered
<1> QED
  BY <1>4, <1>5 DEF ShutdownOne

(* A load stops the manager and its contexts. *)
LEMMA CutThread ==
  ASSUME NEW t \in Threads
  PROVE  /\ [t EXCEPT !.cut = TRUE] \in Threads /\ [t EXCEPT !.cut = TRUE].pc = t.pc
         /\ [t EXCEPT !.cut = TRUE].proc = t.proc /\ [t EXCEPT !.cut = TRUE].key = t.key
<1> DEFINE u == [t EXCEPT !.cut = TRUE]
<1>1. t \in ThreadRecords
  BY DEF Threads
<1>2. /\ u \in ThreadRecords /\ u.pc = t.pc /\ u.proc = t.proc /\ u.key = t.key /\ u.kind = t.kind
      /\ u.doc = t.doc
  BY <1>1 DEF ThreadRecords
<1> HIDE DEF u
<1>3. u \in Threads
  BY <1>2, ThreadFields DEF Threads
<1> QED
  BY <1>2, <1>3 DEF u

LEMMA LoadFrame ==
  ASSUME ManagerInv, threads' = Cut(threads), UNCHANGED <<servers, entries>>
  PROVE  threads' \subseteq Threads /\ StartsOwn' /\ Registered' /\ Managed'
<1> DEFINE Cutting(t) == IF t.kind \in {"install", "override"} THEN [t EXCEPT !.cut = TRUE] ELSE t
<1>1. \A t \in threads : /\ Cutting(t) \in Threads /\ Cutting(t).pc = t.pc
                         /\ Cutting(t).proc = t.proc /\ Cutting(t).key = t.key
  BY InvFacts, CutThread
<1>2. threads' = {Cutting(t) : t \in threads}
  BY DEF Cut
<1> HIDE DEF Cutting
<1>3. \A x \in Starting' : \E t \in Starting : x = Cutting(t) /\ x.proc = t.proc /\ x.key = t.key
  BY <1>1, <1>2 DEF Starting
<1>4. \A t \in Starting : \E x \in Starting' : x.proc = t.proc
  BY <1>1, <1>2 DEF Starting
<1>5. StartsOwn'
  <2>1. \A x \in Starting' :
          x.proc \in Procs /\ entries'[x.proc].client = "init" /\ entries'[x.proc].key = x.key
    BY <1>3, StartFacts
  <2>2. \A x, y \in Starting' : x.proc = y.proc => x = y
    BY <1>3, StartFacts
  <2> QED
    BY <2>1, <2>2 DEF StartsOwn
<1>6. Managed'
  <2>1. ASSUME NEW e \in Procs, entries'[e].client \in {"init", "up"}
        PROVE  servers'[entries'[e].key] = e \/ \E x \in Starting' : x.proc = e
    BY <1>4, <2>1, StartFacts
  <2> QED
    BY <2>1 DEF Managed, Starting
<1>7. threads' \subseteq Threads /\ Registered'
  BY <1>1, <1>2 DEF ManagerInv, Registered
<1> QED
  BY <1>5, <1>6, <1>7

LEMMA ShutdownAllStep ==
  ASSUME ManagerInv, ShutdownAll
  PROVE  ManagerInv'
<1>1. UNCHANGED <<view, files, docs, home, workspaceRoot, servers, docKeys, entries, reconnects, acts>>
  BY DEF ShutdownAll, shownVars
<1>2. threads' \subseteq Threads /\ StartsOwn' /\ Registered' /\ Managed'
  BY <1>1, LoadFrame DEF ShutdownAll
<1>3. load' = [pc |-> "shut", root |-> asked, left |-> {k \in Keys : servers[k] # 0}, procs |-> {}]
  BY DEF ShutdownAll
<1>4. RootTypeOK' /\ asked' \in Roots /\ pending' \in [Keys -> SUBSET Documents]
  BY <1>1, <1>3, InvTypes DEF ShutdownAll, EditorTypeOK, RootTypeOK, Loads, Roots
<1>5. ManagerTypeOK'
  BY <1>1, <1>2, <1>4, InvFacts, SpecialTypes
<1>6. Loading' /\ Here'
  BY <1>1, <1>3 DEF ShutdownAll, Loading, Here, NoLoad
<1> QED
  BY <1>2, <1>5, <1>6 DEF ManagerInv

LEMMA SetWorkspaceRootStep ==
  ASSUME ManagerInv, SetWorkspaceRoot
  PROVE  ManagerInv'
<1>1. UNCHANGED <<view, files, docs, asked, home, servers, docKeys, pending, entries, reconnects, acts>>
  BY DEF SetWorkspaceRoot, editorVars, mapVars, shownVars
<1>2. threads' \subseteq Threads /\ StartsOwn' /\ Registered' /\ Managed'
  BY <1>1, LoadFrame DEF SetWorkspaceRoot
<1>3. RootTypeOK'
  BY InvTypes DEF SetWorkspaceRoot, RootTypeOK, Loads, NoLoad, Roots
<1>4. ManagerTypeOK'
  BY <1>1, <1>2, <1>3, InvFacts, InvTypes, SpecialTypes DEF EditorTypeOK
<1>5. \A k \in Keys : servers'[k] = 0
  BY <1>1 DEF SetWorkspaceRoot, ManagerInv, Loading
<1>6. Loading' /\ Here'
  BY <1>5 DEF SetWorkspaceRoot, Loading, Here, NoLoad
<1> QED
  BY <1>2, <1>4, <1>6 DEF ManagerInv

-----------------------------------------------------------------------------
(* The theorem. *)
LEMMA CallStep ==
  ASSUME ManagerInv, NEW t \in threads, CallNext(t)
  PROVE  ManagerInv'
<1>1. CASE DidOpen(t) \/ EnsureServer(t) \/ Provision(t) \/ StartServer(t)
  BY <1>1, DidOpenStep, EnsureServerStep, ProvisionStep, StartServerStep
<1>2. CASE StartSuperfluous(t) \/ Registers(t) \/ AfterShutdown(t) \/ EntersDocument(t) \/ SendsOpen(t)
  BY <1>2, StartSuperfluousStep, RegistersStep, AfterShutdownStep, EntersDocumentStep, SendsOpenStep
<1>3. CASE DidClose(t) \/ TellsClosed(t) \/ ShutdownServerIfEmpty(t) \/ BackoffEnds(t) \/ Restarted(t)
  BY <1>3, DidCloseStep, TellsClosedStep, ShutdownServerIfEmptyStep, BackoffEndsStep, RestartedStep
<1>4. CASE InstallBegins(t) \/ Installed(t) \/ InstallFails(t) \/ FamilyRestarted(t) \/ ShutdownServer(t)
  BY <1>4, InstallBeginsStep, InstalledStep, InstallFailsStep, FamilyRestartedStep, ShutdownServerStep
<1> QED
  BY <1>1, <1>2, <1>3, <1>4 DEF CallNext

LEMMA StepInv == ManagerInv /\ [ManagerNext]_managerVars => ManagerInv'
<1> SUFFICES ASSUME ManagerInv, [ManagerNext]_managerVars PROVE ManagerInv'
  OBVIOUS
<1>1. CASE UNCHANGED managerVars
  <2>1. UNCHANGED <<view, files, docs, asked, home, rootVars, servers, docKeys, pending, entries, threads,
                    reconnects, acts>>
    BY <1>1 DEF managerVars, editorVars, mapVars, shownVars
  <2>2. threads' \subseteq Threads /\ Starting' = Starting
    BY <2>1, InvFacts DEF Starting
  <2> QED
    BY <2>1, <2>2, CallFrame, InvFacts
<1>2. CASE \E t \in threads : CallNext(t)
  BY <1>2, CallStep
<1>3. CASE \/ \E r \in reconnects : Reconnect(r)
           \/ \E e \in Procs : ProcessExits(e) \/ ServerCrash(e)
           \/ \E k \in Keys : CrashSeen(k) \/ ShutdownOne(k) \/ RetryProvision(k)
           \/ ShutdownAll \/ SetWorkspaceRoot
  BY <1>3, ReconnectStep, ProcessExitsStep, ServerCrashStep, CrashSeenStep, ShutdownOneStep, RetryProvisionStep,
     ShutdownAllStep, SetWorkspaceRootStep
<1>4. CASE \/ \E d \in Documents : OpenFile(d) \/ CloseFile(d) \/ ServerForPath(d)
           \/ \E w \in Workspaces : SwitchView(w)
           \/ \E t \in threads : InitializeFails(t) \/ InstallFails(t)
           \/ ReloadView \/ SetInterpreter
  BY <1>4, OpenFileStep, CloseFileStep, ServerForPathStep, SwitchViewStep, InitializeFailsStep,
     InstallFailsStep, ReloadViewStep, SetInterpreterStep
<1> QED
  BY <1>1, <1>2, <1>3, <1>4 DEF ManagerNext, ManagerContinues

(* Whatever is opened, closed, crashed, installed, restarted and loaded in     *)
(* whatever order, a language server's process is registered for its root, in *)
(* the hands of the goroutine that starts it, or on its way out; and after a   *)
(* load no server is left of a root outside the workspace.                     *)
THEOREM ProcessesAreManaged == ManagerSpec => []ServersAreManaged
<1>1. ManagerInit => ManagerInv
  BY InitInv
<1>2. ManagerInv /\ [ManagerNext]_managerVars => ManagerInv'
  BY StepInv
<1>3. ManagerInv => ServersAreManaged
  BY DEF ManagerInv, ServersAreManaged
<1> QED
  BY <1>1, <1>2, <1>3, PTL DEF ManagerSpec

-----------------------------------------------------------------------------
(* Serves: every file open in the editor is in somebody's hands. What is      *)
(* still to come of each of its calls says in whose; that nothing else was     *)
(* promised its documents follows from the calls being what the editor made,  *)
(* and, until the managed server is installed, from no server ever having run. *)
(* The steps of each kind of thread; one that has a server knows which. *)
StartSteps == {"init", "abandoned", "lost", "have"}
OpenSteps == StartSteps \cup {"barrier", "config", "send"}
FamilySteps == StartSteps \cup {"ensure", "config"}
StepFits(t) ==
  /\ t.kind = "open" => t.pc \in OpenSteps
  /\ t.kind = "close" => t.pc \in CloseSteps
  /\ t.kind = "install" => t.pc \in FamilySteps \cup {"begin", "installing"}
  /\ t.kind = "override" => t.pc \in FamilySteps \cup {"restart", "stopping"}
  /\ t.kind = "monitor" => t.pc \in StartSteps \cup {"backoff", "start"}
  /\ t.pc \in {"lost", "have"} => t.entry # 0
StepsFit == \A t \in threads : StepFits(t)

OpenOf(t, d) == t.kind = "open" /\ t.doc = d
CloseOf(t, d) == t.kind = "close" /\ t.doc = d
Newest(t, d) == OpenOf(t, d) /\ t.gen = docs[d].gen

(* The open files, and the calls the editor made for them: an open of a file knows its root,
   its number is its own, and a close of a file open again lets its newest open wait. *)
FilesFit ==
  \A d \in Documents :
    /\ docs[d].tracked => d \in files
    /\ d \in files => home[d] \in Within[view]
OpensFit ==
  /\ \A t \in threads :
       /\ t.kind \in {"open", "close"} => t.gen <= docs[t.doc].gen
       /\ t.kind = "open" => t.key = home[t.doc]
  /\ \A t, u \in threads : t.kind = "open" /\ u.kind = "open" /\ t.doc = u.doc /\ t.gen = u.gen => t = u
Barriers ==
  \A c \in threads : \A d \in files : CloseOf(c, d) =>
    /\ c.gen < docs[d].gen /\ docs[d].tracked
    /\ \E t \in threads : Newest(t, d) /\ t.pc = "barrier"

(* Before the first install ends: no server, one install, and opens of one document that
   reach the server one after the other, as each but the newest is closed on its answer. *)
NoServers ==
  /\ \A k \in Keys : servers[k] = 0
  /\ reconnects = {}
  /\ \A t \in threads :
       /\ t.kind = "open" => t.pc \in {"barrier", "config"}
       /\ t.kind = "close" => t.pc \in {"await", "close"}
       /\ t.kind = "install" => t.pc \in {"begin", "installing"}
       /\ t.kind \notin {"override", "monitor"}
OneInstall ==
  /\ provisioning <=> \E t \in threads : t.kind = "install"
  /\ \A t, u \in threads : t.kind = "install" /\ u.kind = "install" => t = u
InOrder ==
  /\ \A t \in threads : t.kind = "open" =>
       IF Current(t) THEN ~docs[t.doc].opened ELSE \E c \in threads : Awaits(c, t)
  /\ \A t, u \in threads : t.kind = "open" /\ OpenOf(u, t.doc) /\ t.gen < u.gen => u.pc = "barrier"
Uncached == cached \/ (NoServers /\ OneInstall /\ InOrder)

(* Whose hands: the open that is under way, an install that will announce the document or
   the error it left, a reconnect on its way, the server of its root, a restart of it. *)
OpeningSteps == {"barrier", "config", "init", "lost", "have"}
Opening(d) ==
  /\ docs[d].tracked
  /\ \E t \in threads :
       /\ Newest(t, d) /\ t.pc \in OpeningSteps
       /\ t.pc = "config" /\ ~cached => d \in pending[t.key]
WaitsInstall(d) ==
  /\ d \in pending[home[d]] /\ \A t \in threads : ~OpenOf(t, d)
  /\ home[d] \in failed \/ \E t \in threads : Announces(t, home[d])
Announced(d) == \E r \in reconnects : d \in r.docs /\ r.key = home[d]
HasServer(d) ==
  LET e == servers[home[d]] IN
  /\ e # 0 /\ entries[e].open[d] > 0
  /\ d \in entries[e].told \/ entries[e].client = "dead" \/ \E t \in threads : Sending(t, d, e)
Restarting(d) ==
  \E t \in threads : t.kind = "monitor" /\ t.key = home[d] /\ d \in t.docs /\ t.pc # "abandoned"
Cares(d) == Opening(d) \/ WaitsInstall(d) \/ Announced(d) \/ HasServer(d) \/ Restarting(d)
Cared == \A d \in files \ crossed : Cares(d)
ServeInv == StepsFit /\ FilesFit /\ OpensFit /\ Barriers /\ Uncached /\ Cared

-----------------------------------------------------------------------------
(* How threads go on. A call that went on is the call it was. *)
Same(t, u) ==
  /\ u.kind = t.kind /\ u.doc = t.doc /\ u.gen = t.gen /\ u.docs = t.docs
  /\ t.kind # "close" => u.key = t.key

(* Of the threads, t alone goes on, as u or not at all; closes may take a step with it, and
   new threads are no calls of the editor. *)
Forward(t, u) ==
  /\ \A x \in threads' : x.kind = "open" => (x \in threads /\ x # t) \/ (x = u /\ Same(t, u))
  /\ \A x \in threads : x # t /\ x.kind # "close" => x \in threads'
  /\ \A c \in threads' : c.kind = "close" =>
       \E x \in threads : x.kind = "close" /\ x.doc = c.doc /\ x.gen = c.gen

LEMMA BecomesForward ==
  ASSUME NEW t \in threads, NEW u, Becomes(t, u), Same(t, u)
  PROVE  Forward(t, u) /\ u \in threads'
BY DEF Becomes, Same, Forward

LEMMA EndsForward ==
  ASSUME NEW t \in threads, Ends(t)
  PROVE  Forward(t, t)
BY DEF Ends, Forward

(* The steps of an answered close that waited. *)
LEMMA ClosesGoOn ==
  ASSUME threads \subseteq Threads, NEW c \in threads, NEW t, Awaits(c, t)
  PROVE  /\ [c EXCEPT !.pc = "close"].kind = "close" /\ [c EXCEPT !.pc = "close"].doc = c.doc
         /\ [c EXCEPT !.pc = "close"].gen = c.gen /\ [c EXCEPT !.pc = "close"].pc = "close"
         /\ c.kind = "close"
BY DEF Awaits, Threads, ThreadRecords

(* The threads after an answer. *)
LEMMA AfterAnswer ==
  ASSUME threads \subseteq Threads, NEW t \in threads, t.kind = "open", NEW ok \in BOOLEAN
  PROVE  /\ \A x \in AfterReturn(t, ok) :
              \/ x \in threads /\ x # t
              \/ /\ x.kind = "close" /\ x.pc = "close"
                 /\ \E c \in threads : c.kind = "close" /\ c.doc = x.doc /\ c.gen = x.gen
         /\ \A x \in threads : x # t /\ ~Awaits(x, t) => x \in AfterReturn(t, ok)
<1> DEFINE Next(c) == [c EXCEPT !.pc = "close"]
<1>1. \A c \in threads : Awaits(c, t) =>
        Next(c).kind = "close" /\ Next(c).doc = c.doc /\ Next(c).gen = c.gen /\ Next(c).pc = "close"
        /\ c.kind = "close"
  BY ClosesGoOn
<1>2. AfterReturn(t, ok) =
        {c \in threads \ {t} : ~Awaits(c, t)} \cup {Next(c) : c \in {x \in threads : ok /\ Awaits(x, t)}}
  BY DEF AfterReturn
<1> HIDE DEF Next
<1> QED
  BY <1>1, <1>2

LEMMA ReturnsForward ==
  ASSUME threads \subseteq Threads, NEW t \in threads, t.kind = "open", NEW ok \in BOOLEAN,
         threads' = AfterReturn(t, ok)
  PROVE  Forward(t, t)
<1>1. \A x \in threads' :
        \/ x \in threads /\ x # t
        \/ /\ x.kind = "close" /\ x.pc = "close"
           /\ \E c \in threads : c.kind = "close" /\ c.doc = x.doc /\ c.gen = x.gen
  BY AfterAnswer
<1>2. \A x \in threads : x # t /\ ~Awaits(x, t) => x \in threads'
  BY AfterAnswer
<1> QED
  BY <1>1, <1>2 DEF Forward, Awaits

(* What an answer leaves of the documents. *)
DocsKept(d) == docs'[d].gen = docs[d].gen /\ docs'[d].tracked = docs[d].tracked

LEMMA AnsweredDocs ==
  ASSUME ManagerInv, NEW t \in threads, t.kind = "open", NEW ok \in BOOLEAN, docs' = DocsAfter(t, ok)
  PROVE  /\ \A d \in Documents : docs'[d].gen = docs[d].gen /\ (docs'[d].tracked => docs[d].tracked)
         /\ \A d \in Documents : ~(d = t.doc /\ Current(t)) => docs'[d] = docs[d]
         /\ ok => \A d \in Documents : docs'[d].tracked = docs[d].tracked
<1>1. t.doc \in Documents /\ docs \in [Documents -> DocStates]
  BY ThreadKey, InvFacts
<1> QED
  BY <1>1 DEF DocsAfter, Current, DocStates

-----------------------------------------------------------------------------
(* What a thread that goes on leaves alone.                                  *)
DocsGoOn(t) == docs' = docs \/ (t.kind = "open" /\ \E ok \in BOOLEAN : docs' = DocsAfter(t, ok))

LEMMA GoOnDocs ==
  ASSUME ManagerInv, NEW t \in threads, DocsGoOn(t)
  PROVE  /\ \A d \in Documents : docs'[d].gen = docs[d].gen /\ (docs'[d].tracked => docs[d].tracked)
         /\ \A d \in Documents : ~(OpenOf(t, d) /\ Current(t)) => docs'[d] = docs[d]
<1>1. CASE docs' = docs
  BY <1>1
<1>2. ASSUME t.kind = "open", NEW ok \in BOOLEAN, docs' = DocsAfter(t, ok)
      PROVE  /\ \A d \in Documents : docs'[d].gen = docs[d].gen /\ (docs'[d].tracked => docs[d].tracked)
             /\ \A d \in Documents : ~(OpenOf(t, d) /\ Current(t)) => docs'[d] = docs[d]
  BY <1>2, AnsweredDocs DEF OpenOf
<1> QED
  BY <1>1, <1>2 DEF DocsGoOn

LEMMA FilesFitKept ==
  ASSUME ManagerInv, FilesFit, NEW t \in threads, DocsGoOn(t), UNCHANGED <<view, files, home>>
  PROVE  FilesFit'
BY GoOnDocs DEF FilesFit

(* Calls of the editor have documents with numbers. *)
LEMMA CallTypes ==
  ASSUME ManagerInv, NEW t \in threads, t.kind \in {"open", "close"}
  PROVE  /\ t.doc \in Documents /\ t.gen \in Nat /\ docs[t.doc].gen \in Nat
         /\ t.kind = "open" => t.key \in Keys
<1>1. t \in ThreadRecords /\ t.doc \in Documents /\ docs \in [Documents -> DocStates]
  BY ThreadKey, InvFacts
<1>2. t.gen \in Nat /\ docs[t.doc].gen \in Nat
  BY <1>1 DEF ThreadRecords, DocStates
<1> QED
  BY <1>1, <1>2, ThreadKey

LEMMA OpensFitKept ==
  ASSUME ManagerInv, OpensFit, NEW t \in threads, NEW u, Forward(t, u), home' = home,
         \A d \in Documents : docs'[d].gen = docs[d].gen
  PROVE  OpensFit'
<1>1. \A x \in threads' : x.kind = "open" =>
        \E y \in threads : y.kind = "open" /\ y.doc = x.doc /\ y.gen = x.gen /\ y.key = x.key
  BY DEF Forward, Same
<1>2. \A x \in threads' : x.kind \in {"open", "close"} =>
        \E y \in threads : y.kind \in {"open", "close"} /\ y.doc = x.doc /\ y.gen = x.gen
  BY DEF Forward, Same
<1>3. ASSUME NEW x \in threads', x.kind \in {"open", "close"}
      PROVE  x.gen <= docs'[x.doc].gen
  BY <1>2, <1>3, CallTypes DEF OpensFit
<1>4. ASSUME NEW x \in threads', x.kind = "open"
      PROVE  x.key = home'[x.doc]
  BY <1>1, <1>4 DEF OpensFit
<1>5. ASSUME NEW x \in threads', NEW y \in threads', x.kind = "open", y.kind = "open",
             x.doc = y.doc, x.gen = y.gen
      PROVE  x = y
  BY <1>5 DEF OpensFit, Forward, Same
<1> QED
  BY <1>3, <1>4, <1>5 DEF OpensFit

(* An open that nothing holds back has no close before it. *)
LEMMA NoneBefore ==
  ASSUME ManagerInv, OpensFit, Barriers, NEW t \in threads, NEW d \in files, Newest(t, d),
         t.pc # "barrier" \/ ~Behind(t)
  PROVE  \A c \in threads : ~CloseOf(c, d)
<1> SUFFICES ASSUME NEW c \in threads, CloseOf(c, d) PROVE FALSE
  OBVIOUS
<1>1. c.gen < docs[d].gen /\ \E x \in threads : Newest(x, d) /\ x.pc = "barrier"
  BY DEF Barriers
<1>2. t.pc = "barrier"
  BY <1>1 DEF OpensFit, Newest, OpenOf
<1>3. Behind(t)
  BY <1>1 DEF Behind, Newest, OpenOf, CloseOf
<1> QED
  BY <1>2, <1>3

LEMMA BarriersKept ==
  ASSUME ManagerInv, OpensFit, Barriers, NEW t \in threads, NEW u, Forward(t, u), files' = files,
         DocsGoOn(t), t.kind = "open" => t.pc # "barrier" \/ ~Behind(t)
  PROVE  Barriers'
<1> SUFFICES ASSUME NEW c \in threads', NEW d \in files, CloseOf(c, d)
             PROVE  /\ c.gen < docs'[d].gen /\ docs'[d].tracked
                    /\ \E w \in threads' : OpenOf(w, d) /\ w.gen = docs'[d].gen /\ w.pc = "barrier"
  BY DEF Barriers, Newest, OpenOf, CloseOf
<1>1. PICK x \in threads : CloseOf(x, d) /\ x.gen = c.gen
  BY DEF Forward, CloseOf
<1>2. PICK w \in threads : Newest(w, d) /\ w.pc = "barrier"
  BY <1>1 DEF Barriers
<1>3. d \in Documents
  BY InvTypes DEF EditorTypeOK
<1>4. ~Newest(t, d)
  BY <1>1, NoneBefore DEF Newest, OpenOf
<1>5. docs'[d] = docs[d]
  BY <1>3, <1>4, GoOnDocs DEF Newest, OpenOf, Current
<1>6. w \in threads'
  BY <1>2, <1>4 DEF Forward, Newest, OpenOf
<1> QED
  BY <1>1, <1>2, <1>5, <1>6 DEF Barriers, Newest

(* The parts of the invariant that are about the editor's calls, and not about the cache. *)
CallsFit == FilesFit /\ OpensFit /\ Barriers

LEMMA CallsFitKept ==
  ASSUME ManagerInv, CallsFit, NEW t \in threads, NEW u, Forward(t, u),
         UNCHANGED <<view, files, home>>, DocsGoOn(t), t.kind = "open" => t.pc # "barrier" \/ ~Behind(t)
  PROVE  CallsFit'
BY GoOnDocs, FilesFitKept, OpensFitKept, BarriersKept DEF CallsFit

LEMMA CallsFitFrame ==
  ASSUME CallsFit, UNCHANGED <<view, files, home, docs, threads>>
  PROVE  CallsFit'
<1>1. FilesFit'
  BY DEF CallsFit, FilesFit
<1>2. OpensFit'
  BY DEF CallsFit, OpensFit
<1>3. Barriers'
  BY DEF CallsFit, Barriers, Newest
<1> QED
  BY <1>1, <1>2, <1>3 DEF CallsFit

LEMMA StepsFitKept ==
  ASSUME StepsFit, \A x \in threads' : x \in threads \/ StepFits(x)
  PROVE  StepsFit'
BY DEF StepsFit

LEMMA UncachedKept ==
  ASSUME cached, cached'
  PROVE  Uncached'
BY DEF Uncached

-----------------------------------------------------------------------------
(* What a thread that goes on leaves of the care for a document.             *)
LEMMA OpeningKept ==
  ASSUME ManagerInv, NEW t \in threads, NEW u, Forward(t, u), NEW d \in Documents, Opening(d),
         DocsKept(d), cached' \/ (cached' = cached /\ \A k \in Keys : d \in pending[k] => d \in pending'[k]),
         Newest(t, d) /\ t.pc \in OpeningSteps =>
           /\ u \in threads' /\ Same(t, u) /\ u.pc \in OpeningSteps
           /\ u.pc = "config" => cached' \/ d \in pending'[u.key]
  PROVE  Opening(d)'
<1>1. PICK x \in threads :
        Newest(x, d) /\ x.pc \in OpeningSteps /\ (x.pc = "config" /\ ~cached => d \in pending[x.key])
  BY DEF Opening
<1>2. docs'[d].tracked /\ docs'[d].gen = docs[d].gen
  BY DEF Opening, DocsKept
<1>3. x.key \in Keys
  BY <1>1, CallTypes DEF Newest, OpenOf
<1>4. CASE x = t
  BY <1>1, <1>2, <1>4 DEF Opening, Newest, OpenOf, Same
<1>5. CASE x # t
  <2>1. x \in threads'
    BY <1>1, <1>5 DEF Forward, Newest, OpenOf
  <2> QED
    BY <1>1, <1>2, <1>3, <2>1 DEF Opening, Newest, OpenOf
<1> QED
  BY <1>4, <1>5

LEMMA WaitsKept ==
  ASSUME ManagerInv, NEW t \in threads, NEW u, Forward(t, u), NEW d \in Documents, WaitsInstall(d),
         home' = home, d \in pending'[home[d]],
         home[d] \in failed => home[d] \in failed' \/ \E x \in threads' : Announces(x, home[d]),
         Announces(t, home[d]) => home[d] \in failed' \/ \E x \in threads' : Announces(x, home[d])
  PROVE  WaitsInstall(d)'
<1>1. \A x \in threads' : ~OpenOf(x, d)
  BY DEF WaitsInstall, Forward, OpenOf, Same
<1>2. home[d] \in failed' \/ \E x \in threads' : Announces(x, home[d])
  BY DEF WaitsInstall, Forward, Announces
<1> QED
  BY <1>1, <1>2 DEF WaitsInstall, OpenOf, Announces

LEMMA AnnouncedKept ==
  ASSUME NEW d \in Documents, Announced(d), home' = home, reconnects \subseteq reconnects'
  PROVE  Announced(d)'
BY DEF Announced

(* The server of a document's root. *)
LEMMA HasServerFacts ==
  ASSUME ManagerInv, NEW d \in Documents, HasServer(d)
  PROVE  /\ home[d] \in Keys /\ servers[home[d]] \in Procs
         /\ entries[servers[home[d]]].client \in {"up", "dead"}
         /\ entries[servers[home[d]]].key = home[d]
BY InvTypes, ServerFacts DEF EditorTypeOK, HasServer

LEMMA SendingOpens ==
  ASSUME ManagerInv, NEW t \in threads, NEW d, NEW e, Sending(t, d, e)
  PROVE  t.kind # "close"
BY ThreadKey DEF Sending, CloseSteps

(* The record of a process keeps what it has of a document. *)
EntryHolds(e, d) ==
  /\ entries[e].open[d] > 0 => entries'[e].open[d] > 0
  /\ d \in entries[e].told => d \in entries'[e].told
  /\ entries[e].client = "dead" => entries'[e].client = "dead"

LEMMA HasServerKept ==
  ASSUME ManagerInv, NEW t \in threads, NEW u, Forward(t, u), NEW d \in Documents, HasServer(d),
         home' = home, servers'[home[d]] = servers[home[d]], EntryHolds(servers[home[d]], d),
         ~Sending(t, d, servers[home[d]])
  PROVE  HasServer(d)'
<1> DEFINE e == servers[home[d]]
<1>1. \A x \in threads : Sending(x, d, e) => x \in threads'
  BY SendingOpens DEF Forward
<1>2. e # 0 /\ entries[e].open[d] > 0
      /\ (d \in entries[e].told \/ entries[e].client = "dead" \/ \E x \in threads : Sending(x, d, e))
  BY DEF HasServer
<1>3. servers'[home'[d]] = e
  OBVIOUS
<1> HIDE DEF e
<1>4. e # 0 /\ entries'[e].open[d] > 0
      /\ (d \in entries'[e].told \/ entries'[e].client = "dead" \/ \E x \in threads' : Sending(x, d, e))
  <2>1. EntryHolds(e, d)
    BY DEF e
  <2> QED
    BY <1>1, <1>2, <2>1 DEF EntryHolds
<1> QED
  BY <1>3, <1>4 DEF HasServer, Sending

LEMMA CaredBy ==
  ASSUME Cared, files' = files, NEW ds, Crosses(ds),
         \A d \in files \ crossed' : d \notin ds /\ Cares(d) => Cares(d)'
  PROVE  Cared'
BY DEF Cared, Crosses

LEMMA CaredStill ==
  ASSUME Cared, files' = files, crossed' = crossed, \A d \in files \ crossed : Cares(d) => Cares(d)'
  PROVE  Cared'
BY DEF Cared

(* The parts of the invariant. *)
LEMMA Parts ==
  ASSUME ServeInv
  PROVE  /\ StepsFit /\ CallsFit /\ FilesFit /\ OpensFit /\ Barriers /\ Uncached /\ Cared
BY DEF ServeInv, CallsFit

LEMMA Whole ==
  ASSUME StepsFit', CallsFit', Uncached', Cared'
  PROVE  ServeInv'
BY DEF ServeInv, CallsFit

LEMMA StepOf ==
  ASSUME ServeInv, NEW t \in threads
  PROVE  StepFits(t)
BY DEF ServeInv, StepsFit

LEMMA FilesAreDocuments ==
  ASSUME ManagerInv
  PROVE  files \subseteq Documents
BY InvTypes DEF EditorTypeOK

(* Only calls of the editor and the first install run before the server is installed. *)
LEMMA NeedsCache ==
  ASSUME ManagerInv, ServeInv, NEW t \in threads,
         \/ t.kind \in {"override", "monitor"}
         \/ t.pc \notin {"barrier", "config", "await", "close", "begin", "installing"}
  PROVE  cached
<1>1. t.kind \in Kinds
  BY ThreadKey DEF ThreadRecords
<1> QED
  BY <1>1 DEF ServeInv, Uncached, NoServers, Kinds

-----------------------------------------------------------------------------
(* Steps of a thread and nothing else.                                       *)
LEMMA StepTo ==
  ASSUME NEW t \in ThreadRecords, NEW pc
  PROVE  /\ Same(t, [t EXCEPT !.pc = pc]) /\ [t EXCEPT !.pc = pc].pc = pc
         /\ [t EXCEPT !.pc = pc].entry = t.entry
BY DEF Same, ThreadRecords

LEMMA StepToCut ==
  ASSUME NEW t \in ThreadRecords, NEW pc, NEW b
  PROVE  /\ Same(t, [t EXCEPT !.pc = pc, !.cut = b]) /\ [t EXCEPT !.pc = pc, !.cut = b].pc = pc
         /\ [t EXCEPT !.pc = pc, !.cut = b].key = t.key
BY DEF Same, ThreadRecords

(* The document is in the hands of the thread, ... *)
Carries(t, d) ==
  /\ t.pc # "abandoned"
  /\ \/ Newest(t, d) /\ Opening(d)
     \/ Announces(t, home[d]) /\ WaitsInstall(d)
     \/ t.kind = "monitor" /\ t.key = home[d] /\ d \in t.docs

(* ... and stays there. *)
Stays(t, u, d) ==
  Carries(t, d) =>
    /\ u \in threads' /\ Same(t, u) /\ u.pc # "abandoned"
    /\ t.kind = "open" => u.pc \in OpeningSteps \ {"config"}

LEMMA CaresOn ==
  ASSUME ManagerInv, NEW t \in threads, NEW u, Forward(t, u), NEW d \in Documents, Stays(t, u, d), Cares(d),
         home' = home, reconnects \subseteq reconnects',
         cached' \/ (cached' = cached /\ \A k \in Keys : d \in pending[k] => d \in pending'[k]),
         Opening(d) => DocsKept(d),
         WaitsInstall(d) =>
           /\ d \in pending'[home[d]]
           /\ home[d] \in failed => home[d] \in failed' \/ \E x \in threads' : Announces(x, home[d]),
         HasServer(d) =>
           /\ servers'[home[d]] = servers[home[d]] /\ EntryHolds(servers[home[d]], d)
           /\ ~Sending(t, d, servers[home[d]])
  PROVE  Cares(d)'
<1>1. CASE Opening(d)
  <2>1. Newest(t, d) /\ t.pc \in OpeningSteps =>
          /\ u \in threads' /\ Same(t, u) /\ u.pc \in OpeningSteps /\ u.pc # "config"
    BY <1>1 DEF Stays, Carries, Newest, OpenOf, OpeningSteps
  <2>2. Opening(d)'
    BY <1>1, <2>1, OpeningKept
  <2> QED
    BY <2>2 DEF Cares
<1>2. CASE WaitsInstall(d)
  <2>1. Announces(t, home[d]) => \E x \in threads' : Announces(x, home[d])
    BY <1>2 DEF Stays, Carries, Announces, Same
  <2>2. WaitsInstall(d)'
    BY <1>2, <2>1, WaitsKept
  <2> QED
    BY <2>2 DEF Cares
<1>3. CASE Announced(d)
  BY <1>3, AnnouncedKept DEF Cares
<1>4. CASE HasServer(d)
  BY <1>4, HasServerKept DEF Cares
<1>5. CASE Restarting(d)
  <2>1. PICK x \in threads : x.kind = "monitor" /\ x.key = home[d] /\ d \in x.docs /\ x.pc # "abandoned"
    BY <1>5 DEF Restarting
  <2>2. CASE x = t
    BY <2>1, <2>2 DEF Stays, Carries, Same, Restarting, Cares
  <2>3. CASE x # t
    BY <2>1, <2>3 DEF Forward, Restarting, Cares
  <2> QED
    BY <2>2, <2>3
<1> QED
  BY <1>1, <1>2, <1>3, <1>4, <1>5 DEF Cares

(* A carer that goes on whatever it carries. *)
Keeps(t, u) ==
  /\ u \in threads' /\ Same(t, u) /\ u.pc # "abandoned"
  /\ t.kind = "open" => u.pc \in OpeningSteps \ {"config"}

(* A thread that takes a step without answering a call, cache or no cache. *)
LEMMA MoveServes ==
  ASSUME ManagerInv, ServeInv, NEW t \in threads, NEW u, Becomes(t, u), Same(t, u), StepFits(u),
         Keeps(t, u), t.pc # "send", t.pc # "barrier" \/ ~Behind(t), cached' \/ cached' = cached, Uncached',
         UNCHANGED <<view, files, docs, home, servers, entries, pending, failed, reconnects, crossed>>
  PROVE  ServeInv'
<1>1. Forward(t, u)
  BY BecomesForward
<1>2. StepsFit'
  BY Parts, StepsFitKept DEF Becomes
<1>3. CallsFit'
  BY <1>1, Parts, CallsFitKept DEF DocsGoOn
<1>4. Cared'
  <2>1. ASSUME NEW d \in files \ crossed, Cares(d) PROVE Cares(d)'
    <3>1. d \in Documents /\ Stays(t, u, d) /\ DocsKept(d)
      BY FilesAreDocuments DEF Keeps, Stays, DocsKept
    <3>2. EntryHolds(servers[home[d]], d) /\ ~Sending(t, d, servers[home[d]])
      BY DEF EntryHolds, Sending
    <3> QED
      BY <1>1, <2>1, <3>1, <3>2, CaresOn DEF WaitsInstall, Announces, Forward
  <2> QED
    BY <2>1, Parts, CaredStill
<1> QED
  BY <1>2, <1>3, <1>4, Whole

LEMMA EnsureServerServes ==
  ASSUME ManagerInv, ServeInv, NEW t \in threads, EnsureServer(t)
  PROVE  ServeInv'
<1>1. t.pc = "ensure" /\ t \in ThreadRecords /\ t.kind \in {"install", "override"} /\ cached
  <2>1. t.pc = "ensure" /\ t \in ThreadRecords /\ t.kind \in Kinds
    BY ThreadKey DEF EnsureServer, ThreadRecords
  <2> QED
    BY <2>1, NeedsCache, StepOf DEF StepFits, OpenSteps, CloseSteps, FamilySteps, StartSteps, Kinds
<1>2. /\ UNCHANGED <<view, files, docs, home, servers, entries, pending, failed, reconnects, crossed>>
      /\ cached' = cached
  BY DEF EnsureServer, editorVars, mapVars, installVars, shownVars
<1>3. PICK u : Becomes(t, u) /\ Same(t, u) /\ u.pc \in {"have", "config"} /\ (u.pc = "have" => u.entry # 0)
  <2> DEFINE v == [t EXCEPT !.pc = "have", !.entry = servers[t.key]]
             w == [t EXCEPT !.pc = "config"]
  <2>1. (servers[t.key] # 0 /\ Becomes(t, v)) \/ Becomes(t, w)
    BY DEF EnsureServer
  <2>2. Same(t, v) /\ v.pc = "have" /\ v.entry = servers[t.key]
    BY <1>1 DEF Same, ThreadRecords
  <2>3. Same(t, w) /\ w.pc = "config"
    BY <1>1, StepTo
  <2> HIDE DEF v, w
  <2> QED
    BY <2>1, <2>2, <2>3
<1>4. StepFits(u) /\ Keeps(t, u)
  BY <1>1, <1>3, BecomesForward DEF StepFits, Keeps, FamilySteps, StartSteps, Same
<1> QED
  BY <1>1, <1>2, <1>3, <1>4, MoveServes, UncachedKept

(* A start that failed. *)
LEMMA FailsForward ==
  ASSUME ManagerInv, NEW t \in threads, Fails(t)
  PROVE  Forward(t, t) /\ DocsGoOn(t) /\ \A x \in threads' : x \in threads \/ StepFits(x)
<1>1. CASE t.kind = "open"
  <2>1. threads' = AfterReturn(t, FALSE) /\ docs' = DocsAfter(t, FALSE)
    BY <1>1 DEF Fails, Returns
  <2>2. \A x \in threads' : x \in threads \/ (x.kind = "close" /\ x.pc = "close")
    BY <1>1, <2>1, InvFacts, AfterAnswer
  <2> QED
    BY <1>1, <2>1, <2>2, InvFacts, ReturnsForward DEF DocsGoOn, StepFits, CloseSteps
<1>2. CASE t.kind # "open"
  BY <1>2, EndsForward DEF Fails, DocsGoOn, Ends
<1> QED
  BY <1>1, <1>2

(* A shutdown that is over. *)
LEMMA AbandonedServes ==
  ASSUME ManagerInv, ServeInv, NEW t \in threads, t.pc = "abandoned", AfterShutdown(t)
  PROVE  ServeInv'
<1>1. t \in ThreadRecords /\ t.kind \in Kinds /\ cached /\ t.kind # "close"
  BY ThreadKey, NeedsCache DEF ThreadRecords, CloseSteps
<1>2. /\ UNCHANGED <<view, files, home, servers, entries, failed, reconnects, crossed>> /\ cached' = cached
      /\ Fails(t)
  BY DEF AfterShutdown, installVars, shownVars
<1>3. Forward(t, t) /\ DocsGoOn(t) /\ \A x \in threads' : x \in threads \/ StepFits(x)
  BY <1>1, <1>2, FailsForward
<1>4. StepsFit' /\ CallsFit' /\ Uncached'
  BY <1>1, <1>2, <1>3, Parts, StepsFitKept, CallsFitKept, UncachedKept
<1>5. ASSUME NEW d \in files \ crossed, Cares(d) PROVE Cares(d)'
  <2>1. d \in Documents /\ home[d] \in Keys /\ Stays(t, t, d)
    BY FilesAreDocuments, InvTypes DEF EditorTypeOK, Stays, Carries
  <2>2. Opening(d) => DocsKept(d)
    <3>1. Opening(d) => ~(OpenOf(t, d) /\ Current(t))
      BY Parts DEF Opening, OpeningSteps, OpensFit, OpenOf, Newest, Current
    <3> QED
      BY <1>3, <2>1, <3>1, GoOnDocs DEF DocsKept
  <2>3. WaitsInstall(d) => d \in pending'[home[d]]
    BY <1>2, <2>1 DEF Fails, Untracked, WaitsInstall, OpenOf
  <2>4. EntryHolds(servers[home[d]], d) /\ ~Sending(t, d, servers[home[d]])
    BY <1>2 DEF EntryHolds, Sending
  <2> QED
    BY <1>1, <1>2, <1>3, <1>5, <2>1, <2>2, <2>3, <2>4, CaresOn
<1>6. Cared'
  BY <1>2, <1>5, Parts, CaredStill
<1> QED
  BY <1>4, <1>6, Whole

LEMMA AfterShutdownServes ==
  ASSUME ManagerInv, ServeInv, NEW t \in threads, AfterShutdown(t)
  PROVE  ServeInv'
<1>1. t \in ThreadRecords /\ t.kind \in Kinds /\ StepFits(t) /\ t.pc \in {"abandoned", "lost", "stopping"}
  BY ThreadKey, StepOf DEF AfterShutdown, ThreadRecords
<1>2. /\ UNCHANGED <<view, files, home, servers, entries, failed, reconnects, crossed>>
      /\ cached /\ cached' = cached
  BY <1>1, NeedsCache DEF AfterShutdown, installVars, shownVars
<1>3. CASE t.pc = "lost"
  <2> DEFINE u == [t EXCEPT !.pc = "have"]
  <2>1. Becomes(t, u) /\ docs' = docs /\ pending' = pending
    BY <1>3 DEF AfterShutdown, Goes
  <2>2. Same(t, u) /\ u.pc = "have" /\ u.entry = t.entry
    BY <1>1, StepTo
  <2> HIDE DEF u
  <2>3. u \in threads'
    BY <2>1 DEF Becomes
  <2>4. StepFits(u) /\ Keeps(t, u)
    BY <1>1, <1>3, <2>2, <2>3 DEF StepFits, Keeps, OpeningSteps, OpenSteps, FamilySteps, StartSteps, CloseSteps, Same
  <2> QED
    BY <1>2, <1>3, <2>1, <2>2, <2>4, MoveServes, UncachedKept
<1>4. CASE t.pc = "stopping" /\ t.kind = "override"
  <2> DEFINE u == [t EXCEPT !.pc = "ensure", !.cut = ctxDone]
  <2>1. Becomes(t, u) /\ docs' = docs /\ pending' = pending
    BY <1>4 DEF AfterShutdown, RestartFamily
  <2>2. Same(t, u) /\ u.pc = "ensure"
    BY <1>1, StepToCut
  <2> HIDE DEF u
  <2>3. u \in threads'
    BY <2>1 DEF Becomes
  <2>4. StepFits(u) /\ Keeps(t, u)
    BY <1>1, <1>4, <2>2, <2>3 DEF StepFits, Keeps, FamilySteps, Same
  <2> QED
    BY <1>2, <1>4, <2>1, <2>2, <2>4, MoveServes, UncachedKept
<1>5. CASE t.pc = "stopping" /\ t.kind # "override"
  <2>1. t.kind = "close"
    BY <1>1, <1>5 DEF StepFits, Kinds, OpenSteps, FamilySteps, StartSteps
  <2>2. Ends(t) /\ docs' = docs /\ pending' = pending
    BY <1>5 DEF AfterShutdown
  <2>3. Forward(t, t)
    BY <2>2, EndsForward
  <2>4. StepsFit' /\ CallsFit' /\ Uncached'
    BY <1>2, <2>1, <2>2, <2>3, Parts, StepsFitKept, CallsFitKept, UncachedKept DEF Ends, DocsGoOn
  <2>5. ASSUME NEW d \in files \ crossed, Cares(d) PROVE Cares(d)'
    <3>1. d \in Documents /\ Stays(t, t, d) /\ DocsKept(d)
      BY <2>1, <2>2, FilesAreDocuments DEF Stays, Carries, Newest, OpenOf, Announces, DocsKept
    <3>2. EntryHolds(servers[home[d]], d) /\ ~Sending(t, d, servers[home[d]])
      BY <1>2, <1>5 DEF EntryHolds, Sending
    <3> QED
      BY <1>2, <2>2, <2>3, <2>5, <3>1, <3>2, CaresOn DEF WaitsInstall
  <2>6. Cared'
    BY <1>2, <2>5, Parts, CaredStill
  <2> QED
    BY <2>4, <2>6, Whole
<1> QED
  BY <1>1, <1>3, <1>4, <1>5, AbandonedServes

-----------------------------------------------------------------------------
(* Servers started.                                                          *)
(* An error taken away: a document that waits for the install is announced, or crossed. *)
LEMMA ErrorTakenAway ==
  ASSUME NEW t \in threads, NEW u, Becomes(t, u), Same(t, u), u.pc # "abandoned", NEW d,
         WaitsInstall(d), d \notin Forgotten(t.key), failed' = failed \ {t.key}, home[d] \in failed
  PROVE  home[d] \in failed' \/ \E x \in threads' : Announces(x, home[d])
<1>1. CASE home[d] # t.key
  BY <1>1
<1>2. CASE home[d] = t.key
  <2>1. PICK x \in threads : Announces(x, t.key)
    BY <1>2 DEF Forgotten, WaitsInstall, OpenOf
  <2>2. CASE x = t
    BY <1>2, <2>1, <2>2 DEF Becomes, Announces, Same
  <2>3. CASE x # t
    BY <1>2, <2>1, <2>3 DEF Becomes
  <2> QED
    BY <2>2, <2>3
<1> QED
  BY <1>1, <1>2

(* What becomes of a process leaves the servers in use alone. *)
LEMMA OtherProcess ==
  ASSUME ManagerInv, NEW d \in Documents, HasServer(d), NEW p, p # servers[home[d]],
         \A e \in Procs : e # p => entries'[e] = entries[e]
  PROVE  EntryHolds(servers[home[d]], d)
BY HasServerFacts DEF EntryHolds

LEMMA StartServerServes ==
  ASSUME ManagerInv, ServeInv, NEW t \in threads, StartServer(t)
  PROVE  ServeInv'
<1> DEFINE n == NextId
           u == [t EXCEPT !.pc = "init", !.proc = n]
<1>1. /\ t \in ThreadRecords /\ t.kind \in Kinds /\ StepFits(t) /\ cached
      /\ t.pc \in {"start", "config"} /\ t.kind # "close"
  BY ThreadKey, StepOf, NeedsCache DEF StartServer, CloseSteps, ThreadRecords
<1>2. /\ UNCHANGED <<view, files, docs, home, servers, pending, reconnects>> /\ cached' = cached
      /\ failed' = failed \ {t.key} /\ Becomes(t, u) /\ Crosses(Forgotten(t.key))
  BY DEF StartServer, editorVars, installVars
<1>3. n \in Procs /\ entries[n].client = "none" /\ \A e \in Procs : e # n => entries'[e] = entries[e]
  <2>1. n \in Procs /\ entries[n].client = "none"
    BY DEF StartServer, NextId, Unstarted
  <2>2. entries' = [entries EXCEPT ![n].key = t.key, ![n].client = "init"] /\ entries \in [Procs -> Entries]
    BY InvFacts DEF StartServer
  <2> HIDE DEF n
  <2> QED
    BY <2>1, <2>2
<1>4. Same(t, u) /\ u.pc = "init"
  BY <1>1 DEF Same, ThreadRecords
<1> HIDE DEF n, u
<1>5. Forward(t, u) /\ u \in threads'
  BY <1>2, <1>4, BecomesForward
<1>6. StepsFit'
  <2>1. StepFits(u)
    BY <1>1, <1>4 DEF Same, StepFits, OpenSteps, CloseSteps, FamilySteps, StartSteps, Kinds
  <2> QED
    BY <1>2, <2>1, Parts, StepsFitKept DEF Becomes
<1>7. CallsFit' /\ Uncached'
  BY <1>1, <1>2, <1>5, Parts, CallsFitKept, UncachedKept DEF DocsGoOn
<1>8. ASSUME NEW d \in files \ crossed', d \notin Forgotten(t.key), Cares(d) PROVE Cares(d)'
  <2>1. d \in Documents /\ Stays(t, u, d) /\ DocsKept(d)
    BY <1>2, <1>4, <1>5, FilesAreDocuments DEF Stays, OpeningSteps, DocsKept
  <2>2. WaitsInstall(d) /\ home[d] \in failed => home[d] \in failed' \/ \E x \in threads' : Announces(x, home[d])
    BY <1>2, <1>4, <1>8, ErrorTakenAway
  <2>3. HasServer(d) =>
          EntryHolds(servers[home[d]], d) /\ ~Sending(t, d, servers[home[d]])
    BY <1>1, <1>3, <2>1, HasServerFacts, OtherProcess DEF Sending
  <2> QED
    BY <1>1, <1>2, <1>5, <1>8, <2>1, <2>2, <2>3, CaresOn DEF WaitsInstall
<1>9. Cared'
  BY <1>2, <1>8, Parts, CaredBy
<1> QED
  BY <1>6, <1>7, <1>9, Whole

LEMMA RegistersServes ==
  ASSUME ManagerInv, ServeInv, NEW t \in threads, Registers(t)
  PROVE  ServeInv'
<1> DEFINE p == t.proc
           u == [t EXCEPT !.pc = "have", !.entry = p]
<1>1. /\ t \in ThreadRecords /\ t.kind \in Kinds /\ StepFits(t) /\ cached
      /\ t.pc = "init" /\ t.kind # "close"
  BY ThreadKey, StepOf, NeedsCache DEF Registers, CloseSteps, ThreadRecords
<1>2. /\ UNCHANGED <<view, files, docs, home, pending, reconnects>> /\ cached' = cached
      /\ failed' = failed \ {t.key} /\ Becomes(t, u) /\ Crosses(Forgotten(t.key))
      /\ servers[t.key] = 0 /\ servers' = [servers EXCEPT ![t.key] = p]
  BY DEF Registers, editorVars, installVars
<1>3. p \in Procs /\ p # 0 /\ entries[p].client = "init" /\ \A e \in Procs : e # p => entries'[e] = entries[e]
  <2>1. p \in Procs /\ entries[p].client = "init"
    BY <1>1, StartFacts DEF Starting
  <2>2. entries' = [entries EXCEPT ![p].client = "up"] /\ entries \in [Procs -> Entries]
    BY InvFacts DEF Registers
  <2>3. p # 0
    BY <2>1 DEF Procs
  <2> HIDE DEF p
  <2> QED
    BY <2>1, <2>2, <2>3
<1>4. Same(t, u) /\ u.pc = "have" /\ u.entry = p
  BY <1>1 DEF Same, ThreadRecords
<1> HIDE DEF p, u
<1>5. Forward(t, u) /\ u \in threads'
  BY <1>2, <1>4, BecomesForward
<1>6. StepsFit'
  <2>1. StepFits(u)
    BY <1>1, <1>3, <1>4 DEF Same, StepFits, OpenSteps, CloseSteps, FamilySteps, StartSteps, Kinds
  <2> QED
    BY <1>2, <2>1, Parts, StepsFitKept DEF Becomes
<1>7. CallsFit' /\ Uncached'
  BY <1>1, <1>2, <1>5, Parts, CallsFitKept, UncachedKept DEF DocsGoOn
<1>8. ASSUME NEW d \in files \ crossed', d \notin Forgotten(t.key), Cares(d) PROVE Cares(d)'
  <2>1. d \in Documents /\ Stays(t, u, d) /\ DocsKept(d)
    BY <1>2, <1>4, <1>5, FilesAreDocuments DEF Stays, OpeningSteps, DocsKept
  <2>2. WaitsInstall(d) /\ home[d] \in failed => home[d] \in failed' \/ \E x \in threads' : Announces(x, home[d])
    BY <1>2, <1>4, <1>8, ErrorTakenAway
  <2>3. HasServer(d) =>
          EntryHolds(servers[home[d]], d) /\ ~Sending(t, d, servers[home[d]])
    BY <1>1, <1>3, <2>1, HasServerFacts, OtherProcess DEF Sending
  <2>4. HasServer(d) => servers'[home[d]] = servers[home[d]]
    BY <1>2, <2>1, HasServerFacts, InvFacts DEF HasServer
  <2> QED
    BY <1>1, <1>2, <1>5, <1>8, <2>1, <2>2, <2>3, <2>4, CaresOn DEF WaitsInstall
<1>9. Cared'
  BY <1>2, <1>8, Parts, CaredBy
<1> QED
  BY <1>6, <1>7, <1>9, Whole

LEMMA StartSuperfluousServes ==
  ASSUME ManagerInv, ServeInv, NEW t \in threads, StartSuperfluous(t)
  PROVE  ServeInv'
<1>1. /\ t \in ThreadRecords /\ t.kind \in Kinds /\ StepFits(t) /\ cached
      /\ t.pc = "init" /\ t.kind # "close"
  BY ThreadKey, StepOf, NeedsCache DEF StartSuperfluous, CloseSteps, ThreadRecords
<1>2. /\ UNCHANGED <<view, files, docs, home, servers, pending, reconnects, failed>> /\ cached' = cached
      /\ Crosses(IF Unwanted(t) THEN Waiting(t) ELSE {})
  BY DEF StartSuperfluous, editorVars, installVars, shownVars
<1>3. entries[t.proc].client = "init" /\ \A e \in Procs : e # t.proc => entries'[e] = entries[e]
  BY <1>1, StartFacts, InvFacts DEF StartSuperfluous, Starting
<1>4. PICK u : /\ Becomes(t, u) /\ Same(t, u)
               /\ IF Unwanted(t) THEN u.pc = "abandoned" ELSE u.pc = "lost" /\ u.entry # 0
  <2> DEFINE e == servers[t.key]
             v == [t EXCEPT !.pc = "abandoned"]
             w == [t EXCEPT !.pc = "lost", !.entry = e]
  <2>1. IF Unwanted(t) THEN Becomes(t, v) ELSE Becomes(t, w) /\ e # 0
    BY DEF StartSuperfluous
  <2>2. Same(t, v) /\ v.pc = "abandoned"
    BY <1>1, StepTo
  <2> HIDE DEF e
  <2>3. Same(t, w) /\ w.pc = "lost" /\ w.entry = e
    BY <1>1 DEF Same, ThreadRecords
  <2> HIDE DEF v, w
  <2> QED
    BY <2>1, <2>2, <2>3
<1>5. Forward(t, u) /\ u \in threads'
  BY <1>4, BecomesForward
<1>6. StepsFit'
  <2>1. StepFits(u)
    BY <1>1, <1>4 DEF Same, StepFits, OpenSteps, CloseSteps, FamilySteps, StartSteps, Kinds
  <2> QED
    BY <1>4, <2>1, Parts, StepsFitKept DEF Becomes
<1>7. CallsFit' /\ Uncached'
  BY <1>1, <1>2, <1>5, Parts, CallsFitKept, UncachedKept DEF DocsGoOn
<1>8. ASSUME NEW d \in files \ crossed', d \notin (IF Unwanted(t) THEN Waiting(t) ELSE {}), Cares(d)
      PROVE  Cares(d)'
  <2>1. d \in Documents /\ DocsKept(d)
    BY <1>2, FilesAreDocuments DEF DocsKept
  <2>2. Stays(t, u, d)
    <3>1. CASE Unwanted(t)
      BY <1>8, <3>1 DEF Stays, Carries, Waiting, Newest, OpenOf, Announces, WaitsInstall
    <3>2. CASE ~Unwanted(t)
      BY <1>4, <1>5, <3>2 DEF Stays, OpeningSteps
    <3> QED
      BY <3>1, <3>2
  <2>3. HasServer(d) =>
          EntryHolds(servers[home[d]], d) /\ ~Sending(t, d, servers[home[d]])
    BY <1>1, <1>3, <2>1, HasServerFacts, OtherProcess DEF Sending
  <2> QED
    BY <1>1, <1>2, <1>5, <1>8, <2>1, <2>2, <2>3, CaresOn DEF WaitsInstall
<1>9. Cared'
  BY <1>2, <1>8, Parts, CaredBy
<1> QED
  BY <1>6, <1>7, <1>9, Whole

LEMMA InitializeFailsServes ==
  ASSUME ManagerInv, ServeInv, NEW t \in threads, InitializeFails(t)
  PROVE  ServeInv'
<1>1. t.kind # "close" /\ t.pc = "init" /\ cached
  BY ThreadKey, NeedsCache DEF InitializeFails, CloseSteps
<1>2. /\ UNCHANGED <<view, files, home, servers, reconnects>> /\ cached' = cached
      /\ failed \subseteq failed' /\ Fails(t) /\ Crosses(Waiting(t))
  BY DEF InitializeFails, installVars
<1>3. entries[t.proc].client = "init" /\ \A e \in Procs : e # t.proc => entries'[e] = entries[e]
  BY <1>1, StartFacts, InvFacts DEF InitializeFails, Starting
<1>4. Forward(t, t) /\ DocsGoOn(t) /\ \A x \in threads' : x \in threads \/ StepFits(x)
  BY <1>2, FailsForward
<1>5. StepsFit' /\ CallsFit' /\ Uncached'
  BY <1>1, <1>2, <1>4, Parts, StepsFitKept, CallsFitKept, UncachedKept
<1>6. ASSUME NEW d \in files \ crossed', d \notin Waiting(t), Cares(d) PROVE Cares(d)'
  <2>1. d \in Documents /\ home[d] \in Keys
    BY FilesAreDocuments, InvTypes DEF EditorTypeOK
  <2>2. Stays(t, t, d)
    BY <1>6 DEF Stays, Carries, Waiting, Newest, OpenOf, Announces, WaitsInstall
  <2>3. DocsKept(d)
    BY <1>4, <1>6, <2>1, GoOnDocs DEF Waiting, OpenOf, DocsKept
  <2>4. WaitsInstall(d) => d \in pending'[home[d]]
    BY <1>2, <1>6, <2>1 DEF Fails, Untracked, WaitsInstall, Waiting
  <2>5. HasServer(d) =>
          EntryHolds(servers[home[d]], d) /\ ~Sending(t, d, servers[home[d]])
    BY <1>1, <1>3, <2>1, HasServerFacts, OtherProcess DEF Sending
  <2> QED
    BY <1>1, <1>2, <1>4, <1>6, <2>1, <2>2, <2>3, <2>4, <2>5, CaresOn
<1>7. Cared'
  BY <1>2, <1>6, Parts, CaredBy
<1> QED
  BY <1>5, <1>7, Whole

-----------------------------------------------------------------------------
(* Crashed servers restarted.                                                *)
LEMMA BackoffEndsServes ==
  ASSUME ManagerInv, ServeInv, NEW t \in threads, BackoffEnds(t)
  PROVE  ServeInv'
<1>1. t \in ThreadRecords /\ t.kind = "monitor" /\ t.pc = "backoff" /\ cached
  <2>1. t \in ThreadRecords /\ t.kind \in Kinds /\ t.pc = "backoff"
    BY ThreadKey DEF BackoffEnds, ThreadRecords
  <2> QED
    BY <2>1, StepOf, NeedsCache DEF StepFits, OpenSteps, CloseSteps, FamilySteps, StartSteps, Kinds
<1>2. /\ UNCHANGED <<view, files, docs, home, servers, entries, pending, failed, reconnects>>
      /\ cached' = cached
  BY DEF BackoffEnds, editorVars, mapVars, installVars, shownVars
<1>3. CASE Unwanted(t)
  <2>1. Ends(t) /\ Crosses(t.docs)
    BY <1>3 DEF BackoffEnds
  <2>2. Forward(t, t)
    BY <2>1, EndsForward
  <2>3. StepsFit' /\ CallsFit' /\ Uncached'
    BY <1>1, <1>2, <2>1, <2>2, Parts, StepsFitKept, CallsFitKept, UncachedKept DEF Ends, DocsGoOn
  <2>4. ASSUME NEW d \in files \ crossed', d \notin t.docs, Cares(d) PROVE Cares(d)'
    <3>1. d \in Documents /\ Stays(t, t, d) /\ DocsKept(d)
      BY <1>1, <1>2, <2>4, FilesAreDocuments DEF Stays, Carries, Newest, OpenOf, Announces, DocsKept
    <3>2. EntryHolds(servers[home[d]], d) /\ ~Sending(t, d, servers[home[d]])
      BY <1>1, <1>2 DEF EntryHolds, Sending
    <3> QED
      BY <1>1, <1>2, <2>2, <2>4, <3>1, <3>2, CaresOn DEF WaitsInstall
  <2>5. Cared'
    BY <1>2, <2>1, <2>4, Parts, CaredBy
  <2> QED
    BY <2>3, <2>5, Whole
<1>4. CASE ~Unwanted(t)
  <2> DEFINE u == [t EXCEPT !.pc = "start"]
  <2>1. Becomes(t, u) /\ crossed' = crossed
    BY <1>4 DEF BackoffEnds, Goes, Crosses
  <2>2. Same(t, u) /\ u.pc = "start"
    BY <1>1, StepTo
  <2> HIDE DEF u
  <2>3. StepFits(u) /\ Keeps(t, u)
    BY <1>1, <2>1, <2>2 DEF Becomes, StepFits, Keeps, Same
  <2> QED
    BY <1>1, <1>2, <2>1, <2>2, <2>3, MoveServes, UncachedKept
<1> QED
  BY <1>3, <1>4

LEMMA RestartedServes ==
  ASSUME ManagerInv, ServeInv, NEW t \in threads, Restarted(t)
  PROVE  ServeInv'
<1>1. t.kind = "monitor" /\ t.pc = "have" /\ cached
  BY NeedsCache DEF Restarted
<1>2. /\ UNCHANGED <<view, files, docs, home, servers, pending, failed, crossed>> /\ cached' = cached
      /\ Ends(t)
  BY DEF Restarted, editorVars, installVars
<1>3. \A e \in Procs : /\ entries'[e].open = entries[e].open /\ entries'[e].told = entries[e].told
                       /\ entries'[e].client = entries[e].client
  <2> DEFINE r == [entries[t.entry] EXCEPT !.crashCount = t.crashes]
  <2>1. entries' = [entries EXCEPT ![t.entry] = r]
    BY InvFacts DEF Restarted
  <2>2. t.entry \in Procs =>
          /\ r.open = entries[t.entry].open /\ r.told = entries[t.entry].told
          /\ r.client = entries[t.entry].client
    BY InvFacts DEF Entries
  <2> HIDE DEF r
  <2> QED
    BY <2>1, <2>2, InvFacts
<1>4. Forward(t, t)
  BY <1>2, EndsForward
<1>5. StepsFit' /\ CallsFit' /\ Uncached'
  BY <1>1, <1>2, <1>4, Parts, StepsFitKept, CallsFitKept, UncachedKept DEF Ends, DocsGoOn
<1>6. reconnects \subseteq reconnects'
  BY DEF Restarted
<1>7. ASSUME NEW d \in files \ crossed, Cares(d) PROVE Cares(d)'
  <2>1. d \in Documents /\ DocsKept(d)
    BY <1>2, FilesAreDocuments DEF DocsKept
  <2>2. CASE t.key = home[d] /\ d \in t.docs
    <3>1. [key |-> t.key, docs |-> t.docs] \in reconnects'
      BY <2>2 DEF Restarted
    <3>2. Announced(d)'
      BY <1>2, <2>2, <3>1 DEF Announced
    <3> QED
      BY <3>2 DEF Cares
  <2>3. CASE ~(t.key = home[d] /\ d \in t.docs)
    <3>1. Stays(t, t, d)
      BY <1>1, <2>3 DEF Stays, Carries, Newest, OpenOf, Announces
    <3>2. HasServer(d) => EntryHolds(servers[home[d]], d) /\ ~Sending(t, d, servers[home[d]])
      BY <1>1, <1>3, <2>1, HasServerFacts DEF EntryHolds, Sending
    <3> QED
      BY <1>1, <1>2, <1>4, <1>6, <1>7, <2>1, <3>1, <3>2, CaresOn DEF WaitsInstall
  <2> QED
    BY <2>2, <2>3
<1>8. Cared'
  BY <1>2, <1>7, Parts, CaredStill
<1> QED
  BY <1>5, <1>8, Whole

-----------------------------------------------------------------------------
(* Installs and the interpreter.                                             *)
LEMMA InstallBeginsUncached ==
  ASSUME Uncached, NEW t \in threads, NEW u, Becomes(t, u), Same(t, u), t.kind = "install",
         u.pc = "installing", UNCHANGED <<servers, reconnects, provisioning, docs, cached>>
  PROVE  Uncached'
<1> SUFFICES ASSUME ~cached, NoServers, OneInstall, InOrder PROVE NoServers' /\ OneInstall' /\ InOrder'
  BY DEF Uncached
<1>1. threads' = (threads \ {t}) \cup {u} /\ u.kind = "install"
  BY DEF Becomes, Same
<1>2. NoServers'
  BY <1>1 DEF NoServers
<1>3. OneInstall'
  BY <1>1 DEF OneInstall
<1>4. \A x \in threads' : x.kind # "install" => x \in threads
  BY <1>1
<1>5. \A x \in threads : x.kind # "install" => x \in threads'
  BY <1>1
<1>6. InOrder'
  <2>1. ASSUME NEW x \in threads', x.kind = "open"
        PROVE  IF Current(x)' THEN ~docs'[x.doc].opened ELSE \E c \in threads' : Awaits(c, x)
    BY <1>4, <1>5, <2>1 DEF InOrder, Current, Awaits
  <2>2. ASSUME NEW x \in threads', NEW y \in threads', x.kind = "open", OpenOf(y, x.doc), x.gen < y.gen
        PROVE  y.pc = "barrier"
    BY <1>4, <2>2 DEF InOrder, OpenOf
  <2> QED
    BY <2>1, <2>2 DEF InOrder, OpenOf, Awaits
<1> QED
  BY <1>2, <1>3, <1>6

LEMMA InstallBeginsServes ==
  ASSUME ManagerInv, ServeInv, NEW t \in threads, InstallBegins(t)
  PROVE  ServeInv'
<1>1. t \in ThreadRecords /\ t.kind = "install" /\ t.pc = "begin"
  <2>1. t \in ThreadRecords /\ t.kind \in Kinds /\ t.pc = "begin"
    BY ThreadKey DEF InstallBegins, ThreadRecords
  <2> QED
    BY <2>1, StepOf DEF StepFits, OpenSteps, CloseSteps, FamilySteps, StartSteps, Kinds
<1>2. /\ UNCHANGED <<view, files, docs, home, servers, entries, pending, failed, reconnects, crossed>>
      /\ cached' = cached /\ provisioning' = provisioning
  BY DEF InstallBegins, editorVars, mapVars, installVars, shownVars
<1> DEFINE u == [t EXCEPT !.pc = "installing", !.cut = ctxDone]
<1>3. Becomes(t, u)
  BY DEF InstallBegins
<1>4. Same(t, u) /\ u.pc = "installing"
  BY <1>1, StepToCut
<1> HIDE DEF u
<1>5. StepFits(u) /\ Keeps(t, u)
  BY <1>1, <1>3, <1>4 DEF Becomes, StepFits, Keeps, Same
<1>6. Uncached'
  BY <1>1, <1>2, <1>3, <1>4, Parts, InstallBeginsUncached
<1> QED
  BY <1>1, <1>2, <1>3, <1>4, <1>5, <1>6, MoveServes

LEMMA InstalledServes ==
  ASSUME ManagerInv, ServeInv, NEW t \in threads, Installed(t)
  PROVE  ServeInv'
<1>1. t \in ThreadRecords /\ t.kind = "install" /\ t.pc = "installing"
  <2>1. t \in ThreadRecords /\ t.kind \in Kinds /\ t.pc = "installing"
    BY ThreadKey DEF Installed, ThreadRecords
  <2> QED
    BY <2>1, StepOf DEF StepFits, OpenSteps, CloseSteps, FamilySteps, StartSteps, Kinds
<1>2. /\ UNCHANGED <<view, files, docs, home, servers, entries, pending, failed, reconnects, crossed>>
      /\ cached' = TRUE
  BY DEF Installed, editorVars, mapVars, shownVars
<1> DEFINE u == [t EXCEPT !.pc = "ensure", !.cut = ctxDone]
<1>3. Becomes(t, u)
  BY DEF Installed, RestartFamily
<1>4. Same(t, u) /\ u.pc = "ensure"
  BY <1>1, StepToCut
<1> HIDE DEF u
<1>5. StepFits(u) /\ Keeps(t, u)
  BY <1>1, <1>3, <1>4 DEF Becomes, StepFits, Keeps, Same, FamilySteps
<1>6. Uncached'
  BY <1>2 DEF Uncached
<1> QED
  BY <1>1, <1>2, <1>3, <1>4, <1>5, <1>6, MoveServes

LEMMA InstallFailsUncached ==
  ASSUME Uncached, NEW t \in threads, Ends(t), t.kind = "install", provisioning' = FALSE,
         UNCHANGED <<servers, reconnects, docs, cached>>
  PROVE  Uncached'
<1> SUFFICES ASSUME ~cached, NoServers, OneInstall, InOrder PROVE NoServers' /\ OneInstall' /\ InOrder'
  BY DEF Uncached
<1>1. threads' = threads \ {t}
  BY DEF Ends
<1>2. NoServers'
  BY <1>1 DEF NoServers
<1>3. OneInstall'
  BY <1>1 DEF OneInstall
<1>4. \A x \in threads : x.kind # "install" => x \in threads'
  BY <1>1
<1>5. InOrder'
  <2>1. ASSUME NEW x \in threads', x.kind = "open"
        PROVE  IF Current(x)' THEN ~docs'[x.doc].opened ELSE \E c \in threads' : Awaits(c, x)
    BY <1>1, <1>4, <2>1 DEF InOrder, Current, Awaits
  <2>2. ASSUME NEW x \in threads', NEW y \in threads', x.kind = "open", OpenOf(y, x.doc), x.gen < y.gen
        PROVE  y.pc = "barrier"
    BY <1>1, <2>2 DEF InOrder, OpenOf
  <2> QED
    BY <2>1, <2>2 DEF InOrder, OpenOf, Awaits
<1> QED
  BY <1>2, <1>3, <1>5

LEMMA InstallFailsServes ==
  ASSUME ManagerInv, ServeInv, NEW t \in threads, InstallFails(t)
  PROVE  ServeInv'
<1>1. t.kind = "install" /\ t.pc = "installing"
  <2>1. t.kind \in Kinds /\ t.pc = "installing"
    BY ThreadKey DEF InstallFails, ThreadRecords
  <2> QED
    BY <2>1, StepOf DEF StepFits, OpenSteps, CloseSteps, FamilySteps, StartSteps, Kinds
<1>2. /\ UNCHANGED <<view, files, docs, home, servers, entries, pending, reconnects, crossed>>
      /\ cached' = cached /\ provisioning' = FALSE /\ failed' = failed \cup {t.key} /\ Ends(t)
  BY DEF InstallFails, editorVars, mapVars
<1>3. Forward(t, t)
  BY <1>2, EndsForward
<1>4. StepsFit' /\ CallsFit' /\ Uncached'
  BY <1>1, <1>2, <1>3, Parts, StepsFitKept, CallsFitKept, InstallFailsUncached DEF Ends, DocsGoOn
<1>5. ASSUME NEW d \in files \ crossed, Cares(d) PROVE Cares(d)'
  <2>1. d \in Documents /\ DocsKept(d)
    BY <1>2, FilesAreDocuments DEF DocsKept
  <2>2. CASE WaitsInstall(d)
    <3>1. WaitsInstall(d)'
      BY <1>2, <1>3, <2>1, <2>2, WaitsKept DEF Announces, WaitsInstall
    <3> QED
      BY <3>1 DEF Cares
  <2>3. CASE ~WaitsInstall(d)
    <3>1. Stays(t, t, d)
      BY <1>1, <2>3 DEF Stays, Carries, Newest, OpenOf
    <3>2. EntryHolds(servers[home[d]], d) /\ ~Sending(t, d, servers[home[d]])
      BY <1>1, <1>2 DEF EntryHolds, Sending
    <3> QED
      BY <1>1, <1>2, <1>3, <1>5, <2>1, <2>3, <3>1, <3>2, CaresOn
  <2> QED
    BY <2>2, <2>3
<1>6. Cared'
  BY <1>2, <1>5, Parts, CaredStill
<1> QED
  BY <1>4, <1>6, Whole

(* The documents that waited are announced. *)
LEMMA FamilyRestartedServes ==
  ASSUME ManagerInv, ServeInv, NEW t \in threads, FamilyRestarted(t)
  PROVE  ServeInv'
<1>1. t.kind \in {"install", "override"} /\ t.pc = "have" /\ cached /\ t.key \in Keys
  BY NeedsCache, ThreadKey DEF FamilyRestarted
<1>2. /\ UNCHANGED <<view, files, docs, home, servers, entries, failed, crossed>> /\ cached' = cached
      /\ Ends(t) /\ pending' = [pending EXCEPT ![t.key] = {}] /\ reconnects \subseteq reconnects'
  BY DEF FamilyRestarted, editorVars, installVars
<1>3. Forward(t, t)
  BY <1>2, EndsForward
<1>4. StepsFit' /\ CallsFit' /\ Uncached'
  BY <1>1, <1>2, <1>3, Parts, StepsFitKept, CallsFitKept, UncachedKept DEF Ends, DocsGoOn
<1>5. ASSUME NEW d \in files \ crossed, Cares(d) PROVE Cares(d)'
  <2>1. d \in Documents /\ home[d] \in Keys /\ DocsKept(d)
    BY <1>2, FilesAreDocuments, InvTypes DEF DocsKept, EditorTypeOK
  <2>2. CASE WaitsInstall(d) /\ home[d] = t.key
    <3>1. [key |-> t.key, docs |-> pending[t.key]] \in reconnects' /\ d \in pending[t.key]
      BY <2>2 DEF FamilyRestarted, WaitsInstall
    <3>2. Announced(d)'
      BY <1>2, <2>2, <3>1 DEF Announced
    <3> QED
      BY <3>2 DEF Cares
  <2>3. CASE ~(WaitsInstall(d) /\ home[d] = t.key)
    <3>1. Stays(t, t, d)
      BY <1>1, <2>3 DEF Stays, Carries, Newest, OpenOf, Announces
    <3>2. EntryHolds(servers[home[d]], d) /\ ~Sending(t, d, servers[home[d]])
      BY <1>1, <1>2 DEF EntryHolds, Sending
    <3>3. WaitsInstall(d) => d \in pending'[home[d]]
      BY <1>2, <2>1, <2>3, InvFacts DEF WaitsInstall
    <3> QED
      BY <1>1, <1>2, <1>3, <1>5, <2>1, <3>1, <3>2, <3>3, CaresOn
  <2> QED
    BY <2>2, <2>3
<1>6. Cared'
  BY <1>2, <1>5, Parts, CaredStill
<1> QED
  BY <1>4, <1>6, Whole

(* A server taken from its root is no other root's. *)
LEMMA ServerTaken ==
  ASSUME ManagerInv, NEW k \in Keys, servers[k] # 0, servers' = [servers EXCEPT ![k] = 0],
         \A e \in Procs : e # servers[k] => entries'[e] = entries[e],
         NEW d \in Documents, HasServer(d), d \notin OpenDocs(servers[k])
  PROVE  servers'[home[d]] = servers[home[d]] /\ EntryHolds(servers[home[d]], d)
<1>1. home[d] # k
  BY DEF HasServer, OpenDocs
<1>2. servers[home[d]] # servers[k]
  BY <1>1, HasServerFacts, ServerFacts
<1>3. home[d] \in Keys /\ servers'[home[d]] = servers[home[d]]
  BY <1>1, HasServerFacts, InvFacts
<1>4. EntryHolds(servers[home[d]], d)
  <2> DEFINE p == servers[k]
  <2>1. p # servers[home[d]] /\ \A e \in Procs : e # p => entries'[e] = entries[e]
    BY <1>2
  <2> HIDE DEF p
  <2> QED
    BY <2>1, OtherProcess
<1> QED
  BY <1>3, <1>4

LEMMA ShutdownServerServes ==
  ASSUME ManagerInv, ServeInv, NEW t \in threads, ShutdownServer(t)
  PROVE  ServeInv'
<1> DEFINE e == servers[t.key]
<1>1. t \in ThreadRecords /\ t.kind = "override" /\ t.pc = "restart" /\ cached /\ t.key \in Keys
  <2>1. t \in ThreadRecords /\ t.kind \in Kinds /\ t.pc = "restart" /\ t.kind # "close"
    BY ThreadKey DEF ShutdownServer, ThreadRecords, CloseSteps
  <2> QED
    BY <2>1, StepOf, ThreadKey, NeedsCache DEF StepFits, OpenSteps, FamilySteps, StartSteps, Kinds
<1>2. /\ UNCHANGED <<view, files, docs, home, pending, failed, reconnects>> /\ cached' = cached
  BY DEF ShutdownServer, editorVars, installVars, shownVars
<1>3. CASE e = 0
  <2> DEFINE u == [t EXCEPT !.pc = "ensure", !.cut = ctxDone]
  <2>1. Becomes(t, u) /\ UNCHANGED <<servers, entries>> /\ crossed' = crossed
    BY <1>3 DEF ShutdownServer, RestartFamily, Crosses
  <2>2. Same(t, u) /\ u.pc = "ensure"
    BY <1>1, StepToCut
  <2> HIDE DEF u
  <2>3. StepFits(u) /\ Keeps(t, u)
    BY <1>1, <2>1, <2>2 DEF Becomes, StepFits, Keeps, Same, FamilySteps
  <2> QED
    BY <1>1, <1>2, <2>1, <2>2, <2>3, MoveServes, UncachedKept
<1>4. CASE e # 0
  <2> DEFINE u == [t EXCEPT !.pc = "stopping", !.proc = e]
  <2>1. servers' = [servers EXCEPT ![t.key] = 0] /\ Stops(e) /\ Becomes(t, u) /\ Crosses(OpenDocs(e))
    BY <1>4 DEF ShutdownServer
  <2>2. Same(t, u) /\ u.pc = "stopping"
    BY <1>1 DEF Same, ThreadRecords
  <2> HIDE DEF u
  <2>3. Forward(t, u) /\ u \in threads'
    BY <2>1, <2>2, BecomesForward
  <2>4. StepsFit'
    <3>1. StepFits(u)
      BY <1>1, <2>2 DEF StepFits, Same
    <3> QED
      BY <2>1, <3>1, Parts, StepsFitKept DEF Becomes
  <2>5. CallsFit' /\ Uncached'
    BY <1>1, <1>2, <2>3, Parts, CallsFitKept, UncachedKept DEF DocsGoOn
  <2>6. \A x \in Procs : x # e => entries'[x] = entries[x]
    BY <1>1, <1>4, <2>1, ServerFacts, StopsOK
  <2>7. ASSUME NEW d \in files \ crossed', d \notin OpenDocs(e), Cares(d) PROVE Cares(d)'
    <3>1. d \in Documents /\ Stays(t, u, d) /\ DocsKept(d)
      BY <1>1, <1>2, <2>2, <2>3, FilesAreDocuments DEF Stays, DocsKept
    <3>2. HasServer(d) => /\ servers'[home[d]] = servers[home[d]] /\ EntryHolds(servers[home[d]], d)
                          /\ ~Sending(t, d, servers[home[d]])
      BY <1>1, <1>4, <2>1, <2>6, <2>7, <3>1, ServerTaken DEF Sending
    <3> QED
      BY <1>1, <1>2, <2>3, <2>7, <3>1, <3>2, CaresOn DEF WaitsInstall
  <2>8. Cared'
    BY <1>2, <2>1, <2>7, Parts, CaredBy
  <2> QED
    BY <2>4, <2>5, <2>8, Whole
<1> QED
  BY <1>3, <1>4

-----------------------------------------------------------------------------
(* Servers that crash, are shut down or are found gone.                      *)
(* Steps that move no thread. *)
LEMMA StillServes ==
  ASSUME ManagerInv, ServeInv, UNCHANGED <<view, files, docs, home, threads>>, Uncached', Cared'
  PROVE  ServeInv'
<1>1. StepsFit'
  BY Parts, StepsFitKept
<1> QED
  BY <1>1, Parts, CallsFitFrame, Whole

(* What is left alone while others act. *)
LEMMA CaresStill ==
  ASSUME NEW d \in Documents, Cares(d), DocsKept(d), UNCHANGED <<home, pending>>, cached' = cached,
         threads \subseteq threads', \A x \in threads' : x \in threads \/ ~OpenOf(x, d),
         home[d] \in failed => home[d] \in failed' \/ \E x \in threads' : Announces(x, home[d]),
         Announced(d) => Announced(d)', HasServer(d) => Cares(d)'
  PROVE  Cares(d)'
<1>1. Opening(d) => Opening(d)'
  BY DEF Opening, Newest, OpenOf, DocsKept
<1>2. WaitsInstall(d) => WaitsInstall(d)'
  BY DEF WaitsInstall, OpenOf, Announces
<1>3. Restarting(d) => Restarting(d)'
  BY DEF Restarting
<1> QED
  BY <1>1, <1>2, <1>3 DEF Cares

LEMMA HasServerStill ==
  ASSUME NEW d \in Documents, HasServer(d), home' = home, threads \subseteq threads',
         servers'[home[d]] = servers[home[d]], EntryHolds(servers[home[d]], d)
  PROVE  HasServer(d)'
BY DEF HasServer, EntryHolds, Sending

LEMMA UncachedFrame ==
  ASSUME Uncached, UNCHANGED <<servers, reconnects, threads, provisioning, docs, cached>>
  PROVE  Uncached'
<1>1. NoServers => NoServers'
  BY DEF NoServers
<1>2. OneInstall => OneInstall'
  BY DEF OneInstall
<1>3. InOrder => InOrder'
  BY DEF InOrder, Current
<1> QED
  BY <1>1, <1>2, <1>3 DEF Uncached

LEMMA ProcessGoneServes ==
  ASSUME ManagerInv, ServeInv, NEW e \in Procs, entries' = [entries EXCEPT ![e].client = "dead"],
         UNCHANGED <<view, files, docs, home, servers, pending, threads, failed, reconnects, crossed>>,
         UNCHANGED <<cached, provisioning>>
  PROVE  ServeInv'
<1>1. \A x \in Procs : /\ entries'[x].open = entries[x].open /\ entries'[x].told = entries[x].told
                       /\ entries[x].client = "dead" => entries'[x].client = "dead"
  <2> DEFINE r == [entries[e] EXCEPT !.client = "dead"]
  <2>1. entries' = [entries EXCEPT ![e] = r]
    BY InvFacts
  <2>2. r.open = entries[e].open /\ r.told = entries[e].told /\ r.client = "dead"
    BY InvFacts DEF Entries
  <2> HIDE DEF r
  <2> QED
    BY <2>1, <2>2, InvFacts
<1>2. Uncached'
  BY Parts, UncachedFrame
<1>3. ASSUME NEW d \in files \ crossed, Cares(d) PROVE Cares(d)'
  <2>1. d \in Documents
    BY FilesAreDocuments
  <2>2. HasServer(d) => EntryHolds(servers[home[d]], d)
    BY <1>1, <2>1, HasServerFacts DEF EntryHolds
  <2>3. HasServer(d) => HasServer(d)'
    BY <2>1, <2>2, HasServerStill
  <2> QED
    BY <1>3, <2>1, <2>3, CaresStill DEF DocsKept, Announced, Cares
<1>4. Cared'
  BY <1>3, Parts, CaredStill
<1> QED
  BY <1>2, <1>4, StillServes

LEMMA ProcessExitsServes ==
  ASSUME ManagerInv, ServeInv, NEW e \in Procs, ProcessExits(e)
  PROVE  ServeInv'
BY ProcessGoneServes DEF ProcessExits, editorVars, installVars, shownVars

LEMMA ServerCrashServes ==
  ASSUME ManagerInv, ServeInv, NEW e \in Procs, ServerCrash(e)
  PROVE  ServeInv'
BY ProcessGoneServes DEF ServerCrash, editorVars, installVars, shownVars

LEMMA ServerForPathServes ==
  ASSUME ManagerInv, ServeInv, NEW d \in Documents, ServerForPath(d)
  PROVE  ServeInv'
<1>1. /\ UNCHANGED <<view, files, docs, home, servers, entries, pending, threads, failed, reconnects, crossed>>
      /\ UNCHANGED <<cached, provisioning>>
  BY DEF ServerForPath, editorVars, installVars, shownVars
<1>2. Uncached'
  BY <1>1, Parts, UncachedFrame
<1>3. ASSUME NEW x \in files \ crossed, Cares(x) PROVE Cares(x)'
  <2>1. HasServer(x) => HasServer(x)'
    BY <1>1 DEF HasServer
  <2> QED
    BY <1>1, <1>3, <2>1, CaresStill, FilesAreDocuments DEF DocsKept, Announced, Cares
<1>4. Cared'
  BY <1>1, <1>3, Parts, CaredStill
<1> QED
  BY <1>1, <1>2, <1>4, StillServes

LEMMA ReloadViewServes ==
  ASSUME ManagerInv, ServeInv, ReloadView
  PROVE  ServeInv'
<1>1. /\ UNCHANGED <<view, files, docs, home, servers, entries, pending, threads, failed, reconnects, crossed>>
      /\ UNCHANGED <<cached, provisioning>>
  BY DEF ReloadView, mapVars, installVars, shownVars
<1>2. Uncached'
  BY <1>1, Parts, UncachedFrame
<1>3. ASSUME NEW x \in files \ crossed, Cares(x) PROVE Cares(x)'
  <2>1. HasServer(x) => HasServer(x)'
    BY <1>1 DEF HasServer
  <2> QED
    BY <1>1, <1>3, <2>1, CaresStill, FilesAreDocuments DEF DocsKept, Announced, Cares
<1>4. Cared'
  BY <1>1, <1>3, Parts, CaredStill
<1> QED
  BY <1>1, <1>2, <1>4, StillServes

(* A server that runs was started from the cache. *)
LEMMA ServerNeedsCache ==
  ASSUME ServeInv, NEW k \in Keys, servers[k] # 0
  PROVE  cached
BY DEF ServeInv, Uncached, NoServers

LEMMA ShutdownOneServes ==
  ASSUME ManagerInv, ServeInv, NEW k \in Keys, ShutdownOne(k)
  PROVE  ServeInv'
<1> DEFINE e == servers[k]
<1>1. /\ UNCHANGED <<view, files, docs, home, pending, threads, failed, reconnects>>
      /\ UNCHANGED <<cached, provisioning>>
  BY DEF ShutdownOne, editorVars, installVars, shownVars
<1>2. CASE e = 0
  <2>1. UNCHANGED <<servers, entries, crossed>>
    BY <1>2 DEF ShutdownOne, Crosses
  <2>2. Uncached'
    BY <1>1, <2>1, Parts, UncachedFrame
  <2>3. ASSUME NEW d \in files \ crossed, Cares(d) PROVE Cares(d)'
    <3>1. HasServer(d) => HasServer(d)'
      BY <1>1, <2>1 DEF HasServer
    <3> QED
      BY <1>1, <2>3, <3>1, CaresStill, FilesAreDocuments DEF DocsKept, Announced, Cares
  <2>4. Cared'
    BY <1>1, <2>1, <2>3, Parts, CaredStill
  <2> QED
    BY <1>1, <2>2, <2>4, StillServes
<1>3. CASE e # 0
  <2>1. servers' = [servers EXCEPT ![k] = 0] /\ Stops(e) /\ Crosses(OpenDocs(e))
    BY <1>3 DEF ShutdownOne
  <2>2. Uncached'
    BY <1>1, <1>3, ServerNeedsCache, UncachedKept
  <2>3. \A x \in Procs : x # e => entries'[x] = entries[x]
    BY <1>3, <2>1, ServerFacts, StopsOK
  <2>4. ASSUME NEW d \in files \ crossed', d \notin OpenDocs(e), Cares(d) PROVE Cares(d)'
    <3>1. d \in Documents
      BY FilesAreDocuments
    <3>2. HasServer(d) => servers'[home[d]] = servers[home[d]] /\ EntryHolds(servers[home[d]], d)
      BY <1>3, <2>1, <2>3, <2>4, <3>1, ServerTaken
    <3>3. HasServer(d) => HasServer(d)'
      BY <1>1, <3>1, <3>2, HasServerStill
    <3> QED
      BY <1>1, <2>4, <3>1, <3>3, CaresStill DEF DocsKept, Announced, Cares
  <2>5. Cared'
    BY <1>1, <2>1, <2>4, Parts, CaredBy
  <2> QED
    BY <1>1, <2>2, <2>5, StillServes
<1> QED
  BY <1>2, <1>3

-----------------------------------------------------------------------------
(* Goroutines that begin.                                                    *)
LEMMA CallsFitBegin ==
  ASSUME CallsFit, UNCHANGED <<view, files, home, docs>>, threads \subseteq threads',
         \A x \in threads' : x \in threads \/ x.kind \notin {"open", "close"}
  PROVE  CallsFit'
<1>1. FilesFit'
  BY DEF CallsFit, FilesFit
<1>2. OpensFit'
  BY DEF CallsFit, OpensFit
<1>3. Barriers'
  BY DEF CallsFit, Barriers, Newest, OpenOf, CloseOf
<1> QED
  BY <1>1, <1>2, <1>3 DEF CallsFit

LEMMA CrashSeenServes ==
  ASSUME ManagerInv, ServeInv, NEW k \in Keys, CrashSeen(k)
  PROVE  ServeInv'
<1> DEFINE e == servers[k]
           n == entries[e].crashCount + 1
           u == [Thread("monitor", NoRoot, e, "backoff", k) EXCEPT !.docs = OpenDocs(e), !.crashes = n]
           over == n > MaxCrashRetries
<1>1. /\ UNCHANGED <<view, files, docs, home, pending, reconnects>> /\ cached' = cached
      /\ failed' = failed \cup {k} /\ servers' = [servers EXCEPT ![k] = 0] /\ e # 0
      /\ threads' = IF over THEN threads ELSE threads \cup {u}
      /\ Crosses(IF over THEN OpenDocs(e) ELSE {})
  BY DEF CrashSeen, editorVars, installVars
<1>2. cached
  BY <1>1, ServerNeedsCache
<1>3. u.kind = "monitor" /\ u.pc = "backoff" /\ u.key = k /\ u.docs = OpenDocs(e)
  BY DEF Thread
<1>4. \A x \in Procs : x # e => entries'[x] = entries[x]
  BY InvFacts DEF CrashSeen
<1> HIDE DEF u, over, n
<1>5. StepsFit'
  <2>1. StepFits(u)
    BY <1>3 DEF StepFits
  <2> QED
    BY <1>1, <2>1, Parts, StepsFitKept
<1>6. CallsFit' /\ Uncached'
  <2>1. threads \subseteq threads' /\ \A x \in threads' : x \in threads \/ x.kind \notin {"open", "close"}
    BY <1>1, <1>3
  <2> QED
    BY <1>1, <1>2, <2>1, Parts, CallsFitBegin, UncachedKept
<1>7. ASSUME NEW d \in files \ crossed', d \notin (IF over THEN OpenDocs(e) ELSE {}), Cares(d)
      PROVE  Cares(d)'
  <2>1. d \in Documents /\ DocsKept(d)
    BY <1>1, FilesAreDocuments DEF DocsKept
  <2>2. threads \subseteq threads' /\ \A x \in threads' : x \in threads \/ ~OpenOf(x, d)
    BY <1>1, <1>3 DEF OpenOf
  <2>3. ASSUME HasServer(d) PROVE Cares(d)'
    <3>1. CASE d \in OpenDocs(e) /\ home[d] = k
      <4>1. u \in threads'
        BY <1>1, <1>7, <3>1
      <4>2. Restarting(d)'
        BY <1>1, <1>3, <3>1, <4>1 DEF Restarting
      <4> QED
        BY <4>2 DEF Cares
    <3>2. CASE d \notin OpenDocs(e)
      BY <1>1, <1>4, <2>1, <2>2, <2>3, <3>2, ServerTaken, HasServerStill DEF Cares
    <3>3. CASE home[d] # k
      <4>1. servers[home[d]] # e
        BY <1>1, <2>1, <2>3, <3>3, HasServerFacts, ServerFacts
      <4>2. EntryHolds(servers[home[d]], d)
        <5> HIDE DEF e
        <5> QED
          BY <1>4, <2>1, <2>3, <4>1, OtherProcess
      <4>3. servers'[home[d]] = servers[home[d]]
        BY <1>1, <2>1, <2>3, <3>3, HasServerFacts, InvFacts
      <4> QED
        BY <1>1, <2>1, <2>2, <2>3, <4>2, <4>3, HasServerStill DEF Cares
    <3> QED
      BY <3>1, <3>2, <3>3
  <2> QED
    BY <1>1, <1>7, <2>1, <2>2, <2>3, CaresStill DEF Announced
<1>8. Cared'
  BY <1>1, <1>7, Parts, CaredBy
<1> QED
  BY <1>5, <1>6, <1>8, Whole

LEMMA InstallThread ==
  ASSUME NEW k
  PROVE  /\ Install(k).kind = "install" /\ Install(k).pc = "begin" /\ Install(k).key = k
         /\ StepFits(Install(k)) /\ Announces(Install(k), k)
BY DEF Install, Thread, StepFits, FamilySteps, Announces

LEMMA RetryUncached ==
  ASSUME Uncached, NEW k \in Keys, threads' = threads \cup {Install(k)}, ~provisioning, provisioning' = TRUE,
         UNCHANGED <<servers, reconnects, docs, cached>>
  PROVE  Uncached'
<1> SUFFICES ASSUME ~cached, NoServers, OneInstall, InOrder PROVE NoServers' /\ OneInstall' /\ InOrder'
  BY DEF Uncached
<1> DEFINE u == Install(k)
<1>1. threads' = threads \cup {u} /\ u.kind = "install" /\ u.pc = "begin"
  BY InstallThread
<1> HIDE DEF u
<1>2. NoServers'
  BY <1>1 DEF NoServers
<1>3. OneInstall'
  BY <1>1 DEF OneInstall
<1>4. InOrder'
  <2>1. ASSUME NEW x \in threads', x.kind = "open"
        PROVE  IF Current(x)' THEN ~docs'[x.doc].opened ELSE \E c \in threads' : Awaits(c, x)
    BY <1>1, <2>1 DEF InOrder, Current, Awaits
  <2>2. ASSUME NEW x \in threads', NEW y \in threads', x.kind = "open", OpenOf(y, x.doc), x.gen < y.gen
        PROVE  y.pc = "barrier"
    BY <1>1, <2>2 DEF InOrder, OpenOf
  <2> QED
    BY <2>1, <2>2 DEF InOrder, OpenOf, Awaits
<1> QED
  BY <1>2, <1>3, <1>4

LEMMA RetryProvisionServes ==
  ASSUME ManagerInv, ServeInv, NEW k \in Keys, RetryProvision(k)
  PROVE  ServeInv'
<1> DEFINE u == Install(k)
<1>1. /\ UNCHANGED <<view, files, docs, home, servers, entries, pending, reconnects, crossed>>
      /\ cached' = cached /\ failed' = failed \ {k} /\ threads' = threads \cup {u}
      /\ ~provisioning /\ provisioning' = TRUE
  BY DEF RetryProvision, editorVars, mapVars
<1>2. Uncached'
  BY <1>1, Parts, RetryUncached
<1>3. u.kind = "install" /\ StepFits(u) /\ Announces(u, k)
  BY InstallThread
<1> HIDE DEF u
<1>4. StepsFit' /\ CallsFit'
  BY <1>1, <1>3, Parts, StepsFitKept, CallsFitBegin
<1>5. ASSUME NEW d \in files \ crossed, Cares(d) PROVE Cares(d)'
  <2>1. d \in Documents /\ DocsKept(d)
    BY <1>1, FilesAreDocuments DEF DocsKept
  <2>2. threads \subseteq threads' /\ \A x \in threads' : x \in threads \/ ~OpenOf(x, d)
    BY <1>1, <1>3 DEF OpenOf
  <2>3. HasServer(d) => HasServer(d)'
    BY <1>1, <2>1, <2>2, HasServerStill DEF EntryHolds
  <2>4. home[d] \in failed => home[d] \in failed' \/ \E x \in threads' : Announces(x, home[d])
    BY <1>1, <1>3
  <2> QED
    BY <1>1, <1>5, <2>1, <2>2, <2>3, <2>4, CaresStill DEF Announced, Cares
<1>6. Cared'
  BY <1>1, <1>5, Parts, CaredStill
<1> QED
  BY <1>2, <1>4, <1>6, Whole

LEMMA SetInterpreterServes ==
  ASSUME ManagerInv, ServeInv, SetInterpreter
  PROVE  ServeInv'
<1> DEFINE u == Thread("override", NoRoot, acts, "restart", Main[view])
<1>1. /\ UNCHANGED <<view, files, docs, home, servers, entries, pending, failed, reconnects, crossed>>
      /\ cached' = cached /\ threads' = threads \cup {u} /\ servers[Main[view]] # 0
  BY DEF SetInterpreter, editorVars, mapVars, installVars, shownVars
<1>2. cached
  BY <1>1, ServerNeedsCache, MainAssumption, InvTypes DEF EditorTypeOK
<1>3. u.kind = "override" /\ StepFits(u)
  BY DEF Thread, StepFits
<1> HIDE DEF u
<1>4. StepsFit' /\ CallsFit' /\ Uncached'
  BY <1>1, <1>2, <1>3, Parts, StepsFitKept, CallsFitBegin, UncachedKept
<1>5. ASSUME NEW d \in files \ crossed, Cares(d) PROVE Cares(d)'
  <2>1. d \in Documents /\ DocsKept(d)
    BY <1>1, FilesAreDocuments DEF DocsKept
  <2>2. threads \subseteq threads' /\ \A x \in threads' : x \in threads \/ ~OpenOf(x, d)
    BY <1>1, <1>3 DEF OpenOf
  <2>3. HasServer(d) => HasServer(d)'
    BY <1>1, <2>1, <2>2, HasServerStill DEF EntryHolds
  <2> QED
    BY <1>1, <1>5, <2>1, <2>2, <2>3, CaresStill DEF Announced, Cares
<1>6. Cared'
  BY <1>1, <1>5, Parts, CaredStill
<1> QED
  BY <1>4, <1>6, Whole

-----------------------------------------------------------------------------
(* The editor.                                                               *)
LEMMA OpenCallFields ==
  ASSUME NEW d
  PROVE  /\ OpenCall(d).kind = "open" /\ OpenCall(d).doc = d /\ OpenCall(d).gen = docs[d].gen + 1
         /\ OpenCall(d).pc = "barrier" /\ OpenCall(d).key = home[d] /\ StepFits(OpenCall(d))
         /\ Opened(d).gen = docs[d].gen + 1 /\ Opened(d).tracked = TRUE /\ Opened(d).opened = FALSE
BY DEF OpenCall, Opened, Thread, StepFits, OpenSteps

(* Documents opened, once or again. *)
Opens(ds) ==
  /\ docs' = [d \in Documents |-> IF d \in ds THEN Opened(d) ELSE docs[d]]
  /\ threads' = threads \cup {OpenCall(d) : d \in ds}
  /\ files' = files \cup ds /\ \A d \in ds : home[d] \in Within[view]
  /\ UNCHANGED <<view, home>>

LEMMA OpensThreads ==
  ASSUME ManagerInv, NEW ds \in SUBSET Documents, Opens(ds)
  PROVE  /\ \A x \in threads' :
              \/ x \in threads
              \/ /\ x.kind = "open" /\ x.doc \in ds /\ x.gen = docs[x.doc].gen + 1 /\ x.pc = "barrier"
                 /\ x.key = home[x.doc] /\ x = OpenCall(x.doc) /\ StepFits(x)
         /\ threads \subseteq threads'
         /\ \A d \in ds : \E x \in threads' : x.kind = "open" /\ x.doc = d /\ x.gen = docs[d].gen + 1 /\ x.pc = "barrier"
         /\ \A d \in ds : docs'[d].gen = docs[d].gen + 1 /\ docs'[d].tracked /\ ~docs'[d].opened
         /\ \A d \in Documents \ ds : docs'[d] = docs[d]
         /\ \A d \in Documents : docs[d].gen \in Nat
<1>1. \A d \in ds : /\ OpenCall(d).kind = "open" /\ OpenCall(d).doc = d /\ OpenCall(d).gen = docs[d].gen + 1
                    /\ OpenCall(d).pc = "barrier" /\ OpenCall(d).key = home[d] /\ StepFits(OpenCall(d))
                    /\ Opened(d).gen = docs[d].gen + 1 /\ Opened(d).tracked = TRUE /\ Opened(d).opened = FALSE
  BY OpenCallFields
<1>2. \A d \in Documents : docs[d].gen \in Nat
  BY InvFacts DEF DocStates
<1> QED
  BY <1>1, <1>2 DEF Opens

LEMMA OpensStepsFit ==
  ASSUME ManagerInv, StepsFit, NEW ds \in SUBSET Documents, Opens(ds)
  PROVE  StepsFit'
<1>1. \A x \in threads' : x \in threads \/ StepFits(x)
  BY OpensThreads
<1> QED
  BY <1>1, StepsFitKept

LEMMA OpensCallsFit ==
  ASSUME ManagerInv, CallsFit, NEW ds \in SUBSET Documents, Opens(ds)
  PROVE  CallsFit'
<1>1. FilesFit'
  BY OpensThreads DEF CallsFit, FilesFit, Opens
<1>2. \A x \in threads' : x.kind \in {"open", "close"} => x.gen <= docs'[x.doc].gen
  <2> SUFFICES ASSUME NEW x \in threads', x.kind \in {"open", "close"} PROVE x.gen <= docs'[x.doc].gen
    OBVIOUS
  <2>1. CASE x \in threads
    <3>1. x.gen <= docs[x.doc].gen /\ x.gen \in Nat /\ docs[x.doc].gen \in Nat /\ x.doc \in Documents
      BY <2>1, CallTypes DEF CallsFit, OpensFit
    <3>2. docs'[x.doc].gen = docs[x.doc].gen \/ docs'[x.doc].gen = docs[x.doc].gen + 1
      BY <3>1, OpensThreads
    <3> QED
      BY <3>1, <3>2
  <2>2. CASE x \notin threads
    <3>1. x.doc \in ds /\ x.gen = docs[x.doc].gen + 1 /\ docs[x.doc].gen \in Nat
      BY <2>2, OpensThreads
    <3> QED
      BY <3>1, OpensThreads
  <2> QED
    BY <2>1, <2>2
<1>3. \A x \in threads' : x.kind = "open" => x.key = home'[x.doc]
  <2>1. \A x \in threads' : x \in threads \/ x.key = home[x.doc]
    BY OpensThreads
  <2>2. \A x \in threads : x.kind = "open" => x.key = home[x.doc]
    BY DEF CallsFit, OpensFit
  <2>3. home' = home
    BY DEF Opens
  <2> QED
    BY <2>1, <2>2, <2>3
<1>4. ASSUME NEW x \in threads', NEW y \in threads', x.kind = "open", y.kind = "open", x.doc = y.doc,
             x.gen = y.gen
      PROVE  x = y
  <2>1. CASE x \in threads /\ y \in threads
    BY <1>4, <2>1 DEF CallsFit, OpensFit
  <2>2. CASE x \notin threads /\ y \notin threads
    BY <1>4, <2>2, OpensThreads
  <2>3. ASSUME NEW a \in threads, NEW b \in threads', b \notin threads, a.kind = "open", b.kind = "open",
               a.doc = b.doc, a.gen = b.gen
        PROVE  FALSE
    <3>1. a.gen <= docs[a.doc].gen /\ a.gen \in Nat /\ docs[a.doc].gen \in Nat
      BY <2>3, CallTypes DEF CallsFit, OpensFit
    <3>2. b.gen = docs[a.doc].gen + 1
      BY <2>3, OpensThreads
    <3> QED
      BY <2>3, <3>1, <3>2
  <2> QED
    BY <1>4, <2>1, <2>2, <2>3
<1>5. OpensFit'
  BY <1>2, <1>3, <1>4 DEF OpensFit
<1>6. Barriers'
  <2> SUFFICES ASSUME NEW c \in threads', NEW d \in files', CloseOf(c, d)
               PROVE  /\ c.gen < docs'[d].gen /\ docs'[d].tracked
                      /\ \E w \in threads' : OpenOf(w, d) /\ w.gen = docs'[d].gen /\ w.pc = "barrier"
    BY DEF Barriers, Newest, OpenOf, CloseOf
  <2>1. c \in threads /\ d \in Documents /\ c.gen <= docs[d].gen /\ c.gen \in Nat /\ docs[d].gen \in Nat
    BY OpensThreads, CallTypes DEF CallsFit, OpensFit, CloseOf
  <2>2. CASE d \in ds
    <3>1. /\ docs'[d].gen = docs[d].gen + 1 /\ docs'[d].tracked
          /\ \E x \in threads' : x.kind = "open" /\ x.doc = d /\ x.gen = docs[d].gen + 1 /\ x.pc = "barrier"
      BY <2>2, OpensThreads
    <3>2. c.gen < docs[d].gen + 1
      BY <2>1
    <3> QED
      BY <3>1, <3>2 DEF OpenOf
  <2>3. CASE d \notin ds
    <3>1. d \in files /\ docs'[d] = docs[d] /\ threads \subseteq threads'
      BY <2>1, <2>3, OpensThreads DEF Opens
    <3>2. /\ c.gen < docs[d].gen /\ docs[d].tracked
          /\ \E w \in threads : OpenOf(w, d) /\ w.gen = docs[d].gen /\ w.pc = "barrier"
      BY <2>1, <3>1 DEF CallsFit, Barriers, Newest, OpenOf
    <3> QED
      BY <3>1, <3>2
  <2> QED
    BY <2>2, <2>3
<1> QED
  BY <1>1, <1>5, <1>6 DEF CallsFit

LEMMA OpensCares ==
  ASSUME ManagerInv, NEW ds \in SUBSET Documents, Opens(ds), NEW d \in Documents, d \in ds \/ Cares(d),
         UNCHANGED <<servers, entries, pending, failed>>, cached' = cached, Announced(d) => d \in ds \/ Announced(d)'
  PROVE  Cares(d)'
<1>1. CASE d \in ds
  <2>1. /\ docs'[d].gen = docs[d].gen + 1 /\ docs'[d].tracked
        /\ \E x \in threads' : x.kind = "open" /\ x.doc = d /\ x.gen = docs[d].gen + 1 /\ x.pc = "barrier"
    BY <1>1, OpensThreads
  <2>2. Opening(d)'
    BY <2>1 DEF Opening, Newest, OpenOf, OpeningSteps
  <2> QED
    BY <2>2 DEF Cares
<1>2. CASE d \notin ds
  <2>1. threads \subseteq threads' /\ (\A x \in threads' : x \in threads \/ ~OpenOf(x, d)) /\ DocsKept(d)
    BY <1>2, OpensThreads DEF OpenOf, DocsKept
  <2>2. HasServer(d) => HasServer(d)'
    BY <2>1, HasServerStill DEF EntryHolds, Opens
  <2> QED
    BY <1>2, <2>1, <2>2, CaresStill DEF Opens, Cares
<1> QED
  BY <1>1, <1>2

LEMMA OpenFileUncached ==
  ASSUME ManagerInv, CallsFit, Uncached, NEW ds \in SUBSET (Documents \ files), Opens(ds),
         UNCHANGED <<servers, reconnects, provisioning>>, cached' = cached
  PROVE  Uncached'
<1> SUFFICES ASSUME ~cached, NoServers, OneInstall, InOrder PROVE NoServers' /\ OneInstall' /\ InOrder'
  BY DEF Uncached
<1>1. NoServers'
  BY OpensThreads DEF NoServers
<1>2. OneInstall'
  BY OpensThreads DEF OneInstall
<1>3. ASSUME NEW x \in threads', x.kind = "open"
      PROVE  IF Current(x)' THEN ~docs'[x.doc].opened ELSE \E c \in threads' : Awaits(c, x)
  <2>1. CASE x \notin threads
    <3>1. x.doc \in ds
      BY <2>1, OpensThreads
    <3> QED
      BY <2>1, <3>1, OpensThreads DEF Current
  <2>2. CASE x \in threads /\ x.doc \in ds
    <3>1. ~Current(x)
      BY <2>2 DEF CallsFit, FilesFit, Current
    <3>2. \E c \in threads' : Awaits(c, x)
      BY <1>3, <2>2, <3>1, OpensThreads DEF InOrder
    <3>3. x.gen <= docs[x.doc].gen /\ x.gen \in Nat /\ docs[x.doc].gen \in Nat
      BY <1>3, <2>2, CallTypes DEF CallsFit, OpensFit
    <3>4. docs'[x.doc].gen = docs[x.doc].gen + 1
      BY <2>2, OpensThreads
    <3>5. ~Current(x)'
      BY <3>3, <3>4 DEF Current
    <3> QED
      BY <3>2, <3>5
  <2>3. CASE x \in threads /\ x.doc \notin ds
    <3>1. docs'[x.doc] = docs[x.doc] /\ threads \subseteq threads'
      BY <1>3, <2>3, CallTypes, OpensThreads
    <3> QED
      BY <1>3, <2>3, <3>1 DEF InOrder, Current
  <2> QED
    BY <2>1, <2>2, <2>3
<1>4. ASSUME NEW x \in threads', NEW y \in threads', x.kind = "open", OpenOf(y, x.doc), x.gen < y.gen
      PROVE  y.pc = "barrier"
  <2>1. CASE y \notin threads
    BY <2>1, OpensThreads
  <2>2. CASE y \in threads /\ x \in threads
    BY <1>4, <2>2 DEF InOrder
  <2>3. CASE y \in threads /\ x \notin threads
    <3>1. y.gen <= docs[x.doc].gen /\ y.gen \in Nat /\ docs[x.doc].gen \in Nat
      BY <1>4, <2>3, CallTypes DEF CallsFit, OpensFit, OpenOf
    <3>2. x.gen = docs[x.doc].gen + 1
      BY <2>3, OpensThreads
    <3> QED
      BY <1>4, <3>1, <3>2
  <2> QED
    BY <2>1, <2>2, <2>3
<1>5. InOrder'
  BY <1>3, <1>4 DEF InOrder, OpenOf, Awaits
<1> QED
  BY <1>1, <1>2, <1>5

LEMMA OpenFileServes ==
  ASSUME ManagerInv, ServeInv, NEW d \in Documents, OpenFile(d)
  PROVE  ServeInv'
<1> DEFINE ds == {d}
<1>1. /\ UNCHANGED <<view, home, servers, entries, pending, failed, reconnects, provisioning>>
      /\ cached' = cached /\ crossed' = crossed \ ds /\ ds \in SUBSET (Documents \ files)
  BY DEF OpenFile, mapVars, installVars, shownVars
<1>2. Opens(ds)
  <2>1. docs' = [x \in Documents |-> IF x \in ds THEN Opened(x) ELSE docs[x]]
    BY InvFacts DEF OpenFile
  <2>2. threads' = threads \cup {OpenCall(x) : x \in ds}
    BY DEF OpenFile
  <2> QED
    BY <1>1, <2>1, <2>2 DEF OpenFile, Opens
<1> HIDE DEF ds
<1>3. StepsFit' /\ CallsFit' /\ Uncached'
  BY <1>1, <1>2, Parts, OpensStepsFit, OpensCallsFit, OpenFileUncached
<1>4. Cared'
  <2>1. ASSUME NEW x \in files' \ crossed' PROVE Cares(x)'
    <3>1. x \in Documents /\ (x \in ds \/ Cares(x))
      BY <1>1, <1>2, <2>1, Parts, FilesAreDocuments DEF Cared, Opens
    <3> QED
      BY <1>1, <1>2, <3>1, OpensCares DEF Announced
  <2> QED
    BY <2>1 DEF Cared
<1> QED
  BY <1>3, <1>4, Whole

LEMMA ReconnectServes ==
  ASSUME ManagerInv, ServeInv, NEW r \in reconnects, Reconnect(r)
  PROVE  ServeInv'
<1> DEFINE ds == IF r.key \in Within[view] THEN r.docs \cap files ELSE {}
<1>1. /\ UNCHANGED <<view, files, home, servers, entries, pending, failed>>
      /\ cached' = cached /\ crossed' = crossed \ ds /\ ds \in SUBSET files
      /\ reconnects' = reconnects \ {r}
  BY DEF Reconnect, mapVars, installVars
<1>2. Opens(ds)
  BY <1>1, Parts, FilesAreDocuments DEF Reconnect, Opens, FilesFit
<1>3. \A d \in files : d \in r.docs /\ r.key = home[d] => d \in ds
  BY Parts, FilesAreDocuments DEF FilesFit
<1> HIDE DEF ds
<1>4. cached
  BY DEF ServeInv, Uncached, NoServers
<1>5. ds \in SUBSET Documents
  BY <1>1, FilesAreDocuments
<1>6. StepsFit' /\ CallsFit' /\ Uncached'
  BY <1>1, <1>2, <1>4, <1>5, Parts, OpensStepsFit, OpensCallsFit, UncachedKept
<1>7. Cared'
  <2>1. ASSUME NEW d \in files' \ crossed' PROVE Cares(d)'
    <3>1. d \in Documents /\ (d \in ds \/ Cares(d)) /\ d \in files
      BY <1>1, <2>1, Parts, FilesAreDocuments DEF Cared
    <3>2. Announced(d) => d \in ds \/ Announced(d)'
      BY <1>1, <1>3, <3>1 DEF Announced
    <3> QED
      BY <1>1, <1>2, <1>5, <3>1, <3>2, OpensCares
  <2> QED
    BY <2>1 DEF Cared
<1> QED
  BY <1>6, <1>7, Whole

(* Documents closed. *)
Closes(ds) ==
  /\ Forgets(ds) /\ threads' = threads \cup CloseCalls(ds) /\ files' = files \ ds
  /\ home' = home /\ (view' = view \/ files' = {})

LEMMA CloseCallFields ==
  ASSUME NEW d, NEW n, NEW pc \in {"close", "await"}
  PROVE  /\ Thread("close", d, n, pc, NoRoot).kind = "close" /\ Thread("close", d, n, pc, NoRoot).doc = d
         /\ Thread("close", d, n, pc, NoRoot).gen = n /\ Thread("close", d, n, pc, NoRoot).pc = pc
         /\ StepFits(Thread("close", d, n, pc, NoRoot))
BY DEF Thread, StepFits, CloseSteps

LEMMA ClosesThreads ==
  ASSUME ManagerInv, NEW ds \in SUBSET Documents, Closes(ds)
  PROVE  /\ \A x \in threads' :
              \/ x \in threads
              \/ /\ x.kind = "close" /\ x.doc \in ds /\ x.gen = docs[x.doc].gen /\ x.pc \in {"close", "await"}
                 /\ StepFits(x)
         /\ threads \subseteq threads'
         /\ \A d \in ds : docs[d].tracked /\ ~docs[d].opened =>
              \E c \in threads' : c.kind = "close" /\ c.doc = d /\ c.gen = docs[d].gen /\ c.pc = "await"
         /\ \A d \in Documents : docs'[d].gen = docs[d].gen /\ docs'[d].opened = docs[d].opened
         /\ \A d \in ds : docs'[d].tracked = FALSE
         /\ \A d \in Documents \ ds : docs'[d] = docs[d]
<1> DEFINE pcOf(d) == IF docs[d].opened THEN "close" ELSE "await"
           call(d) == Thread("close", d, docs[d].gen, pcOf(d), NoRoot)
<1>1. \A d : /\ call(d).kind = "close" /\ call(d).doc = d /\ call(d).gen = docs[d].gen
             /\ call(d).pc = pcOf(d) /\ pcOf(d) \in {"close", "await"} /\ StepFits(call(d))
             /\ ~docs[d].opened => pcOf(d) = "await"
  <2> TAKE d
  <2>1. pcOf(d) \in {"close", "await"} /\ (~docs[d].opened => pcOf(d) = "await")
    OBVIOUS
  <2> HIDE DEF pcOf
  <2> QED
    BY <2>1, CloseCallFields
<1>2. threads' = threads \cup {call(d) : d \in {x \in ds : docs[x].tracked}}
  BY DEF Closes, CloseCalls
<1>3. /\ \A d \in Documents : docs'[d].gen = docs[d].gen /\ docs'[d].opened = docs[d].opened
      /\ \A d \in ds : docs'[d].tracked = FALSE
      /\ \A d \in Documents \ ds : docs'[d] = docs[d]
  BY InvFacts DEF Closes, Forgets, DocStates
<1> HIDE DEF pcOf, call
<1> QED
  BY <1>1, <1>2, <1>3

LEMMA ClosesCallsFit ==
  ASSUME ManagerInv, CallsFit, NEW ds \in SUBSET Documents, Closes(ds)
  PROVE  CallsFit'
<1>1. FilesFit'
  <2>1. \A d \in Documents : docs'[d].tracked => d \in files'
    BY ClosesThreads DEF CallsFit, FilesFit, Closes
  <2>2. \A d \in Documents : d \in files' => home'[d] \in Within[view']
    BY DEF CallsFit, FilesFit, Closes
  <2> QED
    BY <2>1, <2>2 DEF FilesFit
<1>2. OpensFit'
  <2>1. ASSUME NEW x \in threads', x.kind \in {"open", "close"} PROVE x.gen <= docs'[x.doc].gen
    <3>1. CASE x \in threads
      BY <2>1, <3>1, CallTypes, ClosesThreads DEF CallsFit, OpensFit
    <3>2. CASE x \notin threads
      <4>1. x.doc \in ds /\ x.gen = docs[x.doc].gen /\ docs'[x.doc].gen = docs[x.doc].gen
        BY <3>2, ClosesThreads
      <4>2. docs[x.doc].gen \in Nat
        BY <4>1, InvFacts DEF DocStates
      <4> QED
        BY <4>1, <4>2
    <3> QED
      BY <3>1, <3>2
  <2>2. \A x \in threads' : x.kind = "open" => x \in threads
    BY ClosesThreads
  <2>3. home' = home
    BY DEF Closes
  <2>4. \A x \in threads' : x.kind = "open" => x.key = home'[x.doc]
    BY <2>2, <2>3 DEF CallsFit, OpensFit
  <2>5. \A x, y \in threads' :
          x.kind = "open" /\ y.kind = "open" /\ x.doc = y.doc /\ x.gen = y.gen => x = y
    BY <2>2 DEF CallsFit, OpensFit
  <2> QED
    BY <2>1, <2>4, <2>5 DEF OpensFit
<1>3. Barriers'
  <2> SUFFICES ASSUME NEW c \in threads', NEW d \in files', CloseOf(c, d)
               PROVE  /\ c.gen < docs'[d].gen /\ docs'[d].tracked
                      /\ \E w \in threads' : OpenOf(w, d) /\ w.gen = docs'[d].gen /\ w.pc = "barrier"
    BY DEF Barriers, Newest, OpenOf, CloseOf
  <2>1. d \in files /\ d \notin ds /\ d \in Documents
    BY FilesAreDocuments DEF Closes
  <2>2. c \in threads /\ docs'[d] = docs[d] /\ threads \subseteq threads'
    BY <2>1, ClosesThreads DEF CloseOf
  <2>3. /\ c.gen < docs[d].gen /\ docs[d].tracked
        /\ \E w \in threads : OpenOf(w, d) /\ w.gen = docs[d].gen /\ w.pc = "barrier"
    BY <2>1, <2>2 DEF CallsFit, Barriers, Newest, OpenOf
  <2> QED
    BY <2>2, <2>3
<1> QED
  BY <1>1, <1>2, <1>3 DEF CallsFit

LEMMA ClosesUncached ==
  ASSUME ManagerInv, Uncached, NEW ds \in SUBSET Documents, Closes(ds),
         UNCHANGED <<servers, reconnects, provisioning>>, cached' = cached
  PROVE  Uncached'
<1> SUFFICES ASSUME ~cached, NoServers, OneInstall, InOrder PROVE NoServers' /\ OneInstall' /\ InOrder'
  BY DEF Uncached
<1>1. NoServers'
  BY ClosesThreads DEF NoServers
<1>2. OneInstall'
  <2>1. \A x \in threads' : x \in threads \/ x.kind = "close"
    BY ClosesThreads
  <2>2. threads \subseteq threads'
    BY ClosesThreads
  <2> QED
    BY <2>1, <2>2 DEF OneInstall
<1>3. \A x \in threads' : x.kind = "open" => x \in threads /\ x.doc \in Documents
  BY ClosesThreads, CallTypes
<1>4. ASSUME NEW x \in threads', x.kind = "open"
      PROVE  IF Current(x)' THEN ~docs'[x.doc].opened ELSE \E c \in threads' : Awaits(c, x)
  <2>1. CASE x.doc \notin ds
    <3>1. x.doc \in Documents \ ds
      BY <1>3, <1>4, <2>1
    <3>2. docs'[x.doc] = docs[x.doc] /\ threads \subseteq threads'
      BY <3>1, ClosesThreads
    <3> QED
      BY <1>3, <1>4, <3>2 DEF InOrder, Current
  <2>2. CASE x.doc \in ds /\ Current(x)
    <3>1. docs[x.doc].tracked /\ ~docs[x.doc].opened /\ docs[x.doc].gen = x.gen
      BY <1>3, <1>4, <2>2 DEF InOrder, Current
    <3>2. \E c \in threads' : c.kind = "close" /\ c.doc = x.doc /\ c.gen = docs[x.doc].gen /\ c.pc = "await"
      BY <2>2, <3>1, ClosesThreads
    <3>3. \E c \in threads' : Awaits(c, x)
      BY <3>1, <3>2 DEF Awaits
    <3>4. ~Current(x)'
      BY <2>2, ClosesThreads DEF Current
    <3> QED
      BY <3>3, <3>4
  <2>3. CASE x.doc \in ds /\ ~Current(x)
    <3>1. \E c \in threads' : Awaits(c, x)
      BY <1>3, <1>4, <2>3, ClosesThreads DEF InOrder
    <3>2. ~Current(x)'
      BY <2>3, ClosesThreads DEF Current
    <3> QED
      BY <3>1, <3>2
  <2> QED
    BY <2>1, <2>2, <2>3
<1>5. \A x, y \in threads' : x.kind = "open" /\ OpenOf(y, x.doc) /\ x.gen < y.gen => y.pc = "barrier"
  BY <1>3 DEF InOrder, OpenOf
<1>6. InOrder'
  BY <1>4, <1>5 DEF InOrder, OpenOf, Awaits
<1> QED
  BY <1>1, <1>2, <1>6

LEMMA ClosesServe ==
  ASSUME ManagerInv, ServeInv, NEW ds \in SUBSET Documents, Closes(ds),
         UNCHANGED <<servers, entries, pending, failed, reconnects, provisioning, crossed>>, cached' = cached
  PROVE  ServeInv'
<1>1. StepsFit'
  <2>1. \A x \in threads' : x \in threads \/ StepFits(x)
    BY ClosesThreads
  <2> QED
    BY <2>1, Parts, StepsFitKept
<1>2. CallsFit' /\ Uncached'
  BY Parts, ClosesCallsFit, ClosesUncached
<1>3. Cared'
  <2>1. /\ threads \subseteq threads' /\ \A x \in threads' : x \in threads \/ x.kind = "close"
        /\ \A d \in Documents \ ds : docs'[d] = docs[d]
    BY ClosesThreads
  <2>2. ASSUME NEW d \in files' \ crossed' PROVE Cares(d)'
    <3>1. d \in Documents /\ d \notin ds /\ Cares(d)
      BY <2>2, Parts, FilesAreDocuments DEF Closes, Cared
    <3>2. threads \subseteq threads' /\ docs'[d] = docs[d] /\ home' = home
      BY <3>1, <2>1 DEF Closes
    <3>3. (\A x \in threads' : x \in threads \/ ~OpenOf(x, d)) /\ DocsKept(d)
      BY <2>1, <3>2 DEF OpenOf, DocsKept
    <3>4. HasServer(d) => HasServer(d)'
      BY <3>1, <3>2, HasServerStill DEF EntryHolds
    <3> QED
      BY <3>1, <3>2, <3>3, <3>4, CaresStill DEF Announced, Cares
  <2> QED
    BY <2>2 DEF Cared
<1> QED
  BY <1>1, <1>2, <1>3, Whole

LEMMA CloseFileServes ==
  ASSUME ManagerInv, ServeInv, NEW d \in Documents, CloseFile(d)
  PROVE  ServeInv'
<1>1. /\ UNCHANGED <<servers, entries, pending, failed, reconnects, provisioning, crossed>> /\ cached' = cached
      /\ Closes({d}) /\ {d} \in SUBSET Documents
  BY DEF CloseFile, Closes, mapVars, installVars, shownVars
<1> QED
  BY <1>1, ClosesServe

LEMMA SwitchViewServes ==
  ASSUME ManagerInv, ServeInv, NEW w \in Workspaces, SwitchView(w)
  PROVE  ServeInv'
<1>1. /\ UNCHANGED <<servers, entries, pending, failed, reconnects, provisioning, crossed>> /\ cached' = cached
      /\ Closes(Documents)
  BY FilesAreDocuments DEF SwitchView, Closes, mapVars, installVars, shownVars
<1> QED
  BY <1>1, ClosesServe

-----------------------------------------------------------------------------
(* Loads.                                                                    *)
Alike(x, y) ==
  x.kind = y.kind /\ x.doc = y.doc /\ x.pc = y.pc /\ x.key = y.key /\ x.entry = y.entry

LEMMA CutThreads ==
  ASSUME ManagerInv, threads' = Cut(threads)
  PROVE  /\ \A x \in threads : x.kind \notin {"install", "override"} => x \in threads'
         /\ \A x \in threads' : x.kind \notin {"install", "override"} => x \in threads
         /\ \A x \in threads' : \E y \in threads : Alike(x, y)
         /\ \A y \in threads : \E x \in threads' : Alike(x, y)
         /\ (\A x, y \in threads : x.kind = "install" /\ y.kind = "install" => x = y) =>
              \A x, y \in threads' : x.kind = "install" /\ y.kind = "install" => x = y
<1> DEFINE Cutting(t) == IF t.kind \in {"install", "override"} THEN [t EXCEPT !.cut = TRUE] ELSE t
<1>1. \A t \in threads : Alike(Cutting(t), t) /\ (t.kind \notin {"install", "override"} => Cutting(t) = t)
  <2> TAKE t \in threads
  <2>1. t \in ThreadRecords
    BY ThreadKey
  <2>2. [t EXCEPT !.cut = TRUE].kind = t.kind /\ [t EXCEPT !.cut = TRUE].pc = t.pc
        /\ [t EXCEPT !.cut = TRUE].doc = t.doc
        /\ [t EXCEPT !.cut = TRUE].key = t.key /\ [t EXCEPT !.cut = TRUE].entry = t.entry
    BY <2>1 DEF ThreadRecords
  <2> QED
    BY <2>2 DEF Alike
<1>2. threads' = {Cutting(t) : t \in threads}
  BY DEF Cut
<1> HIDE DEF Cutting
<1> QED
  BY <1>1, <1>2 DEF Alike

LEMMA CutFits ==
  ASSUME ManagerInv, ServeInv, threads' = Cut(threads), UNCHANGED <<view, files, docs, home>>,
         UNCHANGED <<servers, reconnects, provisioning>>, cached' = cached
  PROVE  StepsFit' /\ CallsFit' /\ Uncached'
<1>1. StepsFit'
  <2>1. \A x \in threads' : StepFits(x)
    BY CutThreads DEF ServeInv, StepsFit, StepFits, Alike
  <2> QED
    BY <2>1 DEF StepsFit
<1>2. /\ \A x \in threads : x.kind \in {"open", "close"} => x \in threads'
      /\ \A x \in threads' : x.kind \in {"open", "close"} => x \in threads
  BY CutThreads
<1>3. CallsFit'
  <2>1. FilesFit'
    BY Parts DEF FilesFit
  <2>2. OpensFit'
    BY <1>2, Parts DEF OpensFit
  <2>3. Barriers'
    BY <1>2, Parts DEF Barriers, Newest, OpenOf, CloseOf
  <2> QED
    BY <2>1, <2>2, <2>3 DEF CallsFit
<1>4. ASSUME ~cached, NoServers, OneInstall, InOrder PROVE NoServers' /\ OneInstall' /\ InOrder'
  <2>1. NoServers'
    BY <1>4, CutThreads DEF NoServers, Alike
  <2>2. OneInstall'
    <3>1. provisioning' <=> \E t \in threads' : t.kind = "install"
      BY <1>4, CutThreads DEF OneInstall, Alike
    <3>2. \A x, y \in threads' : x.kind = "install" /\ y.kind = "install" => x = y
      BY <1>4, CutThreads DEF OneInstall
    <3> QED
      BY <3>1, <3>2 DEF OneInstall
  <2>3. InOrder'
    <3>1. ASSUME NEW x \in threads', x.kind = "open"
          PROVE  IF Current(x)' THEN ~docs'[x.doc].opened ELSE \E c \in threads' : Awaits(c, x)
      BY <1>2, <1>4, <3>1 DEF InOrder, Current, Awaits
    <3>2. \A x, y \in threads' : x.kind = "open" /\ OpenOf(y, x.doc) /\ x.gen < y.gen => y.pc = "barrier"
      BY <1>2, <1>4 DEF InOrder, OpenOf
    <3> QED
      BY <3>1, <3>2 DEF InOrder, OpenOf, Awaits
  <2> QED
    BY <2>1, <2>2, <2>3
<1>5. Uncached'
  BY <1>4, Parts DEF Uncached
<1> QED
  BY <1>1, <1>3, <1>5

LEMMA CutCares ==
  ASSUME ManagerInv, threads' = Cut(threads), NEW d \in Documents, Cares(d),
         UNCHANGED <<docs, home, servers, entries, failed, reconnects>>, cached' = cached,
         \A k \in Keys : d \in pending[k] => d \in pending'[k]
  PROVE  Cares(d)'
<1>1. Opening(d) => Opening(d)'
  BY CutThreads, CallTypes DEF Opening, Newest, OpenOf
<1>2. WaitsInstall(d) => WaitsInstall(d)'
  <2> SUFFICES ASSUME WaitsInstall(d) PROVE WaitsInstall(d)'
    OBVIOUS
  <2>1. home[d] \in Keys
    BY InvTypes DEF EditorTypeOK
  <2>2. \A x \in threads' : ~OpenOf(x, d)
    BY CutThreads DEF WaitsInstall, OpenOf
  <2>3. (\E x \in threads : Announces(x, home[d])) => \E x \in threads' : Announces(x, home[d])
    BY CutThreads DEF Announces, Alike
  <2> QED
    BY <2>1, <2>2, <2>3 DEF WaitsInstall, OpenOf, Announces
<1>3. Announced(d) => Announced(d)'
  BY DEF Announced
<1>4. HasServer(d) => HasServer(d)'
  <2> SUFFICES ASSUME HasServer(d) PROVE HasServer(d)'
    OBVIOUS
  <2> DEFINE e == servers[home[d]]
  <2>1. (\E x \in threads : Sending(x, d, e)) => \E x \in threads' : Sending(x, d, e)
    BY CutThreads DEF Sending, Alike
  <2> QED
    BY <2>1 DEF HasServer, Sending
<1>5. Restarting(d) => Restarting(d)'
  BY CutThreads DEF Restarting
<1> QED
  BY <1>1, <1>2, <1>3, <1>4, <1>5 DEF Cares

LEMMA ShutdownAllServes ==
  ASSUME ManagerInv, ServeInv, ShutdownAll
  PROVE  ServeInv'
<1>1. /\ UNCHANGED <<view, files, docs, home, servers, entries, failed, reconnects, provisioning>>
      /\ cached' = cached /\ threads' = Cut(threads) /\ Crosses(UNION {pending[k] : k \in Keys})
  BY DEF ShutdownAll, installVars, shownVars
<1>2. StepsFit' /\ CallsFit' /\ Uncached'
  BY <1>1, CutFits
<1>3. ASSUME NEW d \in files \ crossed', d \notin UNION {pending[k] : k \in Keys}, Cares(d) PROVE Cares(d)'
  BY <1>1, <1>3, CutCares, FilesAreDocuments
<1>4. Cared'
  BY <1>1, <1>3, Parts, CaredBy
<1> QED
  BY <1>2, <1>4, Whole

LEMMA SetWorkspaceRootServes ==
  ASSUME ManagerInv, ServeInv, SetWorkspaceRoot
  PROVE  ServeInv'
<1>1. /\ UNCHANGED <<view, files, docs, home, servers, entries, pending, failed, reconnects, provisioning>>
      /\ cached' = cached /\ threads' = Cut(threads) /\ crossed' = crossed
  BY DEF SetWorkspaceRoot, editorVars, mapVars, installVars, shownVars
<1>2. StepsFit' /\ CallsFit' /\ Uncached'
  BY <1>1, CutFits
<1>3. ASSUME NEW d \in files \ crossed, Cares(d) PROVE Cares(d)'
  BY <1>1, <1>3, CutCares, FilesAreDocuments
<1>4. Cared'
  BY <1>1, <1>3, Parts, CaredStill
<1> QED
  BY <1>2, <1>4, Whole

-----------------------------------------------------------------------------
(* Closes on their way. A close serves nobody: a file open again has its open behind it. *)
LEMMA CloseServes ==
  ASSUME ManagerInv, ServeInv, NEW t \in threads, t.kind = "close", NEW u, Forward(t, u),
         UNCHANGED <<view, files, docs, home, failed, reconnects, crossed>>, cached' = cached,
         StepsFit', Uncached',
         \A d \in Documents \ {t.doc} :
           /\ \A k \in Keys : d \in pending[k] => d \in pending'[k]
           /\ HasServer(d) =>
                servers'[home[d]] = servers[home[d]] /\ EntryHolds(servers[home[d]], d)
  PROVE  ServeInv'
<1>1. CallsFit'
  BY Parts, CallsFitKept DEF DocsGoOn
<1>2. ASSUME NEW d \in files \ crossed, Cares(d) PROVE Cares(d)'
  <2>1. d \in Documents /\ home[d] \in Keys
    BY FilesAreDocuments, InvTypes DEF EditorTypeOK
  <2>2. CASE d = t.doc
    <3>1. docs[d].tracked /\ \E w \in threads : OpenOf(w, d) /\ w.gen = docs[d].gen /\ w.pc = "barrier"
      BY <2>2, Parts DEF Barriers, Newest, CloseOf
    <3>2. \E w \in threads' : OpenOf(w, d) /\ w.gen = docs[d].gen /\ w.pc = "barrier"
      BY <3>1 DEF Forward, OpenOf
    <3>3. Opening(d)'
      BY <3>1, <3>2 DEF Opening, Newest, OpenOf, OpeningSteps
    <3> QED
      BY <3>3 DEF Cares
  <2>3. CASE d # t.doc
    <3>1. Stays(t, u, d) /\ DocsKept(d)
      BY DEF Stays, Carries, Newest, OpenOf, Announces, DocsKept
    <3>2. ~Sending(t, d, servers[home[d]])
      BY SendingOpens
    <3>3. WaitsInstall(d) => d \in pending'[home[d]]
      BY <2>1, <2>3 DEF WaitsInstall
    <3> QED
      BY <1>2, <2>1, <2>3, <3>1, <3>2, <3>3, CaresOn
  <2> QED
    BY <2>2, <2>3
<1>3. Cared'
  BY <1>2, Parts, CaredStill
<1> QED
  BY <1>1, <1>3, Whole

(* A close that waits for no answer ends. *)
LEMMA CloseEndsUncached ==
  ASSUME Uncached, NEW t \in threads, Ends(t), t.kind = "close", t.pc # "await",
         UNCHANGED <<servers, reconnects, provisioning, docs, cached>>
  PROVE  Uncached'
<1> SUFFICES ASSUME ~cached, NoServers, OneInstall, InOrder PROVE NoServers' /\ OneInstall' /\ InOrder'
  BY DEF Uncached
<1>1. threads' = threads \ {t}
  BY DEF Ends
<1>2. NoServers'
  BY <1>1 DEF NoServers
<1>3. OneInstall'
  BY <1>1 DEF OneInstall
<1>4. InOrder'
  <2>1. ASSUME NEW x \in threads', x.kind = "open"
        PROVE  IF Current(x)' THEN ~docs'[x.doc].opened ELSE \E c \in threads' : Awaits(c, x)
    BY <1>1, <2>1 DEF InOrder, Current, Awaits
  <2>2. ASSUME NEW x \in threads', NEW y \in threads', x.kind = "open", OpenOf(y, x.doc), x.gen < y.gen
        PROVE  y.pc = "barrier"
    BY <1>1, <2>2 DEF InOrder, OpenOf
  <2> QED
    BY <2>1, <2>2 DEF InOrder, OpenOf, Awaits
<1> QED
  BY <1>2, <1>3, <1>4

LEMMA DidCloseServes ==
  ASSUME ManagerInv, ServeInv, NEW t \in threads, DidClose(t)
  PROVE  ServeInv'
<1> DEFINE d == t.doc
           e == IF docKeys[d] = NoRoot THEN 0 ELSE servers[docKeys[d]]
           n == IF e = 0 THEN 0 ELSE entries[e].open[d]
<1>1. t.kind = "close" /\ t.pc = "close" /\ t \in ThreadRecords /\ d \in Documents
  BY ThreadKey DEF DidClose
<1>2. /\ UNCHANGED <<view, files, docs, home, servers, failed, reconnects, crossed>>
      /\ UNCHANGED <<cached, provisioning>>
  BY DEF DidClose, editorVars, installVars, shownVars
<1>3. pending' = Untracked(d) \/ pending' = pending
  BY DEF DidClose
<1>4. \A x \in Documents \ {d} : \A k \in Keys : x \in pending[k] => x \in pending'[k]
  BY <1>3 DEF Untracked
<1>5. CASE Ends(t) /\ entries' = entries
  <2>1. Forward(t, t)
    BY <1>5, EndsForward
  <2>2. StepsFit' /\ Uncached'
    BY <1>1, <1>2, <1>5, Parts, StepsFitKept, CloseEndsUncached DEF Ends
  <2> QED
    BY <1>1, <1>2, <1>4, <1>5, <2>1, <2>2, CloseServes DEF EntryHolds
<1>6. CASE n > 0 /\ entries' = [entries EXCEPT ![e].open[d] = n - 1]
  <2> DEFINE u == [t EXCEPT !.pc = IF OpenDocs(e) = {d} THEN "tell last" ELSE "tell",
                            !.key = docKeys[d], !.entry = e]
  <2>1. Ends(t) \/ Becomes(t, u)
    BY <1>6 DEF DidClose
  <2>2. Same(t, u) /\ u.pc \in {"tell", "tell last"}
    BY <1>1 DEF Same, ThreadRecords
  <2>3. cached
    BY <1>1, <1>6, ServerNeedsCache, InvFacts
  <2>4. \A x \in Documents \ {d} : HasServer(x) => EntryHolds(servers[home[x]], x)
    <3> DEFINE r == [entries[e] EXCEPT !.open[d] = n - 1]
    <3>1. entries' = [entries EXCEPT ![e] = r]
      BY <1>6
    <3>2. /\ \A x \in Documents \ {d} : r.open[x] = entries[e].open[x]
          /\ r.told = entries[e].told /\ r.client = entries[e].client
      OBVIOUS
    <3> HIDE DEF r, n, e, d
    <3>3. \A x \in Documents \ {d} : \A p \in Procs : EntryHolds(p, x)
      BY <3>1, <3>2, InvFacts DEF EntryHolds
    <3> QED
      BY <3>3, HasServerFacts
  <2> HIDE DEF u
  <2>5. PICK v : Forward(t, v)
    BY <2>1, <2>2, EndsForward, BecomesForward
  <2>6. StepsFit'
    <3>1. StepFits(u)
      BY <1>1, <2>2 DEF Same, StepFits, CloseSteps
    <3> QED
      BY <2>1, <3>1, Parts, StepsFitKept DEF Ends, Becomes
  <2> QED
    BY <1>1, <1>2, <1>4, <2>3, <2>4, <2>5, <2>6, CloseServes, UncachedKept
<1> QED
  BY <1>5, <1>6 DEF DidClose

LEMMA TellsClosedServes ==
  ASSUME ManagerInv, ServeInv, NEW t \in threads, TellsClosed(t)
  PROVE  ServeInv'
<1>1. t \in ThreadRecords /\ t.kind = "close" /\ t.pc \in {"tell", "tell last"} /\ cached
  <2>1. t \in ThreadRecords /\ t.kind \in Kinds /\ t.pc \in {"tell", "tell last"}
    BY ThreadKey DEF TellsClosed, ThreadRecords
  <2> QED
    BY <2>1, StepOf, NeedsCache DEF StepFits, OpenSteps, FamilySteps, StartSteps, Kinds
<1>2. /\ UNCHANGED <<view, files, docs, home, servers, pending, failed, reconnects, crossed>> /\ cached' = cached
      /\ entries' = [entries EXCEPT ![t.entry].told = @ \ {t.doc}]
  BY DEF TellsClosed, editorVars, installVars, shownVars
<1>3. \A x \in Documents \ {t.doc} : HasServer(x) => EntryHolds(servers[home[x]], x)
  <2> DEFINE r == [entries[t.entry] EXCEPT !.told = @ \ {t.doc}]
  <2>1. entries' = [entries EXCEPT ![t.entry] = r]
    BY <1>2
  <2>2. t.entry \in Procs =>
          /\ r.open = entries[t.entry].open /\ r.told = entries[t.entry].told \ {t.doc}
          /\ r.client = entries[t.entry].client
    BY InvFacts DEF Entries
  <2> HIDE DEF r
  <2>3. \A x \in Documents \ {t.doc} : \A p \in Procs : EntryHolds(p, x)
    BY <2>1, <2>2, InvFacts DEF EntryHolds
  <2> QED
    BY <2>3, HasServerFacts
<1> DEFINE u == [t EXCEPT !.pc = "ifempty"]
<1>4. Ends(t) \/ Becomes(t, u)
  BY DEF TellsClosed, Goes
<1>5. Same(t, u) /\ u.pc = "ifempty"
  BY <1>1, StepTo
<1> HIDE DEF u
<1>6. PICK v : Forward(t, v)
  BY <1>4, <1>5, EndsForward, BecomesForward
<1>7. StepsFit'
  <2>1. StepFits(u)
    BY <1>1, <1>5 DEF Same, StepFits, CloseSteps
  <2> QED
    BY <1>4, <2>1, Parts, StepsFitKept DEF Ends, Becomes
<1> QED
  BY <1>1, <1>2, <1>3, <1>6, <1>7, CloseServes, UncachedKept

LEMMA ShutdownServerIfEmptyServes ==
  ASSUME ManagerInv, ServeInv, NEW t \in threads, ShutdownServerIfEmpty(t)
  PROVE  ServeInv'
<1> DEFINE e == servers[t.key]
<1>1. t \in ThreadRecords /\ t.kind = "close" /\ t.pc = "ifempty" /\ cached /\ t.key \in Keys
  <2>1. t \in ThreadRecords /\ t.kind \in Kinds /\ t.pc = "ifempty"
    BY ThreadKey DEF ShutdownServerIfEmpty, ThreadRecords
  <2> QED
    BY <2>1, StepOf, NeedsCache, ThreadKey DEF StepFits, OpenSteps, FamilySteps, StartSteps, Kinds
<1>2. /\ UNCHANGED <<view, files, docs, home, pending, failed, reconnects, crossed>> /\ cached' = cached
  BY DEF ShutdownServerIfEmpty, editorVars, installVars, shownVars
<1>3. CASE Ends(t) /\ UNCHANGED <<servers, entries>>
  <2>1. Forward(t, t)
    BY <1>3, EndsForward
  <2>2. StepsFit'
    BY <1>3, Parts, StepsFitKept DEF Ends
  <2> QED
    BY <1>1, <1>2, <1>3, <2>1, <2>2, CloseServes, UncachedKept DEF EntryHolds
<1>4. CASE /\ e # 0 /\ OpenDocs(e) = {} /\ servers' = [servers EXCEPT ![t.key] = 0] /\ Stops(e)
           /\ Becomes(t, [t EXCEPT !.pc = "stopping", !.proc = e])
  <2> DEFINE u == [t EXCEPT !.pc = "stopping", !.proc = e]
  <2>1. Same(t, u) /\ u.pc = "stopping" /\ Becomes(t, u)
    BY <1>1, <1>4 DEF Same, ThreadRecords
  <2> HIDE DEF u
  <2>2. Forward(t, u)
    BY <2>1, BecomesForward
  <2>3. StepsFit'
    <3>1. StepFits(u)
      BY <1>1, <2>1 DEF Same, StepFits, CloseSteps
    <3> QED
      BY <2>1, <3>1, Parts, StepsFitKept DEF Becomes
  <2>4. \A x \in Procs : x # e => entries'[x] = entries[x]
    BY <1>1, <1>4, ServerFacts, StopsOK
  <2>5. ASSUME NEW d \in Documents, HasServer(d)
        PROVE  servers'[home[d]] = servers[home[d]] /\ EntryHolds(servers[home[d]], d)
    BY <1>1, <1>4, <2>4, <2>5, ServerTaken
  <2> QED
    BY <1>1, <1>2, <2>2, <2>3, <2>5, CloseServes, UncachedKept
<1> QED
  BY <1>3, <1>4 DEF ShutdownServerIfEmpty

-----------------------------------------------------------------------------
(* Opens answered, before the server is installed. *)
LEMMA AnswerInOrder ==
  ASSUME ManagerInv, OpensFit, InOrder, NEW t \in threads, t.kind = "open", NEW ok \in BOOLEAN,
         docs' = DocsAfter(t, ok), AfterReturn(t, ok) \subseteq threads',
         \A x \in threads' : x.kind = "open" => x \in threads /\ x # t
  PROVE  InOrder'
<1>1. \A c \in threads : c # t /\ ~Awaits(c, t) => c \in threads'
  BY InvFacts, AfterAnswer
<1>2. ASSUME NEW x \in threads', x.kind = "open"
      PROVE  IF Current(x)' THEN ~docs'[x.doc].opened ELSE \E c \in threads' : Awaits(c, x)
  <2>1. x \in threads /\ x.doc \in Documents /\ (x.doc = t.doc => x.gen # t.gen)
    BY <1>2, CallTypes DEF OpensFit
  <2>2. \A c \in threads : Awaits(c, x) => c \in threads'
    BY <1>1, <2>1 DEF Awaits
  <2>3. CASE x.doc = t.doc /\ Current(t)
    <3>1. ~Current(x)
      BY <2>1, <2>3 DEF Current
    <3>2. docs'[x.doc].gen = docs[x.doc].gen
      BY <2>1, AnsweredDocs
    <3>3. ~Current(x)'
      BY <2>1, <2>3, <3>2 DEF Current
    <3> QED
      BY <1>2, <2>1, <2>2, <3>1, <3>3 DEF InOrder
  <2>4. CASE ~(x.doc = t.doc /\ Current(t))
    <3>1. docs'[x.doc] = docs[x.doc]
      BY <2>1, <2>4, AnsweredDocs
    <3> QED
      BY <1>2, <2>1, <2>2, <3>1 DEF InOrder, Current
  <2> QED
    BY <2>3, <2>4
<1>3. \A x, y \in threads' : x.kind = "open" /\ OpenOf(y, x.doc) /\ x.gen < y.gen => y.pc = "barrier"
  BY DEF InOrder, OpenOf
<1> QED
  BY <1>2, <1>3 DEF InOrder, OpenOf, Awaits

LEMMA ReturnsUncached ==
  ASSUME ManagerInv, OpensFit, Uncached, NEW t \in threads, t.kind = "open", NEW ok \in BOOLEAN,
         Returns(t, ok), UNCHANGED <<servers, reconnects, provisioning, cached>>
  PROVE  Uncached'
<1> SUFFICES ASSUME ~cached, NoServers, OneInstall, InOrder PROVE NoServers' /\ OneInstall' /\ InOrder'
  BY DEF Uncached
<1>1. \A x \in threads' : (x \in threads /\ x # t) \/ (x.kind = "close" /\ x.pc = "close")
  BY InvFacts, AfterAnswer DEF Returns
<1>2. \A x \in threads : x.kind = "install" => x \in threads'
  BY InvFacts, AfterAnswer DEF Returns, Awaits
<1>3. NoServers'
  BY <1>1 DEF NoServers
<1>4. OneInstall'
  BY <1>1, <1>2 DEF OneInstall
<1>5. InOrder'
  BY <1>1, AnswerInOrder DEF Returns
<1> QED
  BY <1>3, <1>4, <1>5

(* An open that asks for a server has no open before it. *)
LEMMA FirstOpen ==
  ASSUME ManagerInv, OpensFit, InOrder, NEW t \in threads, t.kind = "open", ~Behind(t),
         NEW x \in threads, OpenOf(x, t.doc), x.gen < t.gen
  PROVE  FALSE
<1>1. t.gen <= docs[t.doc].gen /\ t.gen \in Nat /\ x.gen \in Nat /\ docs[t.doc].gen \in Nat
  BY CallTypes DEF OpensFit, OpenOf
<1>2. ~Current(x)
  BY <1>1 DEF Current, OpenOf
<1>3. \E c \in threads : Awaits(c, x)
  BY <1>2 DEF InOrder, OpenOf
<1> QED
  BY <1>3 DEF Behind, Awaits, OpenOf

LEMMA ConfigUncached ==
  ASSUME ManagerInv, OpensFit, Uncached, NEW t \in threads, NEW u, Becomes(t, u), Same(t, u), t.kind = "open",
         ~Behind(t), u.pc = "config", UNCHANGED <<servers, reconnects, provisioning, docs, cached>>
  PROVE  Uncached'
<1> SUFFICES ASSUME ~cached, NoServers, OneInstall, InOrder PROVE NoServers' /\ OneInstall' /\ InOrder'
  BY DEF Uncached
<1>1. threads' = (threads \ {t}) \cup {u} /\ u.kind = "open" /\ u.doc = t.doc /\ u.gen = t.gen
  BY DEF Becomes, Same
<1>2. NoServers'
  BY <1>1 DEF NoServers
<1>3. OneInstall'
  BY <1>1 DEF OneInstall
<1>4. \A x \in threads' : x.kind = "open" =>
        \E y \in threads : y.kind = "open" /\ y.doc = x.doc /\ y.gen = x.gen
  BY <1>1
<1>5. ASSUME NEW x \in threads', x.kind = "open"
      PROVE  IF Current(x)' THEN ~docs'[x.doc].opened ELSE \E c \in threads' : Awaits(c, x)
  <2>1. PICK y \in threads : y.kind = "open" /\ y.doc = x.doc /\ y.gen = x.gen
    BY <1>4, <1>5
  <2>2. IF Current(y) THEN ~docs[y.doc].opened ELSE \E c \in threads : Awaits(c, y)
    BY <2>1 DEF InOrder
  <2>3. \A c \in threads : Awaits(c, y) => c \in threads' /\ Awaits(c, x)
    BY <1>1, <2>1 DEF Awaits
  <2> QED
    BY <2>1, <2>2, <2>3 DEF Current
<1>6. ASSUME NEW x \in threads', NEW y \in threads', x.kind = "open", OpenOf(y, x.doc), x.gen < y.gen
      PROVE  y.pc = "barrier"
  <2>1. PICK z \in threads : z.kind = "open" /\ z.doc = x.doc /\ z.gen = x.gen
    BY <1>4, <1>6
  <2>2. y # u
    BY <1>1, <1>6, <2>1, FirstOpen DEF OpenOf
  <2> QED
    BY <1>1, <1>6, <2>1, <2>2 DEF InOrder, OpenOf
<1>7. InOrder'
  BY <1>5, <1>6 DEF InOrder, OpenOf, Awaits
<1> QED
  BY <1>2, <1>3, <1>7

(* Opens that return at once. *)
LEMMA ReturnsServes ==
  ASSUME ManagerInv, ServeInv, NEW t \in threads, t.kind = "open", t.pc = "barrier", ~Behind(t),
         NEW ok \in BOOLEAN, Returns(t, ok), NEW ds, Crosses(ds), Current(t) => t.doc \in ds,
         UNCHANGED <<view, files, home, servers, entries, pending, failed, reconnects, provisioning, cached>>
  PROVE  ServeInv'
<1>1. Forward(t, t) /\ DocsGoOn(t)
  BY InvFacts, ReturnsForward DEF Returns, DocsGoOn
<1>2. StepsFit'
  <2>1. \A x \in threads' : x \in threads \/ (x.kind = "close" /\ x.pc = "close")
    BY InvFacts, AfterAnswer DEF Returns
  <2> QED
    BY <2>1, Parts, StepsFitKept DEF StepFits, CloseSteps
<1>3. CallsFit' /\ Uncached'
  BY <1>1, Parts, CallsFitKept, ReturnsUncached
<1>4. ASSUME NEW d \in files \ crossed', d \notin ds, Cares(d) PROVE Cares(d)'
  <2>1. d \in Documents /\ ~(OpenOf(t, d) /\ Current(t))
    BY <1>4, FilesAreDocuments DEF OpenOf
  <2>2. Stays(t, t, d)
    BY <2>1 DEF Stays, Carries, Opening, Newest, OpenOf, Announces, Current
  <2>3. DocsKept(d)
    BY <1>1, <2>1, GoOnDocs DEF DocsKept
  <2>4. EntryHolds(servers[home[d]], d) /\ ~Sending(t, d, servers[home[d]])
    BY DEF EntryHolds, Sending
  <2> QED
    BY <1>1, <1>4, <2>1, <2>2, <2>3, <2>4, CaresOn DEF WaitsInstall
<1>5. Cared'
  BY <1>4, Parts, CaredBy
<1> QED
  BY <1>2, <1>3, <1>5, Whole

LEMMA DidOpenServes ==
  ASSUME ManagerInv, ServeInv, NEW t \in threads, DidOpen(t)
  PROVE  ServeInv'
<1>1. /\ t \in ThreadRecords /\ t.kind = "open" /\ t.pc = "barrier" /\ ~Behind(t)
      /\ t.doc \in Documents /\ t.key \in Keys
  BY ThreadKey DEF DidOpen
<1>2. UNCHANGED <<view, files, home, servers, entries, failed, reconnects, provisioning, cached>>
  BY DEF DidOpen, installVars, shownVars
<1>3. CASE ~Current(t) /\ Returns(t, FALSE) /\ UNCHANGED <<pending, crossed>>
  <2>1. Crosses({})
    BY <1>3 DEF Crosses
  <2> QED
    BY <1>1, <1>2, <1>3, <2>1, ReturnsServes
<1>4. CASE Returns(t, workspaceRoot # NoRoot) /\ Crosses({t.doc}) /\ UNCHANGED pending
  BY <1>1, <1>2, <1>4, ReturnsServes
<1>5. CASE /\ servers[t.key] # 0 /\ Becomes(t, [t EXCEPT !.pc = "have", !.entry = servers[t.key]])
           /\ UNCHANGED <<docs, pending, crossed>>
  <2> DEFINE u == [t EXCEPT !.pc = "have", !.entry = servers[t.key]]
  <2>1. Same(t, u) /\ u.pc = "have" /\ u.entry # 0 /\ Becomes(t, u)
    BY <1>1, <1>5 DEF Same, ThreadRecords
  <2> HIDE DEF u
  <2>2. StepFits(u) /\ Keeps(t, u)
    BY <1>1, <2>1 DEF Becomes, StepFits, Keeps, Same, OpenSteps, StartSteps, OpeningSteps
  <2>3. cached
    BY <1>1, <1>5, ServerNeedsCache
  <2> QED
    BY <1>1, <1>2, <1>5, <2>1, <2>2, <2>3, MoveServes, UncachedKept
<1>6. CASE /\ Goes(t, "config") /\ pending' = [pending EXCEPT ![t.key] = @ \cup {t.doc}]
           /\ UNCHANGED <<docs, crossed>>
  <2> DEFINE u == [t EXCEPT !.pc = "config"]
  <2>1. Same(t, u) /\ u.pc = "config" /\ Becomes(t, u)
    BY <1>1, <1>6, StepTo DEF Goes
  <2> HIDE DEF u
  <2>2. Forward(t, u) /\ u \in threads'
    BY <2>1, BecomesForward
  <2>3. StepsFit'
    <3>1. StepFits(u)
      BY <1>1, <2>1 DEF StepFits, Same, OpenSteps
    <3> QED
      BY <2>1, <3>1, Parts, StepsFitKept DEF Becomes
  <2>4. CallsFit' /\ Uncached'
    BY <1>1, <1>2, <1>6, <2>1, <2>2, Parts, CallsFitKept, ConfigUncached DEF DocsGoOn
  <2>5. t.doc \in pending'[t.key] /\ \A k \in Keys : pending[k] \subseteq pending'[k]
    BY <1>1, <1>6, InvFacts
  <2>6. ASSUME NEW d \in files \ crossed, Cares(d) PROVE Cares(d)'
    <3>1. d \in Documents /\ home[d] \in Keys /\ DocsKept(d)
      BY <1>6, FilesAreDocuments, InvTypes DEF EditorTypeOK, DocsKept
    <3>2. CASE Opening(d)
      <4>1. Newest(t, d) =>
              /\ u \in threads' /\ Same(t, u) /\ u.pc \in OpeningSteps /\ d \in pending'[u.key]
        BY <1>1, <2>1, <2>2, <2>5 DEF Newest, OpenOf, Same, OpeningSteps
      <4>2. Opening(d)'
        BY <1>2, <2>2, <2>5, <3>1, <3>2, <4>1, OpeningKept
      <4> QED
        BY <4>2 DEF Cares
    <3>3. CASE ~Opening(d)
      <4>1. Stays(t, u, d)
        BY <1>1, <3>3 DEF Stays, Carries, Announces
      <4>2. EntryHolds(servers[home[d]], d) /\ ~Sending(t, d, servers[home[d]])
        BY <1>1, <1>2 DEF EntryHolds, Sending
      <4>3. WaitsInstall(d) => d \in pending'[home[d]]
        BY <2>5, <3>1 DEF WaitsInstall
      <4> QED
        BY <1>2, <2>2, <2>5, <2>6, <3>1, <3>3, <4>1, <4>2, <4>3, CaresOn
    <3> QED
      BY <3>2, <3>3
  <2>7. Cared'
    BY <1>2, <1>6, <2>6, Parts, CaredStill
  <2> QED
    BY <2>3, <2>4, <2>7, Whole
<1> QED
  BY <1>3, <1>4, <1>5, <1>6 DEF DidOpen

(* An install missing: the call returns, and its document waits for the install. *)
LEMMA ProvisionUncached ==
  ASSUME ManagerInv, OpensFit, ~cached, Uncached, NEW t \in threads, t.kind = "open", provisioning' = TRUE,
         docs' = DocsAfter(t, TRUE),
         threads' = IF provisioning THEN AfterReturn(t, TRUE) ELSE AfterReturn(t, TRUE) \cup {Install(t.key)},
         UNCHANGED <<servers, reconnects, cached>>
  PROVE  Uncached'
<1> DEFINE n == Install(t.key)
<1>1. NoServers /\ OneInstall /\ InOrder
  BY DEF Uncached
<1>2. n.kind = "install" /\ n.pc = "begin"
  BY InstallThread
<1>3. threads' = IF provisioning THEN AfterReturn(t, TRUE) ELSE AfterReturn(t, TRUE) \cup {n}
  OBVIOUS
<1> HIDE DEF n
<1>4. \A x \in threads' :
        (x \in threads /\ x # t) \/ (x.kind = "close" /\ x.pc = "close") \/ (~provisioning /\ x = n)
  BY <1>3, InvFacts, AfterAnswer
<1>5. \A x \in threads : x.kind = "install" => x \in threads'
  BY <1>3, InvFacts, AfterAnswer DEF Awaits
<1>6. NoServers'
  BY <1>1, <1>2, <1>4 DEF NoServers
<1>7. OneInstall'
  BY <1>1, <1>2, <1>3, <1>4, <1>5 DEF OneInstall
<1>8. InOrder'
  <2>1. AfterReturn(t, TRUE) \subseteq threads'
    BY <1>3
  <2>2. \A x \in threads' : x.kind = "open" => x \in threads /\ x # t
    BY <1>2, <1>4
  <2> QED
    BY <1>1, <2>1, <2>2, AnswerInOrder
<1> QED
  BY <1>6, <1>7, <1>8 DEF Uncached

LEMMA ProvisionForward ==
  ASSUME ManagerInv, NEW t \in threads, t.kind = "open",
         threads' = IF provisioning THEN AfterReturn(t, TRUE) ELSE AfterReturn(t, TRUE) \cup {Install(t.key)}
  PROVE  /\ Forward(t, t) /\ \A x \in threads' : x \in threads \/ StepFits(x)
         /\ \A x \in threads' : x.kind = "open" => x \in threads /\ x # t
         /\ \A x \in threads : x.kind = "install" => x \in threads'
         /\ ~provisioning => Install(t.key) \in threads' /\ Announces(Install(t.key), t.key)
<1> DEFINE n == Install(t.key)
<1>1. n.kind = "install" /\ StepFits(n) /\ Announces(n, t.key)
  BY InstallThread
<1>2. threads' = IF provisioning THEN AfterReturn(t, TRUE) ELSE AfterReturn(t, TRUE) \cup {n}
  OBVIOUS
<1> HIDE DEF n
<1>3. \A x \in threads' :
        \/ x \in threads /\ x # t
        \/ /\ x.kind = "close" /\ x.pc = "close"
           /\ \E c \in threads : c.kind = "close" /\ c.doc = x.doc /\ c.gen = x.gen
        \/ x = n
  BY <1>2, InvFacts, AfterAnswer
<1>4. \A x \in threads : x # t /\ x.kind # "close" => x \in threads'
  BY <1>2, InvFacts, AfterAnswer DEF Awaits
<1>5. Forward(t, t)
  BY <1>1, <1>3, <1>4 DEF Forward
<1>6. \A x \in threads' : x \in threads \/ StepFits(x)
  BY <1>1, <1>3 DEF StepFits, CloseSteps
<1> QED
  BY <1>1, <1>2, <1>3, <1>4, <1>5, <1>6 DEF n

LEMMA ProvisionServes ==
  ASSUME ManagerInv, ServeInv, NEW t \in threads, Provision(t)
  PROVE  ServeInv'
<1>1. t.pc = "config" /\ ~cached /\ NoServers /\ OneInstall /\ InOrder
  BY DEF ServeInv, Uncached, Provision
<1>2. t.kind = "open" /\ t.doc \in Documents /\ t.key \in Keys /\ t.key = home[t.doc]
  <2>1. t.kind \in Kinds
    BY ThreadKey DEF ThreadRecords
  <2>2. t.kind = "open"
    BY <1>1, <2>1 DEF NoServers, Kinds
  <2> QED
    BY <2>2, ThreadKey, Parts DEF OpensFit
<1>3. /\ UNCHANGED <<view, files, home, servers, entries, pending, reconnects, cached>>
      /\ provisioning' = TRUE /\ docs' = DocsAfter(t, TRUE)
      /\ threads' = IF provisioning THEN AfterReturn(t, TRUE) ELSE AfterReturn(t, TRUE) \cup {Install(t.key)}
      /\ failed' = IF provisioning THEN failed ELSE failed \ {t.key}
      /\ Crosses(IF \E i \in threads : i.kind = "install" /\ (i.key # t.key \/ i.cut)
                 THEN {t.doc} \cap Documents ELSE {})
  BY <1>2 DEF Provision, mapVars
<1>4. /\ Forward(t, t) /\ \A x \in threads' : x \in threads \/ StepFits(x)
      /\ \A x \in threads' : x.kind = "open" => x \in threads /\ x # t
      /\ \A x \in threads : x.kind = "install" => x \in threads'
      /\ ~provisioning => Install(t.key) \in threads' /\ Announces(Install(t.key), t.key)
  BY <1>2, <1>3, ProvisionForward
<1>5. StepsFit' /\ CallsFit' /\ Uncached'
  BY <1>1, <1>2, <1>3, <1>4, Parts, StepsFitKept, CallsFitKept, ProvisionUncached DEF DocsGoOn
<1>6. ASSUME NEW d \in files \ crossed', Cares(d) PROVE Cares(d)'
  <2>1. d \in Documents /\ DocsKept(d)
    BY <1>2, <1>3, FilesAreDocuments, AnsweredDocs DEF DocsKept
  <2>2. CASE Newest(t, d) /\ Opening(d)
    <3>1. d = t.doc /\ t.gen = docs[d].gen /\ d \in pending[home[d]]
      BY <1>1, <1>2, <2>2, Parts DEF Opening, Newest, OpenOf, OpensFit
    <3>2. \A x \in threads' : ~OpenOf(x, d)
      <4> SUFFICES ASSUME NEW x \in threads', OpenOf(x, d) PROVE FALSE
        OBVIOUS
      <4>1. x \in threads /\ x.gen # t.gen
        BY <1>2, <1>4, <3>1, Parts DEF OpenOf, OpensFit
      <4>2. x.gen <= t.gen /\ x.gen \in Nat /\ t.gen \in Nat
        BY <1>2, <3>1, <4>1, CallTypes, Parts DEF OpenOf, OpensFit
      <4>3. x.gen < t.gen
        BY <4>1, <4>2
      <4> QED
        BY <1>1, <1>2, <3>1, <4>1, <4>3 DEF InOrder, OpenOf
    <3>3. \E x \in threads' : Announces(x, home[d])
      <4>1. CASE ~provisioning
        BY <1>2, <1>4, <3>1, <4>1
      <4>2. CASE provisioning
        <5>1. PICK i \in threads : i.kind = "install"
          BY <1>1, <4>2 DEF OneInstall
        <5>2. i.key = t.key
          BY <1>3, <1>6, <2>1, <3>1, <5>1 DEF Crosses
        <5>3. i.pc # "abandoned"
          BY <1>1, <5>1 DEF NoServers
        <5> QED
          BY <1>2, <1>4, <3>1, <5>1, <5>2, <5>3 DEF Announces
      <4> QED
        BY <4>1, <4>2
    <3>4. WaitsInstall(d)'
      BY <1>3, <3>1, <3>2, <3>3 DEF WaitsInstall, OpenOf, Announces
    <3> QED
      BY <3>4 DEF Cares
  <2>3. CASE ~(Newest(t, d) /\ Opening(d))
    <3>1. Stays(t, t, d)
      BY <1>2, <2>3 DEF Stays, Carries, Announces
    <3>2. home[d] \in failed => home[d] \in failed' \/ \E x \in threads' : Announces(x, home[d])
      BY <1>3, <1>4
    <3>3. EntryHolds(servers[home[d]], d) /\ ~Sending(t, d, servers[home[d]])
      BY <1>1, <1>3 DEF EntryHolds, Sending
    <3> QED
      BY <1>3, <1>4, <1>6, <2>1, <3>1, <3>2, <3>3, CaresOn DEF WaitsInstall
  <2> QED
    BY <2>2, <2>3
<1>7. Cared'
  BY <1>3, <1>6, Parts, CaredBy DEF Crosses
<1> QED
  BY <1>5, <1>7, Whole

-----------------------------------------------------------------------------
(* Opens that have a server. *)
LEMMA EntersDocumentServes ==
  ASSUME ManagerInv, ServeInv, NEW t \in threads, EntersDocument(t)
  PROVE  ServeInv'
<1> DEFINE e == t.entry
           n == entries[e].open[t.doc]
           u == [t EXCEPT !.pc = "send"]
<1>1. /\ t \in ThreadRecords /\ t.kind = "open" /\ t.pc = "have" /\ cached /\ t.doc \in Documents
      /\ t.key = home[t.doc] /\ t.key \in Keys /\ t.entry # 0
  BY ThreadKey, NeedsCache, StepOf, Parts DEF EntersDocument, StepFits, OpensFit
<1>2. /\ UNCHANGED <<view, files, home, servers, failed, reconnects>> /\ cached' = cached
      /\ entries' = [entries EXCEPT ![e].open[t.doc] = @ + 1] /\ pending' = Untracked(t.doc)
      /\ IF n = 0 THEN Becomes(t, u) /\ docs' = docs ELSE Returns(t, TRUE)
      /\ Crosses(IF servers[t.key] # e \/ Untold(t.doc, e) THEN {t.doc} ELSE {})
  BY DEF EntersDocument, installVars, shownVars, Goes
<1>3. Same(t, u) /\ u.pc = "send"
  BY <1>1, StepTo
<1>4. /\ \A x \in Documents \ {t.doc} : \A p \in Procs : EntryHolds(p, x)
      /\ e \in Procs => /\ entries'[e].open[t.doc] > 0 /\ n \in Nat
                        /\ entries'[e].told = entries[e].told /\ entries'[e].client = entries[e].client
  <2> DEFINE r == [entries[e] EXCEPT !.open[t.doc] = @ + 1]
  <2>1. entries' = [entries EXCEPT ![e] = r]
    BY <1>2
  <2>2. e \in Procs =>
          /\ \A x \in Documents \ {t.doc} : r.open[x] = entries[e].open[x]
          /\ n \in Nat /\ r.open[t.doc] = n + 1
          /\ r.told = entries[e].told /\ r.client = entries[e].client
    BY <1>1, InvFacts DEF Entries
  <2> HIDE DEF r, n, e
  <2>3. \A x \in Documents \ {t.doc} : \A p \in Procs : EntryHolds(p, x)
    BY <2>1, <2>2, InvFacts DEF EntryHolds
  <2>4. e \in Procs => entries'[e] = r
    BY <2>1, InvFacts
  <2> QED
    BY <2>2, <2>3, <2>4
<1> HIDE DEF e, n, u
<1>5. PICK v : Forward(t, v) /\ (n = 0 => v = u /\ u \in threads')
  <2>1. CASE n = 0
    BY <1>2, <1>3, <2>1, BecomesForward
  <2>2. CASE n # 0
    BY <1>1, <1>2, <2>2, InvFacts, ReturnsForward DEF Returns
  <2> QED
    BY <2>1, <2>2
<1>6. DocsGoOn(t)
  BY <1>1, <1>2 DEF DocsGoOn, Returns
<1>7. StepsFit'
  <2>1. StepFits(u)
    BY <1>1, <1>3 DEF Same, StepFits, OpenSteps
  <2>2. \A x \in threads' : x \in threads \/ x = u \/ (x.kind = "close" /\ x.pc = "close")
    BY <1>1, <1>2, InvFacts, AfterAnswer DEF Returns, Becomes
  <2> QED
    BY <2>1, <2>2, Parts, StepsFitKept DEF StepFits, CloseSteps
<1>8. CallsFit' /\ Uncached'
  BY <1>1, <1>2, <1>5, <1>6, Parts, CallsFitKept, UncachedKept
<1>9. ASSUME NEW d \in files \ crossed', Cares(d) PROVE Cares(d)'
  <2>1. d \in Documents /\ home[d] \in Keys
    BY FilesAreDocuments, InvTypes DEF EditorTypeOK
  <2>2. CASE d = t.doc
    <3>1. servers[home[d]] = e /\ ~Untold(d, e) /\ e # 0
      BY <1>1, <1>2, <1>9, <2>2 DEF Crosses, e
    <3>2. e \in Procs /\ entries[e].client \in {"up", "dead"}
      BY <1>1, <2>1, <3>1, ServerFacts
    <3>3. d \in entries[e].told \/ entries[e].client = "dead" \/ \E x \in threads' : Sending(x, d, e)
      <4>1. CASE n = 0
        BY <1>1, <1>3, <1>5, <2>2, <4>1, StepTo DEF Sending, Same, e, u
      <4>2. CASE n # 0 /\ entries[e].client = "up" /\ d \notin entries[e].told
        <5>1. n > 0
          BY <1>4, <3>2, <4>2
        <5>2. PICK x \in threads : Sending(x, d, e)
          BY <2>2, <3>1, <4>2, <5>1 DEF Untold, n
        <5>3. x # t /\ x.kind # "close"
          BY <1>1, <5>2, SendingOpens DEF Sending
        <5>4. x \in threads'
          BY <1>5, <5>3 DEF Forward
        <5> QED
          BY <5>2, <5>4
      <4> QED
        BY <3>2, <4>1, <4>2
    <3>4. HasServer(d)'
      BY <1>2, <1>4, <2>2, <3>1, <3>2, <3>3 DEF HasServer, Sending
    <3> QED
      BY <3>4 DEF Cares
  <2>3. CASE d # t.doc
    <3>1. Stays(t, v, d)
      BY <1>1, <2>3 DEF Stays, Carries, Newest, OpenOf, Announces
    <3>2. DocsKept(d)
      BY <1>6, <2>1, <2>3, GoOnDocs DEF DocsKept, OpenOf
    <3>3. WaitsInstall(d) => d \in pending'[home[d]]
      BY <1>2, <2>1, <2>3 DEF WaitsInstall, Untracked
    <3>4. HasServer(d) => EntryHolds(servers[home[d]], d) /\ ~Sending(t, d, servers[home[d]])
      BY <1>1, <1>4, <2>1, <2>3, HasServerFacts DEF Sending
    <3> QED
      BY <1>1, <1>2, <1>5, <1>9, <2>1, <3>1, <3>2, <3>3, <3>4, CaresOn
  <2> QED
    BY <2>2, <2>3
<1>10. Cared'
  BY <1>2, <1>9, Parts, CaredStill, CaredBy DEF Crosses
<1> QED
  BY <1>7, <1>8, <1>10, Whole

LEMMA SendsOpenServes ==
  ASSUME ManagerInv, ServeInv, NEW t \in threads, SendsOpen(t)
  PROVE  ServeInv'
<1> DEFINE e == t.entry
<1>1. t.kind = "open" /\ t.pc = "send" /\ cached /\ t.doc \in Documents
  BY ThreadKey, NeedsCache DEF SendsOpen
<1>2. /\ UNCHANGED <<view, files, home, servers, pending, failed, reconnects, crossed>> /\ cached' = cached
      /\ entries' = entries \/ entries' = [entries EXCEPT ![e].told = @ \cup {t.doc}]
      /\ entries[e].client = "up" => entries' = [entries EXCEPT ![e].told = @ \cup {t.doc}]
  BY DEF SendsOpen, installVars, shownVars
<1>3. PICK ok \in BOOLEAN : Returns(t, ok)
  BY DEF SendsOpen
<1>4. Forward(t, t) /\ DocsGoOn(t)
  BY <1>1, <1>3, InvFacts, ReturnsForward DEF Returns, DocsGoOn
<1>5. StepsFit'
  <2>1. \A x \in threads' : x \in threads \/ (x.kind = "close" /\ x.pc = "close")
    BY <1>1, <1>3, InvFacts, AfterAnswer DEF Returns
  <2> QED
    BY <2>1, Parts, StepsFitKept DEF StepFits, CloseSteps
<1>6. CallsFit' /\ Uncached'
  BY <1>1, <1>2, <1>4, Parts, CallsFitKept, UncachedKept
<1>7. \A p \in Procs :
        /\ entries'[p].open = entries[p].open /\ entries'[p].client = entries[p].client
        /\ entries[p].told \subseteq entries'[p].told
        /\ p = e /\ entries[e].client = "up" => t.doc \in entries'[e].told
  <2> DEFINE r == [entries[e] EXCEPT !.told = @ \cup {t.doc}]
  <2>1. /\ entries' = entries \/ entries' = [entries EXCEPT ![e] = r]
        /\ entries[e].client = "up" => entries' = [entries EXCEPT ![e] = r]
    BY <1>2
  <2>2. e \in Procs => /\ r.open = entries[e].open /\ r.client = entries[e].client
                       /\ r.told = entries[e].told \cup {t.doc}
    BY InvFacts DEF Entries
  <2> HIDE DEF r, e
  <2> QED
    BY <2>1, <2>2, InvFacts
<1> HIDE DEF e
<1>8. ASSUME NEW d \in files \ crossed, Cares(d) PROVE Cares(d)'
  <2>1. d \in Documents
    BY FilesAreDocuments
  <2>2. HasServer(d) => EntryHolds(servers[home[d]], d)
    BY <1>7, <2>1, HasServerFacts DEF EntryHolds
  <2>3. CASE HasServer(d) /\ Sending(t, d, servers[home[d]])
    <3>1. d = t.doc /\ servers[home[d]] = e /\ e \in Procs /\ entries[e].client \in {"up", "dead"}
          /\ e # 0 /\ entries[e].open[d] > 0
      BY <2>1, <2>3, HasServerFacts DEF Sending, e, HasServer
    <3>2. HasServer(d)'
      BY <1>2, <1>7, <3>1 DEF HasServer
    <3> QED
      BY <3>2 DEF Cares
  <2>4. CASE ~(HasServer(d) /\ Sending(t, d, servers[home[d]]))
    <3>1. Opening(d) => ~Newest(t, d)
      BY <1>1, Parts DEF Opening, OpeningSteps, OpensFit, OpenOf, Newest
    <3>2. Stays(t, t, d)
      BY <1>1, <3>1 DEF Stays, Carries, Announces
    <3>3. Opening(d) => DocsKept(d)
      BY <1>4, <2>1, <3>1, GoOnDocs DEF DocsKept, Newest, OpenOf, Current
    <3> QED
      BY <1>1, <1>2, <1>4, <1>8, <2>1, <2>2, <2>4, <3>2, <3>3, CaresOn DEF WaitsInstall
  <2> QED
    BY <2>3, <2>4
<1>9. Cared'
  BY <1>2, <1>8, Parts, CaredStill
<1> QED
  BY <1>5, <1>6, <1>9, Whole

-----------------------------------------------------------------------------
(* Every file open has its server or its error. *)
LEMMA InitServes ==
  ASSUME ManagerInit
  PROVE  ServeInv
<1>1. threads = {} /\ files = {} /\ reconnects = {} /\ provisioning = FALSE
      /\ servers = [k \in Keys |-> 0]
      /\ docs = [d \in Documents |-> [gen |-> 0, tracked |-> FALSE, opened |-> FALSE]]
  BY DEF ManagerInit
<1>2. StepsFit /\ OpensFit /\ Barriers /\ Cared
  BY <1>1 DEF StepsFit, OpensFit, Barriers, Cared
<1>3. FilesFit
  BY <1>1 DEF FilesFit
<1>4. NoServers /\ OneInstall /\ InOrder
  BY <1>1 DEF NoServers, OneInstall, InOrder
<1> QED
  BY <1>2, <1>3, <1>4 DEF ServeInv, Uncached

LEMMA IdleServes ==
  ASSUME ManagerInv, ServeInv, UNCHANGED managerVars
  PROVE  ServeInv'
<1>1. UNCHANGED <<view, files, docs, home, servers, entries, pending, cached, provisioning, threads, reconnects,
                  failed, crossed>>
  BY DEF managerVars, editorVars, mapVars, installVars, shownVars
<1>2. Uncached'
  BY <1>1, Parts, UncachedFrame
<1>3. ASSUME NEW d \in files \ crossed, Cares(d) PROVE Cares(d)'
  <2>1. HasServer(d) => HasServer(d)'
    BY <1>1 DEF HasServer
  <2> QED
    BY <1>1, <1>3, <2>1, CaresStill, FilesAreDocuments DEF DocsKept, Announced, Cares
<1>4. Cared'
  BY <1>1, <1>3, Parts, CaredStill
<1> QED
  BY <1>1, <1>2, <1>4, StillServes

LEMMA CallServes ==
  ASSUME ManagerInv, ServeInv, NEW t \in threads, CallNext(t)
  PROVE  ServeInv'
<1>1. CASE DidOpen(t) \/ EnsureServer(t) \/ Provision(t) \/ StartServer(t)
  BY <1>1, DidOpenServes, EnsureServerServes, ProvisionServes, StartServerServes
<1>2. CASE StartSuperfluous(t) \/ Registers(t) \/ AfterShutdown(t) \/ EntersDocument(t) \/ SendsOpen(t)
  BY <1>2, StartSuperfluousServes, RegistersServes, AfterShutdownServes, EntersDocumentServes, SendsOpenServes
<1>3. CASE DidClose(t) \/ TellsClosed(t) \/ ShutdownServerIfEmpty(t) \/ BackoffEnds(t) \/ Restarted(t)
  BY <1>3, DidCloseServes, TellsClosedServes, ShutdownServerIfEmptyServes, BackoffEndsServes, RestartedServes
<1>4. CASE InstallBegins(t) \/ Installed(t) \/ InstallFails(t) \/ FamilyRestarted(t) \/ ShutdownServer(t)
  BY <1>4, InstallBeginsServes, InstalledServes, InstallFailsServes, FamilyRestartedServes, ShutdownServerServes
<1> QED
  BY <1>1, <1>2, <1>3, <1>4 DEF CallNext

LEMMA StepServes == ManagerInv /\ ServeInv /\ [ManagerNext]_managerVars => ServeInv'
<1> SUFFICES ASSUME ManagerInv, ServeInv, [ManagerNext]_managerVars PROVE ServeInv'
  OBVIOUS
<1>1. CASE UNCHANGED managerVars
  BY <1>1, IdleServes
<1>2. CASE \E t \in threads : CallNext(t)
  BY <1>2, CallServes
<1>3. CASE \/ \E r \in reconnects : Reconnect(r)
           \/ \E e \in Procs : ProcessExits(e) \/ ServerCrash(e)
           \/ \E k \in Keys : CrashSeen(k) \/ ShutdownOne(k) \/ RetryProvision(k)
           \/ ShutdownAll \/ SetWorkspaceRoot
  BY <1>3, ReconnectServes, ProcessExitsServes, ServerCrashServes, CrashSeenServes, ShutdownOneServes,
     RetryProvisionServes, ShutdownAllServes, SetWorkspaceRootServes
<1>4. CASE \/ \E d \in Documents : OpenFile(d) \/ CloseFile(d) \/ ServerForPath(d)
           \/ \E w \in Workspaces : SwitchView(w)
           \/ \E t \in threads : InitializeFails(t) \/ InstallFails(t)
           \/ ReloadView \/ SetInterpreter
  BY <1>4, OpenFileServes, CloseFileServes, ServerForPathServes, SwitchViewServes, InitializeFailsServes,
     InstallFailsServes, ReloadViewServes, SetInterpreterServes
<1> QED
  BY <1>1, <1>2, <1>3, <1>4 DEF ManagerNext, ManagerContinues

(* Where nothing is under way, caring for a document is having its server or its error. *)
LEMMA InvServes ==
  ASSUME ManagerInv, ServeInv
  PROVE  Serves
<1> SUFFICES ASSUME Quiet, NEW d \in files, d \notin crossed
             PROVE  home[d] \in failed \/ (servers[home[d]] # 0 /\ d \in entries[servers[home[d]]].told)
  BY DEF Serves
<1>1. threads = {} /\ reconnects = {} /\ \A k \in Keys : servers[k] # 0 => entries[servers[k]].client = "up"
  BY DEF Quiet
<1>2. Cares(d) /\ home[d] \in Keys
  BY FilesAreDocuments, InvTypes DEF ServeInv, Cared, EditorTypeOK
<1>3. ~Opening(d) /\ ~Announced(d) /\ ~Restarting(d)
  BY <1>1 DEF Opening, Announced, Restarting
<1>4. WaitsInstall(d) => home[d] \in failed
  BY <1>1 DEF WaitsInstall
<1>5. HasServer(d) => servers[home[d]] # 0 /\ d \in entries[servers[home[d]]].told
  BY <1>1, <1>2 DEF HasServer
<1> QED
  BY <1>2, <1>3, <1>4, <1>5 DEF Cares

(* A document open in the editor is always in somebody's hands: its open is on *)
(* its way, an install or an error of its root waits with it, a reconnect or a *)
(* restart carries it, or its root's server counts it and was told. So once     *)
(* all of that is over it is open at its server or an error is shown, whatever *)
(* was opened, closed, crashed, installed, restarted and loaded in whatever    *)
(* order; but for the documents that crossed what the model's comments name.   *)
THEOREM DocumentsAreServed == ManagerSpec => []Serves
<1>1. ManagerInit => ManagerInv /\ ServeInv
  BY InitInv, InitServes
<1>2. ManagerInv /\ ServeInv /\ [ManagerNext]_managerVars => ManagerInv' /\ ServeInv'
  BY StepInv, StepServes
<1>3. ManagerInv /\ ServeInv => Serves
  BY InvServes
<1> QED
  BY <1>1, <1>2, <1>3, PTL DEF ManagerSpec

=============================================================================
