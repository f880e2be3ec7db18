---------------------------- MODULE FrontendProofs ----------------------------
(***************************************************************************)
(* Proofs about the close handshake of the app (AppClose), for every       *)
(* number of requests, handshakes and tasks, about the writes of a file     *)
(* (FileWrites), for every number of texts, failures and calls, and about   *)
(* the document at a language server (LspDocuments), for every set of texts *)
(* and number of documents and calls.                                      *)
(***************************************************************************)
EXTENDS AppClose, FileWrites, LspDocuments, SequenceTheorems, FiniteSetTheorems, TLAPS

(***************************************************************************)
(* The close handshake.                                                    *)
(***************************************************************************)
\* Starting the drain keeps the invariant: only an open handshake starts it.
LEMMA EnterKeepsInvariant ==
  ASSUME CloseInv, NEW h \in 0..MaxHandshakes, NEW timers \in [Handshakes -> TimerStates],
         \A g \in Handshakes : timers[g] = "armed" => timer[g] = "armed",
         EnterCloseDrain(h, timers), answered' \in [Handshakes -> BOOLEAN],
         request' \in [Requests -> BOOLEAN]
  PROVE  CloseInv'
<1> USE HandshakeAssumption DEF CloseInv, TypeOK, CloseShape
<1>1. CASE closePhase = "awaiting"
  <2>1. /\ closePhase' = "draining" /\ drainPc' = "start" /\ backstop' = 0
        /\ starts' = 1 /\ opener' = h
        /\ timer' = [g \in Handshakes |->
                       IF g = backstop /\ timers[g] = "armed" THEN "stopped" ELSE timers[g]]
        /\ UNCHANGED <<asked, task, exited>>
    BY <1>1 DEF EnterCloseDrain
  <2>2. timer' \in [Handshakes -> TimerStates] /\ \A g \in Handshakes : timer'[g] # "armed"
    BY <2>1 DEF TimerStates
  <2> QED BY <1>1, <2>1, <2>2 DEF ClosePhases, DrainPcs
<1>2. CASE closePhase # "awaiting"
  BY <1>2 DEF EnterCloseDrain
<1> QED BY <1>1, <1>2

\* An app that nobody asked to close satisfies the invariant.
LEMMA InitClose == Init => CloseInv
<1> SUFFICES ASSUME Init PROVE CloseInv
  OBVIOUS
<1> USE DEF Init
<1>1. asked \in 0..MaxHandshakes /\ backstop \in 0..MaxHandshakes /\ opener \in 0..MaxHandshakes
  BY HandshakeAssumption
<1>2. timer \in [Handshakes -> TimerStates] /\ \A h \in Handshakes : timer[h] # "armed"
  BY DEF TimerStates
<1>3. /\ answered \in [Handshakes -> BOOLEAN] /\ request \in [Requests -> BOOLEAN]
      /\ exited \in BOOLEAN
  OBVIOUS
<1>4. /\ closePhase \in ClosePhases /\ starts \in 0..1 /\ drainPc \in DrainPcs
      /\ task \in [Tasks -> {"none", "running", "done"}]
  BY DEF ClosePhases, DrainPcs
<1>5. TypeOK
  BY <1>1, <1>2, <1>3, <1>4 DEF TypeOK
<1>6. CloseShape
  BY <1>2 DEF CloseShape
<1> QED BY <1>5, <1>6 DEF CloseInv

\* Every step keeps the invariant.
LEMMA CloseStep == CloseInv /\ [Next]_vars => CloseInv'
<1> SUFFICES ASSUME CloseInv, [Next]_vars PROVE CloseInv'
  OBVIOUS
<1> USE HandshakeAssumption DEF CloseInv, TypeOK, CloseShape
<1>1. ASSUME NEW q \in Requests, ShouldQuit(q) PROVE CloseInv'
  <2>1. CASE closePhase = "idle" /\ OpenHandshake /\ UNCHANGED <<request, exited>>
    <3>1. asked + 1 \in Handshakes /\ asked + 1 # 0
      BY <2>1 DEF OpenHandshake, Handshakes
    <3>2. timer' = [timer EXCEPT ![asked + 1] = "armed"]
      BY <2>1 DEF OpenHandshake
    <3>3. timer' \in [Handshakes -> TimerStates]
      BY <3>1, <3>2 DEF TimerStates
    <3>4. \A h \in Handshakes : timer[h] # "armed"
      BY <2>1 DEF Handshakes
    <3>5. \A h \in Handshakes : timer'[h] = "armed" => h = asked + 1
      BY <3>1, <3>2, <3>4
    <3> QED BY <1>1, <2>1, <3>1, <3>3, <3>5
        DEF ShouldQuit, OpenHandshake, drainVars, ClosePhases, Handshakes
  <2>2. CASE closePhase = "awaiting" /\ request' = [request EXCEPT ![q] = TRUE]
             /\ UNCHANGED <<closePhase, asked, backstop, timer, exited>>
    BY <1>1, <2>2 DEF ShouldQuit, drainVars
  <2>3. CASE closePhase = "permitted" /\ exited' = TRUE
             /\ UNCHANGED <<closePhase, asked, backstop, timer, request>>
    BY <1>1, <2>3 DEF ShouldQuit, drainVars
  <2> QED BY <1>1, <2>1, <2>2, <2>3 DEF ShouldQuit
<1>2. ASSUME NEW q \in Requests, ForceDrain(q) PROVE CloseInv'
  <2>1. /\ EnterCloseDrain(asked, timer) /\ answered' \in [Handshakes -> BOOLEAN]
        /\ request' \in [Requests -> BOOLEAN]
    BY <1>2 DEF ForceDrain
  <2> QED BY <2>1, EnterKeepsInvariant
<1>3. ASSUME NEW h \in Handshakes, BackstopFires(h) PROVE CloseInv'
  <2>1. timer' = [timer EXCEPT ![h] = "fired"] /\ timer[h] = "armed"
    BY <1>3 DEF BackstopFires
  <2>2. timer' \in [Handshakes -> TimerStates]
    BY <2>1 DEF TimerStates
  <2>3. \A g \in Handshakes : timer'[g] = "armed" => g = backstop
    BY <2>1
  <2> QED BY <1>3, <2>2, <2>3 DEF BackstopFires, drainVars
<1>4. ASSUME NEW h \in Handshakes, BackstopCallback(h) PROVE CloseInv'
  <2>1. [timer EXCEPT ![h] = "done"] \in [Handshakes -> TimerStates]
    BY DEF TimerStates
  <2>2. \A g \in Handshakes :
          [timer EXCEPT ![h] = "done"][g] = "armed" => timer[g] = "armed"
    OBVIOUS
  <2>3. /\ EnterCloseDrain(h, [timer EXCEPT ![h] = "done"]) /\ h \in 0..MaxHandshakes
        /\ answered' \in [Handshakes -> BOOLEAN] /\ request' \in [Requests -> BOOLEAN]
    BY <1>4 DEF BackstopCallback, Handshakes
  <2> QED BY <2>1, <2>2, <2>3, EnterKeepsInvariant
<1>5. ASSUME NEW h \in Handshakes, ConfirmBeforeCloseReady(h) PROVE CloseInv'
  <2>1. /\ EnterCloseDrain(h, timer) /\ h \in 0..MaxHandshakes
        /\ answered' \in [Handshakes -> BOOLEAN] /\ request' \in [Requests -> BOOLEAN]
    BY <1>5 DEF ConfirmBeforeCloseReady, Handshakes
  <2> QED BY <2>1, EnterKeepsInvariant
<1>6. ASSUME NEW h \in Handshakes, CancelBeforeClose(h) PROVE CloseInv'
  <2>1. /\ Disarmed \in [Handshakes -> TimerStates]
        /\ \A g \in Handshakes : Disarmed[g] # "armed"
    BY DEF Disarmed, TimerStates
  <2>2. answered' \in [Handshakes -> BOOLEAN]
    BY <1>6 DEF CancelBeforeClose
  <2>3. CASE closePhase = "awaiting"
    <3>1. /\ closePhase' = "idle" /\ backstop' = 0 /\ timer' = Disarmed
          /\ UNCHANGED <<asked, request, starts, opener, drainPc, task, exited>>
      BY <1>6, <2>3 DEF CancelBeforeClose, drainVars
    <3> QED BY <2>1, <2>2, <2>3, <3>1 DEF ClosePhases
  <2>4. CASE closePhase # "awaiting"
    BY <1>6, <2>2, <2>4 DEF CancelBeforeClose, drainVars
  <2> QED BY <2>3, <2>4
<1>7. ASSUME NEW t \in Tasks, TaskEnds(t) PROVE CloseInv'
  BY <1>7 DEF TaskEnds, handshakeVars
<1>8. CASE DrainStep
  BY <1>8 DEF DrainStep, StartCloseDrain, DrainWaitEnds, Permit, Quit, handshakeVars,
     ClosePhases, DrainPcs
<1>9. CASE UNCHANGED vars
  BY <1>9 DEF vars, handshakeVars, drainVars
<1> QED BY <1>1, <1>2, <1>3, <1>4, <1>5, <1>6, <1>7, <1>8, <1>9 DEF Next

\* The invariant holds in every reachable state.
THEOREM CloseInvariance == Spec => []CloseInv
BY InitClose, CloseStep, PTL DEF Spec

\* The teardown starts once, however repeated requests, backstops and the
\* confirmation race (enterCloseDrain, app.go:351-372).
THEOREM TeardownStartsOnce == Spec => []TeardownOnce
<1>1. CloseInv => TeardownOnce
  BY DEF CloseInv, CloseShape, TypeOK, TeardownOnce, ClosePhases, DrainPcs
<1> QED BY <1>1, CloseInvariance, PTL

\* A cancelled close leaves no teardown and no armed timer behind
\* (CancelBeforeClose, app.go:336-349).
THEOREM CancelLeavesNothing == Spec => []CancelRestores
<1>1. CloseInv => CancelRestores
  BY HandshakeAssumption DEF CloseInv, CloseShape, TypeOK, CancelRestores, Handshakes
<1> QED BY <1>1, CloseInvariance, PTL

(***************************************************************************)
(* The writes of a file.                                                   *)
(***************************************************************************)
(* Types. *)
OperationKinds == {"auto", "drain", "close", "flush", "lock"}
Operations == [kind : OperationKinds, text : Nat, pc : {"queued", "landed", "failed", "ready"},
               id : Nat, same : BOOLEAN]
Tabs == [open : BOOLEAN, text : Nat, modified : BOOLEAN]
Likenesses == SUBSET (Nat \X Nat)

FileTypeOK ==
  /\ disk \in Nat /\ watch \in BOOLEAN /\ tab \in Tabs /\ debounce \in BOOLEAN /\ saving \in BOOLEAN
  /\ pend \in [id : Nat, text : Nat, debounce : BOOLEAN]
  /\ chain \in Seq(Operations)
  /\ visit \in [pc : {"idle", "flush", "read"}, of : Nat, text : Nat]
  /\ reads \in SUBSET Nat
  /\ flush \in [pc : {"idle", "flush", "settle"}, of : Nat, goal : Nat]
  /\ save \in [pc : {"idle", "flush", "wait", "lock"}, of : Nat, goal : Nat]
  /\ {texts, tabs, failures, called, typed, told, undone} \subseteq Nat /\ crossed \in BOOLEAN
  /\ alike \in Likenesses

-----------------------------------------------------------------------------
(* The inductive invariant, while no edit of a diff view crossed the opening  *)
(* of a tab.                                                                  *)
Places(c) == 1 .. Len(c)

(* Only the first operation runs; at most one of them is the autosave, one    *)
(* the drain, one the lock. Texts are queued in the order they were written,  *)
(* but for the lock, which takes the text of the tab when it runs.            *)
Orderly(c) ==
  /\ \A i \in Places(c) : i # 1 => c[i].pc = IF c[i].kind = "lock" THEN "ready" ELSE "queued"
  /\ \A i \in Places(c) :
       /\ c[i].pc = "ready" => c[i].kind = "lock"
       /\ c[i].kind = "drain" <=> c[i].id # 0
  /\ \A i, j \in Places(c) : c[i].kind = c[j].kind /\ c[i].kind \in {"auto", "drain", "lock"} => i = j
  /\ \A i, j \in Places(c) :
       i < j /\ c[i].kind # "lock" /\ c[j].kind # "lock" => c[i].text <= c[j].text

(* No text of the queue is newer than the last one that was typed; an         *)
(* autosave holds savingFiles, and a drain is that of the pending edit.       *)
Timely(c, newest, busy, edit) ==
  \A i \in Places(c) :
    /\ c[i].text <= newest
    /\ c[i].kind = "auto" => busy
    /\ c[i].kind = "drain" => c[i].id = edit.id /\ (c[i].same => c[i].text = edit.text)

(* What an autosave or a lock writes is still in the tab, or is written again *)
(* because the tab was closed.                                                *)
Backed(c, modified) ==
  \A i \in Places(c) : c[i].kind \in {"auto", "lock"} /\ c[i].pc # "ready" =>
    modified \/ \E j \in Places(c) : i < j /\ c[j].kind = "close" /\ c[i].text <= c[j].text

(* What was landed by the operation in front is there, or something newer.    *)
LandedIs(c, on) == c # << >> /\ c[1].pc = "landed" => c[1].text <= on

QueueFits ==
  /\ Orderly(chain) /\ Timely(chain, typed, saving, pend)
  /\ Backed(chain, tab.modified) /\ LandedIs(chain, disk)

(* Pairs of a text and of one whose writing does it no harm: it leaves the    *)
(* disk with the text or a newer one, or the text is one that the user        *)
(* returned to and that was wrongly taken for saved.                          *)
HarmlessIn(excepted, pairs) ==
  {p \in Nat \X Nat : p[1] <= excepted \/ Covers(p[2], p[1], pairs)}
Harmless == HarmlessIn(undone, alike)

(* A text is safe when it is on disk and nothing that harms it will be        *)
(* written, or queued as an operation whose failure is shown, or its failure  *)
(* was.                                                                       *)
SafeIn(c, on, shown, ok, text) ==
  \/ text <= shown
  \/ \E i \in Places(c) : c[i].kind \in {"drain", "close", "flush"} /\ text <= c[i].text
  \/ <<text, on>> \in ok /\ \A i \in Places(c) : c[i].pc # "ready" => <<text, c[i].text>> \in ok
Safe(text) == SafeIn(chain, disk, told, Harmless, text)

DrainsIn(c, id) == id # 0 /\ \E i \in Places(c) : c[i].kind = "drain" /\ c[i].id = id

(* One surface at a time has the last text: the tab, or the pending edit,     *)
(* which is there only while no tab is open.                                  *)
SurfacesFit ==
  /\ ~tab.open => ~tab.modified
  /\ visit.pc # "idle" => ~tab.open
  /\ tab.open \/ visit.pc = "read" => pend.id = 0
  /\ visit.pc = "flush" /\ pend.id # 0 => visit.of = pend.id /\ DrainsIn(chain, pend.id)
  /\ tab.modified => tab.text = typed
  /\ pend.id # 0 => pend.text = typed

LastIsSafe == tab.modified \/ pend.id # 0 \/ Safe(typed)

(* What a flush and a save have promised, at each of their steps.             *)
Promised(call) ==
  /\ call.goal <= typed
  /\ tab.modified \/ (call.of = pend.id /\ DrainsIn(chain, pend.id)) \/ Safe(call.goal)

FlushFits ==
  /\ flush.pc = "flush" => Promised(flush)
  /\ flush.pc = "settle" => flush.goal <= typed /\ Safe(flush.goal)

SaveFits ==
  /\ save.pc = "flush" => Promised(save)
  /\ save.pc = "wait" => save.goal <= typed /\ (tab.modified \/ Safe(save.goal))

(* The lock is taken by the save alone; until it has run, nothing older than  *)
(* what the save has promised is written.                                     *)
LockFits ==
  /\ save.pc = "lock" =>
       /\ save.goal <= typed
       /\ \A i \in Places(chain) : chain[i].pc # "ready" => save.goal <= chain[i].text
       /\ save.goal <= disk \/ (chain # << >> /\ chain[1].kind = "lock" /\ chain[1].pc # "ready")
  /\ save.pc # "lock" => \A i \in Places(chain) : chain[i].kind # "lock"

FileFits == QueueFits /\ SurfacesFit /\ LastIsSafe /\ FlushFits /\ SaveFits /\ LockFits
FileInv == FileTypeOK /\ typed <= texts /\ (~crossed => undone <= typed /\ FileFits)

-----------------------------------------------------------------------------
(* What does no harm: newer texts never do, and what spares a text spares     *)
(* the older ones.                                                            *)
Ordered(ok) ==
  /\ \A t, a \in Nat : t <= a => <<t, a>> \in ok
  /\ \A new, old, a \in Nat : old <= new /\ <<new, a>> \in ok => <<old, a>> \in ok

LEMMA HarmlessOrdered ==
  ASSUME NEW excepted \in Nat, NEW pairs \in Likenesses
  PROVE  Ordered(HarmlessIn(excepted, pairs))
<1>1. ASSUME NEW t \in Nat, NEW a \in Nat, t <= a PROVE <<t, a>> \in HarmlessIn(excepted, pairs)
  BY <1>1 DEF HarmlessIn, Covers
<1>2. ASSUME NEW new \in Nat, NEW old \in Nat, NEW a \in Nat, old <= new,
             <<new, a>> \in HarmlessIn(excepted, pairs)
      PROVE  <<old, a>> \in HarmlessIn(excepted, pairs)
  <2>1. CASE new <= excepted
    <3>1. old <= excepted
      BY <1>2, <2>1
    <3> QED BY <3>1 DEF HarmlessIn
  <2>2. CASE Covers(a, new, pairs)
    <3>1. Covers(a, old, pairs)
      <4>1. CASE new <= a
        BY <1>2, <4>1 DEF Covers
      <4>2. CASE \E p \in pairs : new <= p[1] /\ p[2] = a
        <5>1. PICK p \in pairs : new <= p[1] /\ p[2] = a
          BY <4>2
        <5>2. p[1] \in Nat
          BY DEF Likenesses
        <5>3. old <= p[1]
          BY <1>2, <5>1, <5>2
        <5> QED BY <5>1, <5>3 DEF Covers
      <4> QED BY <2>2, <4>1, <4>2 DEF Covers
    <3> QED BY <3>1 DEF HarmlessIn
  <2> QED BY <1>2, <2>1, <2>2 DEF HarmlessIn
<1> QED BY <1>1, <1>2 DEF Ordered

(* What did no harm does none later. *)
Grows == Harmless \subseteq Harmless'

LEMMA HarmlessGrows ==
  ASSUME FileTypeOK, FileTypeOK', undone <= undone', alike \subseteq alike'
  PROVE  Grows
<1> SUFFICES ASSUME NEW t \in Nat, NEW a \in Nat, t <= undone \/ Covers(a, t, alike)
             PROVE  t <= undone' \/ Covers(a, t, alike')
  BY DEF Grows, Harmless, HarmlessIn
<1>1. undone \in Nat /\ undone' \in Nat
  BY DEF FileTypeOK
<1>2. CASE t <= undone
  BY <1>1, <1>2
<1>3. CASE Covers(a, t, alike)
  BY <1>3 DEF Covers
<1> QED BY <1>2, <1>3

LEMMA StillOrdered == ASSUME FileTypeOK' PROVE Ordered(Harmless')
BY HarmlessOrdered DEF FileTypeOK, Harmless

-----------------------------------------------------------------------------
(* The queue. *)
Shift(c, d, k) ==
  /\ k \in {1, 2} /\ k <= Len(c) /\ d \in Seq(Operations) /\ Len(d) = Len(c) - k
  /\ \A i \in Places(d) : i + k \in Places(c) /\ d[i] = c[i + k]
  /\ \A i \in Places(c) : i > k => i - k \in Places(d) /\ d[i - k] = c[i]

Extends(c, d, op) ==
  /\ d \in Seq(Operations) /\ op \in Operations /\ Len(d) = Len(c) + 1 /\ Len(c) \in Nat /\ d # << >>
  /\ Places(d) = Places(c) \cup {Len(d)} /\ Len(d) \notin Places(c)
  /\ \A i \in Places(c) : d[i] = c[i] /\ i < Len(d)
  /\ d[Len(d)] = op

(* The same operations, but that the first may have come to run, or edits     *)
(* were typed on.                                                             *)
Like(c, d) ==
  /\ d \in Seq(Operations) /\ Places(d) = Places(c) /\ (c = << >> <=> d = << >>)
  /\ \A i \in Places(c) :
       /\ d[i].kind = c[i].kind /\ d[i].text = c[i].text /\ d[i].id = c[i].id
       /\ d[i].pc = c[i].pc \/ (i = 1 /\ c[i].pc # "ready" /\ d[i].pc # "ready")

LEMMA Places1 ==
  ASSUME NEW c \in Seq(Operations)
  PROVE  /\ Len(c) \in Nat /\ Places(c) \subseteq Nat \ {0}
         /\ \A i \in Places(c) : c[i] \in Operations
         /\ c # << >> => 1 \in Places(c) /\ Len(c) >= 1
         /\ c = << >> => Places(c) = {}
<1>1. Len(c) \in Nat
  OBVIOUS
<1>2. c # << >> => Len(c) \in Nat \ {0}
  BY EmptySeq
<1>3. c = << >> => Len(c) = 0
  BY EmptySeq
<1> QED BY <1>1, <1>2, <1>3, ElementOfSeq DEF Places

LEMMA AppendExtends ==
  ASSUME NEW c \in Seq(Operations), NEW op \in Operations
  PROVE  Extends(c, Append(c, op), op)
<1> DEFINE d == Append(c, op)
<1>1. /\ d \in Seq(Operations) /\ d # << >> /\ Len(d) = Len(c) + 1
      /\ \A i \in 1 .. Len(c) : d[i] = c[i]
      /\ d[Len(c) + 1] = op
  BY AppendProperties
<1>2. Len(c) \in Nat
  OBVIOUS
<1> HIDE DEF d
<1>3. Places(d) = Places(c) \cup {Len(d)} /\ Len(d) \notin Places(c) /\ \A i \in Places(c) : i < Len(d)
  BY <1>1, <1>2 DEF Places
<1> QED BY <1>1, <1>2, <1>3 DEF Extends, Places, d

LEMMA TailShifts ==
  ASSUME NEW c \in Seq(Operations), c # << >>
  PROVE  Shift(c, Tail(c), 1)
<1>1. /\ Tail(c) \in Seq(Operations) /\ Len(Tail(c)) = Len(c) - 1
      /\ \A i \in 1 .. Len(Tail(c)) : Tail(c)[i] = c[i + 1]
  BY HeadTailProperties
<1>2. Len(c) \in Nat /\ Len(c) >= 1
  BY Places1
<1>3. \A i \in Places(c) : i > 1 => i - 1 \in Places(Tail(c)) /\ Tail(c)[i - 1] = c[i]
  BY <1>1, <1>2 DEF Places
<1> QED BY <1>1, <1>2, <1>3 DEF Shift, Places

LEMMA TailTwiceShifts ==
  ASSUME NEW c \in Seq(Operations), Len(c) > 1
  PROVE  Shift(c, Tail(Tail(c)), 2)
<1> DEFINE d == Tail(c)
<1>1. Len(c) \in Nat /\ c # << >>
  BY Places1, EmptySeq
<1>2. Shift(c, d, 1)
  BY <1>1, TailShifts
<1>3. d \in Seq(Operations) /\ Len(d) = Len(c) - 1 /\ d # << >>
  BY <1>1, <1>2, EmptySeq DEF Shift
<1> HIDE DEF d
<1>4. Shift(d, Tail(d), 1)
  BY <1>3, TailShifts
<1>5. /\ Tail(d) \in Seq(Operations) /\ Len(Tail(d)) = Len(c) - 2
      /\ \A i \in Places(Tail(d)) : i + 1 \in Places(d) /\ Tail(d)[i] = d[i + 1]
      /\ \A i \in Places(d) : i + 1 \in Places(c) /\ d[i] = c[i + 1]
      /\ \A i \in Places(d) : i > 1 => i - 1 \in Places(Tail(d)) /\ Tail(d)[i - 1] = d[i]
      /\ \A i \in Places(c) : i > 1 => i - 1 \in Places(d) /\ d[i - 1] = c[i]
  <2>1. Len(Tail(d)) = Len(d) - 1 /\ (Len(c) - 1) - 1 = Len(c) - 2
    BY <1>1, <1>4 DEF Shift
  <2> QED BY <1>2, <1>3, <1>4, <2>1 DEF Shift
<1>6. \A i \in Places(Tail(d)) : i + 2 \in Places(c) /\ Tail(d)[i] = c[i + 2]
  <2> SUFFICES ASSUME NEW i \in Places(Tail(d)) PROVE i + 2 \in Places(c) /\ Tail(d)[i] = c[i + 2]
    OBVIOUS
  <2>1. i \in Nat /\ (i + 1) + 1 = i + 2
    BY DEF Places
  <2>2. i + 1 \in Places(d) /\ Tail(d)[i] = d[i + 1]
    BY <1>5
  <2>3. (i + 1) + 1 \in Places(c) /\ d[i + 1] = c[(i + 1) + 1]
    BY <1>5, <2>2
  <2> QED BY <2>1, <2>2, <2>3
<1>7. \A i \in Places(c) : i > 2 => i - 2 \in Places(Tail(d)) /\ Tail(d)[i - 2] = c[i]
  <2> SUFFICES ASSUME NEW i \in Places(c), i > 2 PROVE i - 2 \in Places(Tail(d)) /\ Tail(d)[i - 2] = c[i]
    OBVIOUS
  <2>1. i \in Nat /\ (i - 1) - 1 = i - 2 /\ i > 1 /\ i - 1 > 1
    BY DEF Places
  <2>2. i - 1 \in Places(d) /\ d[i - 1] = c[i]
    BY <1>5, <2>1
  <2>3. (i - 1) - 1 \in Places(Tail(d)) /\ Tail(d)[(i - 1) - 1] = d[i - 1]
    BY <1>5, <2>1, <2>2
  <2> QED BY <2>1, <2>2, <2>3
<1>8. Len(c) \in Nat /\ 2 <= Len(c)
  BY <1>1
<1> QED BY <1>5, <1>6, <1>7, <1>8 DEF Shift, d

(* What is left behind the first operation. *)
LEMMA RestShifts ==
  ASSUME FileTypeOK, chain # << >>
  PROVE  \E k \in {1, 2} : /\ Shift(chain, Rest, k)
                           /\ k = 2 => Aborts /\ 2 \in Places(chain) /\ chain[2].kind = "lock"
                           /\ Aborts => k = 2
<1>1. chain \in Seq(Operations) /\ Len(chain) \in Nat
  BY DEF FileTypeOK
<1>2. CASE Aborts
  <2>1. Len(chain) > 1 /\ chain[2].kind = "lock" /\ Rest = Tail(Tail(chain))
    BY <1>2 DEF Aborts, Rest
  <2>2. 2 \in Places(chain)
    BY <1>1, <2>1 DEF Places
  <2> QED BY <1>1, <1>2, <2>1, <2>2, TailTwiceShifts
<1>3. CASE ~Aborts
  <2>1. Rest = Tail(chain)
    BY <1>3 DEF Rest
  <2> QED BY <1>1, <1>3, <2>1, TailShifts
<1> QED BY <1>2, <1>3

(* The first operation leaves, with the lock it has aborted. *)
LEMMA ShiftOrderly ==
  ASSUME NEW c \in Seq(Operations), NEW d, NEW k, Shift(c, d, k), Orderly(c)
  PROVE  /\ Orderly(d)
         /\ \A on : LandedIs(d, on)
         /\ \A i \in Places(d) : c[1].kind \in {"auto", "drain", "lock"} => d[i].kind # c[1].kind
         /\ \A i \in Places(d) : d[i].pc = IF d[i].kind = "lock" THEN "ready" ELSE "queued"
<1>1. /\ d \in Seq(Operations) /\ k \in {1, 2} /\ Len(c) \in Nat /\ Len(d) \in Nat /\ 1 \in Places(c)
      /\ \A i \in Places(d) : i \in Nat \ {0} /\ i + k \in Places(c) /\ d[i] = c[i + k] /\ i + k # 1
  BY Places1 DEF Shift, Places
<1>2. \A i \in Places(d) : d[i].pc = IF d[i].kind = "lock" THEN "ready" ELSE "queued"
  BY <1>1 DEF Orderly
<1>3. \A i \in Places(d) : (d[i].pc = "ready" => d[i].kind = "lock") /\ (d[i].kind = "drain" <=> d[i].id # 0)
  BY <1>1 DEF Orderly
<1>4. \A i, j \in Places(d) : d[i].kind = d[j].kind /\ d[i].kind \in {"auto", "drain", "lock"} => i = j
  <2> SUFFICES ASSUME NEW i \in Places(d), NEW j \in Places(d), d[i].kind = d[j].kind, d[i].kind \in {"auto", "drain", "lock"}
               PROVE  i = j
    OBVIOUS
  <2>1. \A a, b \in Places(c) : c[a].kind = c[b].kind /\ c[a].kind \in {"auto", "drain", "lock"} => a = b
    BY DEF Orderly
  <2>2. i + k = j + k
    BY <1>1, <2>1
  <2> QED BY <1>1, <2>2
<1>5. \A i, j \in Places(d) : i < j /\ d[i].kind # "lock" /\ d[j].kind # "lock" => d[i].text <= d[j].text
  <2> SUFFICES ASSUME NEW i \in Places(d), NEW j \in Places(d), i < j, d[i].kind # "lock", d[j].kind # "lock"
               PROVE  d[i].text <= d[j].text
    OBVIOUS
  <2>1. i + k < j + k
    BY <1>1
  <2> QED BY <1>1, <2>1 DEF Orderly
<1>6. \A i \in Places(d) : c[1].kind \in {"auto", "drain", "lock"} => d[i].kind # c[1].kind
  BY <1>1 DEF Orderly
<1>7. \A on : LandedIs(d, on)
  BY <1>1, <1>2, Places1 DEF LandedIs
<1> QED BY <1>2, <1>3, <1>4, <1>5, <1>6, <1>7 DEF Orderly

LEMMA ShiftTimely ==
  ASSUME NEW c \in Seq(Operations), NEW d, NEW k, Shift(c, d, k), NEW newest, NEW busy, NEW edit,
         Timely(c, newest, busy, edit)
  PROVE  Timely(d, newest, busy, edit)
BY DEF Shift, Timely

LEMMA ShiftBacked ==
  ASSUME NEW c \in Seq(Operations), NEW d, NEW k, Shift(c, d, k), NEW modified, Backed(c, modified)
  PROVE  Backed(d, modified)
<1> SUFFICES ASSUME NEW i \in Places(d), d[i].kind \in {"auto", "lock"}, d[i].pc # "ready", ~modified
             PROVE  \E j \in Places(d) : i < j /\ d[j].kind = "close" /\ d[i].text <= d[j].text
  BY DEF Backed
<1>1. k \in {1, 2} /\ i \in Nat \ {0} /\ i + k \in Places(c) /\ d[i] = c[i + k]
  BY DEF Shift, Places
<1>2. PICK j \in Places(c) : i + k < j /\ c[j].kind = "close" /\ c[i + k].text <= c[j].text
  BY <1>1 DEF Backed
<1>3. j \in Nat /\ j > k /\ i < j - k
  BY <1>1, <1>2 DEF Places
<1>4. j - k \in Places(d) /\ d[j - k] = c[j]
  BY <1>3 DEF Shift
<1> QED BY <1>1, <1>2, <1>3, <1>4

(* An operation comes behind the others. *)
LEMMA ExtendsOrderly ==
  ASSUME NEW c \in Seq(Operations), NEW d, NEW op, Extends(c, d, op), Orderly(c),
         op.pc = IF op.kind = "lock" THEN "ready" ELSE "queued",
         op.kind = "drain" <=> op.id # 0,
         op.kind \in {"auto", "drain", "lock"} => \A i \in Places(c) : c[i].kind # op.kind,
         op.kind # "lock" => \A i \in Places(c) : c[i].text <= op.text
  PROVE  Orderly(d)
<1>1. \A i \in Places(d) : i \in Places(c) \/ i = Len(d)
  BY DEF Extends
<1>2. \A i \in Places(d) : i # 1 => d[i].pc = IF d[i].kind = "lock" THEN "ready" ELSE "queued"
  BY <1>1 DEF Extends, Orderly
<1>3. \A i \in Places(d) : (d[i].pc = "ready" => d[i].kind = "lock") /\ (d[i].kind = "drain" <=> d[i].id # 0)
  BY <1>1 DEF Extends, Orderly
<1>4. \A i, j \in Places(d) : d[i].kind = d[j].kind /\ d[i].kind \in {"auto", "drain", "lock"} => i = j
  BY <1>1 DEF Extends, Orderly
<1>5. \A i, j \in Places(d) : i < j /\ d[i].kind # "lock" /\ d[j].kind # "lock" => d[i].text <= d[j].text
  <2> SUFFICES ASSUME NEW i \in Places(d), NEW j \in Places(d), i < j, d[i].kind # "lock", d[j].kind # "lock"
               PROVE  d[i].text <= d[j].text
    OBVIOUS
  <2>1. i \in Places(c)
    <3>1. i # Len(d)
      BY DEF Extends, Places
    <3> QED BY <1>1, <3>1
  <2>2. CASE j \in Places(c)
    BY <2>1, <2>2 DEF Extends, Orderly
  <2>3. CASE j = Len(d)
    BY <2>1, <2>3 DEF Extends
  <2> QED BY <1>1, <2>2, <2>3
<1> QED BY <1>2, <1>3, <1>4, <1>5 DEF Orderly

LEMMA ExtendsTimely ==
  ASSUME NEW c \in Seq(Operations), NEW d, NEW op, Extends(c, d, op), NEW newest, NEW busy, NEW edit,
         Timely(c, newest, busy, edit),
         op.text <= newest, op.kind = "auto" => busy,
         op.kind = "drain" => op.id = edit.id /\ (op.same => op.text = edit.text)
  PROVE  Timely(d, newest, busy, edit)
BY DEF Extends, Timely

LEMMA ExtendsBacked ==
  ASSUME NEW c \in Seq(Operations), NEW d, NEW op, Extends(c, d, op), NEW modified, Backed(c, modified),
         op.kind \in {"auto", "lock"} => modified \/ op.pc = "ready"
  PROVE  Backed(d, modified)
BY DEF Extends, Backed

LEMMA ExtendsLanded ==
  ASSUME NEW c \in Seq(Operations), NEW d, NEW op, Extends(c, d, op), NEW on, LandedIs(c, on), op.pc # "landed"
  PROVE  LandedIs(d, on)
<1>1. CASE c = << >>
  <2>1. Len(d) = 1
    BY <1>1, EmptySeq DEF Extends
  <2> QED BY <2>1 DEF Extends, LandedIs
<1>2. CASE c # << >>
  BY <1>2, Places1 DEF Extends, LandedIs
<1> QED BY <1>1, <1>2

(* What is safe stays safe as operations come and go. *)
LEMMA ExtendsSafe ==
  ASSUME NEW c \in Seq(Operations), NEW d, NEW op, Extends(c, d, op), NEW on, NEW shown, NEW ok, NEW text,
         SafeIn(c, on, shown, ok, text), op.pc = "ready" \/ <<text, op.text>> \in ok
  PROVE  SafeIn(d, on, shown, ok, text)
BY DEF Extends, SafeIn

LEMMA Behind ==
  ASSUME NEW c \in Seq(Operations), NEW d, NEW k, Shift(c, d, k), Orderly(c), c[1].kind # "lock",
         NEW text \in Nat, text <= c[1].text
  PROVE  \A j \in Places(d) : d[j].pc # "ready" => text <= d[j].text
<1> SUFFICES ASSUME NEW j \in Places(d), d[j].pc # "ready" PROVE text <= d[j].text
  OBVIOUS
<1>1. k \in Nat /\ j \in Nat \ {0} /\ j + k \in Places(c) /\ d[j] = c[j + k] /\ 1 < j + k /\ 1 \in Places(c)
  BY Places1, EmptySeq DEF Shift, Places
<1>2. d[j].kind # "lock"
  BY ShiftOrderly
<1>3. c[1].text <= c[j + k].text
  BY <1>1, <1>2 DEF Orderly
<1>4. c[1].text \in Nat /\ c[j + k].text \in Nat
  BY <1>1, Places1 DEF Operations
<1> QED BY <1>1, <1>3, <1>4

LEMMA ShiftPlaces ==
  ASSUME NEW c \in Seq(Operations), NEW d, NEW k, Shift(c, d, k)
  PROVE  /\ d \in Seq(Operations) /\ k \in {1, 2} /\ 1 \in Places(c) /\ c # << >>
         /\ \A i \in Places(d) : i \in Nat \ {0} /\ i + k \in Places(c) /\ d[i] = c[i + k] /\ 1 < i + k
         /\ \A i \in Places(c) : c[i].text \in Nat /\ i \in Nat \ {0}
<1>1. \A op \in Operations : op.text \in Nat
  BY DEF Operations
<1>2. Len(c) \in Nat /\ k <= Len(c) /\ k \in {1, 2} /\ d \in Seq(Operations) /\ c # << >>
  BY EmptySeq DEF Shift
<1> QED BY <1>1, <1>2, Places1 DEF Shift, Places

LEMMA ShiftSafe ==
  ASSUME NEW c \in Seq(Operations), NEW d, NEW k, Shift(c, d, k), Orderly(c), NEW on \in Nat, LandedIs(c, on),
         NEW shown \in Nat, NEW after \in Nat, shown <= after, NEW ok, Ordered(ok),
         k = 2 => 2 \in Places(c) /\ c[2].kind = "lock",
         c[1].pc \in {"landed", "failed"},
         c[1].pc = "failed" /\ c[1].kind \in {"drain", "close", "flush"} => c[1].text <= after,
         NEW text \in Nat, SafeIn(c, on, shown, ok, text)
  PROVE  SafeIn(d, on, after, ok, text)
<1>1. /\ k \in {1, 2} /\ 1 \in Places(c) /\ c # << >>
      /\ \A i \in Places(d) : i + k \in Places(c) /\ d[i] = c[i + k]
      /\ \A i \in Places(c) : c[i].text \in Nat /\ i \in Nat \ {0}
  BY ShiftPlaces
<1>2. CASE text <= shown
  BY <1>2 DEF SafeIn
<1>3. CASE \E i \in Places(c) : c[i].kind \in {"drain", "close", "flush"} /\ text <= c[i].text
  <2>1. PICK i \in Places(c) : c[i].kind \in {"drain", "close", "flush"} /\ text <= c[i].text
    BY <1>3
  <2>2. CASE i > k
    BY <2>1, <2>2 DEF Shift, SafeIn
  <2>3. CASE i = 1 /\ c[1].pc = "failed"
    BY <1>1, <2>1, <2>3 DEF SafeIn
  <2>4. CASE i = 1 /\ c[1].pc = "landed"
    <3>1. text <= on
      BY <1>1, <2>1, <2>4 DEF LandedIs
    <3>2. \A j \in Places(d) : d[j].pc # "ready" => text <= d[j].text
      BY <2>1, <2>4, Behind
    <3>3. \A j \in Places(d) : d[j].text \in Nat
      BY <1>1
    <3> QED BY <3>1, <3>2, <3>3 DEF SafeIn, Ordered
  <2>5. i > k \/ i = 1 \/ (i = 2 /\ k = 2)
    BY <1>1
  <2> QED BY <1>1, <2>1, <2>2, <2>3, <2>4, <2>5
<1>4. CASE <<text, on>> \in ok /\ \A i \in Places(c) : c[i].pc # "ready" => <<text, c[i].text>> \in ok
  BY <1>1, <1>4 DEF SafeIn
<1> QED BY <1>2, <1>3, <1>4 DEF SafeIn

(* What was written is safe. *)
LEMMA LandedSafe ==
  ASSUME NEW c \in Seq(Operations), NEW d, NEW k, Shift(c, d, k), Orderly(c), NEW on \in Nat, LandedIs(c, on),
         c[1].pc = "landed", c[1].kind # "lock", NEW shown, NEW ok, Ordered(ok),
         NEW text \in Nat, text <= c[1].text
  PROVE  SafeIn(d, on, shown, ok, text)
<1>1. c # << >> /\ c[1].text \in Nat /\ \A j \in Places(d) : d[j].text \in Nat
  BY ShiftPlaces
<1>2. text <= on
  BY <1>1 DEF LandedIs
<1>3. \A j \in Places(d) : d[j].pc # "ready" => text <= d[j].text
  BY Behind
<1> QED BY <1>1, <1>2, <1>3 DEF SafeIn, Ordered

(* As an operation runs. *)
LEMMA LikeOrderly == ASSUME NEW c, NEW d, Like(c, d), Orderly(c) PROVE Orderly(d)
<1>1. \A i \in Places(d) : i \in Nat
  BY DEF Places
<1>2. \A i \in Places(d) : i # 1 => d[i].pc = IF d[i].kind = "lock" THEN "ready" ELSE "queued"
  BY <1>1 DEF Like, Orderly
<1>3. \A i \in Places(d) : (d[i].pc = "ready" => d[i].kind = "lock") /\ (d[i].kind = "drain" <=> d[i].id # 0)
  BY <1>1 DEF Like, Orderly
<1>4. \A i, j \in Places(d) : d[i].kind = d[j].kind /\ d[i].kind \in {"auto", "drain", "lock"} => i = j
  BY DEF Like, Orderly
<1>5. \A i, j \in Places(d) : i < j /\ d[i].kind # "lock" /\ d[j].kind # "lock" => d[i].text <= d[j].text
  BY DEF Like, Orderly
<1> QED BY <1>2, <1>3, <1>4, <1>5 DEF Orderly

LEMMA LikeBacked ==
  ASSUME NEW c, NEW d, Like(c, d), NEW modified, Backed(c, modified)
  PROVE  Backed(d, modified)
<1> SUFFICES ASSUME NEW i \in Places(d), d[i].kind \in {"auto", "lock"}, d[i].pc # "ready", ~modified
             PROVE  \E j \in Places(d) : i < j /\ d[j].kind = "close" /\ d[i].text <= d[j].text
  BY DEF Backed
<1>1. i \in Places(c) /\ c[i].kind \in {"auto", "lock"} /\ c[i].pc # "ready"
  BY DEF Like
<1>2. PICK j \in Places(c) : i < j /\ c[j].kind = "close" /\ c[i].text <= c[j].text
  BY <1>1 DEF Backed
<1> QED BY <1>1, <1>2 DEF Like

LEMMA LikeSafe ==
  ASSUME NEW c, NEW d, Like(c, d), NEW on, NEW after,
         after = on \/ (after = c[1].text /\ 1 \in Places(c) /\ c[1].pc # "ready"),
         NEW shown, NEW ok, NEW text, SafeIn(c, on, shown, ok, text)
  PROVE  SafeIn(d, after, shown, ok, text)
<1>1. CASE \E i \in Places(c) : c[i].kind \in {"drain", "close", "flush"} /\ text <= c[i].text
  BY <1>1 DEF Like, SafeIn
<1>2. CASE <<text, on>> \in ok /\ \A i \in Places(c) : c[i].pc # "ready" => <<text, c[i].text>> \in ok
  <2>1. <<text, after>> \in ok
    BY <1>2
  <2>2. \A i \in Places(d) : d[i].pc # "ready" => <<text, d[i].text>> \in ok
    BY <1>2 DEF Like
  <2> QED BY <2>1, <2>2 DEF SafeIn
<1> QED BY <1>1, <1>2 DEF SafeIn

(* The first operation writes, or fails to. *)
LEMMA LandsLike ==
  ASSUME FileTypeOK, Lands
  PROVE  /\ Like(chain, chain') /\ 1 \in Places(chain) /\ chain[1].text \in Nat /\ chain[1].pc = "queued"
         /\ \A i \in Places(chain) : chain'[i].same = chain[i].same
         /\ chain' \in Seq(Operations)
         /\ (disk' = disk /\ chain'[1].pc = "failed") \/ (disk' = chain[1].text /\ chain'[1].pc = "landed")
<1>1. /\ chain \in Seq(Operations) /\ chain # << >> /\ 1 \in Places(chain) /\ chain[1] \in Operations
      /\ chain[1].pc = "queued"
  BY Places1 DEF FileTypeOK, Lands, Foremost
<1> DEFINE e(how) == [chain[1] EXCEPT !.pc = how]
<1>2. \E how \in {"landed", "failed"} :
        /\ chain' = [chain EXCEPT ![1] = e(how)]
        /\ (disk' = disk /\ how = "failed") \/ (disk' = chain[1].text /\ how = "landed")
  <2>1. CASE disk' = Foremost.text /\ chain' = [chain EXCEPT ![1].pc = "landed"]
    <3>1. chain' = [chain EXCEPT ![1] = e("landed")]
      BY <2>1
    <3> QED BY <2>1, <3>1 DEF Foremost
  <2>2. CASE disk' = disk /\ chain' = [chain EXCEPT ![1].pc = "failed"]
    <3>1. chain' = [chain EXCEPT ![1] = e("failed")]
      BY <2>2
    <3> HIDE DEF e
    <3>2. "failed" \in {"landed", "failed"}
      OBVIOUS
    <3> QED BY <2>2, <3>1, <3>2
  <2>3. \/ disk' = Foremost.text /\ chain' = [chain EXCEPT ![1].pc = "landed"]
        \/ disk' = disk /\ chain' = [chain EXCEPT ![1].pc = "failed"]
    BY DEF Lands
  <2> QED BY <2>1, <2>2, <2>3
<1> PICK how \in {"landed", "failed"} :
        /\ chain' = [chain EXCEPT ![1] = e(how)]
        /\ (disk' = disk /\ how = "failed") \/ (disk' = chain[1].text /\ how = "landed")
  BY <1>2
<1>3. /\ e(how) \in Operations /\ e(how).kind = chain[1].kind /\ e(how).text = chain[1].text
      /\ e(how).pc = how /\ e(how).id = chain[1].id /\ e(how).same = chain[1].same
  BY <1>1 DEF Operations
<1> HIDE DEF e
<1>4. /\ chain' \in Seq(Operations) /\ Len(chain') = Len(chain)
      /\ \A i \in Places(chain) : chain'[i] = IF i = 1 THEN e(how) ELSE chain[i]
  BY <1>1, <1>2, <1>3, ExceptSeq DEF Places
<1>5. chain' # << >>
  BY <1>1, <1>4, EmptySeq DEF Places
<1>6. chain[1].text \in Nat
  BY <1>1 DEF Operations
<1> QED BY <1>1, <1>2, <1>3, <1>4, <1>5, <1>6 DEF Like, Places

-----------------------------------------------------------------------------
(* Types are kept. *)
LEMMA OperationIs ==
  ASSUME NEW kind \in OperationKinds, NEW text \in Nat
  PROVE  /\ Operation(kind, text) \in Operations
         /\ Operation(kind, text).kind = kind /\ Operation(kind, text).text = text
         /\ Operation(kind, text).pc = "queued" /\ Operation(kind, text).id = 0 /\ Operation(kind, text).same
BY DEF Operation, Operations

LEMMA DrainIs ==
  ASSUME NEW p, p.id \in Nat, p.text \in Nat
  PROVE  /\ DrainOf(p) \in Operations
         /\ DrainOf(p).kind = "drain" /\ DrainOf(p).text = p.text
         /\ DrainOf(p).pc = "queued" /\ DrainOf(p).id = p.id /\ DrainOf(p).same
<1> DEFINE op == Operation("drain", p.text)
<1>1. op \in Operations /\ op.kind = "drain" /\ op.text = p.text /\ op.pc = "queued" /\ op.same
  BY OperationIs DEF OperationKinds
<1> HIDE DEF op
<1>2. DrainOf(p) = [op EXCEPT !.id = p.id]
  BY DEF DrainOf, op
<1> QED BY <1>1, <1>2 DEF Operations

ReadyLock == [Operation("lock", 0) EXCEPT !.pc = "ready"]
LEMMA ReadyIs ==
  /\ ReadyLock \in Operations /\ ReadyLock.kind = "lock" /\ ReadyLock.pc = "ready" /\ ReadyLock.id = 0 /\ ReadyLock.text = 0
<1> DEFINE op == Operation("lock", 0)
<1>1. op \in Operations /\ op.kind = "lock" /\ op.text = 0 /\ op.id = 0
  BY OperationIs DEF OperationKinds
<1> HIDE DEF op
<1>2. ReadyLock = [op EXCEPT !.pc = "ready"]
  BY DEF ReadyLock, op
<1> QED BY <1>1, <1>2 DEF Operations

LEMMA NewTextIs ==
  ASSUME FileTypeOK, NewText
  PROVE  /\ texts' = texts + 1 /\ texts' \in Nat
         /\ alike' \in Likenesses /\ alike \subseteq alike'
<1>1. texts' = texts + 1 /\ texts' \in Nat /\ texts \in Nat /\ alike \in Likenesses
  BY DEF FileTypeOK, NewText
<1>2. CASE UNCHANGED alike
  BY <1>1, <1>2
<1>3. CASE ~UNCHANGED alike
  <2>1. PICK repeated \in SUBSET (0 .. texts) :
          alike' = alike \cup ({texts'} \X repeated) \cup (repeated \X {texts'})
    BY <1>3 DEF NewText
  <2>2. repeated \subseteq Nat
    BY <1>1
  <2> QED BY <1>1, <2>1, <2>2 DEF Likenesses
<1> QED BY <1>1, <1>2, <1>3

(* History of a text that was returned to. *)
LEMMA UndoneTypes == ASSUME FileTypeOK, NEW others, Undone(others) PROVE undone' \in Nat
BY DEF FileTypeOK, Tabs, Undone

LEMMA UpdateTypes ==
  ASSUME FileTypeOK, NEW text \in Nat, Updated(text)
  PROVE  tab' \in Tabs /\ debounce' \in BOOLEAN
BY DEF FileTypeOK, Updated, Tabs

LEMMA RestTypes == ASSUME FileTypeOK, chain # << >> PROVE Rest \in Seq(Operations)
BY RestShifts DEF Shift

LEMMA TurnTypes ==
  ASSUME FileTypeOK, NEW others \in Seq(Operations), DrainTurn(others)
  PROVE  /\ tab' \in Tabs /\ debounce' \in BOOLEAN
         /\ pend' \in [id : Nat, text : Nat, debounce : BOOLEAN] /\ chain' \in Seq(Operations)
<1>1. pend.id \in Nat /\ pend.text \in Nat /\ DrainOf(pend) \in Operations
  BY DrainIs DEF FileTypeOK
<1>2. CASE tab.open
  <2>1. NoPend \in [id : Nat, text : Nat, debounce : BOOLEAN]
    BY DEF NoPend
  <2> QED BY <1>1, <1>2, <2>1, UpdateTypes DEF DrainTurn, FileTypeOK
<1>3. CASE ~tab.open
  <2>1. Append(others, DrainOf(pend)) \in Seq(Operations)
    BY <1>1, AppendProperties
  <2> QED BY <1>3, <2>1 DEF DrainTurn, FileTypeOK
<1> QED BY <1>2, <1>3

LEMMA DrainTypes ==
  ASSUME FileTypeOK, Drain
  PROVE  /\ tab' \in Tabs /\ debounce' \in BOOLEAN
         /\ pend' \in [id : Nat, text : Nat, debounce : BOOLEAN] /\ chain' \in Seq(Operations)
<1>1. CASE DrainTurn(chain)
  BY <1>1, TurnTypes DEF FileTypeOK
<1>2. CASE ~DrainTurn(chain)
  BY <1>2 DEF Drain, FileTypeOK
<1> QED BY <1>1, <1>2

LEMMA LockRunsTypes ==
  ASSUME FileTypeOK, NEW others \in Seq(Operations), LockRuns(others)
  PROVE  chain' \in Seq(Operations) /\ save' \in [pc : {"idle", "flush", "wait", "lock"}, of : Nat, goal : Nat]
<1>1. tab.text \in Nat
  BY DEF FileTypeOK, Tabs
<1>2. Operation("lock", tab.text) \in Operations
  BY <1>1, OperationIs DEF OperationKinds
<1>3. << Operation("lock", tab.text) >> \in Seq(Operations)
  BY <1>2
<1>4. << Operation("lock", tab.text) >> \o others \in Seq(Operations)
  BY <1>3, ConcatProperties
<1>5. Uncalled \in [pc : {"idle", "flush", "wait", "lock"}, of : Nat, goal : Nat]
  BY DEF Uncalled
<1> QED BY <1>4, <1>5 DEF LockRuns, FileTypeOK

LEMMA HearsTypes ==
  ASSUME FileTypeOK, SaveHears
  PROVE  save' \in [pc : {"idle", "flush", "wait", "lock"}, of : Nat, goal : Nat]
BY DEF FileTypeOK, SaveHears, Uncalled

LEMMA AppendTypes ==
  ASSUME FileTypeOK, NEW c \in Seq(Operations), NEW kind \in OperationKinds
  PROVE  Append(c, Operation(kind, tab.text)) \in Seq(Operations)
<1>1. tab.text \in Nat
  BY DEF FileTypeOK, Tabs
<1> QED BY <1>1, OperationIs, AppendProperties

LEMMA QueueSteps ==
  ASSUME FileTypeOK, AutoReturns \/ DrainReturns \/ OtherReturns \/ LockStarts \/ LockReturns \/ SaveLocks
  PROVE  FileTypeOK'
<1>1. chain \in Seq(Operations) /\ (chain # << >> => Rest \in Seq(Operations)) /\ << >> \in Seq(Operations)
  BY RestTypes, EmptySeq DEF FileTypeOK
<1>2. CASE AutoReturns
  <2>1. chain' \in Seq(Operations)
    BY <1>1, <1>2, AppendTypes DEF AutoReturns, Returned, OperationKinds
  <2>2. tab' \in Tabs /\ debounce' \in BOOLEAN /\ saving' \in BOOLEAN
    BY <1>2 DEF AutoReturns, FileTypeOK, Tabs, Failed
  <2>3. undone' \in Nat
    BY <1>2, UndoneTypes DEF AutoReturns
  <2>4. save' \in [pc : {"idle", "flush", "wait", "lock"}, of : Nat, goal : Nat]
    BY <1>2, HearsTypes DEF AutoReturns
  <2>5. UNCHANGED <<disk, watch, pend, visit, reads, flush, texts, alike, tabs, failures, typed, told, crossed,
                    called>>
    BY <1>2 DEF AutoReturns
  <2>6. /\ {texts, tabs, failures, called, typed, told, undone}' \subseteq Nat
        /\ crossed' \in BOOLEAN /\ alike' \in Likenesses
    BY <2>3, <2>5 DEF FileTypeOK
  <2>7. /\ disk' \in Nat /\ watch' \in BOOLEAN /\ reads' \in SUBSET Nat
        /\ pend' \in [id : Nat, text : Nat, debounce : BOOLEAN]
        /\ visit' \in [pc : {"idle", "flush", "read"}, of : Nat, text : Nat]
        /\ flush' \in [pc : {"idle", "flush", "settle"}, of : Nat, goal : Nat]
    BY <2>5 DEF FileTypeOK
  <2> QED BY <2>1, <2>2, <2>4, <2>6, <2>7 DEF FileTypeOK
<1>3. CASE DrainReturns
  <2>1. chain # << >> /\ chain[1].text \in Nat
    BY <1>1, <1>3, Places1 DEF DrainReturns, Returned, Operations
  <2>2. NoPend \in [id : Nat, text : Nat, debounce : BOOLEAN]
    BY DEF NoPend
  <2>3. /\ tab' \in Tabs /\ debounce' \in BOOLEAN
        /\ pend' \in [id : Nat, text : Nat, debounce : BOOLEAN] /\ chain' \in Seq(Operations)
    <3>1. CASE DrainTurn(Rest)
      BY <1>1, <2>1, <3>1, TurnTypes
    <3>2. CASE chain' = Rest /\ UNCHANGED <<tab, debounce>> /\ pend' \in {pend, NoPend}
      BY <1>1, <2>1, <2>2, <3>2 DEF FileTypeOK
    <3> QED BY <1>3, <3>1, <3>2 DEF DrainReturns
  <2>4. told' \in Nat
    BY <1>3, <2>1 DEF DrainReturns, Told, FileTypeOK, Foremost
  <2>5. /\ visit' \in [pc : {"idle", "flush", "read"}, of : Nat, text : Nat]
        /\ flush' \in [pc : {"idle", "flush", "settle"}, of : Nat, goal : Nat]
        /\ save' \in [pc : {"idle", "flush", "wait", "lock"}, of : Nat, goal : Nat]
    BY <1>3, HearsTypes DEF DrainReturns, FileTypeOK, NoVisit
  <2>6. UNCHANGED <<disk, watch, saving, reads, texts, alike, tabs, failures, typed, undone, crossed, called>>
    BY <1>3 DEF DrainReturns
  <2>7. /\ {texts, tabs, failures, called, typed, told, undone}' \subseteq Nat
        /\ crossed' \in BOOLEAN /\ alike' \in Likenesses
    BY <2>4, <2>6 DEF FileTypeOK
  <2>8. disk' \in Nat /\ watch' \in BOOLEAN /\ saving' \in BOOLEAN /\ reads' \in SUBSET Nat
    BY <2>6 DEF FileTypeOK
  <2> QED BY <2>3, <2>5, <2>7, <2>8 DEF FileTypeOK
<1>4. CASE OtherReturns
  <2>1. chain # << >> /\ chain[1].text \in Nat
    BY <1>1, <1>4, Places1 DEF OtherReturns, Returned, Operations
  <2>2. told' \in Nat
    BY <1>4, <2>1 DEF OtherReturns, Told, FileTypeOK, Foremost
  <2>3. chain' \in Seq(Operations) /\ save' \in [pc : {"idle", "flush", "wait", "lock"}, of : Nat, goal : Nat]
    BY <1>1, <1>4, <2>1, HearsTypes DEF OtherReturns
  <2>4. UNCHANGED <<disk, watch, tab, debounce, saving, pend, visit, reads, flush, texts, alike, tabs, failures,
                    typed, undone, crossed, called>>
    BY <1>4 DEF OtherReturns
  <2> QED BY <2>2, <2>3, <2>4 DEF FileTypeOK
<1>5. CASE LockStarts
  <2>1. Tail(chain) \in Seq(Operations)
    BY <1>1, <1>5, HeadTailProperties DEF LockStarts
  <2> QED BY <1>5, <2>1, LockRunsTypes DEF LockStarts, FileTypeOK
<1>6. CASE LockReturns
  <2>1. Append(Rest, ReadyLock) \in Seq(Operations)
    BY <1>1, <1>6, ReadyIs, AppendProperties DEF LockReturns, Returned
  <2>2. Uncalled \in [pc : {"idle", "flush", "wait", "lock"}, of : Nat, goal : Nat]
    BY DEF Uncalled
  <2>3. chain' \in Seq(Operations) /\ save' \in [pc : {"idle", "flush", "wait", "lock"}, of : Nat, goal : Nat]
    <3>1. CASE LockRuns(<< >>)
      BY <1>1, <3>1, LockRunsTypes
    <3>2. CASE chain' = Append(Rest, ReadyLock) /\ UNCHANGED save
      BY <2>1, <3>2 DEF FileTypeOK
    <3>3. CASE chain' = Rest /\ save' = Uncalled
      BY <1>1, <1>6, <2>2, <3>3 DEF LockReturns, Returned
    <3> QED BY <1>6, <3>1, <3>2, <3>3 DEF LockReturns, ReadyLock
  <2>4. tab' \in Tabs
    BY <1>6 DEF LockReturns, FileTypeOK, Tabs
  <2>5. undone' \in Nat
    BY <1>6, UndoneTypes DEF LockReturns
  <2> QED BY <1>6, <2>3, <2>4, <2>5 DEF LockReturns, FileTypeOK
<1>7. CASE SaveLocks
  BY <1>1, <1>7, LockRunsTypes DEF SaveLocks, FileTypeOK
<1> QED BY <1>2, <1>3, <1>4, <1>5, <1>6, <1>7

LEMMA TypeStep == FileTypeOK /\ [FileNext]_fileVars => FileTypeOK'
<1> SUFFICES ASSUME FileTypeOK, [FileNext]_fileVars PROVE FileTypeOK'
  OBVIOUS
<1>0. /\ texts \in Nat /\ texts + 1 \in Nat /\ tab.text \in Nat /\ chain \in Seq(Operations) /\ pend.id \in Nat
      /\ typed \in Nat /\ told \in Nat /\ tabs \in Nat /\ failures \in Nat /\ called \in Nat /\ disk \in Nat
  BY DEF FileTypeOK, Tabs
<1>1. CASE TypesInTab
  <2>1. tab' \in Tabs /\ debounce' \in BOOLEAN
    BY <1>0, <1>1, UpdateTypes DEF TypesInTab
  <2> QED BY <1>0, <1>1, <2>1, NewTextIs DEF TypesInTab, FileTypeOK
<1>2. CASE SaveStarts
  <2>1. Append(chain, Operation("auto", tab.text)) \in Seq(Operations)
    BY <1>0, AppendTypes DEF OperationKinds
  <2> QED BY <1>2, <2>1 DEF SaveStarts, FileTypeOK
<1>3. CASE TabCloses
  <2>1. Append(chain, Operation("close", tab.text)) \in Seq(Operations)
    BY <1>0, AppendTypes DEF OperationKinds
  <2>2. NoTab \in Tabs
    BY DEF NoTab, Tabs
  <2> QED BY <1>3, <2>1, <2>2 DEF TabCloses, FileTypeOK, Tabs
<1>4. CASE TypesInDiff
  <2>1. NoPend \in [id : Nat, text : Nat, debounce : BOOLEAN]
    BY DEF NoPend
  <2>2. ~tab.open => chain' \in Seq(Operations)
    <3> SUFFICES ASSUME ~tab.open PROVE chain' \in Seq(Operations)
      OBVIOUS
    <3> DEFINE w(i) == [chain[i] EXCEPT !.same = @ /\ (chain[i].id = 0 \/ chain[i].id # pend.id)]
    <3>1. chain' = [i \in 1 .. Len(chain) |-> w(i)] /\ Len(chain) \in Nat
      BY <1>0, <1>4, LenProperties DEF TypesInDiff
    <3>2. \A i \in 1 .. Len(chain) : w(i) \in Operations
      <4> SUFFICES ASSUME NEW i \in 1 .. Len(chain) PROVE w(i) \in Operations
        OBVIOUS
      <4>1. chain[i] \in Operations
        BY <1>0, ElementOfSeq
      <4>2. (chain[i].same /\ (chain[i].id = 0 \/ chain[i].id # pend.id)) \in BOOLEAN
        OBVIOUS
      <4> QED BY <4>1, <4>2 DEF Operations
    <3> HIDE DEF w
    <3> QED BY <3>1, <3>2, IsASeq
  <2>3. tab' \in Tabs /\ debounce' \in BOOLEAN /\ pend' \in [id : Nat, text : Nat, debounce : BOOLEAN]
    <3>1. CASE tab.open
      <4>1. texts' = texts + 1 /\ pend' = NoPend /\ (Matched \/ Updated(texts'))
        BY <1>4, <3>1, NewTextIs DEF TypesInDiff
      <4>2. CASE Matched
        BY <1>0, <2>1, <4>1, <4>2 DEF Matched, FileTypeOK, Tabs, Draining
      <4> QED BY <1>0, <2>1, <4>1, <4>2, UpdateTypes
    <3>2. CASE ~tab.open
      <4>1. UNCHANGED <<tab, debounce>>
            /\ pend' = [id |-> IF pend.id = 0 THEN texts + 1 ELSE pend.id, text |-> texts + 1, debounce |-> TRUE]
        BY <1>4, <3>2 DEF TypesInDiff
      <4> QED BY <1>0, <4>1 DEF FileTypeOK
    <3> QED BY <3>1, <3>2
  <2>4. chain' \in Seq(Operations) /\ crossed' \in BOOLEAN
    BY <1>0, <1>4, <2>2 DEF TypesInDiff, FileTypeOK
  <2>5. undone' \in Nat
    BY <1>0, <1>4, NewTextIs DEF TypesInDiff, Matched, FileTypeOK
  <2> QED BY <1>0, <1>4, <2>3, <2>4, <2>5, NewTextIs DEF TypesInDiff, FileTypeOK
<1>5. CASE FlushStarts
  <2>1. flush' \in [pc : {"idle", "flush", "settle"}, of : Nat, goal : Nat] /\ called' \in Nat
    BY <1>0, <1>5 DEF FlushStarts
  <2>2. /\ tab' \in Tabs /\ debounce' \in BOOLEAN
        /\ pend' \in [id : Nat, text : Nat, debounce : BOOLEAN] /\ chain' \in Seq(Operations)
    BY <1>5, DrainTypes DEF FlushStarts
  <2> QED BY <1>0, <1>5, <2>1, <2>2 DEF FlushStarts, FileTypeOK
<1>6. CASE SaveCalled
  <2>1. save' \in [pc : {"idle", "flush", "wait", "lock"}, of : Nat, goal : Nat] /\ called' \in Nat
    BY <1>0, <1>6 DEF SaveCalled
  <2>2. /\ tab' \in Tabs /\ debounce' \in BOOLEAN
        /\ pend' \in [id : Nat, text : Nat, debounce : BOOLEAN] /\ chain' \in Seq(Operations)
    BY <1>6, DrainTypes DEF SaveCalled
  <2> QED BY <1>0, <1>6, <2>1, <2>2 DEF SaveCalled, FileTypeOK
<1>7. CASE VisitStarts
  <2>1. visit' \in [pc : {"idle", "flush", "read"}, of : Nat, text : Nat] /\ tabs' \in Nat
    BY <1>0, <1>7 DEF VisitStarts
  <2>2. /\ tab' \in Tabs /\ debounce' \in BOOLEAN
        /\ pend' \in [id : Nat, text : Nat, debounce : BOOLEAN] /\ chain' \in Seq(Operations)
    BY <1>7, DrainTypes DEF VisitStarts
  <2> QED BY <1>0, <1>7, <2>1, <2>2 DEF VisitStarts, FileTypeOK
<1>8. CASE OtherWrites
  BY <1>0, <1>8, NewTextIs DEF OtherWrites, FileTypeOK
<1>9. CASE DrainTimer
  BY <1>9, DrainTypes DEF DrainTimer, FileTypeOK
<1>10. CASE Lands
  <2>1. chain' \in Seq(Operations) /\ chain[1].text \in Nat
    BY <1>10, LandsLike
  <2>2. disk' \in Nat /\ watch' \in BOOLEAN /\ failures' \in Nat
    <3>1. disk' \in Nat
      BY <1>0, <1>10, <2>1 DEF Lands, Foremost
    <3>2. watch' \in BOOLEAN
      BY <1>10 DEF Lands, FileTypeOK
    <3>3. failures' \in Nat
      <4>1. failures' = failures \/ failures' = failures + 1
        BY <1>10 DEF Lands
      <4> QED BY <1>0, <4>1
    <3> QED BY <3>1, <3>2, <3>3
  <2> QED BY <1>0, <1>10, <2>1, <2>2 DEF Lands, FileTypeOK
<1>11. CASE AutoReturns \/ DrainReturns \/ OtherReturns \/ LockStarts \/ LockReturns \/ SaveLocks
  BY <1>11, QueueSteps
<1>12. CASE FlushWrites
  <2>1. Append(chain, Operation("flush", tab.text)) \in Seq(Operations)
    BY <1>0, AppendTypes DEF OperationKinds
  <2> QED BY <1>12, <2>1 DEF FlushWrites, FileTypeOK
<1>13. CASE FlushEnds
  <2>1. Uncalled \in [pc : {"idle", "flush", "settle"}, of : Nat, goal : Nat]
    BY DEF Uncalled
  <2> QED BY <1>13, <2>1 DEF FlushEnds, FileTypeOK
<1>14. CASE SaveDrained
  BY <1>14 DEF SaveDrained, FileTypeOK
<1>15. CASE VisitReads
  BY <1>15 DEF VisitReads, NoVisit, FileTypeOK
<1>16. CASE VisitOpens
  <2>1. tab' \in Tabs
    <3>1. [open |-> TRUE, text |-> visit.text, modified |-> FALSE] \in Tabs /\ tab \in Tabs
      BY DEF FileTypeOK, Tabs
    <3> QED BY <1>16, <3>1 DEF VisitOpens
  <2>2. visit' \in [pc : {"idle", "flush", "read"}, of : Nat, text : Nat]
    BY <1>16 DEF VisitOpens, NoVisit
  <2> QED BY <1>16, <2>1, <2>2 DEF VisitOpens, FileTypeOK
<1>17. CASE Watched
  BY <1>17 DEF Watched, FileTypeOK
<1>18. ASSUME NEW text \in reads, Reloaded(text) PROVE FileTypeOK'
  BY <1>18 DEF Reloaded, FileTypeOK, Tabs
<1>19. CASE UNCHANGED fileVars
  BY <1>19 DEF fileVars, FileTypeOK
<1> QED BY <1>1, <1>2, <1>3, <1>4, <1>5, <1>6, <1>7, <1>8, <1>9, <1>10, <1>11, <1>12, <1>13, <1>14, <1>15,
           <1>16, <1>17, <1>18, <1>19 DEF FileNext, FileContinues

-----------------------------------------------------------------------------
(* What is safe after a step. *)
KeptSafe(text) == SafeIn(chain', disk', told', Harmless', text)

LEMMA GrowsSafe ==
  ASSUME Grows, NEW text, Safe(text)
  PROVE  SafeIn(chain, disk, told, Harmless', text)
BY DEF Grows, Safe, SafeIn

(* A step hands over what was typed: texts that were safe stay so, and a      *)
(* surface gives up its text only when that is safe.                          *)
HandsOver ==
  /\ typed <= typed'
  /\ \A t \in Nat : t <= typed /\ Safe(t) => KeptSafe(t)
  /\ tab.modified => tab'.modified \/ KeptSafe(typed)
  /\ pend.id # 0 => pend'.id # 0 \/ KeptSafe(typed)

(* A drain stays with its edit until the edit is safe. *)
HandsDrain ==
  DrainsIn(chain, pend.id) => (pend'.id = pend.id /\ DrainsIn(chain', pend.id)) \/ KeptSafe(typed)

LEMMA DrainingIs == \A id : Draining(id) <=> DrainsIn(chain, id)
BY DEF Draining, DrainsIn, Places

LEMMA Numbers ==
  ASSUME FileTypeOK
  PROVE  /\ typed \in Nat /\ told \in Nat /\ disk \in Nat /\ texts \in Nat /\ texts + 1 \in Nat
         /\ flush.goal \in Nat /\ save.goal \in Nat /\ tab.text \in Nat /\ pend.id \in Nat /\ pend.text \in Nat
         /\ chain \in Seq(Operations) /\ \A i \in Places(chain) : chain[i].text \in Nat /\ chain[i] \in Operations
<1>1. /\ typed \in Nat /\ told \in Nat /\ disk \in Nat /\ texts \in Nat
      /\ flush.goal \in Nat /\ save.goal \in Nat /\ tab.text \in Nat /\ pend.id \in Nat /\ pend.text \in Nat
      /\ chain \in Seq(Operations)
  BY DEF FileTypeOK, Tabs
<1>2. \A op \in Operations : op.text \in Nat
  BY DEF Operations
<1> QED BY <1>1, <1>2, Places1

(* An older text is as safe as a newer one. *)
LEMMA OlderIsSafe ==
  ASSUME NEW c \in Seq(Operations), NEW on \in Nat, NEW shown \in Nat, NEW newer \in Nat, NEW older \in Nat,
         older <= newer, NEW ok, Ordered(ok), SafeIn(c, on, shown, ok, newer)
  PROVE  SafeIn(c, on, shown, ok, older)
<1>1. \A i \in Places(c) : c[i].text \in Nat
  BY Places1 DEF Operations
<1>2. \A n \in Nat : newer <= n => older <= n
  OBVIOUS
<1>3. \A n \in Nat : <<newer, n>> \in ok => <<older, n>> \in ok
  BY DEF Ordered
<1> QED BY <1>1, <1>2, <1>3 DEF SafeIn

LEMMA LastKept ==
  ASSUME FileTypeOK, HandsOver, LastIsSafe, typed' = typed
  PROVE  LastIsSafe'
<1>1. typed \in Nat /\ typed <= typed
  BY Numbers
<1>2. \/ tab'.modified \/ pend'.id # 0 \/ KeptSafe(typed)
  BY <1>1 DEF LastIsSafe, HandsOver
<1> QED BY <1>2 DEF LastIsSafe, KeptSafe, Safe

(* What was promised and handed over is still promised. *)
LEMMA PromiseKept ==
  ASSUME FileTypeOK, FileTypeOK', HandsOver, NEW goal \in Nat, goal <= typed
  PROVE  /\ Safe(goal) => KeptSafe(goal)
         /\ tab.modified => tab'.modified \/ KeptSafe(goal)
         /\ HandsDrain /\ DrainsIn(chain, pend.id)
              => (pend'.id = pend.id /\ DrainsIn(chain', pend'.id)) \/ KeptSafe(goal)
         /\ goal <= typed'
<1>1. /\ typed \in Nat /\ typed' \in Nat /\ told' \in Nat /\ disk' \in Nat /\ chain' \in Seq(Operations)
  BY DEF FileTypeOK
<1>2. KeptSafe(typed) => KeptSafe(goal)
  BY <1>1, OlderIsSafe, StillOrdered DEF KeptSafe
<1>3. goal <= typed'
  BY <1>1 DEF HandsOver
<1> QED BY <1>2, <1>3 DEF HandsOver, HandsDrain

LEMMA FlushKept ==
  ASSUME FileTypeOK, FileTypeOK', HandsOver, HandsDrain, FlushFits, UNCHANGED flush
  PROVE  FlushFits'
<1>1. flush.goal \in Nat
  BY Numbers
<1>2. CASE flush.pc = "flush"
  <2>1. Promised(flush)'
    BY <1>1, <1>2, PromiseKept DEF FlushFits, Promised, KeptSafe, Safe
  <2> QED BY <1>2, <2>1 DEF FlushFits
<1>3. CASE flush.pc = "settle"
  BY <1>1, <1>3, PromiseKept DEF FlushFits, KeptSafe, Safe
<1> QED BY <1>2, <1>3 DEF FlushFits

LEMMA SaveKept ==
  ASSUME FileTypeOK, FileTypeOK', HandsOver, HandsDrain, SaveFits, UNCHANGED save
  PROVE  SaveFits'
<1>1. save.goal \in Nat
  BY Numbers
<1>2. CASE save.pc = "flush"
  <2>1. Promised(save)'
    BY <1>1, <1>2, PromiseKept DEF SaveFits, Promised, KeptSafe, Safe
  <2> QED BY <1>2, <2>1 DEF SaveFits
<1>3. CASE save.pc = "wait"
  BY <1>1, <1>3, PromiseKept DEF SaveFits, KeptSafe, Safe
<1> QED BY <1>2, <1>3 DEF SaveFits

-----------------------------------------------------------------------------
(* An operation with the last text joins the queue. *)
Joins(op) ==
  /\ Extends(chain, chain', op)
  /\ op.text = typed /\ op.pc = "queued" /\ op.kind # "lock" /\ (op.kind = "drain" <=> op.id # 0)
  /\ op.kind \in {"auto", "drain"} => \A i \in Places(chain) : chain[i].kind # op.kind
  /\ op.kind = "auto" => saving'
  /\ op.kind = "drain" => op.id = pend'.id /\ op.text = pend'.text
  /\ saving => saving'
  /\ pend'.id = pend.id /\ pend'.text = pend.text
  /\ UNCHANGED <<disk, told, typed>>

LEMMA JoinFits ==
  ASSUME FileTypeOK, FileTypeOK', Grows, QueueFits, LockFits, NEW op, Joins(op)
  PROVE  /\ Orderly(chain') /\ Timely(chain', typed', saving', pend') /\ LandedIs(chain', disk')
         /\ op.kind # "auto" \/ tab.modified => Backed(chain', tab.modified)
         /\ \A t \in Nat : t <= typed /\ Safe(t) => KeptSafe(t)
         /\ \A id : DrainsIn(chain, id) => DrainsIn(chain', id)
         /\ op.kind = "drain" => DrainsIn(chain', op.id)
         /\ op.kind \in {"drain", "close", "flush"} => KeptSafe(typed)
         /\ UNCHANGED save => LockFits'
         /\ save.pc # "lock" /\ save'.pc # "lock" => LockFits'
<1>1. chain \in Seq(Operations) /\ typed \in Nat /\ save.goal \in Nat /\ typed <= typed
  BY Numbers
<1>2. \A i \in Places(chain) : chain[i].text <= op.text
  BY DEF QueueFits, Timely, Joins
<1>3. Orderly(chain')
  BY <1>1, <1>2, ExtendsOrderly DEF Joins, QueueFits
<1>4. Timely(chain', typed', saving', pend')
  <2>1. Timely(chain, typed, saving', pend')
    BY DEF Joins, QueueFits, Timely
  <2>2. Timely(chain', typed, saving', pend')
    BY <1>1, <2>1, ExtendsTimely DEF Joins
  <2> QED BY <2>2 DEF Joins
<1>5. LandedIs(chain', disk')
  BY <1>1, ExtendsLanded DEF Joins, QueueFits
<1>6. op.kind # "auto" \/ tab.modified => Backed(chain', tab.modified)
  BY <1>1, ExtendsBacked DEF Joins, QueueFits
<1>7. \A t \in Nat : t <= typed /\ Safe(t) => KeptSafe(t)
  <2> SUFFICES ASSUME NEW t \in Nat, t <= typed, Safe(t) PROVE KeptSafe(t)
    OBVIOUS
  <2>1. SafeIn(chain, disk, told, Harmless', t)
    BY GrowsSafe
  <2>2. <<t, op.text>> \in Harmless'
    BY <1>1, StillOrdered DEF Joins, Ordered
  <2> QED BY <1>1, <2>1, <2>2, ExtendsSafe DEF Joins, KeptSafe
<1>8. \A id : DrainsIn(chain, id) => DrainsIn(chain', id)
  BY DEF Joins, Extends, DrainsIn
<1>9. op.kind = "drain" => DrainsIn(chain', op.id)
  BY DEF Joins, Extends, DrainsIn
<1>10. op.kind \in {"drain", "close", "flush"} => KeptSafe(typed)
  BY <1>1 DEF Joins, Extends, SafeIn, KeptSafe
<1>11. \A i \in Places(chain') : chain'[i].kind = "lock" => i \in Places(chain) /\ chain'[i] = chain[i]
  BY DEF Joins, Extends
<1>12. save.pc # "lock" /\ save'.pc # "lock" => LockFits'
  BY <1>11 DEF LockFits
<1>13. UNCHANGED save => LockFits'
  <2> SUFFICES ASSUME UNCHANGED save, save.pc = "lock" PROVE LockFits'
    BY <1>12
  <2>1. save.goal <= typed
    BY DEF LockFits
  <2>2. \A i \in Places(chain') : chain'[i].pc # "ready" => save.goal <= chain'[i].text
    BY <2>1 DEF LockFits, Joins, Extends
  <2>3. save.goal <= disk \/ (chain' # << >> /\ chain'[1].kind = "lock" /\ chain'[1].pc # "ready")
    BY <1>1, Places1 DEF LockFits, Joins, Extends
  <2> QED BY <2>1, <2>2, <2>3 DEF LockFits, Joins
<1> QED BY <1>3, <1>4, <1>5, <1>6, <1>7, <1>8, <1>9, <1>10, <1>12, <1>13

-----------------------------------------------------------------------------
(* What is left when the operation in front has returned. *)
LEMMA RestFits ==
  ASSUME FileTypeOK, FileTypeOK', Grows, QueueFits, LockFits, chain # << >>, Foremost.pc \in {"landed", "failed"},
         NEW after \in Nat, told <= after,
         Failed /\ Foremost.kind \in {"drain", "close", "flush"} => Foremost.text <= after
  PROVE  /\ Rest \in Seq(Operations) /\ Orderly(Rest) /\ LandedIs(Rest, disk)
         /\ Timely(Rest, typed, saving, pend) /\ Backed(Rest, tab.modified)
         /\ \A i \in Places(Rest) : Rest[i].pc = IF Rest[i].kind = "lock" THEN "ready" ELSE "queued"
         /\ Foremost.kind \in {"auto", "drain", "lock"} => \A i \in Places(Rest) : Rest[i].kind # Foremost.kind
         /\ \A t \in Nat : Safe(t) => SafeIn(Rest, disk, after, Harmless', t)
         /\ \A i \in Places(Rest) : \E j \in Places(chain) : Rest[i] = chain[j]
         /\ Aborts => \A i \in Places(Rest) : Rest[i].kind # "lock"
         /\ Foremost.kind # "lock" /\ ~Failed =>
              \A t \in Nat : t <= Foremost.text => SafeIn(Rest, disk, after, Harmless', t)
         /\ \A id : DrainsIn(chain, id) /\ Foremost.kind # "drain" => DrainsIn(Rest, id)
<1>1. /\ chain \in Seq(Operations) /\ disk \in Nat /\ told \in Nat
      /\ \A i \in Places(chain) : chain[i].text \in Nat
  BY Numbers
<1>2. PICK k \in {1, 2} : /\ Shift(chain, Rest, k)
                          /\ k = 2 => Aborts /\ 2 \in Places(chain) /\ chain[2].kind = "lock"
                          /\ Aborts => k = 2
  BY RestShifts
<1>3. Orderly(chain) /\ LandedIs(chain, disk) /\ Timely(chain, typed, saving, pend) /\ Backed(chain, tab.modified)
  BY DEF QueueFits
<1>4. /\ Rest \in Seq(Operations) /\ 1 \in Places(chain)
      /\ \A i \in Places(Rest) : i \in Nat \ {0} /\ i + k \in Places(chain) /\ Rest[i] = chain[i + k] /\ 1 < i + k
  BY <1>1, <1>2, ShiftPlaces
<1>5. /\ Orderly(Rest) /\ LandedIs(Rest, disk)
      /\ \A i \in Places(Rest) : chain[1].kind \in {"auto", "drain", "lock"} => Rest[i].kind # chain[1].kind
      /\ \A i \in Places(Rest) : Rest[i].pc = IF Rest[i].kind = "lock" THEN "ready" ELSE "queued"
  BY <1>1, <1>2, <1>3, ShiftOrderly
<1>6. Timely(Rest, typed, saving, pend)
  BY <1>1, <1>2, <1>3, ShiftTimely
<1>7. Backed(Rest, tab.modified)
  BY <1>1, <1>2, <1>3, ShiftBacked
<1>8. \A t \in Nat : Safe(t) => SafeIn(Rest, disk, after, Harmless', t)
  <2> SUFFICES ASSUME NEW t \in Nat, Safe(t) PROVE SafeIn(Rest, disk, after, Harmless', t)
    OBVIOUS
  <2>1. SafeIn(chain, disk, told, Harmless', t) /\ Ordered(Harmless')
    BY GrowsSafe, StillOrdered
  <2>2. /\ chain[1].pc \in {"landed", "failed"}
        /\ chain[1].pc = "failed" /\ chain[1].kind \in {"drain", "close", "flush"} => chain[1].text <= after
    BY DEF Foremost, Failed
  <2> QED BY <1>1, <1>2, <1>3, <2>1, <2>2, ShiftSafe
<1>9. Aborts => \A i \in Places(Rest) : Rest[i].kind # "lock"
  <2> SUFFICES ASSUME Aborts, NEW i \in Places(Rest), Rest[i].kind = "lock" PROVE FALSE
    OBVIOUS
  <2>1. k = 2 /\ 2 \in Places(chain) /\ chain[2].kind = "lock"
    BY <1>2
  <2>2. i + 2 \in Places(chain) /\ chain[i + 2].kind = "lock" /\ i + 2 # 2
    BY <1>4, <2>1
  <2> QED BY <1>3, <2>1, <2>2 DEF Orderly
<1>10. Foremost.kind # "lock" /\ ~Failed => \A t \in Nat : t <= Foremost.text => SafeIn(Rest, disk, after, Harmless', t)
  BY <1>1, <1>2, <1>3, LandedSafe, StillOrdered DEF Foremost, Failed
<1>11. \A id : DrainsIn(chain, id) /\ Foremost.kind # "drain" => DrainsIn(Rest, id)
  <2> SUFFICES ASSUME NEW id, DrainsIn(chain, id), Foremost.kind # "drain" PROVE DrainsIn(Rest, id)
    OBVIOUS
  <2>1. PICK i \in Places(chain) : chain[i].kind = "drain" /\ chain[i].id = id
    BY DEF DrainsIn
  <2>2. i \in Nat /\ i > k
    BY <1>2, <2>1 DEF Places, Foremost
  <2>3. i - k \in Places(Rest) /\ Rest[i - k] = chain[i]
    BY <1>2, <2>2 DEF Shift
  <2> QED BY <2>1, <2>3 DEF DrainsIn
<1> QED BY <1>4, <1>5, <1>6, <1>7, <1>8, <1>9, <1>10, <1>11 DEF Foremost

(* What the save hears when an operation that is not its lock returns.        *)
LEMMA HearsFits ==
  ASSUME FileTypeOK, FileTypeOK', Grows, QueueFits, LockFits, SaveFits,
         chain # << >>, Foremost.pc \in {"landed", "failed"}, Foremost.kind # "lock",
         SaveHears, HandsOver, HandsDrain \/ (Failed /\ Foremost.id = pend.id), UNCHANGED <<disk, typed>>,
         \A i \in Places(chain') :
           (\E j \in Places(Rest) : chain'[i] = Rest[j]) \/ (chain'[i].kind # "lock" /\ typed <= chain'[i].text)
  PROVE  SaveFits' /\ LockFits'
<1>1. /\ typed \in Nat /\ save.goal \in Nat /\ disk \in Nat
      /\ \A i \in Places(chain) : chain[i].text \in Nat
  BY Numbers
<1>2. \A i \in Places(chain') : chain'[i].text \in Nat
  BY Places1 DEF FileTypeOK, Operations
<1>3. /\ \A i \in Places(Rest) : \E j \in Places(chain) : Rest[i] = chain[j]
      /\ Aborts => \A i \in Places(Rest) : Rest[i].kind # "lock"
  <2>1. \E after \in Nat : told <= after /\ Foremost.text <= after
    <3>1. told \in Nat /\ Foremost.text \in Nat
      BY Numbers, Places1 DEF Foremost
    <3> QED BY <3>1
  <2> QED BY <2>1, RestFits
<1>4. CASE save' = Uncalled /\ (Aborts \/ (Failed /\ (save.pc = "wait" \/ Awaits(save))))
  <2>1. \A i \in Places(Rest) : Rest[i].kind # "lock"
    <3>1. CASE Aborts
      BY <1>3, <3>1
    <3>2. CASE save.pc # "lock"
      BY <1>3, <3>2 DEF LockFits
    <3> QED BY <1>4, <3>1, <3>2 DEF Awaits
  <2>2. save'.pc = "idle"
    BY <1>4 DEF Uncalled
  <2>3. \A i \in Places(chain') : chain'[i].kind # "lock"
    BY <2>1
  <2> QED BY <2>2, <2>3 DEF SaveFits, LockFits
<1>5. CASE UNCHANGED save /\ ~Aborts /\ ~(Failed /\ Awaits(save))
  <2>1. SaveFits'
    <3>1. CASE HandsDrain
      BY <1>5, <3>1, SaveKept
    <3>2. CASE Failed /\ Foremost.id = pend.id
      <4>1. ~(save.of = pend.id /\ DrainsIn(chain, pend.id) /\ save.pc = "flush")
        BY <1>5, <3>2 DEF Awaits, DrainsIn
      <4>2. CASE save.pc = "flush"
        <5>1. Promised(save)'
          BY <1>1, <1>5, <4>1, <4>2, PromiseKept DEF SaveFits, Promised, KeptSafe, Safe
        <5> QED BY <1>5, <4>2, <5>1 DEF SaveFits
      <4>3. CASE save.pc = "wait"
        BY <1>1, <1>5, <4>3, PromiseKept DEF SaveFits, KeptSafe, Safe
      <4> QED BY <1>5, <4>2, <4>3 DEF SaveFits
    <3> QED BY <3>1, <3>2
  <2>2. ASSUME save.pc = "lock" PROVE LockFits'
    <3>1. save.goal <= typed
      BY <2>2 DEF LockFits
    <3>2. \A i \in Places(Rest) : Rest[i].pc # "ready" => save.goal <= Rest[i].text
      BY <1>3, <2>2 DEF LockFits
    <3>3. \A i \in Places(chain') : chain'[i].pc # "ready" => save.goal <= chain'[i].text
      BY <1>1, <1>2, <3>1, <3>2
    <3>4. save.goal <= disk
      BY <2>2 DEF LockFits, Foremost
    <3>5. save'.pc = "lock" /\ save'.goal = save.goal /\ disk' = disk /\ typed' = typed
      BY <1>5, <2>2
    <3> QED BY <3>1, <3>3, <3>4, <3>5 DEF LockFits
  <2>3. ASSUME save.pc # "lock" PROVE LockFits'
    <3>1. \A i \in Places(Rest) : Rest[i].kind # "lock"
      BY <1>3, <2>3 DEF LockFits
    <3>2. \A i \in Places(chain') : chain'[i].kind # "lock"
      BY <3>1
    <3> QED BY <1>5, <2>3, <3>2 DEF LockFits
  <2> QED BY <2>1, <2>2, <2>3
<1> QED BY <1>4, <1>5 DEF SaveHears

-----------------------------------------------------------------------------
(* Steps that leave the queue alone. *)
LEMMA SameFits ==
  ASSUME FileTypeOK, FileTypeOK', Grows, QueueFits, LockFits, UNCHANGED <<chain, told, saving>>, typed <= typed',
         disk' = disk \/ typed <= disk', pend'.id = pend.id, pend'.text = pend.text \/ pend.id = 0
  PROVE  /\ Orderly(chain') /\ Timely(chain', typed', saving', pend') /\ LandedIs(chain', disk')
         /\ Backed(chain', tab.modified)
         /\ \A t \in Nat : t <= typed /\ Safe(t) => KeptSafe(t)
         /\ HandsDrain
         /\ UNCHANGED save => LockFits'
         /\ save.pc # "lock" /\ save'.pc # "lock" => LockFits'
<1>1. /\ typed \in Nat /\ typed' \in Nat /\ disk \in Nat /\ disk' \in Nat /\ save.goal \in Nat
      /\ \A i \in Places(chain) : chain[i].text \in Nat
      /\ chain # << >> => 1 \in Places(chain)
  BY Numbers, Places1 DEF FileTypeOK
<1>2. \A n \in Nat : n <= typed => n <= typed' /\ (n <= disk => n <= disk')
  BY <1>1
<1>3. Orderly(chain') /\ Backed(chain', tab.modified)
  BY DEF QueueFits
<1>4. \A i \in Places(chain) : chain[i].text <= typed
  BY DEF QueueFits, Timely
<1>5. Timely(chain', typed', saving', pend')
  <2> SUFFICES ASSUME NEW i \in Places(chain)
               PROVE  /\ chain[i].text <= typed' /\ (chain[i].kind = "auto" => saving')
                      /\ chain[i].kind = "drain" => chain[i].id = pend'.id /\ (chain[i].same => chain[i].text = pend'.text)
    BY DEF Timely
  <2>1. chain[i].text <= typed'
    BY <1>1, <1>2, <1>4
  <2>2. chain[i].kind = "auto" => saving'
    BY DEF QueueFits, Timely
  <2>3. chain[i].kind = "drain" => chain[i].id = pend'.id /\ (chain[i].same => chain[i].text = pend'.text)
    BY DEF QueueFits, Timely, Orderly
  <2> QED BY <2>1, <2>2, <2>3
<1>6. LandedIs(chain', disk')
  BY <1>1, <1>2, <1>4 DEF QueueFits, LandedIs
<1>7. \A t \in Nat : t <= typed /\ Safe(t) => KeptSafe(t)
  <2> SUFFICES ASSUME NEW t \in Nat, t <= typed, Safe(t) PROVE KeptSafe(t)
    OBVIOUS
  <2>1. SafeIn(chain, disk, told, Harmless', t)
    BY GrowsSafe
  <2>2. typed <= disk' => <<t, disk'>> \in Harmless'
    BY <1>1, StillOrdered DEF Ordered
  <2> QED BY <2>1, <2>2 DEF KeptSafe, SafeIn
<1>8. HandsDrain
  BY DEF HandsDrain
<1>9. save.pc # "lock" /\ save'.pc # "lock" => LockFits'
  BY DEF LockFits
<1>10. UNCHANGED save => LockFits'
  <2> SUFFICES ASSUME UNCHANGED save, save.pc = "lock" PROVE LockFits'
    BY <1>9
  <2>1. save.goal <= typed
    BY DEF LockFits
  <2>2. save.goal <= typed' /\ (save.goal <= disk => save.goal <= disk')
    BY <1>1, <1>2, <2>1
  <2> QED BY <2>2 DEF LockFits
<1> QED BY <1>3, <1>5, <1>6, <1>7, <1>8, <1>9, <1>10

LEMMA UpdatedIs ==
  ASSUME FileTypeOK, NEW text, Updated(text)
  PROVE  tab'.open = tab.open /\ tab'.text = text /\ tab'.modified = TRUE
BY DEF FileTypeOK, Tabs, Updated

(* One lemma for each step. *)
LEMMA TypesInTabFits == ASSUME FileTypeOK, FileTypeOK', Grows, FileFits, typed <= texts, TypesInTab PROVE FileFits'
<1>1. /\ tab.open /\ tab'.open /\ tab'.text = typed' /\ tab'.modified = TRUE /\ typed' = texts + 1
      /\ UNCHANGED <<disk, saving, pend, chain, visit, flush, save, told>>
  BY UpdatedIs DEF TypesInTab
<1>2. QueueFits /\ SurfacesFit /\ FlushFits /\ SaveFits /\ LockFits
  BY DEF FileFits
<1>3. typed <= typed'
  BY <1>1, Numbers
<1>4. /\ Orderly(chain') /\ Timely(chain', typed', saving', pend') /\ LandedIs(chain', disk')
      /\ \A t \in Nat : t <= typed /\ Safe(t) => KeptSafe(t)
      /\ HandsDrain /\ LockFits'
  BY <1>1, <1>2, <1>3, SameFits
<1>5. HandsOver
  BY <1>1, <1>3, <1>4 DEF HandsOver
<1>6. QueueFits'
  BY <1>1, <1>4 DEF QueueFits, Backed
<1>7. SurfacesFit'
  BY <1>1, <1>2 DEF SurfacesFit
<1>8. LastIsSafe'
  BY <1>1 DEF LastIsSafe
<1>9. FlushFits' /\ SaveFits'
  BY <1>1, <1>2, <1>4, <1>5, FlushKept, SaveKept
<1> QED BY <1>4, <1>6, <1>7, <1>8, <1>9 DEF FileFits

LEMMA TypesInDiffFits ==
  ASSUME FileTypeOK, FileTypeOK', Grows, FileFits, typed <= texts, TypesInDiff, ~crossed'
  PROVE  FileFits'
<1>1. QueueFits /\ SurfacesFit /\ FlushFits /\ SaveFits /\ LockFits
  BY DEF FileFits
<1>2. /\ typed' = texts + 1 /\ typed <= typed'
      /\ UNCHANGED <<disk, saving, visit, flush, save, told>>
  BY Numbers, NewTextIs DEF TypesInDiff
<1>3. CASE tab.open
  <2>1. /\ tab'.open /\ tab'.text = typed' /\ pend.id = 0 /\ pend'.id = 0
        /\ UNCHANGED chain /\ visit.pc = "idle"
        /\ tab'.modified \/ (~tab.modified /\ tab'.modified = FALSE /\ Matched)
    <3>1. pend.id = 0 /\ visit.pc = "idle"
      BY <1>1, <1>3 DEF SurfacesFit
    <3>2. pend' = NoPend /\ UNCHANGED chain /\ texts' = typed' /\ texts' \in Nat /\ (Matched \/ Updated(texts'))
      BY <1>2, <1>3, NewTextIs DEF TypesInDiff
    <3>3. pend'.id = 0
      BY <3>2 DEF NoPend
    <3>4. CASE Updated(texts')
      <4>1. tab'.open = tab.open /\ tab'.text = texts' /\ tab'.modified = TRUE
        BY <3>2, <3>4, UpdatedIs
      <4> QED BY <1>3, <3>1, <3>2, <3>3, <4>1
    <3>5. CASE Matched
      <4>1. tab'.open = tab.open /\ tab'.text = texts' /\ tab'.modified = tab.modified /\ tab.modified \in BOOLEAN
        BY <3>1, <3>2, <3>5 DEF Matched, FileTypeOK, Tabs, Draining
      <4> QED BY <1>3, <3>1, <3>2, <3>3, <3>5, <4>1
    <3> QED BY <3>2, <3>4, <3>5
  <2>2. /\ Orderly(chain') /\ Timely(chain', typed', saving', pend') /\ LandedIs(chain', disk')
        /\ Backed(chain, tab.modified)
        /\ \A t \in Nat : t <= typed /\ Safe(t) => KeptSafe(t)
        /\ HandsDrain /\ LockFits'
    BY <1>1, <1>2, <2>1, SameFits
  <2>3. HandsOver
    BY <1>2, <2>1, <2>2 DEF HandsOver
  <2>4. QueueFits'
    BY <2>1, <2>2 DEF QueueFits, Backed
  <2>5. SurfacesFit'
    BY <1>1, <1>2, <2>1 DEF SurfacesFit
  <2>6. LastIsSafe'
    <3> SUFFICES ASSUME ~tab'.modified PROVE KeptSafe(typed')
      BY DEF LastIsSafe, Safe, KeptSafe
    <3>1. /\ texts' = typed' /\ typed' \in Nat /\ undone' \in Nat /\ disk \in Nat
          /\ \A i \in Places(chain) : chain[i].text \in Nat
      BY <1>2, Numbers, NewTextIs DEF TypesInDiff, FileTypeOK
    <3>2. undone' = (IF Bypassed(typed', chain, alike') THEN typed' ELSE undone)
      BY <2>1, <3>1 DEF Matched
    <3>3. CASE Bypassed(typed', chain, alike')
      <4>1. typed' <= undone'
        BY <3>1, <3>2, <3>3
      <4>2. \A a \in Nat : <<typed', a>> \in Harmless'
        BY <3>1, <4>1 DEF Harmless, HarmlessIn
      <4> QED BY <1>2, <2>1, <3>1, <4>2 DEF KeptSafe, SafeIn
    <3>4. CASE ~Bypassed(typed', chain, alike')
      <4>1. /\ Covers(disk, typed', alike')
            /\ \A i \in Places(chain) : chain[i].pc # "ready" => Covers(chain[i].text, typed', alike')
        BY <3>4 DEF Bypassed, Places
      <4>2. \A a \in Nat : Covers(a, typed', alike') => <<typed', a>> \in Harmless'
        BY <3>1 DEF Harmless, HarmlessIn
      <4> QED BY <1>2, <2>1, <3>1, <4>1, <4>2 DEF KeptSafe, SafeIn
    <3> QED BY <3>3, <3>4
  <2>7. FlushFits' /\ SaveFits'
    BY <1>1, <1>2, <2>2, <2>3, FlushKept, SaveKept
  <2> QED BY <2>2, <2>4, <2>5, <2>6, <2>7 DEF FileFits
<1>4. CASE ~tab.open
  <2>1. /\ UNCHANGED tab /\ visit.pc = "idle"
        /\ pend'.id = (IF pend.id = 0 THEN texts + 1 ELSE pend.id) /\ pend'.text = typed'
        /\ chain' = [i \in DOMAIN chain |->
                      [chain[i] EXCEPT !.same = @ /\ (chain[i].id = 0 \/ chain[i].id # pend.id)]]
    <3>1. visit.pc = "idle"
      BY <1>4 DEF TypesInDiff, FileTypeOK
    <3> QED BY <1>2, <1>4, <3>1 DEF TypesInDiff
  <2>2. pend'.id # 0 /\ (pend.id # 0 => pend'.id = pend.id)
    BY <2>1, Numbers
  <2>3. /\ Like(chain, chain')
        /\ \A i \in Places(chain) :
             /\ chain'[i].pc = chain[i].pc
             /\ chain[i].id # 0 /\ chain[i].id = pend.id => ~chain'[i].same
    <3>1. chain \in Seq(Operations) /\ Len(chain) \in Nat /\ DOMAIN chain = Places(chain)
          /\ \A i \in Places(chain) : chain[i] \in Operations
      BY Numbers, LenProperties DEF Places
    <3>2. chain' \in Seq(Operations) /\ DOMAIN chain' = Places(chain') /\ Len(chain') \in Nat
      BY LenProperties DEF FileTypeOK, Places
    <3>3. DOMAIN chain' = Places(chain)
      BY <2>1, <3>1
    <3>4. Places(chain') = Places(chain) /\ (chain = << >> <=> chain' = << >>)
      <4>1. Places(chain') = Places(chain)
        BY <3>2, <3>3
      <4> QED BY <3>1, <3>2, <4>1, Places1
    <3>5. \A i \in Places(chain) :
            /\ chain'[i].kind = chain[i].kind /\ chain'[i].text = chain[i].text /\ chain'[i].id = chain[i].id
            /\ chain'[i].pc = chain[i].pc
            /\ chain[i].id # 0 /\ chain[i].id = pend.id => ~chain'[i].same
      <4> SUFFICES ASSUME NEW i \in Places(chain)
                   PROVE  /\ chain'[i].kind = chain[i].kind /\ chain'[i].text = chain[i].text /\ chain'[i].id = chain[i].id
                          /\ chain'[i].pc = chain[i].pc
                          /\ chain[i].id # 0 /\ chain[i].id = pend.id => ~chain'[i].same
        OBVIOUS
      <4>1. chain[i] \in Operations
            /\ chain'[i] = [chain[i] EXCEPT !.same = @ /\ (chain[i].id = 0 \/ chain[i].id # pend.id)]
        BY <2>1, <3>1
      <4> QED BY <4>1 DEF Operations
    <3> QED BY <3>2, <3>4, <3>5 DEF Like
  <2>4. Orderly(chain') /\ Backed(chain', tab'.modified) /\ LandedIs(chain', disk')
    <3>1. Orderly(chain') /\ Backed(chain', tab.modified)
      BY <1>1, <2>3, LikeOrderly, LikeBacked DEF QueueFits
    <3>2. chain # << >> => 1 \in Places(chain)
      BY Numbers, Places1
    <3> QED BY <1>1, <1>2, <2>1, <2>3, <3>1, <3>2 DEF QueueFits, LandedIs, Like
  <2>5. Timely(chain', typed', saving', pend')
    <3> SUFFICES ASSUME NEW i \in Places(chain)
                 PROVE  /\ chain'[i].text <= typed' /\ (chain'[i].kind = "auto" => saving')
                        /\ chain'[i].kind = "drain" => chain'[i].id = pend'.id /\ ~chain'[i].same
      BY <2>3 DEF Timely, Like
    <3>1. chain'[i].text = chain[i].text /\ chain'[i].kind = chain[i].kind /\ chain'[i].id = chain[i].id
      BY <2>3 DEF Like
    <3>2. chain[i].text <= typed' /\ (chain[i].kind = "auto" => saving')
      <4>1. chain[i].text <= typed /\ (chain[i].kind = "auto" => saving)
        BY <1>1 DEF QueueFits, Timely
      <4>2. chain[i].text \in Nat /\ typed \in Nat /\ typed' \in Nat
        BY Numbers DEF FileTypeOK
      <4> QED BY <1>2, <4>1, <4>2
    <3>3. chain[i].kind = "drain" => chain[i].id # 0 /\ chain[i].id = pend.id
      BY <1>1 DEF QueueFits, Timely, Orderly
    <3>4. chain'[i].kind = "drain" => chain'[i].id = pend'.id
      BY <2>2, <3>1, <3>3
    <3>5. chain'[i].kind = "drain" => ~chain'[i].same
      <4>1. chain[i].id # 0 /\ chain[i].id = pend.id => ~chain'[i].same
        BY <2>3
      <4> QED BY <3>1, <3>3, <4>1
    <3> QED BY <3>1, <3>2, <3>4, <3>5
  <2>6. \A t \in Nat : t <= typed /\ Safe(t) => KeptSafe(t)
    <3> SUFFICES ASSUME NEW t \in Nat, t <= typed, Safe(t) PROVE KeptSafe(t)
      OBVIOUS
    <3>1. SafeIn(chain, disk, told, Harmless', t)
      BY GrowsSafe
    <3> QED BY <1>2, <2>3, <3>1, LikeSafe DEF KeptSafe
  <2>7. HandsOver /\ HandsDrain
    BY <1>2, <2>1, <2>2, <2>3, <2>6 DEF HandsOver, HandsDrain, DrainsIn, Like
  <2>8. SurfacesFit' /\ LastIsSafe'
    BY <1>1, <1>2, <1>4, <2>1, <2>2 DEF SurfacesFit, LastIsSafe
  <2>9. LockFits'
    <3>1. /\ \A i \in Places(chain') :
               /\ i \in Places(chain) /\ chain'[i].kind = chain[i].kind
               /\ chain'[i].pc = chain[i].pc /\ chain'[i].text = chain[i].text
          /\ chain # << >> => chain' # << >> /\ 1 \in Places(chain')
      <4>1. chain # << >> => 1 \in Places(chain)
        BY Numbers, Places1
      <4>2. Places(chain') = Places(chain) /\ (chain = << >> <=> chain' = << >>)
        BY <2>3 DEF Like
      <4>3. \A i \in Places(chain) : chain'[i].kind = chain[i].kind /\ chain'[i].text = chain[i].text
        BY <2>3 DEF Like
      <4>4. \A i \in Places(chain) : chain'[i].pc = chain[i].pc
        BY <2>3
      <4> QED BY <4>1, <4>2, <4>3, <4>4
    <3>2. save.goal <= typed => save.goal <= typed'
      <4>1. save.goal \in Nat /\ typed \in Nat /\ typed' \in Nat
        BY Numbers DEF FileTypeOK
      <4> QED BY <1>2, <4>1
    <3> QED BY <1>1, <1>2, <3>1, <3>2 DEF LockFits
  <2>10. FlushFits' /\ SaveFits'
    BY <1>1, <1>2, <2>7, FlushKept, SaveKept
  <2> QED BY <2>4, <2>5, <2>8, <2>9, <2>10 DEF FileFits, QueueFits
<1> QED BY <1>3, <1>4

LEMMA SaveStartsFits == ASSUME FileTypeOK, FileTypeOK', Grows, FileFits, SaveStarts PROVE FileFits'
<1>1. QueueFits /\ SurfacesFit /\ LastIsSafe /\ FlushFits /\ SaveFits /\ LockFits /\ typed <= typed
  BY Numbers DEF FileFits
<1>2. UNCHANGED <<disk, tab, pend, visit, flush, save, typed, told>>
  BY DEF SaveStarts
<1>3. /\ Orderly(chain') /\ Timely(chain', typed', saving', pend') /\ LandedIs(chain', disk')
      /\ Backed(chain', tab.modified)
      /\ \A t \in Nat : t <= typed /\ Safe(t) => KeptSafe(t)
      /\ DrainsIn(chain, pend.id) => DrainsIn(chain', pend.id)
      /\ LockFits'
  <2>1. CASE UNCHANGED <<saving, chain>>
    <3>1. DrainsIn(chain, pend.id) => DrainsIn(chain', pend.id)
      BY <2>1
    <3> QED BY <1>1, <1>2, <2>1, <3>1, SameFits
  <2>2. CASE ~saving /\ tab.modified /\ saving' = TRUE /\ chain' = Append(chain, Operation("auto", tab.text))
    <3> DEFINE op == Operation("auto", tab.text)
    <3>1. op \in Operations /\ op.kind = "auto" /\ op.text = tab.text /\ op.pc = "queued" /\ op.id = 0
      BY Numbers, OperationIs DEF OperationKinds
    <3> HIDE DEF op
    <3>2. chain' = Append(chain, op)
      BY <2>2 DEF op
    <3>3. Extends(chain, chain', op)
      BY <3>1, <3>2, Numbers, AppendExtends
    <3>4. \A i \in Places(chain) : chain[i].kind # "auto"
      BY <1>1, <2>2 DEF QueueFits, Timely
    <3>5. Joins(op)
      BY <1>1, <1>2, <2>2, <3>1, <3>3, <3>4 DEF Joins, SurfacesFit
    <3> QED BY <1>1, <1>2, <2>2, <3>5, JoinFits
  <2> QED BY <2>1, <2>2 DEF SaveStarts
<1>4. HandsOver /\ HandsDrain
  BY <1>1, <1>2, <1>3 DEF HandsOver, HandsDrain
<1>5. QueueFits' /\ SurfacesFit'
  BY <1>1, <1>2, <1>3 DEF QueueFits, SurfacesFit
<1> QED BY <1>1, <1>2, <1>3, <1>4, <1>5, LastKept, FlushKept, SaveKept DEF FileFits

LEMMA TabClosesFits == ASSUME FileTypeOK, FileTypeOK', Grows, FileFits, TabCloses PROVE FileFits'
<1>1. QueueFits /\ SurfacesFit /\ LastIsSafe /\ FlushFits /\ SaveFits /\ LockFits /\ typed <= typed
  BY Numbers DEF FileFits
<1>2. /\ UNCHANGED <<disk, saving, pend, visit, flush, save, typed, told>> /\ tab.open
      /\ tab'.open = FALSE /\ tab'.modified = FALSE
  BY DEF TabCloses, NoTab
<1>3. pend.id = 0 /\ visit.pc = "idle"
  BY <1>1, <1>2 DEF SurfacesFit
<1>4. /\ Orderly(chain') /\ Timely(chain', typed', saving', pend') /\ LandedIs(chain', disk')
      /\ Backed(chain', FALSE)
      /\ \A t \in Nat : t <= typed /\ Safe(t) => KeptSafe(t)
      /\ tab.modified => KeptSafe(typed)
      /\ LockFits'
  <2>1. CASE ~tab.modified /\ UNCHANGED chain
    <3>1. Backed(chain, tab.modified) /\ Backed(chain, FALSE)
      BY <1>1, <2>1 DEF QueueFits, Backed
    <3>2. /\ Orderly(chain') /\ Timely(chain', typed', saving', pend') /\ LandedIs(chain', disk')
          /\ \A t \in Nat : t <= typed /\ Safe(t) => KeptSafe(t)
          /\ LockFits'
      BY <1>1, <1>2, <2>1, SameFits
    <3> QED BY <2>1, <3>1, <3>2
  <2>2. CASE tab.modified /\ chain' = Append(chain, Operation("close", tab.text))
    <3> DEFINE op == Operation("close", tab.text)
    <3>1. op \in Operations /\ op.kind = "close" /\ op.text = tab.text /\ op.pc = "queued" /\ op.id = 0
      BY Numbers, OperationIs DEF OperationKinds
    <3> HIDE DEF op
    <3>2. chain' = Append(chain, op)
      BY <2>2 DEF op
    <3>3. Extends(chain, chain', op)
      BY <3>1, <3>2, Numbers, AppendExtends
    <3>4. Joins(op)
      BY <1>1, <1>2, <2>2, <3>1, <3>3 DEF Joins, SurfacesFit
    <3>5. /\ Orderly(chain') /\ Timely(chain', typed', saving', pend') /\ LandedIs(chain', disk')
          /\ \A t \in Nat : t <= typed /\ Safe(t) => KeptSafe(t)
          /\ KeptSafe(typed) /\ LockFits'
      BY <1>1, <1>2, <3>1, <3>4, JoinFits
    <3>6. Backed(chain', FALSE)
      <4>1. \A i \in Places(chain) : chain[i].text <= typed
        BY <1>1 DEF QueueFits, Timely
      <4>2. op.text = typed
        BY <3>4 DEF Joins
      <4> QED BY <3>1, <3>3, <4>1, <4>2 DEF Extends, Backed
    <3> QED BY <3>5, <3>6
  <2> QED BY <2>1, <2>2 DEF TabCloses
<1>5. HandsOver /\ HandsDrain
  BY <1>1, <1>2, <1>3, <1>4 DEF HandsOver, HandsDrain, DrainsIn
<1>6. QueueFits' /\ SurfacesFit'
  BY <1>1, <1>2, <1>3, <1>4 DEF QueueFits, SurfacesFit
<1> QED BY <1>1, <1>2, <1>4, <1>5, <1>6, LastKept, FlushKept, SaveKept DEF FileFits

(* The drain of a pending edit, which there is only while no tab is open.     *)
LEMMA DrainFits ==
  ASSUME FileTypeOK, FileTypeOK', Grows, FileFits, Drain, UNCHANGED <<disk, told, typed, saving>>
  PROVE  /\ UNCHANGED tab /\ pend'.id = pend.id /\ pend'.text = pend.text
         /\ QueueFits' /\ LastIsSafe' /\ HandsOver /\ HandsDrain
         /\ pend.id # 0 => DrainsIn(chain', pend.id)
         /\ UNCHANGED save => LockFits'
         /\ save.pc # "lock" /\ save'.pc # "lock" => LockFits'
<1>1. QueueFits /\ SurfacesFit /\ LastIsSafe /\ LockFits /\ typed <= typed
  BY Numbers DEF FileFits
<1>2. /\ UNCHANGED tab /\ pend'.id = pend.id /\ pend'.text = pend.text
      /\ \/ UNCHANGED chain /\ (pend.id # 0 => DrainsIn(chain, pend.id))
         \/ pend.id # 0 /\ ~DrainsIn(chain, pend.id) /\ chain' = Append(chain, DrainOf(pend))
  <2>1. CASE pend.id = 0 \/ Draining(pend.id)
    BY <2>1, DrainingIs DEF Drain, FileTypeOK
  <2>2. CASE pend.id # 0 /\ ~Draining(pend.id)
    <3>1. ~tab.open /\ DrainTurn(chain)
      BY <1>1, <2>2 DEF Drain, SurfacesFit
    <3> QED BY <2>2, <3>1, DrainingIs DEF DrainTurn, FileTypeOK
  <2> QED BY <2>1, <2>2
<1>3. /\ Orderly(chain') /\ Timely(chain', typed', saving', pend') /\ LandedIs(chain', disk')
      /\ Backed(chain', tab.modified)
      /\ \A t \in Nat : t <= typed /\ Safe(t) => KeptSafe(t)
      /\ pend.id # 0 => DrainsIn(chain', pend.id)
      /\ UNCHANGED save => LockFits'
      /\ save.pc # "lock" /\ save'.pc # "lock" => LockFits'
  <2>1. CASE UNCHANGED chain /\ (pend.id # 0 => DrainsIn(chain, pend.id))
    <3>1. pend.id # 0 => DrainsIn(chain', pend.id)
      BY <2>1
    <3> QED BY <1>1, <1>2, <2>1, <3>1, SameFits
  <2>2. CASE pend.id # 0 /\ ~DrainsIn(chain, pend.id) /\ chain' = Append(chain, DrainOf(pend))
    <3> DEFINE op == DrainOf(pend)
    <3>1. op \in Operations /\ op.kind = "drain" /\ op.text = pend.text /\ op.pc = "queued" /\ op.id = pend.id
      BY Numbers, DrainIs
    <3> HIDE DEF op
    <3>2. chain' = Append(chain, op)
      BY <2>2 DEF op
    <3>3. Extends(chain, chain', op)
      BY <3>1, <3>2, Numbers, AppendExtends
    <3>4. \A i \in Places(chain) : chain[i].kind # "drain"
      BY <1>1, <2>2 DEF QueueFits, Timely, DrainsIn
    <3>5. Joins(op)
      BY <1>1, <1>2, <2>2, <3>1, <3>3, <3>4 DEF Joins, SurfacesFit
    <3> QED BY <1>1, <1>2, <3>1, <3>5, JoinFits
  <2> QED BY <1>2, <2>1, <2>2
<1>4. QueueFits'
  BY <1>2, <1>3 DEF QueueFits
<1>5. HandsOver /\ HandsDrain
  BY <1>1, <1>2, <1>3 DEF HandsOver, HandsDrain, DrainsIn
<1> QED BY <1>1, <1>2, <1>3, <1>4, <1>5, LastKept

LEMMA DrainTimerFits == ASSUME FileTypeOK, FileTypeOK', Grows, FileFits, DrainTimer PROVE FileFits'
<1>1. SurfacesFit /\ FlushFits /\ SaveFits
  BY DEF FileFits
<1>2. Drain /\ UNCHANGED <<disk, saving, visit, flush, save, typed, told>>
  BY DEF DrainTimer
<1>3. /\ UNCHANGED tab /\ pend'.id = pend.id /\ pend'.text = pend.text
      /\ QueueFits' /\ LastIsSafe' /\ HandsOver /\ HandsDrain
      /\ pend.id # 0 => DrainsIn(chain', pend.id)
      /\ LockFits'
  BY <1>2, DrainFits
<1>4. SurfacesFit'
  BY <1>1, <1>2, <1>3 DEF SurfacesFit
<1> QED BY <1>1, <1>2, <1>3, <1>4, FlushKept, SaveKept DEF FileFits

LEMMA FlushStartsFits == ASSUME FileTypeOK, FileTypeOK', Grows, FileFits, FlushStarts PROVE FileFits'
<1>1. SurfacesFit /\ SaveFits /\ typed <= typed
  BY Numbers DEF FileFits
<1>2. /\ Drain /\ UNCHANGED <<disk, saving, visit, save, typed, told>>
      /\ flush'.pc = "flush" /\ flush'.of = pend.id /\ flush'.goal = typed
  BY DEF FlushStarts
<1>3. /\ UNCHANGED tab /\ pend'.id = pend.id /\ pend'.text = pend.text
      /\ QueueFits' /\ LastIsSafe' /\ HandsOver /\ HandsDrain
      /\ pend.id # 0 => DrainsIn(chain', pend.id)
      /\ LockFits'
  BY <1>2, DrainFits
<1>4. SurfacesFit'
  BY <1>1, <1>2, <1>3 DEF SurfacesFit
<1>5. FlushFits'
  BY <1>1, <1>2, <1>3 DEF FlushFits, Promised, LastIsSafe
<1> QED BY <1>1, <1>2, <1>3, <1>4, <1>5, SaveKept DEF FileFits

LEMMA SaveCalledFits == ASSUME FileTypeOK, FileTypeOK', Grows, FileFits, SaveCalled PROVE FileFits'
<1>1. SurfacesFit /\ FlushFits /\ typed <= typed
  BY Numbers DEF FileFits
<1>2. /\ Drain /\ UNCHANGED <<disk, saving, visit, flush, typed, told>> /\ save.pc = "idle"
      /\ save'.pc = "flush" /\ save'.of = pend.id /\ save'.goal = typed
  BY DEF SaveCalled
<1>3. /\ UNCHANGED tab /\ pend'.id = pend.id /\ pend'.text = pend.text
      /\ QueueFits' /\ LastIsSafe' /\ HandsOver /\ HandsDrain
      /\ pend.id # 0 => DrainsIn(chain', pend.id)
      /\ LockFits'
  BY <1>2, DrainFits
<1>4. SurfacesFit'
  BY <1>1, <1>2, <1>3 DEF SurfacesFit
<1>5. SaveFits'
  BY <1>1, <1>2, <1>3 DEF SaveFits, Promised, LastIsSafe
<1> QED BY <1>1, <1>2, <1>3, <1>4, <1>5, FlushKept DEF FileFits

LEMMA VisitStartsFits == ASSUME FileTypeOK, FileTypeOK', Grows, FileFits, VisitStarts PROVE FileFits'
<1>1. SurfacesFit /\ FlushFits /\ SaveFits
  BY DEF FileFits
<1>2. /\ Drain /\ UNCHANGED <<disk, saving, flush, save, typed, told>> /\ ~tab.open
      /\ visit'.pc = "flush" /\ visit'.of = pend.id
  BY DEF VisitStarts
<1>3. /\ UNCHANGED tab /\ pend'.id = pend.id /\ pend'.text = pend.text
      /\ QueueFits' /\ LastIsSafe' /\ HandsOver /\ HandsDrain
      /\ pend.id # 0 => DrainsIn(chain', pend.id)
      /\ LockFits'
  BY <1>2, DrainFits
<1>4. SurfacesFit'
  BY <1>1, <1>2, <1>3 DEF SurfacesFit
<1> QED BY <1>1, <1>2, <1>3, <1>4, FlushKept, SaveKept DEF FileFits

LEMMA LandsFits == ASSUME FileTypeOK, FileTypeOK', Grows, FileFits, Lands PROVE FileFits'
<1>1. QueueFits /\ SurfacesFit /\ LastIsSafe /\ FlushFits /\ SaveFits /\ LockFits /\ typed <= typed
  BY Numbers DEF FileFits
<1>2. UNCHANGED <<tab, saving, pend, visit, flush, save, typed, told>>
  BY DEF Lands
<1>3. /\ Like(chain, chain') /\ 1 \in Places(chain) /\ chain[1].text \in Nat /\ chain[1].pc = "queued"
      /\ \A i \in Places(chain) : chain'[i].same = chain[i].same
      /\ (disk' = disk /\ chain'[1].pc = "failed") \/ (disk' = chain[1].text /\ chain'[1].pc = "landed")
  BY LandsLike
<1>4. /\ Places(chain') = Places(chain)
      /\ \A i \in Places(chain) :
           /\ chain'[i].kind = chain[i].kind /\ chain'[i].text = chain[i].text /\ chain'[i].id = chain[i].id
           /\ chain'[i].pc = "ready" <=> chain[i].pc = "ready"
  BY <1>3 DEF Like
<1>5. Orderly(chain') /\ Backed(chain', tab.modified)
  BY <1>1, <1>3, LikeOrderly, LikeBacked DEF QueueFits
<1>6. Timely(chain', typed', saving', pend')
  <2>1. \A i \in Places(chain') :
          /\ i \in Places(chain) /\ chain'[i].text = chain[i].text /\ chain'[i].kind = chain[i].kind
          /\ chain'[i].id = chain[i].id /\ chain'[i].same = chain[i].same
    BY <1>3, <1>4
  <2> QED BY <1>1, <1>2, <2>1 DEF QueueFits, Timely
<1>7. LandedIs(chain', disk')
  BY <1>3, <1>4 DEF LandedIs
<1>8. \A t \in Nat : t <= typed /\ Safe(t) => KeptSafe(t)
  <2>1. disk' = disk \/ (disk' = chain[1].text /\ 1 \in Places(chain) /\ chain[1].pc # "ready")
    BY <1>3
  <2> SUFFICES ASSUME NEW t \in Nat, t <= typed, Safe(t) PROVE KeptSafe(t)
    OBVIOUS
  <2>2. SafeIn(chain, disk, told, Harmless', t)
    BY GrowsSafe
  <2> QED BY <1>2, <1>3, <2>1, <2>2, LikeSafe DEF KeptSafe
<1>9. \A id : DrainsIn(chain, id) => DrainsIn(chain', id)
  BY <1>4 DEF DrainsIn
<1>10. HandsOver /\ HandsDrain
  BY <1>1, <1>2, <1>8, <1>9 DEF HandsOver, HandsDrain
<1>11. QueueFits' /\ SurfacesFit'
  BY <1>1, <1>2, <1>5, <1>6, <1>7, <1>9 DEF QueueFits, SurfacesFit
<1>12. LockFits'
  <2>1. ASSUME save.pc = "lock" PROVE LockFits'
    <3>1. /\ save.goal <= typed
          /\ \A i \in Places(chain') : chain'[i].pc # "ready" => save.goal <= chain'[i].text
          /\ save.goal <= chain[1].text
      BY <1>1, <1>3, <1>4, <2>1 DEF LockFits
    <3>2. save.goal <= disk' \/ (chain' # << >> /\ chain'[1].kind = "lock" /\ chain'[1].pc # "ready")
      <4>1. CASE disk' = chain[1].text
        BY <3>1, <4>1
      <4>2. CASE disk' = disk /\ chain'[1].pc = "failed"
        BY <1>1, <1>3, <1>4, <2>1, <4>2 DEF LockFits, Like
      <4> QED BY <1>3, <4>1, <4>2
    <3> QED BY <1>2, <2>1, <3>1, <3>2 DEF LockFits
  <2>2. ASSUME save.pc # "lock" PROVE LockFits'
    BY <1>1, <1>2, <1>4, <2>2 DEF LockFits
  <2> QED BY <2>1, <2>2
<1> QED BY <1>1, <1>2, <1>10, <1>11, <1>12, LastKept, FlushKept, SaveKept DEF FileFits

LEMMA OtherWritesFits == ASSUME FileTypeOK, FileTypeOK', Grows, FileFits, typed <= texts, OtherWrites PROVE FileFits'
<1>1. QueueFits /\ SurfacesFit /\ LastIsSafe /\ FlushFits /\ SaveFits /\ LockFits /\ typed <= typed
  BY Numbers DEF FileFits
<1>2. /\ UNCHANGED <<tab, saving, pend, chain, visit, flush, save, typed, told>>
      /\ disk' = texts + 1 /\ typed <= disk'
  BY Numbers DEF OtherWrites, NewText
<1>3. /\ Orderly(chain') /\ Timely(chain', typed', saving', pend') /\ LandedIs(chain', disk')
      /\ Backed(chain', tab.modified)
      /\ \A t \in Nat : t <= typed /\ Safe(t) => KeptSafe(t)
      /\ HandsDrain /\ LockFits'
  BY <1>1, <1>2, SameFits
<1>4. HandsOver
  BY <1>1, <1>2, <1>3 DEF HandsOver
<1>5. QueueFits' /\ SurfacesFit'
  BY <1>1, <1>2, <1>3 DEF QueueFits, SurfacesFit
<1> QED BY <1>1, <1>2, <1>3, <1>4, <1>5, LastKept, FlushKept, SaveKept DEF FileFits

(* Steps that touch neither what was typed nor the writes.                    *)
LEMMA QuietFits ==
  ASSUME FileTypeOK, FileTypeOK', Grows, FileFits, UNCHANGED <<disk, saving, pend, chain, typed, told>>,
         tab'.modified = tab.modified
  PROVE  /\ QueueFits' /\ LastIsSafe' /\ HandsOver /\ HandsDrain
         /\ \A t \in Nat : t <= typed /\ Safe(t) => KeptSafe(t)
         /\ UNCHANGED flush => FlushFits'
         /\ UNCHANGED save => SaveFits' /\ LockFits'
         /\ save.pc # "lock" /\ save'.pc # "lock" => LockFits'
<1>1. QueueFits /\ LastIsSafe /\ FlushFits /\ SaveFits /\ LockFits /\ typed <= typed
  BY Numbers DEF FileFits
<1>2. /\ Orderly(chain') /\ Timely(chain', typed', saving', pend') /\ LandedIs(chain', disk')
      /\ Backed(chain', tab.modified)
      /\ \A t \in Nat : t <= typed /\ Safe(t) => KeptSafe(t)
      /\ HandsDrain
      /\ UNCHANGED save => LockFits'
      /\ save.pc # "lock" /\ save'.pc # "lock" => LockFits'
  BY <1>1, SameFits
<1>3. HandsOver
  BY <1>1, <1>2 DEF HandsOver
<1>4. QueueFits'
  BY <1>2 DEF QueueFits
<1> QED BY <1>1, <1>2, <1>3, <1>4, LastKept, FlushKept, SaveKept

LEMMA FlushEndsFits == ASSUME FileTypeOK, FileTypeOK', Grows, FileFits, FlushEnds PROVE FileFits'
<1>1. SurfacesFit /\ UNCHANGED <<disk, tab, saving, pend, chain, visit, save, typed, told>> /\ flush'.pc = "idle"
  BY DEF FlushEnds, Uncalled, FileFits
<1>2. QueueFits' /\ LastIsSafe' /\ SaveFits' /\ LockFits'
  BY <1>1, QuietFits
<1>3. SurfacesFit' /\ FlushFits'
  BY <1>1 DEF SurfacesFit, FlushFits
<1> QED BY <1>2, <1>3 DEF FileFits

LEMMA FlushWritesFits == ASSUME FileTypeOK, FileTypeOK', Grows, FileFits, FlushWrites PROVE FileFits'
<1>1. QueueFits /\ SurfacesFit /\ LastIsSafe /\ FlushFits /\ SaveFits /\ LockFits /\ typed <= typed
  BY Numbers DEF FileFits
<1>2. /\ UNCHANGED <<disk, tab, saving, pend, visit, save, typed, told>>
      /\ flush.pc = "flush" /\ flush'.pc = "settle" /\ flush'.goal = flush.goal
      /\ ~DrainsIn(chain, flush.of)
  BY DrainingIs DEF FlushWrites, FileTypeOK
<1>3. /\ Orderly(chain') /\ Timely(chain', typed', saving', pend') /\ LandedIs(chain', disk')
      /\ Backed(chain', tab.modified)
      /\ \A t \in Nat : t <= typed /\ Safe(t) => KeptSafe(t)
      /\ tab.modified => KeptSafe(typed)
      /\ DrainsIn(chain, pend.id) => DrainsIn(chain', pend.id)
      /\ LockFits'
  <2>1. CASE ~tab.modified /\ UNCHANGED chain
    <3>1. DrainsIn(chain, pend.id) => DrainsIn(chain', pend.id)
      BY <2>1
    <3> QED BY <1>1, <1>2, <2>1, <3>1, SameFits
  <2>2. CASE tab.modified /\ chain' = Append(chain, Operation("flush", tab.text))
    <3> DEFINE op == Operation("flush", tab.text)
    <3>1. op \in Operations /\ op.kind = "flush" /\ op.text = tab.text /\ op.pc = "queued" /\ op.id = 0
      BY Numbers, OperationIs DEF OperationKinds
    <3> HIDE DEF op
    <3>2. chain' = Append(chain, op)
      BY <2>2 DEF op
    <3>3. Extends(chain, chain', op)
      BY <3>1, <3>2, Numbers, AppendExtends
    <3>4. Joins(op)
      BY <1>1, <1>2, <2>2, <3>1, <3>3 DEF Joins, SurfacesFit
    <3> QED BY <1>1, <1>2, <3>1, <3>4, JoinFits
  <2> QED BY <2>1, <2>2 DEF FlushWrites
<1>4. HandsOver /\ HandsDrain
  BY <1>1, <1>2, <1>3 DEF HandsOver, HandsDrain
<1>5. QueueFits' /\ SurfacesFit'
  BY <1>1, <1>2, <1>3 DEF QueueFits, SurfacesFit
<1>6. FlushFits'
  <2>1. flush.goal \in Nat /\ flush.goal <= typed /\ (tab.modified \/ Safe(flush.goal))
    BY <1>1, <1>2, Numbers DEF FlushFits, Promised
  <2>2. KeptSafe(typed) => KeptSafe(flush.goal)
    <3>1. chain' \in Seq(Operations) /\ disk' \in Nat /\ told' \in Nat /\ typed \in Nat
      BY Numbers DEF FileTypeOK
    <3> QED BY <2>1, <3>1, OlderIsSafe, StillOrdered DEF KeptSafe
  <2>3. KeptSafe(flush.goal)
    BY <1>3, <2>1, <2>2
  <2> QED BY <1>2, <2>1, <2>3 DEF FlushFits, KeptSafe, Safe
<1> QED BY <1>1, <1>2, <1>3, <1>4, <1>5, <1>6, LastKept, SaveKept DEF FileFits

LEMMA SaveDrainedFits == ASSUME FileTypeOK, FileTypeOK', Grows, FileFits, SaveDrained PROVE FileFits'
<1>1. /\ SurfacesFit /\ SaveFits /\ LockFits
      /\ UNCHANGED <<disk, tab, saving, pend, chain, visit, flush, typed, told>>
      /\ save.pc = "flush" /\ save'.pc = "wait" /\ save'.goal = save.goal
      /\ ~DrainsIn(chain, save.of)
  BY DrainingIs DEF SaveDrained, FileTypeOK, FileFits
<1>2. /\ QueueFits' /\ LastIsSafe' /\ FlushFits' /\ LockFits'
      /\ \A t \in Nat : t <= typed /\ Safe(t) => KeptSafe(t)
  BY <1>1, QuietFits
<1>3. SurfacesFit'
  BY <1>1 DEF SurfacesFit
<1>4. SaveFits'
  <2>1. save.goal \in Nat /\ save.goal <= typed /\ (tab.modified \/ Safe(save.goal))
    BY <1>1, Numbers DEF SaveFits, Promised
  <2> QED BY <1>1, <1>2, <2>1 DEF SaveFits, KeptSafe, Safe
<1> QED BY <1>2, <1>3, <1>4 DEF FileFits

LEMMA VisitReadsFits == ASSUME FileTypeOK, FileTypeOK', Grows, FileFits, VisitReads PROVE FileFits'
<1>1. /\ SurfacesFit /\ UNCHANGED <<disk, tab, saving, pend, chain, flush, save, typed, told>>
      /\ visit.pc = "flush" /\ ~DrainsIn(chain, visit.of)
      /\ visit'.pc \in {"idle", "read"}
  BY DrainingIs DEF VisitReads, FileTypeOK, FileFits, NoVisit
<1>2. QueueFits' /\ LastIsSafe' /\ FlushFits' /\ SaveFits' /\ LockFits'
  BY <1>1, QuietFits
<1>3. pend.id = 0 /\ ~tab.open
  BY <1>1 DEF SurfacesFit
<1>4. SurfacesFit'
  BY <1>1, <1>3 DEF SurfacesFit
<1> QED BY <1>2, <1>4 DEF FileFits

LEMMA VisitOpensFits == ASSUME FileTypeOK, FileTypeOK', Grows, FileFits, VisitOpens PROVE FileFits'
<1>1. /\ SurfacesFit /\ UNCHANGED <<disk, saving, pend, chain, flush, save, typed, told>>
      /\ visit.pc = "read" /\ visit'.pc = "idle"
  BY DEF VisitOpens, NoVisit, FileFits
<1>2. pend.id = 0 /\ ~tab.open /\ tab.modified = FALSE /\ tab'.modified = FALSE
  BY <1>1 DEF SurfacesFit, VisitOpens, FileTypeOK, Tabs
<1>3. QueueFits' /\ LastIsSafe' /\ FlushFits' /\ SaveFits' /\ LockFits'
  BY <1>1, <1>2, QuietFits
<1>4. SurfacesFit'
  BY <1>1, <1>2 DEF SurfacesFit
<1> QED BY <1>3, <1>4 DEF FileFits

LEMMA ReloadedFits == ASSUME FileTypeOK, FileTypeOK', Grows, FileFits, NEW text, Reloaded(text) PROVE FileFits'
<1>1. /\ SurfacesFit /\ UNCHANGED <<disk, saving, pend, chain, visit, flush, save, typed, told>>
      /\ tab'.open = tab.open /\ tab'.modified = tab.modified /\ (tab.modified => tab'.text = tab.text)
  BY DEF Reloaded, FileFits, FileTypeOK, Tabs
<1>2. QueueFits' /\ LastIsSafe' /\ FlushFits' /\ SaveFits' /\ LockFits'
  BY <1>1, QuietFits
<1>3. SurfacesFit'
  BY <1>1 DEF SurfacesFit
<1> QED BY <1>2, <1>3 DEF FileFits

LEMMA WatchedFits == ASSUME FileTypeOK, FileTypeOK', Grows, FileFits, Watched \/ UNCHANGED fileVars PROVE FileFits'
<1>1. SurfacesFit /\ UNCHANGED <<disk, tab, saving, pend, chain, visit, flush, save, typed, told>>
  BY DEF Watched, fileVars, FileFits
<1>2. QueueFits' /\ LastIsSafe' /\ FlushFits' /\ SaveFits' /\ LockFits'
  BY <1>1, QuietFits
<1>3. SurfacesFit'
  BY <1>1 DEF SurfacesFit
<1> QED BY <1>2, <1>3 DEF FileFits

-----------------------------------------------------------------------------
(* The operation of the lock. *)
Heads(c, d, op) ==
  /\ d \in Seq(Operations) /\ d # << >> /\ 1 \in Places(d) /\ d[1] = op
  /\ \A i \in Places(d) : i # 1 => i - 1 \in Places(c) /\ d[i] = c[i - 1]
  /\ \A i \in Places(c) : i + 1 \in Places(d) /\ d[i + 1] = c[i]

LEMMA FrontHeads ==
  ASSUME NEW c \in Seq(Operations), NEW op \in Operations
  PROVE  Heads(c, << op >> \o c, op)
<1> DEFINE d == << op >> \o c
<1>1. << op >> \in Seq(Operations) /\ Len(<< op >>) = 1 /\ << op >>[1] = op /\ Len(c) \in Nat
  OBVIOUS
<1>2. /\ d \in Seq(Operations) /\ Len(d) = 1 + Len(c)
      /\ \A i \in 1 .. 1 + Len(c) : d[i] = IF i <= 1 THEN << op >>[i] ELSE c[i - 1]
  BY <1>1, ConcatProperties
<1> HIDE DEF d
<1>3. d # << >>
  BY <1>1, <1>2, EmptySeq
<1>4. 1 \in Places(d) /\ d[1] = op
  BY <1>1, <1>2 DEF Places
<1>5. \A i \in Places(d) : i # 1 => i - 1 \in Places(c) /\ d[i] = c[i - 1]
  BY <1>1, <1>2 DEF Places
<1>6. \A i \in Places(c) : i + 1 \in Places(d) /\ d[i + 1] = c[i]
  BY <1>1, <1>2 DEF Places
<1> QED BY <1>2, <1>3, <1>4, <1>5, <1>6 DEF Heads, d

(* The lock leaves the front, and what was safe is so without it. *)
LEMMA WithoutLock ==
  ASSUME NEW c \in Seq(Operations), NEW d, Shift(c, d, 1), c[1].kind = "lock"
  PROVE  /\ \A on, shown, ok, text : SafeIn(c, on, shown, ok, text) => SafeIn(d, on, shown, ok, text)
         /\ \A id : DrainsIn(c, id) => DrainsIn(d, id)
<1>1. /\ \A i \in Places(d) : i + 1 \in Places(c) /\ d[i] = c[i + 1]
      /\ \A i \in Places(c) : c[i].kind # "lock" => i - 1 \in Places(d) /\ d[i - 1] = c[i]
  <2>1. \A i \in Places(c) : c[i].kind # "lock" => i > 1
    BY ShiftPlaces
  <2> QED BY <2>1 DEF Shift
<1>2. \A id : DrainsIn(c, id) => DrainsIn(d, id)
  BY <1>1 DEF DrainsIn
<1>3. ASSUME NEW on, NEW shown, NEW ok, NEW text, SafeIn(c, on, shown, ok, text) PROVE SafeIn(d, on, shown, ok, text)
  <2>1. CASE \E i \in Places(c) : c[i].kind \in {"drain", "close", "flush"} /\ text <= c[i].text
    <3>1. PICK i \in Places(c) : c[i].kind \in {"drain", "close", "flush"} /\ text <= c[i].text
      BY <2>1
    <3>2. i - 1 \in Places(d) /\ d[i - 1] = c[i]
      BY <1>1, <3>1
    <3> QED BY <3>1, <3>2 DEF SafeIn
  <2>2. CASE <<text, on>> \in ok /\ \A i \in Places(c) : c[i].pc # "ready" => <<text, c[i].text>> \in ok
    BY <1>1, <2>2 DEF SafeIn
  <2> QED BY <1>3, <2>1, <2>2 DEF SafeIn
<1> QED BY <1>2, <1>3

(* The lock runs before the operations given, or there is nothing to write.   *)
LEMMA RunsFits ==
  ASSUME FileTypeOK, FileTypeOK', Grows, SurfacesFit, LastIsSafe, FlushFits, save.goal <= typed,
         UNCHANGED <<disk, tab, saving, pend, visit, flush, typed, told>>,
         NEW c \in Seq(Operations), LockRuns(c), Orderly(c), Timely(c, typed, saving, pend), Backed(c, tab.modified),
         \A i \in Places(c) : c[i].kind # "lock" /\ c[i].pc = "queued" /\ save.goal <= c[i].text,
         \A t \in Nat : t <= typed /\ Safe(t) => SafeIn(c, disk, told, Harmless', t),
         DrainsIn(chain, pend.id) => DrainsIn(c, pend.id)
  PROVE  FileFits'
<1>1. typed \in Nat /\ typed <= typed /\ save.goal \in Nat
  BY Numbers
<1>2. /\ Orderly(chain') /\ Timely(chain', typed, saving, pend) /\ LandedIs(chain', disk)
      /\ Backed(chain', tab.modified)
      /\ \A t \in Nat : t <= typed /\ Safe(t) => SafeIn(chain', disk, told, Harmless', t)
      /\ DrainsIn(chain, pend.id) => DrainsIn(chain', pend.id)
      /\ SaveFits' /\ LockFits'
  <2>1. CASE ~tab.modified /\ chain' = c /\ save' = Uncalled
    <3>1. LandedIs(c, disk)
      BY Places1 DEF LandedIs
    <3>2. save'.pc = "idle"
      BY <2>1 DEF Uncalled
    <3>3. SaveFits' /\ LockFits'
      BY <2>1, <3>2 DEF SaveFits, LockFits
    <3> QED BY <2>1, <3>1, <3>3
  <2>2. CASE tab.modified /\ chain' = << Operation("lock", tab.text) >> \o c /\ save' = [save EXCEPT !.pc = "lock"]
    <3> DEFINE op == Operation("lock", tab.text)
    <3>1. op \in Operations /\ op.kind = "lock" /\ op.text = tab.text /\ op.pc = "queued" /\ op.id = 0
      BY Numbers, OperationIs DEF OperationKinds
    <3> HIDE DEF op
    <3>2. chain' = << op >> \o c
      BY <2>2 DEF op
    <3>3. /\ chain' # << >> /\ 1 \in Places(chain') /\ chain'[1] = op
          /\ \A i \in Places(chain') : i # 1 => i - 1 \in Places(c) /\ chain'[i] = c[i - 1]
          /\ \A i \in Places(c) : i + 1 \in Places(chain') /\ chain'[i + 1] = c[i]
      <4>1. Heads(c, chain', op)
        BY <3>1, <3>2, FrontHeads
      <4> QED BY <4>1 DEF Heads
    <3>4. op.text = typed
      BY <2>2, <3>1 DEF SurfacesFit
    <3>5. Orderly(chain')
      <4>1. \A i \in Places(chain') : i \in Nat \ {0} /\ 1 <= i
        BY Places1 DEF FileTypeOK, Places
      <4>2. \A i \in Places(chain') : i # 1 => chain'[i].pc = IF chain'[i].kind = "lock" THEN "ready" ELSE "queued"
        BY <3>3
      <4>3. \A i \in Places(chain') :
              (chain'[i].pc = "ready" => chain'[i].kind = "lock") /\ (chain'[i].kind = "drain" <=> chain'[i].id # 0)
        BY <3>1, <3>3 DEF Orderly
      <4>4. \A i, j \in Places(chain') :
              chain'[i].kind = chain'[j].kind /\ chain'[i].kind \in {"auto", "drain", "lock"} => i = j
        <5> SUFFICES ASSUME NEW i \in Places(chain'), NEW j \in Places(chain'),
                            chain'[i].kind = chain'[j].kind, chain'[i].kind \in {"auto", "drain", "lock"}
                     PROVE  i = j
          OBVIOUS
        <5>1. CASE i = 1 \/ j = 1
          BY <3>1, <3>3, <5>1
        <5>2. CASE i # 1 /\ j # 1
          <6>1. i - 1 = j - 1
            BY <3>3, <5>2 DEF Orderly
          <6> QED BY <4>1, <6>1
        <5> QED BY <5>1, <5>2
      <4>5. \A i, j \in Places(chain') :
              i < j /\ chain'[i].kind # "lock" /\ chain'[j].kind # "lock" => chain'[i].text <= chain'[j].text
        <5> SUFFICES ASSUME NEW i \in Places(chain'), NEW j \in Places(chain'), i < j,
                            chain'[i].kind # "lock", chain'[j].kind # "lock"
                     PROVE  chain'[i].text <= chain'[j].text
          OBVIOUS
        <5>1. i # 1 /\ j # 1
          BY <3>1, <3>3
        <5>2. i - 1 \in Places(c) /\ j - 1 \in Places(c) /\ chain'[i] = c[i - 1] /\ chain'[j] = c[j - 1]
          BY <3>3, <5>1
        <5>3. i - 1 < j - 1
          BY <4>1
        <5> QED BY <5>2, <5>3 DEF Orderly
      <4> QED BY <4>2, <4>3, <4>4, <4>5 DEF Orderly
    <3>6. Timely(chain', typed, saving, pend)
      BY <1>1, <3>1, <3>3, <3>4 DEF Timely
    <3>7. LandedIs(chain', disk)
      BY <3>1, <3>3 DEF LandedIs
    <3>8. Backed(chain', tab.modified)
      BY <2>2 DEF Backed
    <3>9. ASSUME NEW t \in Nat, t <= typed, Safe(t) PROVE SafeIn(chain', disk, told, Harmless', t)
      <4>1. SafeIn(c, disk, told, Harmless', t)
        BY <3>9
      <4>2. CASE \E i \in Places(c) : c[i].kind \in {"drain", "close", "flush"} /\ t <= c[i].text
        BY <3>3, <4>2 DEF SafeIn
      <4>3. CASE /\ <<t, disk>> \in Harmless'
                 /\ \A i \in Places(c) : c[i].pc # "ready" => <<t, c[i].text>> \in Harmless'
        <5>1. <<t, op.text>> \in Harmless'
          BY <1>1, <3>4, <3>9, StillOrdered DEF Ordered
        <5>2. \A i \in Places(chain') : chain'[i].pc # "ready" => <<t, chain'[i].text>> \in Harmless'
          BY <3>3, <4>3, <5>1
        <5> QED BY <4>3, <5>2 DEF SafeIn
      <4> QED BY <4>1, <4>2, <4>3 DEF SafeIn
    <3>10. DrainsIn(chain, pend.id) => DrainsIn(chain', pend.id)
      BY <3>3 DEF DrainsIn
    <3>11. save'.pc = "lock" /\ save'.goal = save.goal
      BY <2>2 DEF FileTypeOK
    <3>12. \A i \in Places(chain') : chain'[i].pc # "ready" => save.goal <= chain'[i].text
      <4> SUFFICES ASSUME NEW i \in Places(chain'), chain'[i].pc # "ready" PROVE save.goal <= chain'[i].text
        OBVIOUS
      <4>1. CASE i = 1
        BY <3>3, <3>4, <4>1
      <4>2. CASE i # 1
        BY <3>3, <4>2
      <4> QED BY <4>1, <4>2
    <3>13. SaveFits' /\ LockFits'
      BY <3>1, <3>3, <3>11, <3>12 DEF SaveFits, LockFits
    <3> QED BY <3>5, <3>6, <3>7, <3>8, <3>9, <3>10, <3>13
  <2> QED BY <2>1, <2>2 DEF LockRuns
<1>3. HandsOver /\ HandsDrain
  BY <1>1, <1>2 DEF HandsOver, HandsDrain, KeptSafe
<1>4. QueueFits' /\ SurfacesFit'
  BY <1>2 DEF QueueFits, SurfacesFit
<1> QED BY <1>2, <1>3, <1>4, LastKept, FlushKept DEF FileFits

LEMMA SaveLocksFits == ASSUME FileTypeOK, FileTypeOK', Grows, FileFits, SaveLocks PROVE FileFits'
<1>1. QueueFits /\ SurfacesFit /\ LastIsSafe /\ FlushFits /\ SaveFits
  BY DEF FileFits
<1>2. /\ chain = << >> /\ LockRuns(chain) /\ save.goal <= typed
      /\ UNCHANGED <<disk, tab, saving, pend, visit, flush, typed, told>>
  BY <1>1 DEF SaveLocks, SaveFits
<1>3. chain \in Seq(Operations) /\ \A i \in Places(chain) : FALSE
  BY <1>2, Numbers, Places1
<1>4. Orderly(chain) /\ Timely(chain, typed, saving, pend) /\ Backed(chain, tab.modified)
  BY <1>1 DEF QueueFits
<1>5. \A t \in Nat : t <= typed /\ Safe(t) => SafeIn(chain, disk, told, Harmless', t)
  BY GrowsSafe
<1>6. \A i \in Places(chain) : chain[i].kind # "lock" /\ chain[i].pc = "queued" /\ save.goal <= chain[i].text
  BY <1>3
<1> QED BY <1>1, <1>2, <1>3, <1>4, <1>5, <1>6, RunsFits

LEMMA LockStartsFits == ASSUME FileTypeOK, FileTypeOK', Grows, FileFits, LockStarts PROVE FileFits'
<1>1. QueueFits /\ SurfacesFit /\ LastIsSafe /\ FlushFits /\ LockFits
  BY DEF FileFits
<1>2. /\ chain # << >> /\ chain[1].pc = "ready" /\ LockRuns(Tail(chain))
      /\ UNCHANGED <<disk, tab, saving, pend, visit, flush, typed, told>>
  BY DEF LockStarts, Foremost
<1>3. chain \in Seq(Operations) /\ 1 \in Places(chain)
  BY <1>2, Numbers, Places1
<1>4. Shift(chain, Tail(chain), 1)
  BY <1>2, <1>3, TailShifts
<1>5. chain[1].kind = "lock" /\ save.pc = "lock"
  BY <1>1, <1>2, <1>3 DEF QueueFits, Orderly, LockFits
<1>6. /\ Orderly(Tail(chain)) /\ Timely(Tail(chain), typed, saving, pend) /\ Backed(Tail(chain), tab.modified)
      /\ \A i \in Places(Tail(chain)) : Tail(chain)[i].kind # "lock" /\ Tail(chain)[i].pc = "queued"
  <2> DEFINE rest == Tail(chain)
  <2>1. Shift(chain, rest, 1)
    BY <1>4
  <2> HIDE DEF rest
  <2>2. Orderly(chain) /\ Timely(chain, typed, saving, pend) /\ Backed(chain, tab.modified)
    BY <1>1 DEF QueueFits
  <2>3. Orderly(rest) /\ \A i \in Places(rest) : rest[i].kind # "lock" /\ rest[i].pc = "queued"
    BY <1>3, <1>5, <2>1, <2>2, ShiftOrderly
  <2>4. Timely(rest, typed, saving, pend) /\ Backed(rest, tab.modified)
    BY <1>3, <2>1, <2>2, ShiftTimely, ShiftBacked
  <2> QED BY <2>3, <2>4 DEF rest
<1>7. /\ \A t \in Nat : t <= typed /\ Safe(t) => SafeIn(Tail(chain), disk, told, Harmless', t)
      /\ DrainsIn(chain, pend.id) => DrainsIn(Tail(chain), pend.id)
  BY <1>3, <1>4, <1>5, WithoutLock, GrowsSafe
<1>8. /\ save.goal <= typed /\ Tail(chain) \in Seq(Operations)
      /\ \A i \in Places(Tail(chain)) : save.goal <= Tail(chain)[i].text
  <2>1. \A i \in Places(Tail(chain)) : i + 1 \in Places(chain) /\ Tail(chain)[i] = chain[i + 1]
    BY <1>4 DEF Shift
  <2>2. \A i \in Places(Tail(chain)) : Tail(chain)[i].pc # "ready"
    BY <1>6
  <2>3. /\ save.goal <= typed
        /\ \A i \in Places(chain) : chain[i].pc # "ready" => save.goal <= chain[i].text
    BY <1>1, <1>5 DEF LockFits
  <2>4. Tail(chain) \in Seq(Operations)
    BY <1>4 DEF Shift
  <2>5. ASSUME NEW i \in Places(Tail(chain)) PROVE save.goal <= Tail(chain)[i].text
    <3>1. i + 1 \in Places(chain) /\ Tail(chain)[i] = chain[i + 1] /\ Tail(chain)[i].pc # "ready"
      BY <2>1, <2>2
    <3> QED BY <2>3, <3>1
  <2> QED BY <2>3, <2>4, <2>5
<1>9. \A i \in Places(Tail(chain)) :
        Tail(chain)[i].kind # "lock" /\ Tail(chain)[i].pc = "queued" /\ save.goal <= Tail(chain)[i].text
  BY <1>6, <1>8
<1> QED BY <1>1, <1>2, <1>6, <1>7, <1>8, <1>9, RunsFits

(* The queue as it is behind the operation in front, and nothing else.        *)
LEMMA LeavesFits ==
  ASSUME FileTypeOK, FileTypeOK', Grows, QueueFits, LockFits, chain # << >>, Foremost.pc \in {"landed", "failed"},
         chain' = Rest, UNCHANGED <<disk, typed>>, told <= told',
         Failed /\ Foremost.kind \in {"drain", "close", "flush"} => Foremost.text <= told',
         saving' = saving \/ Foremost.kind = "auto",
         (pend'.id = pend.id /\ pend'.text = pend.text) \/ Foremost.kind = "drain"
  PROVE  /\ Orderly(chain') /\ Timely(chain', typed', saving', pend') /\ LandedIs(chain', disk')
         /\ Backed(chain', tab.modified) /\ (Foremost.kind = "auto" => Backed(chain', FALSE))
         /\ \A t \in Nat : t <= typed /\ Safe(t) => KeptSafe(t)
         /\ Foremost.kind # "lock" /\ ~Failed => \A t \in Nat : t <= Foremost.text => KeptSafe(t)
         /\ Foremost.kind # "drain" => \A id : DrainsIn(chain, id) => DrainsIn(chain', id)
<1>1. told' \in Nat
  BY DEF FileTypeOK
<1>2. /\ Rest \in Seq(Operations) /\ Orderly(Rest) /\ LandedIs(Rest, disk)
      /\ Timely(Rest, typed, saving, pend) /\ Backed(Rest, tab.modified)
      /\ \A i \in Places(Rest) : Rest[i].pc = IF Rest[i].kind = "lock" THEN "ready" ELSE "queued"
      /\ Foremost.kind \in {"auto", "drain", "lock"} => \A i \in Places(Rest) : Rest[i].kind # Foremost.kind
      /\ \A t \in Nat : Safe(t) => SafeIn(Rest, disk, told', Harmless', t)
      /\ Foremost.kind # "lock" /\ ~Failed => \A t \in Nat : t <= Foremost.text => SafeIn(Rest, disk, told', Harmless', t)
      /\ \A id : DrainsIn(chain, id) /\ Foremost.kind # "drain" => DrainsIn(Rest, id)
  BY <1>1, RestFits
<1>3. Timely(Rest, typed, saving', pend')
  <2> SUFFICES ASSUME NEW i \in Places(Rest)
               PROVE  /\ Rest[i].text <= typed /\ (Rest[i].kind = "auto" => saving')
                      /\ Rest[i].kind = "drain" => Rest[i].id = pend'.id /\ (Rest[i].same => Rest[i].text = pend'.text)
    BY DEF Timely
  <2>1. Rest[i].text <= typed
    BY <1>2 DEF Timely
  <2>2. Rest[i].kind = "auto" => saving'
    BY <1>2 DEF Timely
  <2>3. Rest[i].kind = "drain" => Rest[i].id = pend'.id /\ (Rest[i].same => Rest[i].text = pend'.text)
    BY <1>2 DEF Timely
  <2> QED BY <2>1, <2>2, <2>3
<1>4. Foremost.kind = "auto" => Backed(Rest, FALSE)
  BY <1>2 DEF Backed
<1> QED BY <1>2, <1>3, <1>4 DEF KeptSafe

LEMMA OtherReturnsFits == ASSUME FileTypeOK, FileTypeOK', Grows, FileFits, OtherReturns PROVE FileFits'
<1>1. QueueFits /\ SurfacesFit /\ LastIsSafe /\ FlushFits /\ SaveFits /\ LockFits /\ typed <= typed
  BY Numbers DEF FileFits
<1>2. /\ chain # << >> /\ Foremost.pc \in {"landed", "failed"} /\ Foremost.kind \in {"close", "flush"}
      /\ SaveHears /\ chain' = Rest
      /\ UNCHANGED <<disk, tab, saving, pend, visit, flush, typed>>
  BY DEF OtherReturns, Returned
<1>3. told <= told' /\ (Failed => Foremost.text <= told')
  <2>1. told \in Nat /\ Foremost.text \in Nat
    BY <1>2, Numbers, Places1 DEF Foremost
  <2> QED BY <2>1 DEF OtherReturns, Told
<1>4. /\ Orderly(chain') /\ Timely(chain', typed', saving', pend') /\ LandedIs(chain', disk')
      /\ Backed(chain', tab.modified)
      /\ \A t \in Nat : t <= typed /\ Safe(t) => KeptSafe(t)
      /\ \A id : DrainsIn(chain, id) => DrainsIn(chain', id)
  BY <1>1, <1>2, <1>3, LeavesFits
<1>5. HandsOver /\ HandsDrain
  BY <1>1, <1>2, <1>4 DEF HandsOver, HandsDrain
<1>6. QueueFits' /\ SurfacesFit'
  BY <1>1, <1>2, <1>4 DEF QueueFits, SurfacesFit
<1>7. \A i \in Places(chain') :
        (\E j \in Places(Rest) : chain'[i] = Rest[j]) \/ (chain'[i].kind # "lock" /\ typed <= chain'[i].text)
  BY <1>2
<1>8. SaveFits' /\ LockFits'
  BY <1>1, <1>2, <1>5, <1>7, HearsFits
<1> QED BY <1>1, <1>2, <1>5, <1>6, <1>8, LastKept, FlushKept DEF FileFits

(* An autosave or a drain that goes on, with the last text.                   *)
LEMMA AgainFits ==
  ASSUME FileTypeOK, FileTypeOK', Grows, QueueFits, LockFits, chain # << >>, Foremost.pc = "landed",
         NEW op, Extends(Rest, chain', op), op.text = typed, op.pc = "queued",
         op.kind = Foremost.kind, op.kind \in {"auto", "drain"}, op.kind = "drain" <=> op.id # 0,
         op.kind = "auto" => tab.modified, op.kind = "drain" => op.id = pend.id /\ op.text = pend.text,
         UNCHANGED <<disk, told, typed, saving>>, pend'.id = pend.id, pend'.text = pend.text
  PROVE  /\ Orderly(chain') /\ Timely(chain', typed', saving', pend') /\ LandedIs(chain', disk')
         /\ Backed(chain', tab.modified)
         /\ \A t \in Nat : t <= typed /\ Safe(t) => KeptSafe(t)
         /\ DrainsIn(chain, pend.id) => DrainsIn(chain', pend.id)
         /\ op.kind = "drain" => DrainsIn(chain', pend.id)
         /\ \A i \in Places(chain') :
              (\E j \in Places(Rest) : chain'[i] = Rest[j]) \/ (chain'[i].kind # "lock" /\ typed <= chain'[i].text)
<1>1. told \in Nat /\ told <= told /\ ~Failed /\ typed \in Nat /\ typed <= typed
  BY Numbers DEF Failed
<1>2. /\ Rest \in Seq(Operations) /\ Orderly(Rest) /\ LandedIs(Rest, disk)
      /\ Timely(Rest, typed, saving, pend) /\ Backed(Rest, tab.modified)
      /\ \A i \in Places(Rest) : Rest[i].kind # op.kind
      /\ \A t \in Nat : Safe(t) => SafeIn(Rest, disk, told, Harmless', t)
      /\ \A id : DrainsIn(chain, id) /\ Foremost.kind # "drain" => DrainsIn(Rest, id)
  BY <1>1, RestFits
<1>3. Orderly(chain')
  <2>1. \A i \in Places(Rest) : Rest[i].text <= op.text
    BY <1>2 DEF Timely
  <2> QED BY <1>2, <2>1, ExtendsOrderly
<1>4. Timely(chain', typed', saving', pend')
  <2>1. op.kind = "auto" => saving
    <3>1. 1 \in Places(chain)
      BY Numbers, Places1
    <3> QED BY <3>1 DEF QueueFits, Timely, Foremost
  <2>2. Timely(chain', typed, saving, pend)
    BY <1>1, <1>2, <2>1, ExtendsTimely
  <2> QED BY <2>2 DEF Timely
<1>5. LandedIs(chain', disk') /\ Backed(chain', tab.modified)
  BY <1>2, ExtendsLanded, ExtendsBacked
<1>6. \A t \in Nat : t <= typed /\ Safe(t) => KeptSafe(t)
  <2> SUFFICES ASSUME NEW t \in Nat, t <= typed, Safe(t) PROVE KeptSafe(t)
    OBVIOUS
  <2>1. SafeIn(Rest, disk, told, Harmless', t)
    BY <1>2
  <2>2. <<t, op.text>> \in Harmless'
    BY <1>1, StillOrdered DEF Ordered
  <2> QED BY <1>2, <2>1, <2>2, ExtendsSafe DEF KeptSafe
<1>7. op.kind = "drain" => DrainsIn(chain', pend.id)
  BY DEF DrainsIn, Extends
<1>8. DrainsIn(chain, pend.id) => DrainsIn(chain', pend.id)
  <2>1. DrainsIn(Rest, pend.id) => DrainsIn(chain', pend.id)
    BY DEF DrainsIn, Extends
  <2> QED BY <1>2, <1>7, <2>1
<1>9. \A i \in Places(chain') :
        (\E j \in Places(Rest) : chain'[i] = Rest[j]) \/ (chain'[i].kind # "lock" /\ typed <= chain'[i].text)
  BY <1>1 DEF Extends
<1> QED BY <1>3, <1>4, <1>5, <1>6, <1>7, <1>8, <1>9

(* A tab that is marked as saved although its text was left and returned to.  *)
LEMMA ReturnedTo ==
  ASSUME FileTypeOK, FileTypeOK', Grows, tab.modified, ~tab'.modified, tab.text = typed, tab.text # Foremost.text,
         Undone(chain'), UNCHANGED disk
  PROVE  KeptSafe(typed)
<1>1. /\ typed \in Nat /\ undone \in Nat /\ undone' \in Nat /\ disk \in Nat
      /\ \A i \in Places(chain') : chain'[i].text \in Nat
  BY Numbers, Places1 DEF FileTypeOK, Operations
<1>2. CASE typed <= undone \/ undone' = typed
  <2>1. CASE typed <= undone
    <3>1. \A a \in Nat : <<typed, a>> \in Harmless
      BY <1>1, <2>1 DEF Harmless, HarmlessIn
    <3> QED BY <1>1, <3>1 DEF Grows, KeptSafe, SafeIn
  <2>2. CASE undone' = typed
    <3>1. \A a \in Nat : <<typed, a>> \in Harmless'
      BY <1>1, <2>2 DEF Harmless, HarmlessIn
    <3> QED BY <1>1, <3>1 DEF KeptSafe, SafeIn
  <2> QED BY <1>2, <2>1, <2>2
<1>3. CASE ~Bypassed(typed, chain', alike)
  <2>1. /\ Covers(disk, typed, alike)
        /\ \A i \in Places(chain') : chain'[i].pc # "ready" => Covers(chain'[i].text, typed, alike)
    BY <1>3 DEF Bypassed, Places
  <2>2. \A a \in Nat : Covers(a, typed, alike) => <<typed, a>> \in Harmless
    BY <1>1 DEF Harmless, HarmlessIn
  <2> QED BY <1>1, <2>1, <2>2 DEF Grows, KeptSafe, SafeIn
<1> QED BY <1>1, <1>2, <1>3 DEF Undone

LEMMA AutoReturnsFits == ASSUME FileTypeOK, FileTypeOK', Grows, FileFits, AutoReturns PROVE FileFits'
<1>1. QueueFits /\ SurfacesFit /\ LastIsSafe /\ FlushFits /\ SaveFits /\ LockFits /\ typed <= typed /\ told <= told
  BY Numbers DEF FileFits
<1>2. /\ chain # << >> /\ Foremost.pc \in {"landed", "failed"} /\ Foremost.kind = "auto"
      /\ SaveHears /\ UNCHANGED <<disk, pend, visit, flush, typed, told>>
  BY DEF AutoReturns, Returned
<1>3. tab.modified => typed = tab.text
  BY <1>1 DEF SurfacesFit
<1>4. /\ Orderly(chain') /\ Timely(chain', typed', saving', pend') /\ LandedIs(chain', disk')
      /\ Backed(chain', tab'.modified)
      /\ \A t \in Nat : t <= typed /\ Safe(t) => KeptSafe(t)
      /\ tab.modified => tab'.modified \/ KeptSafe(typed)
      /\ DrainsIn(chain, pend.id) => DrainsIn(chain', pend.id)
      /\ tab'.open = tab.open /\ tab'.text = tab.text /\ (tab'.modified => tab.modified)
      /\ \A i \in Places(chain') :
           (\E j \in Places(Rest) : chain'[i] = Rest[j]) \/ (chain'[i].kind # "lock" /\ typed <= chain'[i].text)
  <2>1. CASE ~Failed /\ tab.modified /\ ~Same(tab.text, Foremost.text)
    <3> DEFINE op == Operation("auto", tab.text)
    <3>1. op \in Operations /\ op.kind = "auto" /\ op.text = tab.text /\ op.pc = "queued" /\ op.id = 0
      BY Numbers, OperationIs DEF OperationKinds
    <3>2. chain' = Append(Rest, op) /\ UNCHANGED <<saving, debounce, tab>>
      BY <2>1 DEF AutoReturns
    <3> HIDE DEF op
    <3>3. Rest \in Seq(Operations)
      BY <1>2, RestTypes
    <3>4. Extends(Rest, chain', op)
      BY <3>1, <3>2, <3>3, AppendExtends
    <3>5. Foremost.pc = "landed"
      BY <1>2, <2>1 DEF Failed
    <3> QED BY <1>1, <1>2, <1>3, <2>1, <3>1, <3>2, <3>4, <3>5, AgainFits
  <2>2. CASE ~(~Failed /\ tab.modified /\ ~Same(tab.text, Foremost.text))
    <3>1. /\ chain' = Rest /\ saving' = FALSE
          /\ tab' = IF ~Failed /\ Same(tab.text, Foremost.text) THEN [tab EXCEPT !.modified = FALSE] ELSE tab
          /\ Undone(chain')
      BY <2>2 DEF AutoReturns
    <3>2. /\ tab'.open = tab.open /\ tab'.text = tab.text
          /\ tab'.modified = tab.modified \/ (tab'.modified = FALSE /\ ~Failed)
      BY <3>1 DEF FileTypeOK, Tabs
    <3>3. /\ Orderly(chain') /\ Timely(chain', typed', saving', pend') /\ LandedIs(chain', disk')
          /\ Backed(chain', tab.modified) /\ Backed(chain', FALSE)
          /\ \A t \in Nat : t <= typed /\ Safe(t) => KeptSafe(t)
          /\ ~Failed => \A t \in Nat : t <= Foremost.text => KeptSafe(t)
          /\ DrainsIn(chain, pend.id) => DrainsIn(chain', pend.id)
      BY <1>1, <1>2, <3>1, LeavesFits
    <3>4. tab.modified => tab'.modified \/ KeptSafe(typed)
      <4> SUFFICES ASSUME tab.modified, ~tab'.modified PROVE KeptSafe(typed)
        OBVIOUS
      <4>1. typed \in Nat
        BY Numbers
      <4>2. CASE tab.text = Foremost.text
        BY <1>1, <1>3, <3>2, <3>3, <4>1, <4>2
      <4>3. CASE tab.text # Foremost.text
        BY <1>2, <1>3, <3>1, <4>3, ReturnedTo
      <4> QED BY <4>2, <4>3
    <3>5. \A i \in Places(chain') : \E j \in Places(Rest) : chain'[i] = Rest[j]
      BY <3>1
    <3>6. tab'.modified => tab.modified
      BY <3>2
    <3>7. Backed(chain', tab'.modified)
      BY <3>2, <3>3
    <3> QED BY <3>2, <3>3, <3>4, <3>5, <3>6, <3>7
  <2> QED BY <2>1, <2>2
<1>5. HandsOver /\ HandsDrain
  BY <1>1, <1>2, <1>4 DEF HandsOver, HandsDrain
<1>6. QueueFits' /\ SurfacesFit'
  BY <1>1, <1>2, <1>4 DEF QueueFits, SurfacesFit
<1>7. SaveFits' /\ LockFits'
  BY <1>1, <1>2, <1>4, <1>5, HearsFits
<1> QED BY <1>1, <1>2, <1>5, <1>6, <1>7, LastKept, FlushKept DEF FileFits

LEMMA LockReturnsFits == ASSUME FileTypeOK, FileTypeOK', Grows, FileFits, LockReturns PROVE FileFits'
<1>1. /\ QueueFits /\ SurfacesFit /\ LastIsSafe /\ FlushFits /\ SaveFits /\ LockFits
      /\ typed \in Nat /\ typed <= typed /\ told \in Nat /\ told <= told /\ save.goal \in Nat /\ disk \in Nat
  BY Numbers DEF FileFits
<1>2. /\ chain # << >> /\ Foremost.pc \in {"landed", "failed"} /\ Foremost.kind = "lock"
      /\ UNCHANGED <<disk, saving, pend, visit, flush, typed, told>>
  BY DEF LockReturns, Returned
<1>3. 1 \in Places(chain) /\ Foremost.text \in Nat /\ chain \in Seq(Operations)
  BY <1>2, Numbers, Places1 DEF Foremost
<1>4. save.pc = "lock" /\ save.goal <= typed
  BY <1>1, <1>2, <1>3 DEF LockFits, Foremost
<1>5. /\ Rest \in Seq(Operations) /\ Orderly(Rest) /\ LandedIs(Rest, disk)
      /\ Timely(Rest, typed, saving, pend) /\ Backed(Rest, tab.modified)
      /\ \A i \in Places(Rest) : Rest[i].kind # "lock" /\ Rest[i].pc = "queued"
      /\ \A t \in Nat : Safe(t) => SafeIn(Rest, disk, told, Harmless', t)
      /\ \A i \in Places(Rest) : \E j \in Places(chain) : Rest[i] = chain[j]
      /\ DrainsIn(chain, pend.id) => DrainsIn(Rest, pend.id)
  BY <1>1, <1>2, RestFits
<1>6. \A i \in Places(Rest) : save.goal <= Rest[i].text
  <2>1. \A i \in Places(chain) : chain[i].pc # "ready" => save.goal <= chain[i].text
    BY <1>1, <1>4 DEF LockFits
  <2> QED BY <1>5, <2>1
<1>7. CASE UNCHANGED tab /\ LockRuns(Rest)
  BY <1>1, <1>2, <1>4, <1>5, <1>6, <1>7, RunsFits
<1>8. CASE ~Failed /\ UNCHANGED <<tab, save>> /\ chain' = Append(Rest, ReadyLock)
  <2>1. ReadyLock \in Operations /\ ReadyLock.kind = "lock" /\ ReadyLock.pc = "ready" /\ ReadyLock.id = 0 /\ ReadyLock.text = 0
    BY ReadyIs
  <2>2. Extends(Rest, chain', ReadyLock)
    BY <1>5, <1>8, <2>1, AppendExtends
  <2>3. Orderly(chain')
    BY <1>5, <2>1, <2>2, ExtendsOrderly
  <2>4. Timely(chain', typed', saving', pend')
    <3>1. Timely(chain', typed, saving, pend)
      BY <1>1, <1>5, <2>1, <2>2, ExtendsTimely
    <3> QED BY <1>2, <3>1
  <2>5. LandedIs(chain', disk') /\ Backed(chain', tab.modified)
    BY <1>2, <1>5, <2>1, <2>2, ExtendsLanded, ExtendsBacked
  <2>6. \A t \in Nat : t <= typed /\ Safe(t) => KeptSafe(t)
    BY <1>2, <1>5, <2>1, <2>2, ExtendsSafe DEF KeptSafe
  <2>7. DrainsIn(chain, pend.id) => DrainsIn(chain', pend.id)
    BY <1>5, <2>2 DEF DrainsIn, Extends
  <2>8. HandsOver /\ HandsDrain
    BY <1>1, <1>2, <1>8, <2>6, <2>7 DEF HandsOver, HandsDrain
  <2>9. QueueFits' /\ SurfacesFit'
    BY <1>1, <1>2, <1>8, <2>3, <2>4, <2>5, <2>7 DEF QueueFits, SurfacesFit
  <2>10. LockFits'
    <3>1. save.goal <= disk
      <4>1. save.goal <= Foremost.text /\ Foremost.text <= disk
        BY <1>1, <1>2, <1>3, <1>4, <1>8 DEF QueueFits, LandedIs, LockFits, Foremost, Failed
      <4> QED BY <1>1, <1>3, <4>1
    <3>2. \A i \in Places(chain') : chain'[i].pc # "ready" => save.goal <= chain'[i].text
      BY <1>6, <2>1, <2>2 DEF Extends
    <3> QED BY <1>2, <1>4, <1>8, <3>1, <3>2 DEF LockFits
  <2> QED BY <1>1, <1>2, <1>8, <2>8, <2>9, <2>10, LastKept, FlushKept, SaveKept DEF FileFits
<1>9. CASE /\ Failed \/ Len(chain) <= 1
           /\ chain' = Rest /\ save' = Uncalled
           /\ tab' = IF ~Failed THEN [tab EXCEPT !.modified = FALSE] ELSE tab
  <2>1. /\ tab'.open = tab.open /\ tab'.text = tab.text
        /\ tab'.modified = tab.modified \/ (tab'.modified = FALSE /\ ~Failed)
    BY <1>9 DEF FileTypeOK, Tabs
  <2>2. /\ Orderly(chain') /\ Timely(chain', typed', saving', pend') /\ LandedIs(chain', disk')
        /\ Backed(chain', tab.modified)
        /\ \A t \in Nat : t <= typed /\ Safe(t) => KeptSafe(t)
        /\ DrainsIn(chain, pend.id) => DrainsIn(chain', pend.id)
    BY <1>1, <1>2, <1>9, LeavesFits
  <2>3. ASSUME ~Failed PROVE Len(chain) <= 1 /\ \A i \in Places(Rest) : FALSE
    <3>1. Len(chain) <= 1
      BY <1>9, <2>3
    <3>2. PICK k \in {1, 2} : Shift(chain, Rest, k)
      BY <1>2, RestShifts
    <3>3. Len(Rest) = Len(chain) - k /\ Len(chain) \in Nat /\ Len(Rest) \in Nat
      BY <1>3, <1>5, <3>2 DEF Shift
    <3>4. Len(Rest) = 0
      BY <3>1, <3>3
    <3> QED BY <3>1, <3>4 DEF Places
  <2>4. Backed(chain', tab'.modified)
    <3>1. CASE Failed
      BY <1>9, <2>2, <3>1
    <3>2. CASE ~Failed
      BY <1>9, <2>3, <3>2 DEF Backed
    <3> QED BY <3>1, <3>2
  <2>5. ASSUME tab.modified, ~tab'.modified PROVE KeptSafe(typed)
    <3>1. ~Failed /\ typed = tab.text /\ Undone(chain')
      BY <1>1, <1>9, <2>1, <2>5 DEF SurfacesFit, LockReturns
    <3>2. CASE tab.text = Foremost.text
      <4>1. typed <= disk
        BY <1>1, <1>2, <3>1, <3>2 DEF QueueFits, LandedIs, Foremost, Failed
      <4>2. <<typed, disk'>> \in Harmless'
        BY <1>1, <1>2, <4>1, StillOrdered DEF Ordered
      <4> QED BY <1>9, <2>3, <3>1, <4>2 DEF KeptSafe, SafeIn
    <3>3. CASE tab.text # Foremost.text
      BY <1>2, <2>5, <3>1, <3>3, ReturnedTo
    <3> QED BY <3>2, <3>3
  <2>6. HandsOver /\ HandsDrain
    BY <1>1, <1>2, <2>2, <2>5 DEF HandsOver, HandsDrain
  <2>7. QueueFits' /\ SurfacesFit'
    BY <1>1, <1>2, <2>1, <2>2, <2>4 DEF QueueFits, SurfacesFit
  <2>8. SaveFits' /\ LockFits'
    <3>1. save'.pc = "idle" /\ \A i \in Places(chain') : chain'[i].kind # "lock"
      BY <1>5, <1>9 DEF Uncalled
    <3> QED BY <3>1 DEF SaveFits, LockFits
  <2> QED BY <1>1, <1>2, <2>6, <2>7, <2>8, LastKept, FlushKept DEF FileFits
<1>10. \/ UNCHANGED tab /\ LockRuns(Rest)
       \/ ~Failed /\ UNCHANGED <<tab, save>> /\ chain' = Append(Rest, ReadyLock)
       \/ /\ Failed \/ Len(chain) <= 1
          /\ chain' = Rest /\ save' = Uncalled
          /\ tab' = IF ~Failed THEN [tab EXCEPT !.modified = FALSE] ELSE tab
  <2>1. Len(chain) \in Nat /\ (~(Len(chain) > 1) => Len(chain) <= 1)
    BY <1>3
  <2> QED BY <2>1 DEF LockReturns, ReadyLock
<1> QED BY <1>7, <1>8, <1>9, <1>10

LEMMA DrainReturnsFits == ASSUME FileTypeOK, FileTypeOK', Grows, FileFits, DrainReturns PROVE FileFits'
<1>1. /\ QueueFits /\ SurfacesFit /\ LastIsSafe /\ FlushFits /\ SaveFits /\ LockFits
      /\ typed \in Nat /\ typed <= typed /\ told \in Nat
  BY Numbers DEF FileFits
<1>2. /\ chain # << >> /\ Foremost.pc \in {"landed", "failed"} /\ Foremost.kind = "drain" /\ Foremost = chain[1]
      /\ SaveHears /\ UNCHANGED <<disk, saving, typed>>
  BY DEF DrainReturns, Returned, Foremost
<1>3. 1 \in Places(chain) /\ Foremost.text \in Nat /\ Foremost.text <= typed
  BY <1>1, <1>2, Numbers, Places1 DEF QueueFits, Timely
<1>4. /\ pend.id # 0 /\ Foremost.id = pend.id /\ (Foremost.same => Foremost.text = pend.text)
      /\ pend.text = typed /\ tab.open = FALSE
  BY <1>1, <1>2, <1>3 DEF QueueFits, Timely, Orderly, SurfacesFit, FileTypeOK, Tabs
<1>5. told <= told' /\ (Failed => Foremost.text <= told') /\ (~Failed => told' = told)
  BY <1>1, <1>3 DEF DrainReturns, Told
<1>6. CASE Failed
  <2>1. /\ chain' = Rest /\ UNCHANGED <<tab, debounce, pend>>
        /\ visit' = (IF Awaits(visit) THEN NoVisit ELSE visit)
        /\ flush' = (IF Awaits(flush) THEN [flush EXCEPT !.goal = 0] ELSE flush)
    BY <1>6 DEF DrainReturns
  <2>2. /\ Orderly(chain') /\ Timely(chain', typed', saving', pend') /\ LandedIs(chain', disk')
        /\ Backed(chain', tab.modified)
        /\ \A t \in Nat : t <= typed /\ Safe(t) => KeptSafe(t)
    BY <1>1, <1>2, <1>5, <1>6, <2>1, LeavesFits
  <2>3. HandsOver
    BY <1>1, <1>2, <2>1, <2>2 DEF HandsOver
  <2>4. SurfacesFit'
    <3>1. visit'.pc = "flush" => FALSE
      BY <1>1, <1>4, <2>1 DEF SurfacesFit, Awaits, NoVisit
    <3>2. visit'.pc = visit.pc \/ visit'.pc = "idle"
      BY <2>1 DEF NoVisit
    <3> QED BY <1>1, <1>2, <1>4, <2>1, <3>1, <3>2 DEF SurfacesFit
  <2>5. FlushFits'
    <3>1. CASE Awaits(flush)
      <4>1. flush'.pc = "flush" /\ flush'.goal = 0
        BY <2>1, <3>1 DEF Awaits, FileTypeOK
      <4>2. KeptSafe(0) /\ 0 <= typed
        BY <1>1 DEF KeptSafe, SafeIn, FileTypeOK
      <4> QED BY <1>2, <4>1, <4>2 DEF FlushFits, Promised, KeptSafe, Safe
    <3>2. CASE ~Awaits(flush)
      <4>1. flush' = flush /\ (flush.pc = "flush" => flush.of # pend.id)
        BY <1>4, <2>1, <3>2 DEF Awaits
      <4>2. flush.goal \in Nat
        BY Numbers
      <4>3. CASE flush.pc = "flush"
        <5>1. flush.goal <= typed /\ (tab.modified \/ Safe(flush.goal))
          BY <1>1, <4>1, <4>3 DEF FlushFits, Promised
        <5> QED BY <1>2, <2>1, <2>2, <4>1, <4>2, <4>3, <5>1 DEF FlushFits, Promised, KeptSafe, Safe
      <4>4. CASE flush.pc = "settle"
        BY <1>1, <1>2, <2>2, <4>1, <4>2, <4>4 DEF FlushFits, KeptSafe, Safe
      <4> QED BY <4>1, <4>3, <4>4 DEF FlushFits
    <3> QED BY <3>1, <3>2
  <2>6. SaveFits' /\ LockFits'
    <3>1. \A i \in Places(chain') :
            (\E j \in Places(Rest) : chain'[i] = Rest[j]) \/ (chain'[i].kind # "lock" /\ typed <= chain'[i].text)
      BY <2>1
    <3> QED BY <1>1, <1>2, <1>4, <1>6, <2>3, <3>1, HearsFits
  <2>7. QueueFits'
    BY <2>1, <2>2 DEF QueueFits
  <2> QED BY <1>1, <1>2, <2>3, <2>4, <2>5, <2>6, <2>7, LastKept DEF FileFits
<1>7. CASE ~Failed /\ Foremost.same
  <2>1. chain' = Rest /\ pend' = NoPend /\ pend'.id = 0 /\ UNCHANGED <<tab, debounce, visit, flush>>
    BY <1>7 DEF DrainReturns, NoPend
  <2>2. /\ Orderly(chain') /\ Timely(chain', typed', saving', pend') /\ LandedIs(chain', disk')
        /\ Backed(chain', tab.modified)
        /\ \A t \in Nat : t <= typed /\ Safe(t) => KeptSafe(t)
        /\ \A t \in Nat : t <= Foremost.text => KeptSafe(t)
    BY <1>1, <1>2, <1>5, <1>7, <2>1, LeavesFits
  <2>3. KeptSafe(typed)
    BY <1>1, <1>4, <1>7, <2>2
  <2>4. HandsOver /\ HandsDrain
    BY <1>1, <1>2, <2>1, <2>2, <2>3 DEF HandsOver, HandsDrain
  <2>5. QueueFits' /\ SurfacesFit'
    BY <1>1, <1>2, <2>1, <2>2 DEF QueueFits, SurfacesFit
  <2>6. \A i \in Places(chain') :
          (\E j \in Places(Rest) : chain'[i] = Rest[j]) \/ (chain'[i].kind # "lock" /\ typed <= chain'[i].text)
    BY <2>1
  <2>7. SaveFits' /\ LockFits'
    BY <1>1, <1>2, <2>4, <2>6, HearsFits
  <2> QED BY <1>1, <1>2, <2>1, <2>4, <2>5, <2>7, LastKept, FlushKept DEF FileFits
<1>8. CASE ~Failed /\ ~Foremost.same
  <2>1. /\ chain' = Append(Rest, DrainOf(pend)) /\ UNCHANGED <<tab, debounce, visit, flush>>
        /\ pend' = [pend EXCEPT !.debounce = FALSE]
    BY <1>4, <1>8 DEF DrainReturns, DrainTurn
  <2>2. pend'.id = pend.id /\ pend'.text = pend.text
    BY <2>1 DEF FileTypeOK
  <2> DEFINE op == DrainOf(pend)
  <2>3. op \in Operations /\ op.kind = "drain" /\ op.text = pend.text /\ op.pc = "queued" /\ op.id = pend.id
    BY Numbers, DrainIs
  <2>4. chain' = Append(Rest, op)
    BY <2>1
  <2> HIDE DEF op
  <2>5. Extends(Rest, chain', op)
    BY <1>2, <2>3, <2>4, RestTypes, AppendExtends
  <2>6. Foremost.pc = "landed"
    BY <1>2, <1>8 DEF Failed
  <2>7. /\ Orderly(chain') /\ Timely(chain', typed', saving', pend') /\ LandedIs(chain', disk')
        /\ Backed(chain', tab.modified)
        /\ \A t \in Nat : t <= typed /\ Safe(t) => KeptSafe(t)
        /\ DrainsIn(chain', pend.id)
        /\ \A i \in Places(chain') :
             (\E j \in Places(Rest) : chain'[i] = Rest[j]) \/ (chain'[i].kind # "lock" /\ typed <= chain'[i].text)
    BY <1>1, <1>2, <1>4, <1>5, <1>8, <2>2, <2>3, <2>5, <2>6, AgainFits
  <2>8. HandsOver /\ HandsDrain
    BY <1>1, <1>2, <2>1, <2>2, <2>7 DEF HandsOver, HandsDrain
  <2>9. QueueFits' /\ SurfacesFit'
    BY <1>1, <1>2, <2>1, <2>2, <2>7 DEF QueueFits, SurfacesFit
  <2>10. SaveFits' /\ LockFits'
    BY <1>1, <1>2, <2>7, <2>8, HearsFits
  <2> QED BY <1>1, <1>2, <2>1, <2>8, <2>9, <2>10, LastKept, FlushKept DEF FileFits
<1> QED BY <1>6, <1>7, <1>8

-----------------------------------------------------------------------------
(* The invariant and what follows from it. *)
LEMMA FileInvInit == FileInit => FileInv
<1> SUFFICES ASSUME FileInit PROVE FileInv
  OBVIOUS
<1>1. FileTypeOK
  <2>1. NoTab \in Tabs /\ NoPend \in [id : Nat, text : Nat, debounce : BOOLEAN]
    BY DEF NoTab, NoPend, Tabs
  <2>5. tab \in Tabs
    <3>1. [NoTab EXCEPT !.open = TRUE] \in Tabs
      BY DEF NoTab, Tabs
    <3>2. tab \in {NoTab, [NoTab EXCEPT !.open = TRUE]}
      BY DEF FileInit
    <3> QED BY <2>1, <3>1, <3>2
  <2>2. /\ NoVisit \in [pc : {"idle", "flush", "read"}, of : Nat, text : Nat]
        /\ Uncalled \in [pc : {"idle", "flush", "settle"}, of : Nat, goal : Nat]
        /\ Uncalled \in [pc : {"idle", "flush", "wait", "lock"}, of : Nat, goal : Nat]
    BY DEF NoVisit, Uncalled
  <2>3. << >> \in Seq(Operations)
    BY EmptySeq
  <2>4. {texts, tabs, failures, called, typed, told, undone} \subseteq Nat /\ alike \in Likenesses
    BY DEF FileInit, Likenesses
  <2> QED BY <2>1, <2>2, <2>3, <2>4, <2>5 DEF FileInit, FileTypeOK
<1>2. chain = << >> /\ \A i \in Places(chain) : FALSE
  BY EmptySeq, Places1 DEF FileInit
<1>3. QueueFits
  BY <1>2 DEF QueueFits, Orderly, Timely, Backed, LandedIs
<1>4. SurfacesFit
  BY DEF FileInit, SurfacesFit, NoTab, NoPend, NoVisit
<1>5. LastIsSafe
  BY <1>2 DEF FileInit, LastIsSafe, Safe, SafeIn
<1>6. FlushFits /\ SaveFits /\ LockFits
  BY <1>2 DEF FileInit, FlushFits, SaveFits, LockFits, Uncalled
<1>7. typed <= texts /\ undone <= typed
  BY DEF FileInit
<1> QED BY <1>1, <1>3, <1>4, <1>5, <1>6, <1>7 DEF FileInv, FileFits

LEMMA TypedStep == FileTypeOK /\ typed <= texts /\ [FileNext]_fileVars => (typed <= texts)'
<1> SUFFICES ASSUME FileTypeOK, typed <= texts, [FileNext]_fileVars PROVE typed' <= texts'
  OBVIOUS
<1>1. typed \in Nat /\ texts \in Nat
  BY Numbers
<1>2. \/ typed' = typed /\ texts' \in {texts, texts + 1}
      \/ typed' = texts + 1 /\ texts' = texts + 1
  BY DEF FileNext, FileContinues, fileVars, NewText, TypesInTab, SaveStarts, TabCloses, TypesInDiff, FlushStarts,
         SaveCalled, VisitStarts, OtherWrites, DrainTimer, Lands, AutoReturns, DrainReturns, OtherReturns, LockStarts,
         LockReturns, FlushWrites, FlushEnds, SaveDrained, SaveLocks, VisitReads, VisitOpens, Watched, Reloaded
<1> QED BY <1>1, <1>2

(* Texts that were returned to are texts the user typed. *)
LEMMA UndoneStep ==
  ASSUME FileTypeOK, FileTypeOK', typed <= texts, undone <= typed, FileFits, [FileNext]_fileVars
  PROVE  undone <= undone' /\ undone' <= typed' /\ alike \subseteq alike'
<1>1. typed \in Nat /\ texts \in Nat /\ undone \in Nat /\ (tab.modified => tab.text = typed)
  BY Numbers DEF FileTypeOK, FileFits, SurfacesFit
<1>2. CASE TypesInDiff
  <2>1. typed' = texts + 1 /\ texts' = texts + 1 /\ undone' \in {undone, texts'}
    BY <1>2, NewTextIs DEF TypesInDiff, Matched
  <2> QED BY <1>1, <1>2, <2>1, NewTextIs DEF TypesInDiff
<1>3. CASE TypesInTab \/ OtherWrites
  <2>1. undone' = undone /\ typed' \in {typed, texts + 1} /\ NewText
    BY <1>3 DEF TypesInTab, OtherWrites
  <2> QED BY <1>1, <2>1, NewTextIs
<1>4. CASE AutoReturns \/ LockReturns
  <2>1. UNCHANGED <<typed, alike>> /\ Undone(Rest)
    BY <1>4 DEF AutoReturns, LockReturns
  <2>2. undone' = undone \/ (undone' = tab.text /\ tab.text > undone /\ tab.modified)
    BY <2>1 DEF Undone
  <2> QED BY <1>1, <2>1, <2>2
<1>5. CASE \/ SaveStarts \/ TabCloses \/ FlushStarts \/ SaveCalled \/ VisitStarts \/ DrainTimer \/ Lands
           \/ DrainReturns \/ OtherReturns \/ LockStarts \/ FlushWrites \/ FlushEnds \/ SaveDrained \/ SaveLocks
           \/ VisitReads \/ VisitOpens \/ Watched \/ (\E text \in reads : Reloaded(text)) \/ UNCHANGED fileVars
  <2>1. UNCHANGED <<undone, typed, alike>>
    BY <1>5 DEF fileVars, SaveStarts, TabCloses, FlushStarts, SaveCalled, VisitStarts, DrainTimer, Lands, DrainReturns,
         OtherReturns, LockStarts, FlushWrites, FlushEnds, SaveDrained, SaveLocks, VisitReads, VisitOpens, Watched,
         Reloaded
  <2> QED BY <1>1, <2>1
<1> QED BY <1>2, <1>3, <1>4, <1>5 DEF FileNext, FileContinues

LEMMA FitsStep ==
  FileTypeOK /\ typed <= texts /\ FileFits /\ [FileNext]_fileVars /\ FileTypeOK' /\ Grows /\ ~crossed' => FileFits'
<1> SUFFICES ASSUME FileTypeOK, typed <= texts, FileFits, [FileNext]_fileVars, FileTypeOK', Grows, ~crossed' PROVE FileFits'
  OBVIOUS
<1>1. CASE TypesInTab
  BY <1>1, TypesInTabFits
<1>2. CASE TypesInDiff
  BY <1>2, TypesInDiffFits
<1>3. CASE SaveStarts \/ TabCloses \/ FlushStarts \/ SaveCalled \/ VisitStarts \/ OtherWrites
  BY <1>3, SaveStartsFits, TabClosesFits, FlushStartsFits, SaveCalledFits, VisitStartsFits, OtherWritesFits
<1>4. CASE DrainTimer \/ Lands \/ AutoReturns \/ DrainReturns \/ OtherReturns \/ LockStarts \/ LockReturns
  BY <1>4, DrainTimerFits, LandsFits, AutoReturnsFits, DrainReturnsFits, OtherReturnsFits, LockStartsFits,
     LockReturnsFits
<1>5. CASE FlushWrites \/ FlushEnds \/ SaveDrained \/ SaveLocks \/ VisitReads \/ VisitOpens
  BY <1>5, FlushWritesFits, FlushEndsFits, SaveDrainedFits, SaveLocksFits, VisitReadsFits, VisitOpensFits
<1>6. CASE Watched \/ UNCHANGED fileVars
  BY <1>6, WatchedFits
<1>7. ASSUME NEW text \in reads, Reloaded(text) PROVE FileFits'
  BY <1>7, ReloadedFits
<1> QED BY <1>1, <1>2, <1>3, <1>4, <1>5, <1>6, <1>7 DEF FileNext, FileContinues

LEMMA FileInvStep == FileInv /\ [FileNext]_fileVars => FileInv'
<1> SUFFICES ASSUME FileInv, [FileNext]_fileVars PROVE FileInv'
  OBVIOUS
<1>1. FileTypeOK /\ FileTypeOK' /\ typed <= texts /\ (typed <= texts)'
  BY TypeStep, TypedStep DEF FileInv
<1>2. ~crossed' => ~crossed
  BY <1>1 DEF FileNext, FileContinues, fileVars, TypesInTab, SaveStarts, TabCloses, TypesInDiff, FlushStarts,
         SaveCalled, VisitStarts, OtherWrites, DrainTimer, Lands, AutoReturns, DrainReturns, OtherReturns, LockStarts,
         LockReturns, FlushWrites, FlushEnds, SaveDrained, SaveLocks, VisitReads, VisitOpens, Watched, Reloaded
<1>3. ~crossed' => undone' <= typed' /\ FileFits'
  <2> SUFFICES ASSUME ~crossed' PROVE undone' <= typed' /\ FileFits'
    OBVIOUS
  <2>1. undone <= typed /\ FileFits
    BY <1>2 DEF FileInv
  <2>2. undone <= undone' /\ undone' <= typed' /\ alike \subseteq alike'
    BY <1>1, <2>1, UndoneStep
  <2>3. Grows
    BY <1>1, <2>2, HarmlessGrows
  <2> QED BY <1>1, <2>1, <2>2, <2>3, FitsStep
<1> QED BY <1>1, <1>3 DEF FileInv

(* The writes of a file keep to their types, and the queue, the surfaces and  *)
(* the calls in flight fit together (utils/fileWrites.ts).                    *)
THEOREM FileInvariance == FileSpec => []FileInv
<1>1. FileInit => FileInv
  BY FileInvInit
<1>2. FileInv /\ [FileNext]_fileVars => FileInv'
  BY FileInvStep
<1> QED BY <1>1, <1>2, PTL DEF FileSpec

(* However the surfaces, the saves, the tabs and the writes of other programs *)
(* interleave, whatever fails, and whichever texts repeat earlier ones, the   *)
(* last text the user typed is on its way to the disk or there, or the user   *)
(* was told; but for a return to an earlier text that was wrongly taken for   *)
(* saved and an edit that crossed the opening of a tab (useAutosave.ts,       *)
(* fileWrites.ts, editorNavigation.ts).                                       *)
THEOREM TextsAreKept == FileSpec => []Kept
<1>1. FileInv => Kept
  <2> SUFFICES ASSUME FileTypeOK, FileFits, ~crossed PROVE Kept
    BY DEF FileInv, Kept, Excepted
  <2>1. typed \in Nat /\ \A i \in Places(chain) : chain[i].text \in Nat /\ chain[i].text <= typed
    BY Numbers DEF FileFits, QueueFits, Timely
  <2>2. CASE tab.modified \/ pend.id # 0
    BY <2>2 DEF FileFits, SurfacesFit, Kept
  <2>3. CASE Safe(typed)
    <3>1. CASE \E i \in Places(chain) : typed <= chain[i].text
      <4>1. PICK i \in Places(chain) : typed <= chain[i].text
        BY <3>1
      <4>2. chain[i].text = typed
        BY <2>1, <4>1
      <4> QED BY <4>2 DEF Kept, Places
    <3>2. CASE typed <= told \/ <<typed, disk>> \in Harmless
      BY <3>2 DEF Kept, Excepted, Written, Harmless, HarmlessIn
    <3> QED BY <2>3, <3>1, <3>2 DEF Safe, SafeIn
  <2> QED BY <2>2, <2>3 DEF FileFits, LastIsSafe
<1> QED BY <1>1, FileInvariance, PTL

(* A text that is safe when nothing is queued was written, or the user knows. *)
LEMMA SettledIsSafe ==
  ASSUME chain = << >>, NEW text, Safe(text)
  PROVE  Written(text) \/ Excepted(text)
<1>1. \A i \in Places(chain) : FALSE
  BY EmptySeq, Places1
<1>2. text <= told \/ <<text, disk>> \in Harmless
  BY <1>1 DEF Safe, SafeIn
<1> QED BY <1>2 DEF Written, Excepted, Harmless, HarmlessIn

(* When flushAllFileEdits or saveOpenFileToDisk returns, what was typed       *)
(* before its call is on disk, or the user was told that it is not; but for   *)
(* the same two exceptions (fileWrites.ts, useAutosave.ts).                   *)
THEOREM ReportsHold == FileSpec => ReportsAreTrue
<1>1. FileInv /\ [FileNext]_fileVars
        => [flush.pc = "settle" /\ flush'.pc = "idle"
              => Written(flush.goal) \/ Excepted(flush.goal)]_fileVars
  <2> SUFFICES ASSUME FileTypeOK, FileFits, FileNext, flush.pc = "settle", flush'.pc = "idle"
               PROVE  Written(flush.goal) \/ Excepted(flush.goal)
    BY DEF FileInv, Excepted
  <2>1. FlushEnds
    BY DEF FileNext, FileContinues, fileVars, TypesInTab, SaveStarts, TabCloses, TypesInDiff, FlushStarts,
         SaveCalled, VisitStarts, OtherWrites, DrainTimer, Lands, AutoReturns, DrainReturns, OtherReturns, LockStarts,
         LockReturns, FlushWrites, SaveDrained, SaveLocks, VisitReads, VisitOpens, Watched, Reloaded, FileTypeOK
  <2>2. chain = << >> /\ Safe(flush.goal)
    BY <2>1 DEF FlushEnds, FileFits, FlushFits
  <2> QED BY <2>2, SettledIsSafe
<1>2. FileInv /\ [FileNext]_fileVars
        => [save.pc # "idle" /\ save'.pc = "idle" /\ (SaveLocks \/ LockStarts \/ (LockReturns /\ ~Failed))
              => Written(save.goal) \/ Excepted(save.goal)]_fileVars
  <2> SUFFICES ASSUME FileTypeOK, FileFits, save'.pc = "idle", SaveLocks \/ LockStarts \/ (LockReturns /\ ~Failed)
               PROVE  Written(save.goal) \/ Excepted(save.goal)
    BY DEF FileInv, Excepted
  <2>1. CASE SaveLocks
    <3>1. ~tab.modified
      BY <2>1 DEF SaveLocks, LockRuns, FileTypeOK
    <3>2. chain = << >> /\ Safe(save.goal)
      BY <2>1, <3>1 DEF SaveLocks, FileFits, SaveFits
    <3> QED BY <3>2, SettledIsSafe
  <2>2. CASE LockStarts
    <3>1. chain # << >> /\ chain[1].pc = "ready" /\ 1 \in Places(chain)
      BY <2>2, Numbers, Places1 DEF LockStarts, Foremost
    <3>2. chain[1].kind = "lock"
      BY <3>1 DEF FileFits, QueueFits, Orderly
    <3> QED BY <3>1, <3>2 DEF FileFits, LockFits, Written, Covers
  <2>3. CASE LockReturns /\ ~Failed
    <3>1. chain # << >> /\ chain[1].pc = "landed" /\ chain[1].kind = "lock" /\ 1 \in Places(chain)
      BY <2>3, Numbers, Places1 DEF LockReturns, Returned, Foremost, Failed
    <3>2. save.goal <= chain[1].text /\ chain[1].text <= disk
      BY <3>1 DEF FileFits, LockFits, QueueFits, LandedIs
    <3>3. save.goal \in Nat /\ chain[1].text \in Nat /\ disk \in Nat
      BY <3>1, Numbers
    <3> QED BY <3>2, <3>3 DEF Written, Covers
  <2> QED BY <2>1, <2>2, <2>3
<1> QED BY <1>1, <1>2, FileInvariance, PTL DEF FileSpec, ReportsAreTrue, FlushSaves, SaveSaves

(***************************************************************************)
(* The documents at a language server.                                     *)
(***************************************************************************)
Texts == Contents \cup {NoText}
Documents == 1 .. MaxDocs
DocumentRecords == [synced : Texts, pending : Texts, timer : BOOLEAN,
                    opening : {"none", "barrier", "sent", "done", "failed"},
                    opened : BOOLEAN, after : 0 .. MaxDocs]
FlushRecords == [doc : Documents, own : Texts, before : Texts, text : Texts,
                 pc : {"opening", "sent", "arrived"}, turn : Nat]
CloseRecords == [doc : Documents, last : Contents, pc : {"opening", "change", "close"}]

LspTypeOK ==
  /\ buffer \in [open : BOOLEAN, text : Texts] /\ (buffer.open => buffer.text \in Contents)
  /\ docs \in [Documents -> DocumentRecords]
  /\ created \in 0 .. MaxDocs /\ tracked \in {0, created} /\ barrier \in 0 .. MaxDocs
  /\ flushes \subseteq FlushRecords /\ IsFiniteSet(flushes)
  /\ closes \subseteq CloseRecords
  /\ server \in [refs : Nat, text : Texts]

(* Documents are numbered as they are created; only the open file has one    *)
(* that is tracked; a change is sent after the open is through.             *)
Tracks ==
  /\ \A d \in Documents : d > created => docs[d] = Unused
  /\ \A d \in Documents : docs[d].opened => docs[d].opening = "done"
  /\ tracked # 0 => buffer.open /\ (Awaited(tracked) \/ docs[tracked].opened)
  /\ \A f \in flushes : f.doc <= created /\ (f.pc # "opening" => docs[f.doc].opened)

Closing(d) == \E c \in closes : c.doc = d

(* Documents created after one whose close is not through wait for a close   *)
(* that is not through either: closes end in the order of the documents.     *)
ClosesInTurn ==
  /\ \A c \in closes :
       /\ c.doc <= created /\ c.doc # tracked /\ c.doc <= barrier
       /\ c.pc # "opening" => docs[c.doc].opened
       /\ \A e \in closes : e.doc = c.doc => e = c
       /\ \A d \in Documents : c.doc < d /\ d <= created =>
            docs[d].opening = "barrier" /\ c.doc <= docs[d].after /\ Closing(docs[d].after)
  /\ closes # {} => Closing(barrier)

(* The server holds one document at most, and one that is tracked or about   *)
(* to be closed.                                                            *)
OneAnnounced ==
  /\ \A d \in Documents : Awaited(d) => d = tracked \/ Closing(d)
  /\ server.refs > 0 =>
       /\ server.refs = 1
       /\ \E d \in Documents : docs[d].opened /\ (d = tracked \/ Closing(d))

(* Once the open of the tracked document goes no other document has a change *)
(* on its way, and it has one at a time.                                     *)
OneChange ==
  /\ docs[tracked].opening # "barrier" => \A f \in flushes : f.pc = "sent" => f.doc = tracked
  /\ \A f, g \in InFlight(tracked) : f = g

Waits(d) == {f \in Waiting : f.doc = d}

(* A pending text is the one of the buffer, and a timer or a flush that      *)
(* waits for the open will send it.                                         *)
PendingIsLatest ==
  docs[tracked].pending # NoText =>
    /\ docs[tracked].pending = buffer.text
    /\ docs[tracked].timer \/ \E f \in Waits(tracked) : f.own \in {NoText, docs[tracked].pending}

(* Without one the latest text is in flight, or synced.                      *)
LatestIsSent ==
  docs[tracked].pending = NoText =>
    /\ InFlight(tracked) = {} => buffer.text = docs[tracked].synced
    /\ \A f \in InFlight(tracked) : buffer.text = f.text

(* A flush with a text of its own waits beside a text that was not sent yet. *)
OwnIsUnsent ==
  \A f \in Waits(tracked) :
    f.own # NoText => docs[tracked].pending # NoText \/ InFlight(tracked) # {}

(* The server has the text that arrived last.                                *)
ServerHasLast ==
  docs[tracked].opened /\ server.refs > 0 =>
    /\ InFlight(tracked) = {} => server.text = docs[tracked].synced
    /\ \A f \in InFlight(tracked) : f.pc = "arrived" => server.text = f.text

UpToDate ==
  tracked # 0 =>
    OneChange /\ PendingIsLatest /\ LatestIsSent /\ OwnIsUnsent /\ ServerHasLast

LspInv == LspTypeOK /\ Tracks /\ ClosesInTurn /\ (lost = {} => OneAnnounced /\ UpToDate)

\* Nothing is tracked at first.
LEMMA InitDocuments == LspInit => LspInv
<1> SUFFICES ASSUME LspInit PROVE LspInv
  OBVIOUS
<1> USE DocumentBounds DEF LspInit
<1>1. docs \in [Documents -> DocumentRecords] /\ \A d \in Documents : docs[d] = Unused
  <2>1. Unused \in DocumentRecords
    BY DEF Unused, DocumentRecords, Texts
  <2> QED BY <2>1 DEF Documents
<1>2. LspTypeOK
  <2>1. IsFiniteSet(flushes)
    BY FS_EmptySet
  <2> QED BY <1>1, <2>1 DEF LspTypeOK, Texts, FlushRecords, CloseRecords
<1>3. Tracks /\ ClosesInTurn
  BY <1>1, <1>2 DEF Tracks, ClosesInTurn, Unused, LspTypeOK
<1>4. OneAnnounced /\ UpToDate
  BY <1>1 DEF OneAnnounced, UpToDate, Awaited, Unused
<1> QED BY <1>2, <1>3, <1>4 DEF LspInv

\* The open goes once the close it waits for is through.
LEMMA OpenGoesKeeps ==
  ASSUME LspInv, NEW d \in Documents, OpenGoes(d) PROVE LspInv'
<1> USE DocumentBounds DEF LspInv
<1> DEFINE phase == IF tracked = d THEN "sent" ELSE "done"
<1>1. /\ docs[d].opening = "barrier" /\ ~Closing(docs[d].after)
      /\ docs' = [docs EXCEPT ![d].opening = phase]
      /\ UNCHANGED <<buffer, created, tracked, barrier, flushes, closes, server, reconnect, used>>
      /\ lost' = {} => lost = {} /\ (tracked = d => \A f \in flushes : f.pc # "sent")
  BY DEF OpenGoes, Loses, Closing
<1>2. docs[d] \in DocumentRecords /\ DOMAIN docs = Documents
  BY DEF LspTypeOK
<1>3. /\ docs'[d] = [docs[d] EXCEPT !.opening = phase]
      /\ docs'[d] \in DocumentRecords
      /\ docs'[d].opening = phase
      /\ docs'[d].synced = docs[d].synced /\ docs'[d].pending = docs[d].pending
      /\ docs'[d].timer = docs[d].timer /\ docs'[d].opened = docs[d].opened
      /\ docs'[d].after = docs[d].after
  BY <1>1, <1>2 DEF DocumentRecords
<1>4. \A e \in Documents : e # d => docs'[e] = docs[e]
  BY <1>1, <1>2
<1>5. LspTypeOK'
  <2>1. docs' \in [Documents -> DocumentRecords]
    BY <1>1, <1>2, <1>3, <1>4 DEF LspTypeOK
  <2> QED BY <1>1, <2>1 DEF LspTypeOK
<1>6. d <= created /\ ~docs[d].opened
  BY <1>1 DEF Tracks, Unused, LspTypeOK, Documents
<1>7. Tracks'
  BY <1>1, <1>3, <1>4, <1>6 DEF Tracks, Awaited, LspTypeOK, FlushRecords, Documents
<1>8. \A c \in closes : d <= c.doc
  BY <1>1, <1>6 DEF ClosesInTurn, LspTypeOK, CloseRecords, Documents
<1>9. ClosesInTurn'
  BY <1>1, <1>3, <1>4, <1>6, <1>8 DEF ClosesInTurn, Closing, LspTypeOK, CloseRecords, Documents
<1>10. ASSUME lost' = {} PROVE OneAnnounced' /\ UpToDate'
  <2>1. OneAnnounced'
    BY <1>1, <1>3, <1>4, <1>10 DEF OneAnnounced, Awaited, Closing
  <2>2. ASSUME tracked' # 0 PROVE OneChange'
    BY <1>1, <1>3, <1>4, <1>10, <2>2 DEF UpToDate, OneChange, InFlight, LspTypeOK, Documents
  <2>3. ASSUME tracked' # 0
        PROVE PendingIsLatest' /\ LatestIsSent' /\ OwnIsUnsent' /\ ServerHasLast'
    BY <1>1, <1>3, <1>4, <1>10, <2>3
       DEF UpToDate, InFlight, PendingIsLatest, LatestIsSent, OwnIsUnsent, ServerHasLast, Waits,
           Waiting, LspTypeOK, Documents
  <2> QED BY <2>1, <2>2, <2>3 DEF UpToDate
<1> QED BY <1>5, <1>7, <1>9, <1>10

\* The document that was announced is the only one: no other is on its way,
\* and none that is closing stands before it.
LEMMA AwaitedIsFirst ==
  ASSUME LspInv, lost = {}, NEW d \in Documents, docs[d].opening = "sent"
  PROVE  server.refs = 0 /\ \A e \in Documents : docs[e].opened => e # tracked /\ ~Closing(e)
<1> USE DocumentBounds DEF LspInv
<1>1. ~docs[d].opened /\ d <= created
  BY DEF Tracks, Unused, LspTypeOK, Documents
<1>2. d = tracked \/ Closing(d)
  BY DEF OneAnnounced, Awaited
<1>3. \A c \in closes : d <= c.doc
  BY <1>1 DEF ClosesInTurn, LspTypeOK, CloseRecords, Documents
<1>4. \A e \in Documents : docs[e].opened => ~(e = tracked \/ Closing(e))
  <2> SUFFICES ASSUME NEW e \in Documents, docs[e].opened, e = tracked \/ Closing(e) PROVE FALSE
    OBVIOUS
  <2>1. docs[e].opening = "done" /\ e # d /\ e <= created
    BY <1>1 DEF Tracks, Unused, LspTypeOK, Documents
  <2>2. CASE e = tracked
    <3>1. Closing(d) /\ d < e
      BY <1>1, <1>2, <2>1, <2>2 DEF LspTypeOK, Documents
    <3> QED BY <2>1, <3>1 DEF ClosesInTurn, Closing
  <2>3. CASE Closing(e)
    <3>1. d < e
      BY <1>3, <2>1, <2>3 DEF Closing, Documents
    <3>2. CASE Closing(d)
      BY <2>1, <3>1, <3>2 DEF ClosesInTurn, Closing
    <3>3. CASE d = tracked
      BY <1>1, <2>1, <3>1, <3>3 DEF LspTypeOK, Documents
    <3> QED BY <1>2, <3>2, <3>3
  <2> QED BY <2>2, <2>3
<1>5. server.refs = 0
  BY <1>4 DEF OneAnnounced, LspTypeOK
<1> QED BY <1>4, <1>5

\* An open is through: the manager has the document, or the open failed and
\* the document is forgotten.
LEMMA OpenEndsKeeps ==
  ASSUME LspInv, NEW d \in Documents, OpenEnds(d) PROVE LspInv'
<1> USE DocumentBounds DEF LspInv
<1>1. /\ docs[d].opening = "sent"
      /\ UNCHANGED <<buffer, created, barrier, flushes, closes, reconnect, used, lost>>
  BY DEF OpenEnds
<1>2. /\ docs[d] \in DocumentRecords /\ DOMAIN docs = Documents
      /\ server \in [refs : Nat, text : Texts]
  BY DEF LspTypeOK
<1>3. d <= created /\ ~docs[d].opened /\ \A f \in flushes : f.doc = d => f.pc = "opening"
  BY <1>1 DEF Tracks, Unused, LspTypeOK, Documents
<1>4. \A c \in closes : d <= c.doc /\ (c.doc = d => c.pc = "opening")
  BY <1>1, <1>3 DEF ClosesInTurn, LspTypeOK, CloseRecords, Documents
<1>5. CASE /\ docs' = [docs EXCEPT ![d].opening = "done", ![d].opened = TRUE]
           /\ server' = [refs |-> server.refs + 1,
                         text |-> IF server.refs = 0 THEN docs[d].synced ELSE server.text]
           /\ UNCHANGED tracked
  <2>1. docs' = [docs EXCEPT ![d] = [docs[d] EXCEPT !.opening = "done", !.opened = TRUE]]
    BY <1>2, <1>5
  <2>2. /\ docs'[d] \in DocumentRecords
        /\ docs'[d].opening = "done" /\ docs'[d].opened
        /\ docs'[d].synced = docs[d].synced /\ docs'[d].pending = docs[d].pending
        /\ docs'[d].timer = docs[d].timer /\ docs'[d].after = docs[d].after
    BY <1>2, <2>1 DEF DocumentRecords
  <2>3. \A e \in Documents : e # d => docs'[e] = docs[e]
    BY <1>2, <2>1
  <2>4. LspTypeOK'
    <3>1. docs' \in [Documents -> DocumentRecords]
      BY <1>2, <2>1, <2>2, <2>3 DEF LspTypeOK
    <3>2. server' \in [refs : Nat, text : Texts]
      BY <1>2, <1>5 DEF DocumentRecords
    <3> QED BY <1>1, <1>5, <3>1, <3>2 DEF LspTypeOK
  <2>5. Tracks'
    BY <1>1, <1>3, <1>5, <2>2, <2>3 DEF Tracks, Awaited, LspTypeOK, FlushRecords, Documents
  <2>6. ClosesInTurn'
    BY <1>1, <1>3, <1>4, <1>5, <2>2, <2>3
       DEF ClosesInTurn, Closing, LspTypeOK, CloseRecords, Documents
  <2>7. ASSUME lost = {} PROVE OneAnnounced' /\ UpToDate'
    <3>1. server.refs = 0 /\ \A e \in Documents : docs[e].opened => e # tracked /\ ~Closing(e)
      BY <1>1, <2>7, AwaitedIsFirst
    <3>2. server'.refs = 1 /\ server'.text = docs[d].synced
      BY <1>5, <3>1
    <3>3. d = tracked \/ Closing(d)
      BY <1>1, <2>7 DEF OneAnnounced, Awaited
    <3>4. OneAnnounced'
      BY <1>1, <1>5, <2>2, <2>3, <2>7, <3>2, <3>3 DEF OneAnnounced, Awaited, Closing
    <3>5. ASSUME tracked' # 0
          PROVE  OneChange' /\ PendingIsLatest' /\ LatestIsSent' /\ OwnIsUnsent'
      BY <1>1, <1>3, <1>5, <2>2, <2>3, <2>7, <3>5
         DEF UpToDate, InFlight, OneChange, PendingIsLatest, LatestIsSent, OwnIsUnsent, Waits,
             Waiting, LspTypeOK, Documents
    <3>6. ASSUME tracked' # 0 PROVE ServerHasLast'
      <4>1. tracked \in Documents
        BY <1>5, <3>6 DEF LspTypeOK, Documents
      <4>2. CASE tracked = d
        BY <1>1, <1>3, <1>5, <2>2, <3>2, <4>2 DEF ServerHasLast, InFlight
      <4>3. CASE tracked # d
        BY <1>5, <2>3, <3>1, <4>1, <4>3 DEF ServerHasLast
      <4> QED BY <4>2, <4>3
    <3> QED BY <3>4, <3>5, <3>6 DEF UpToDate
  <2> QED BY <1>1, <2>4, <2>5, <2>6, <2>7
<1>6. CASE /\ docs' = [docs EXCEPT ![d].opening = "failed", ![d].timer = @ /\ tracked # d]
           /\ tracked' = IF tracked = d THEN 0 ELSE tracked
           /\ UNCHANGED server
  <2>0. /\ tracked' = IF tracked = d THEN 0 ELSE tracked
        /\ server' = server
    BY <1>6
  <2> DEFINE armed == docs[d].timer /\ tracked # d
  <2>1. docs' = [docs EXCEPT ![d] = [docs[d] EXCEPT !.opening = "failed", !.timer = armed]]
    BY <1>2, <1>6
  <2> HIDE DEF armed
  <2>2. /\ docs'[d] \in DocumentRecords
        /\ docs'[d].opening = "failed" /\ ~docs'[d].opened
        /\ docs'[d].synced = docs[d].synced /\ docs'[d].pending = docs[d].pending
        /\ docs'[d].after = docs[d].after
    <3>1. armed \in BOOLEAN
      BY <1>2 DEF armed, DocumentRecords
    <3> QED BY <1>2, <1>3, <2>1, <3>1 DEF DocumentRecords
  <2>3. \A e \in Documents : e # d => docs'[e] = docs[e]
    BY <1>2, <2>1
  <2>4. LspTypeOK'
    <3>1. docs' \in [Documents -> DocumentRecords]
      BY <1>2, <2>1, <2>2, <2>3 DEF LspTypeOK
    <3> QED BY <1>1, <2>0, <3>1 DEF LspTypeOK
  <2>5. Tracks'
    BY <1>1, <1>3, <2>0, <2>2, <2>3 DEF Tracks, Awaited, LspTypeOK, FlushRecords, Documents
  <2>6. ClosesInTurn'
    BY <1>1, <1>3, <1>4, <2>0, <2>2, <2>3
       DEF ClosesInTurn, Closing, LspTypeOK, CloseRecords, Documents
  <2>7. ASSUME lost = {} PROVE OneAnnounced' /\ UpToDate'
    <3>1. server.refs = 0
      BY <1>1, <2>7, AwaitedIsFirst
    <3>2. OneAnnounced'
      BY <1>1, <2>0, <2>2, <2>3, <2>7, <3>1 DEF OneAnnounced, Awaited, Closing
    <3>3. ASSUME tracked' # 0
          PROVE  /\ OneChange' /\ PendingIsLatest' /\ LatestIsSent' /\ OwnIsUnsent'
                 /\ ServerHasLast'
      <4>1. tracked # 0 /\ tracked # d /\ tracked' = tracked /\ tracked \in Documents
        BY <2>0, <3>3 DEF LspTypeOK, Documents
      <4> QED BY <1>1, <2>0, <2>3, <2>7, <4>1
              DEF UpToDate, InFlight, OneChange, PendingIsLatest, LatestIsSent, OwnIsUnsent,
                  ServerHasLast, Waits, Waiting
    <3> QED BY <3>2, <3>3 DEF UpToDate
  <2> QED BY <1>1, <2>4, <2>5, <2>6, <2>7
<1> QED BY <1>5, <1>6 DEF OpenEnds

\* A crash leaves a server that holds nothing.
LEMMA CrashKeeps == ASSUME LspInv, Crash PROVE LspInv'
<1> USE DEF LspInv, Crash
<1>1. LspTypeOK'
  BY DEF LspTypeOK, Texts
<1>2. Tracks' /\ ClosesInTurn'
  BY DEF Tracks, ClosesInTurn, Closing, Awaited
<1>3. ASSUME lost = {} PROVE OneAnnounced' /\ UpToDate'
  BY <1>3 DEF OneAnnounced, UpToDate, InFlight, OneChange, PendingIsLatest, LatestIsSent,
     OwnIsUnsent, ServerHasLast, Waits, Waiting, Awaited, Closing
<1> QED BY <1>1, <1>2, <1>3

\* A change reaches the manager: with one on its way at a time, it is the
\* latest of the document the server holds.
LEMMA ChangeArrivesKeeps ==
  ASSUME LspInv, NEW f \in flushes, ChangeArrives(f) PROVE LspInv'
<1> USE DEF LspInv
<1> DEFINE g == [f EXCEPT !.pc = "arrived"]
<1>1. /\ f.pc = "sent" /\ flushes' = (flushes \ {f}) \cup {g}
      /\ server' = IF server.refs > 0 THEN [server EXCEPT !.text = f.text] ELSE server
      /\ UNCHANGED <<buffer, docs, created, tracked, barrier, closes, reconnect, used, lost>>
  BY DEF ChangeArrives
<1>2. f \in FlushRecords /\ server \in [refs : Nat, text : Texts]
  BY DEF LspTypeOK
<1>3. /\ g \in FlushRecords /\ g.pc = "arrived" /\ g.doc = f.doc /\ g.text = f.text /\ g # f
  BY <1>1, <1>2 DEF FlushRecords
<1> HIDE DEF g
<1>4. /\ server' \in [refs : Nat, text : Texts] /\ server'.refs = server.refs
      /\ server.refs > 0 => server'.text = f.text
  BY <1>1, <1>2 DEF FlushRecords
<1>5. LspTypeOK'
  <2>1. IsFiniteSet(flushes')
    BY <1>1, FS_AddElement, FS_RemoveElement DEF LspTypeOK
  <2> QED BY <1>1, <1>3, <1>4, <2>1 DEF LspTypeOK
<1>6. Tracks' /\ ClosesInTurn'
  BY <1>1, <1>3 DEF Tracks, ClosesInTurn, Closing, Awaited
<1>7. ASSUME lost = {} PROVE OneAnnounced' /\ UpToDate'
  <2>1. OneAnnounced'
    BY <1>1, <1>4, <1>7 DEF OneAnnounced, Closing, Awaited
  <2>2. ASSUME tracked # 0
        PROVE  /\ OneChange' /\ PendingIsLatest' /\ LatestIsSent' /\ OwnIsUnsent'
               /\ ServerHasLast'
    <3>1. OneChange /\ PendingIsLatest /\ LatestIsSent /\ OwnIsUnsent /\ ServerHasLast
      BY <1>7, <2>2 DEF UpToDate
    <3>2. Waiting' = Waiting /\ Waits(tracked)' = Waits(tracked)
      BY <1>1, <1>3 DEF Waiting, Waits
    <3>3. CASE f.doc = tracked
      <4>1. InFlight(tracked) = {f} /\ InFlight(tracked)' = {g}
        BY <1>1, <1>3, <3>1, <3>3 DEF InFlight, OneChange
      <4> QED BY <1>1, <1>3, <1>4, <3>1, <3>2, <3>3, <4>1
              DEF OneChange, PendingIsLatest, LatestIsSent, OwnIsUnsent, ServerHasLast
    <3>4. CASE f.doc # tracked
      <4>1. InFlight(tracked)' = InFlight(tracked)
        BY <1>1, <1>3, <3>4 DEF InFlight
      <4>2. docs[tracked].opening = "barrier"
        BY <1>1, <3>1, <3>4 DEF OneChange
      <4>3. ~docs[tracked].opened
        BY <2>2, <4>2 DEF Tracks, LspTypeOK, Documents
      <4> QED BY <1>1, <3>1, <3>2, <4>1, <4>2, <4>3
              DEF OneChange, PendingIsLatest, LatestIsSent, OwnIsUnsent, ServerHasLast
    <3> QED BY <3>3, <3>4
  <2> QED BY <1>1, <2>1, <2>2 DEF UpToDate
<1> QED BY <1>1, <1>5, <1>6, <1>7

\* A change that was sent becomes the synced text.
LEMMA ChangeReturnsKeeps ==
  ASSUME LspInv, NEW f \in flushes, ChangeReturns(f) PROVE LspInv'
<1> USE DEF LspInv
<1>1. /\ f.pc = "arrived" /\ flushes' = flushes \ {f}
      /\ docs' = [docs EXCEPT ![f.doc].synced = f.text]
      /\ \A g \in flushes : g.pc = "opening" => Awaited(g.doc)
      /\ UNCHANGED <<buffer, created, tracked, barrier, closes, server, reconnect, used, lost>>
  BY DEF ChangeReturns, Idle, Waiting
<1>2. f \in FlushRecords /\ f.doc \in Documents /\ docs[f.doc] \in DocumentRecords
  BY DEF LspTypeOK, FlushRecords
<1>3. /\ docs'[f.doc] \in DocumentRecords /\ docs'[f.doc].synced = f.text
      /\ docs'[f.doc].opening = docs[f.doc].opening /\ docs'[f.doc].opened = docs[f.doc].opened
      /\ docs'[f.doc].pending = docs[f.doc].pending /\ docs'[f.doc].timer = docs[f.doc].timer
      /\ docs'[f.doc].after = docs[f.doc].after
  BY <1>1, <1>2 DEF LspTypeOK, DocumentRecords, FlushRecords
<1>4. \A e \in Documents : e # f.doc => docs'[e] = docs[e]
  BY <1>1, <1>2 DEF LspTypeOK
<1>5. f.doc <= created /\ docs[f.doc].opened /\ ~Awaited(f.doc)
  BY <1>1, <1>2 DEF Tracks, Awaited
<1>6. LspTypeOK'
  <2>1. IsFiniteSet(flushes')
    BY <1>1, FS_RemoveElement DEF LspTypeOK
  <2>2. docs' \in [Documents -> DocumentRecords]
    BY <1>1, <1>2, <1>3, <1>4 DEF LspTypeOK
  <2> QED BY <1>1, <2>1, <2>2 DEF LspTypeOK
<1>7. Tracks'
  BY <1>1, <1>2, <1>3, <1>4, <1>5 DEF Tracks, Awaited, LspTypeOK, FlushRecords, Documents
<1>8. ClosesInTurn'
  BY <1>1, <1>2, <1>3, <1>4, <1>5
     DEF ClosesInTurn, Closing, LspTypeOK, CloseRecords, Documents
<1>9. ASSUME lost = {} PROVE OneAnnounced' /\ UpToDate'
  <2>1. OneAnnounced'
    BY <1>1, <1>3, <1>4, <1>9 DEF OneAnnounced, Closing, Awaited
  <2>2. ASSUME tracked # 0
        PROVE  /\ OneChange' /\ PendingIsLatest' /\ LatestIsSent' /\ OwnIsUnsent'
               /\ ServerHasLast'
    <3>1. OneChange /\ PendingIsLatest /\ LatestIsSent /\ OwnIsUnsent /\ ServerHasLast
      BY <1>9, <2>2 DEF UpToDate
    <3>2. Waiting' = Waiting /\ Waits(tracked)' = Waits(tracked) /\ tracked \in Documents
      BY <1>1, <2>2 DEF Waiting, Waits, LspTypeOK, Documents
    <3>3. CASE f.doc = tracked
      <4>1. InFlight(tracked) = {f} /\ InFlight(tracked)' = {}
        BY <1>1, <3>1, <3>3 DEF InFlight, OneChange
      <4>2. Waits(tracked) = {}
        BY <1>1, <1>5, <3>3 DEF Waits, Waiting
      <4> QED BY <1>1, <1>3, <3>1, <3>2, <3>3, <4>1, <4>2
              DEF OneChange, PendingIsLatest, LatestIsSent, OwnIsUnsent, ServerHasLast
    <3>4. CASE f.doc # tracked
      <4>1. InFlight(tracked)' = InFlight(tracked)
        BY <1>1, <3>4 DEF InFlight
      <4> QED BY <1>1, <1>4, <3>1, <3>2, <3>4, <4>1
              DEF OneChange, PendingIsLatest, LatestIsSent, OwnIsUnsent, ServerHasLast
    <3> QED BY <3>3, <3>4
  <2> QED BY <1>1, <2>1, <2>2 DEF UpToDate
<1> QED BY <1>1, <1>6, <1>7, <1>8, <1>9

\* Closing the file hands its document to a close, and later ones wait for it.
LEMMA CloseFileKeeps == ASSUME LspInv, CloseFile PROVE LspInv'
<1> USE DEF LspInv
<1>1. /\ buffer.open /\ buffer' = [open |-> FALSE, text |-> NoText]
      /\ UNCHANGED <<created, flushes, server, reconnect, used, lost>>
  BY DEF CloseFile
<1>2. CASE tracked = 0 /\ UNCHANGED <<docs, tracked, barrier, closes>>
  <2>1. LspTypeOK'
    BY <1>1, <1>2 DEF LspTypeOK, Texts
  <2>2. Tracks' /\ ClosesInTurn'
    BY <1>1, <1>2 DEF Tracks, ClosesInTurn, Closing, Awaited
  <2>3. ASSUME lost = {} PROVE OneAnnounced' /\ UpToDate'
    BY <1>1, <1>2, <2>3 DEF OneAnnounced, Closing, Awaited, UpToDate
  <2> QED BY <1>1, <2>1, <2>2, <2>3
<1>3. CASE /\ tracked # 0 /\ docs' = [docs EXCEPT ![tracked].timer = FALSE]
           /\ tracked' = 0 /\ barrier' = tracked
           /\ closes' = closes \cup {[doc |-> tracked, last |-> buffer.text, pc |-> "opening"]}
  <2> DEFINE c == [doc |-> tracked, last |-> buffer.text, pc |-> "opening"]
  <2>1. tracked \in Documents /\ tracked = created /\ docs[tracked] \in DocumentRecords
    BY <1>3 DEF LspTypeOK, Documents
  <2>2. /\ docs'[tracked] \in DocumentRecords
        /\ docs'[tracked].synced = docs[tracked].synced
        /\ docs'[tracked].opening = docs[tracked].opening
        /\ docs'[tracked].opened = docs[tracked].opened
        /\ docs'[tracked].after = docs[tracked].after
    BY <1>3, <2>1 DEF LspTypeOK, DocumentRecords
  <2>3. \A e \in Documents : e # tracked => docs'[e] = docs[e]
    BY <1>3, <2>1 DEF LspTypeOK
  <2>4. c \in CloseRecords /\ c.doc = tracked /\ c.pc = "opening" /\ closes' = closes \cup {c}
    BY <1>1, <1>3, <2>1 DEF LspTypeOK, CloseRecords
  <2> HIDE DEF c
  <2>5. LspTypeOK'
    <3>1. docs' \in [Documents -> DocumentRecords]
      BY <1>3, <2>1, <2>2, <2>3 DEF LspTypeOK
    <3>2. buffer' \in [open : BOOLEAN, text : Texts] /\ ~buffer'.open
      BY <1>1 DEF Texts
    <3> QED BY <1>1, <1>3, <2>1, <2>4, <3>1, <3>2 DEF LspTypeOK, Documents
  <2>6. Tracks'
    BY <1>1, <1>3, <2>1, <2>2, <2>3 DEF Tracks, LspTypeOK, FlushRecords, Documents
  <2>7. ClosesInTurn'
    <3>1. \A e \in closes : e.doc < tracked
      BY <2>1 DEF ClosesInTurn, LspTypeOK, CloseRecords, Documents
    <3>2. \A d : Closing(d)' <=> Closing(d) \/ d = tracked
      BY <2>4 DEF Closing
    <3>3. \A e \in closes : e.doc \in Documents
      BY DEF LspTypeOK, CloseRecords
    <3> QED BY <1>1, <1>3, <2>1, <2>2, <2>3, <2>4, <3>1, <3>2, <3>3
            DEF ClosesInTurn, Documents
  <2>8. ASSUME lost = {} PROVE OneAnnounced' /\ UpToDate'
    BY <1>1, <1>3, <2>1, <2>2, <2>3, <2>4, <2>8
       DEF OneAnnounced, Closing, Awaited, UpToDate
  <2> QED BY <1>1, <2>5, <2>6, <2>7, <2>8
<1> QED BY <1>2, <1>3 DEF CloseFile

\* Only the oldest close can be through.
LEMMA OldestCloses ==
  ASSUME LspInv, NEW c \in closes, docs[c.doc].opening # "barrier"
  PROVE  /\ \A e \in closes : e # c => c.doc < e.doc
         /\ tracked # 0 => docs[tracked].opening = "barrier" /\ ~docs[tracked].opened
<1> USE DEF LspInv
<1>1. \A e \in closes : e \in CloseRecords /\ e.doc \in Documents /\ e.doc <= created
  BY DEF LspTypeOK, CloseRecords, ClosesInTurn
<1>2. ASSUME NEW e \in closes, e # c PROVE c.doc < e.doc
  <2>1. e.doc # c.doc /\ ~(e.doc < c.doc)
    BY <1>1, <1>2 DEF ClosesInTurn
  <2> QED BY <1>1, <2>1 DEF Documents
<1>3. ASSUME tracked # 0 PROVE docs[tracked].opening = "barrier" /\ ~docs[tracked].opened
  <2>1. tracked \in Documents /\ c.doc < tracked /\ tracked <= created
    BY <1>1, <1>3 DEF LspTypeOK, ClosesInTurn, Documents
  <2> QED BY <2>1 DEF ClosesInTurn, Tracks
<1> QED BY <1>2, <1>3

\* A close that is through leaves the closes that wait for an older one.
LEMMA CloseDoneKeeps ==
  ASSUME LspInv, NEW c \in closes, docs[c.doc].opening # "barrier", CloseDone(c),
         UNCHANGED <<docs, created, tracked>>
  PROVE  /\ closes' \subseteq CloseRecords /\ barrier' \in 0 .. MaxDocs
         /\ ClosesInTurn'
<1> USE DocumentBounds DEF LspInv
<1>1. /\ closes' = closes \ {c} /\ barrier' = IF barrier = c.doc THEN 0 ELSE barrier
      /\ UNCHANGED <<docs, created, tracked>>
  BY DEF CloseDone
<1>2. \A e \in closes : e \in CloseRecords /\ e.doc \in Documents /\ e.doc <= created
  BY DEF LspTypeOK, CloseRecords, ClosesInTurn
<1>3. \A e \in closes : e # c => c.doc < e.doc /\ e.doc <= barrier
  BY OldestCloses DEF ClosesInTurn
<1>4. closes' # {} => barrier # c.doc /\ barrier' = barrier
  BY <1>1, <1>2, <1>3 DEF LspTypeOK, Documents
<1>5. \A d : d # c.doc /\ Closing(d) => Closing(d)'
  BY <1>1 DEF Closing
<1>6. ASSUME NEW e \in closes'
      PROVE  /\ e.doc <= created /\ e.doc # tracked /\ e.doc <= barrier'
             /\ e.pc # "opening" => docs[e.doc].opened
             /\ \A g \in closes' : g.doc = e.doc => g = e
             /\ \A d \in Documents : e.doc < d /\ d <= created =>
                  docs[d].opening = "barrier" /\ e.doc <= docs[d].after /\ Closing(docs[d].after)'
  <2>1. e \in closes /\ e # c /\ c.doc < e.doc /\ barrier' = barrier
    BY <1>1, <1>3, <1>4, <1>6
  <2>2. ASSUME NEW d \in Documents, e.doc < d, d <= created
        PROVE  docs[d].opening = "barrier" /\ e.doc <= docs[d].after /\ Closing(docs[d].after)'
    <3>1. docs[d].opening = "barrier" /\ e.doc <= docs[d].after /\ Closing(docs[d].after)
      BY <2>1, <2>2 DEF ClosesInTurn
    <3>2. docs[d].after # c.doc
      BY <1>2, <2>1, <3>1 DEF LspTypeOK, DocumentRecords, Documents
    <3> QED BY <1>5, <3>1, <3>2
  <2>3. /\ e.doc <= created /\ e.doc # tracked /\ e.doc <= barrier'
        /\ e.pc # "opening" => docs[e.doc].opened
        /\ \A g \in closes' : g.doc = e.doc => g = e
    BY <1>1, <2>1 DEF ClosesInTurn
  <2> QED BY <2>2, <2>3
<1>7. closes' # {} => Closing(barrier)'
  <2> SUFFICES ASSUME closes' # {} PROVE Closing(barrier)'
    OBVIOUS
  <2>1. Closing(barrier) /\ barrier # c.doc /\ barrier' = barrier
    BY <1>1, <1>4 DEF ClosesInTurn
  <2> QED BY <1>5, <2>1
<1>8. ClosesInTurn'
  BY <1>1, <1>6, <1>7 DEF ClosesInTurn
<1>9. closes' \subseteq CloseRecords /\ barrier' \in 0 .. MaxDocs
  BY <1>1 DEF LspTypeOK
<1> QED BY <1>8, <1>9

\* A close goes on in the order of the documents, whatever it does next.
LEMMA CloseMoves ==
  ASSUME LspInv, NEW c \in closes, docs[c.doc].opened, NEW pc \in {"change", "close"},
         closes' = (closes \ {c}) \cup {[c EXCEPT !.pc = pc]},
         UNCHANGED <<docs, created, tracked, barrier>>
  PROVE  closes' \subseteq CloseRecords /\ ClosesInTurn' /\ \A d : Closing(d)' <=> Closing(d)
<1> USE DEF LspInv
<1> DEFINE e == [c EXCEPT !.pc = pc]
<1>1. c \in CloseRecords
  BY DEF LspTypeOK
<1>2. e \in CloseRecords /\ e.doc = c.doc /\ closes' = (closes \ {c}) \cup {e}
  BY <1>1 DEF CloseRecords
<1> HIDE DEF e
<1>3. \A d : Closing(d)' <=> Closing(d)
  BY <1>2 DEF Closing
<1>4. closes' \subseteq CloseRecords
  BY <1>2 DEF LspTypeOK
<1>5. closes' # {} => Closing(barrier)'
  BY <1>3 DEF ClosesInTurn
<1> QED BY <1>2, <1>3, <1>4, <1>5 DEF ClosesInTurn

\* What concerns the tracked document stays when neither it nor a flush moves
\* and the text of the server stays or nobody looks at it.
LEMMA TrackedKeeps ==
  ASSUME lost = {} => UpToDate, lost = {},
         UNCHANGED <<buffer, docs, tracked, flushes>>,
         tracked # 0 => ~docs[tracked].opened \/ server' = server \/ server'.refs = 0
  PROVE  UpToDate'
<1> SUFFICES ASSUME tracked # 0
             PROVE  /\ OneChange' /\ PendingIsLatest' /\ LatestIsSent' /\ OwnIsUnsent'
                    /\ ServerHasLast'
  BY DEF UpToDate
<1>1. OneChange /\ PendingIsLatest /\ LatestIsSent /\ OwnIsUnsent /\ ServerHasLast
  BY DEF UpToDate
<1>2. InFlight(tracked)' = InFlight(tracked) /\ Waits(tracked)' = Waits(tracked)
  BY DEF InFlight, Waits, Waiting
<1> QED BY <1>1, <1>2
        DEF OneChange, PendingIsLatest, LatestIsSent, OwnIsUnsent, ServerHasLast

\* A close waits for the open of its document; one that failed has nothing to
\* release.
LEMMA CloseGoesKeeps == ASSUME LspInv, NEW c \in closes, CloseGoes(c) PROVE LspInv'
<1> USE DEF LspInv
<1>1. /\ ~Awaited(c.doc) /\ docs[c.doc].opening # "barrier"
      /\ UNCHANGED <<buffer, docs, created, tracked, flushes, server, reconnect, used, lost>>
  BY DEF CloseGoes, Awaited
<1>2. lost = {} => UpToDate'
  BY <1>1, TrackedKeeps
<1>3. Tracks'
  BY <1>1 DEF Tracks, Awaited
<1>4. CASE ~docs[c.doc].opened /\ CloseDone(c)
  <2>1. closes' \subseteq CloseRecords /\ barrier' \in 0 .. MaxDocs /\ ClosesInTurn'
    BY <1>1, <1>4, CloseDoneKeeps
  <2>2. LspTypeOK'
    BY <1>1, <2>1 DEF LspTypeOK
  <2>3. \A d : Closing(d) /\ d # c.doc => Closing(d)'
    BY <1>4 DEF Closing, CloseDone
  <2>4. OneAnnounced => OneAnnounced'
    BY <1>1, <1>4, <2>3 DEF OneAnnounced, Awaited
  <2> QED BY <1>1, <1>2, <1>3, <2>1, <2>2, <2>4
<1>5. CASE /\ docs[c.doc].opened /\ UNCHANGED barrier
           /\ closes' = (closes \ {c}) \cup
                {[c EXCEPT !.pc = IF c.last # docs[c.doc].synced THEN "change" ELSE "close"]}
  <2>1. /\ closes' \subseteq CloseRecords /\ ClosesInTurn'
        /\ \A d : Closing(d)' <=> Closing(d)
    <3>1. CASE c.last # docs[c.doc].synced
      <4>1. closes' = (closes \ {c}) \cup {[c EXCEPT !.pc = "change"]}
        BY <1>5, <3>1
      <4> QED BY <1>1, <1>5, <4>1, CloseMoves
    <3>2. CASE c.last = docs[c.doc].synced
      <4>1. closes' = (closes \ {c}) \cup {[c EXCEPT !.pc = "close"]}
        BY <1>5, <3>2
      <4> QED BY <1>1, <1>5, <4>1, CloseMoves
    <3> QED BY <3>1, <3>2
  <2>2. LspTypeOK'
    BY <1>1, <1>5, <2>1 DEF LspTypeOK
  <2>3. OneAnnounced => OneAnnounced'
    BY <1>1, <2>1 DEF OneAnnounced, Awaited
  <2> QED BY <1>1, <1>2, <1>3, <2>1, <2>2, <2>3
<1> QED BY <1>4, <1>5 DEF CloseGoes

\* The last change of a document that closes precedes every later document.
LEMMA CloseChangesKeeps == ASSUME LspInv, NEW c \in closes, CloseChanges(c) PROVE LspInv'
<1> USE DEF LspInv
<1>1. /\ c.pc = "change" /\ closes' = (closes \ {c}) \cup {[c EXCEPT !.pc = "close"]}
      /\ server' = IF server.refs > 0 THEN [server EXCEPT !.text = c.last] ELSE server
      /\ UNCHANGED <<buffer, docs, created, tracked, barrier, flushes, reconnect, used, lost>>
  BY DEF CloseChanges
<1>2. c \in CloseRecords /\ c.doc \in Documents /\ server \in [refs : Nat, text : Texts]
  BY DEF LspTypeOK, CloseRecords
<1>3. docs[c.doc].opened /\ docs[c.doc].opening = "done"
  BY <1>1, <1>2 DEF ClosesInTurn, Tracks
<1>4. closes' \subseteq CloseRecords /\ ClosesInTurn' /\ \A d : Closing(d)' <=> Closing(d)
  BY <1>1, <1>3, CloseMoves
<1>5. server' \in [refs : Nat, text : Texts] /\ server'.refs = server.refs
  BY <1>1, <1>2 DEF CloseRecords, Texts
<1>6. LspTypeOK' /\ Tracks'
  BY <1>1, <1>4, <1>5 DEF LspTypeOK, Tracks, Awaited
<1>7. tracked # 0 => ~docs[tracked].opened
  BY <1>3, OldestCloses
<1>8. lost = {} => UpToDate'
  BY <1>1, <1>7, TrackedKeeps
<1>9. OneAnnounced => OneAnnounced'
  BY <1>1, <1>4, <1>5 DEF OneAnnounced, Awaited
<1> QED BY <1>1, <1>4, <1>6, <1>8, <1>9

\* The close of the document the server holds leaves it with none.
LEMMA CloseReleasesKeeps == ASSUME LspInv, NEW c \in closes, CloseReleases(c) PROVE LspInv'
<1> USE DEF LspInv
<1>1. /\ c.pc = "close" /\ CloseDone(c)
      /\ server' = IF server.refs > 0 THEN [server EXCEPT !.refs = @ - 1] ELSE server
      /\ UNCHANGED <<buffer, docs, created, tracked, flushes, reconnect, used, lost>>
  BY DEF CloseReleases
<1>2. c.doc \in Documents /\ server \in [refs : Nat, text : Texts]
  BY DEF LspTypeOK, CloseRecords
<1>3. docs[c.doc].opened /\ docs[c.doc].opening = "done"
  BY <1>1, <1>2 DEF ClosesInTurn, Tracks
<1>4. closes' \subseteq CloseRecords /\ barrier' \in 0 .. MaxDocs /\ ClosesInTurn'
  BY <1>1, <1>3, CloseDoneKeeps
<1>5. server' \in [refs : Nat, text : Texts] /\ (server.refs \in 0 .. 1 => server'.refs = 0)
  BY <1>1, <1>2
<1>6. LspTypeOK' /\ Tracks'
  BY <1>1, <1>4, <1>5 DEF LspTypeOK, Tracks, Awaited
<1>7. ASSUME lost = {} PROVE OneAnnounced' /\ UpToDate'
  <2>1. server'.refs = 0
    BY <1>2, <1>5, <1>7 DEF OneAnnounced
  <2>2. \A d : Closing(d) /\ d # c.doc => Closing(d)'
    BY <1>1 DEF Closing, CloseDone
  <2>3. OneAnnounced'
    BY <1>1, <1>3, <1>7, <2>1, <2>2 DEF OneAnnounced, Awaited
  <2>4. UpToDate'
    BY <1>1, <1>7, <2>1, TrackedKeeps
  <2> QED BY <2>3, <2>4
<1> QED BY <1>1, <1>4, <1>6, <1>7

\* A document is new, waits for the close before it, and has the text of the
\* buffer.
LEMMA OpensKeeps ==
  ASSUME LspInv, buffer'.open, buffer' \in [open : BOOLEAN, text : Contents],
         Opens(buffer'.text),
         UNCHANGED <<barrier, flushes, closes, server>>,
         lost' = {} =>
           /\ lost = {} /\ \A d \in Documents : Awaited(d) => Closing(d)
           /\ server.refs > 0 =>
                server.refs = 1 /\ \E d \in Documents : docs[d].opened /\ Closing(d)
  PROVE  LspInv'
<1> USE DocumentBounds DEF LspInv
<1> DEFINE new == created + 1
           doc == [Unused EXCEPT !.synced = buffer'.text, !.opening = "barrier",
                                 !.after = barrier]
<1>1. /\ new \in Documents /\ new > created /\ created' = new /\ tracked' = new
      /\ created' \in 0 .. MaxDocs /\ new # 0
  BY DEF Opens, LspTypeOK, Documents
<1>2. docs' = [docs EXCEPT ![new] = doc]
  BY DEF Opens
<1>3. /\ doc \in DocumentRecords
      /\ doc.opening = "barrier" /\ ~doc.opened /\ doc.after = barrier
      /\ doc.pending = NoText /\ doc.synced = buffer'.text
  <2>1. Unused \in DocumentRecords /\ ~Unused.opened /\ Unused.pending = NoText
    BY DEF Unused, DocumentRecords, Texts
  <2>2. buffer'.text \in Texts /\ barrier \in 0 .. MaxDocs
    BY DEF LspTypeOK, Texts
  <2> QED BY <2>1, <2>2 DEF DocumentRecords
<1>4. docs'[new] = doc /\ \A d \in Documents : d # new => docs'[d] = docs[d]
  BY <1>1, <1>2 DEF LspTypeOK
<1>5. LspTypeOK'
  <2>1. docs' \in [Documents -> DocumentRecords]
    BY <1>2, <1>3 DEF LspTypeOK
  <2>2. buffer' \in [open : BOOLEAN, text : Texts] /\ buffer'.text \in Contents
    BY DEF Texts
  <2> QED BY <1>1, <2>1, <2>2 DEF LspTypeOK
<1>6. \A f \in flushes : f.doc \in Documents /\ f.doc <= created /\ f.doc # new
  BY <1>1 DEF LspTypeOK, FlushRecords, Tracks, Documents
<1>7. \A c \in closes : c.doc \in Documents /\ c.doc <= created /\ c.doc # new
  BY <1>1 DEF LspTypeOK, CloseRecords, ClosesInTurn, Documents
<1>8. docs'[new].opening = "barrier" /\ ~docs'[new].opened /\ docs'[new].after = barrier
      /\ docs'[new].pending = NoText /\ docs'[new].synced = buffer'.text
  BY <1>3, <1>4
<1> HIDE DEF new, doc
<1>9. Tracks'
  <2>1. \A d \in Documents : d > created' => docs'[d] = Unused
    BY <1>1, <1>4 DEF Tracks, LspTypeOK, Documents, new
  <2>2. \A d \in Documents : docs'[d].opened => docs'[d].opening = "done"
    BY <1>4, <1>8 DEF Tracks
  <2>3. Awaited(tracked)'
    BY <1>1, <1>8 DEF Awaited
  <2>4. \A f \in flushes' : f.doc <= created' /\ (f.pc # "opening" => docs'[f.doc].opened)
    BY <1>1, <1>4, <1>6 DEF Tracks, LspTypeOK, Documents, new
  <2> QED BY <1>1, <2>1, <2>2, <2>3, <2>4 DEF Tracks
<1>10. ClosesInTurn'
  <2>1. \A d : Closing(d)' <=> Closing(d)
    BY DEF Closing
  <2>2. \A d \in Documents : d <= created' => d = new \/ d <= created
    BY <1>1 DEF LspTypeOK, Documents, new
  <2>3. \A c \in closes : c.doc <= created' /\ c.doc # tracked'
    BY <1>1, <1>7 DEF LspTypeOK, Documents, new
  <2>4. \A d \in Documents : d <= created => d # new
    BY <1>1 DEF LspTypeOK, Documents
  <2>5. \A c \in closes : c.doc <= barrier /\ Closing(barrier)
    BY DEF ClosesInTurn
  <2>6. ASSUME NEW c \in closes, NEW d \in Documents, c.doc < d, d <= created'
        PROVE  docs'[d].opening = "barrier" /\ c.doc <= docs'[d].after /\ Closing(docs'[d].after)
    <3>1. CASE d = new
      BY <1>8, <2>5, <3>1
    <3>2. CASE d # new
      BY <1>4, <2>2, <2>6, <3>2 DEF ClosesInTurn
    <3> QED BY <3>1, <3>2
  <2>7. ASSUME NEW c \in closes
        PROVE  /\ c.doc <= barrier' /\ (c.pc # "opening" => docs'[c.doc].opened)
               /\ \A e \in closes' : e.doc = c.doc => e = c
    BY <1>4, <1>7 DEF ClosesInTurn
  <2>8. closes' # {} => Closing(barrier)'
    BY <2>1 DEF ClosesInTurn
  <2>9. closes' = closes
    OBVIOUS
  <2> QED BY <2>1, <2>3, <2>6, <2>7, <2>8, <2>9 DEF ClosesInTurn
<1>11. ASSUME lost' = {} PROVE OneAnnounced' /\ UpToDate'
  <2>1. OneAnnounced'
    <3>1. \A d : Closing(d)' <=> Closing(d)
      BY DEF Closing
    <3>2. \A d \in Documents : Awaited(d)' => d = new \/ Awaited(d)
      BY <1>4 DEF Awaited
    <3>3. ~docs[new].opened
      BY <1>1 DEF Tracks, Unused
    <3>4. \A d \in Documents : docs[d].opened => docs'[d].opened
      BY <1>4, <3>3
    <3> QED BY <1>1, <1>11, <3>1, <3>2, <3>4 DEF OneAnnounced
  <2>2. InFlight(tracked)' = {} /\ Waits(tracked)' = {}
    BY <1>1, <1>6 DEF InFlight, Waits, Waiting
  <2>3. UpToDate'
    BY <1>1, <1>8, <2>2
       DEF UpToDate, OneChange, PendingIsLatest, LatestIsSent, OwnIsUnsent, ServerHasLast
  <2> QED BY <2>1, <2>3
<1> QED BY <1>5, <1>9, <1>10, <1>11

\* A file opens with a document of its own.
LEMMA OpenFileKeeps == ASSUME LspInv, OpenFile PROVE LspInv'
<1>1. PICK text \in Contents : buffer' = [open |-> TRUE, text |-> text] /\ Opens(text)
  BY DEF OpenFile
<1>2. /\ buffer'.open /\ buffer' \in [open : BOOLEAN, text : Contents] /\ Opens(buffer'.text)
      /\ UNCHANGED <<barrier, flushes, closes, server, lost>> /\ ~buffer.open
  BY <1>1 DEF OpenFile
<1>3. tracked = 0
  BY <1>2 DEF LspInv, Tracks
<1>4. ASSUME lost' = {}
      PROVE  /\ lost = {} /\ \A d \in Documents : Awaited(d) => Closing(d)
             /\ server.refs > 0 =>
                  server.refs = 1 /\ \E d \in Documents : docs[d].opened /\ Closing(d)
  BY <1>2, <1>3, <1>4 DEF LspInv, OneAnnounced, Documents
<1> QED BY <1>2, <1>4, OpensKeeps

\* The restarted server is told of a document that is still open as of a new
\* one.
LEMMA ReconnectKeeps == ASSUME LspInv, Reconnect PROVE LspInv'
<1>1. UNCHANGED <<buffer, barrier, flushes, closes, server, used>>
  BY DEF Reconnect
<1>2. CASE buffer.open
  <2>1. /\ buffer'.open /\ buffer' \in [open : BOOLEAN, text : Contents] /\ Opens(buffer'.text)
    BY <1>1, <1>2 DEF Reconnect, LspInv, LspTypeOK
  <2>2. ASSUME lost' = {}
        PROVE  /\ lost = {} /\ \A d \in Documents : Awaited(d) => Closing(d)
               /\ server.refs > 0 =>
                    server.refs = 1 /\ \E d \in Documents : docs[d].opened /\ Closing(d)
    BY <1>2, <2>2 DEF Reconnect, Loses, Documents
  <2> QED BY <1>1, <2>1, <2>2, OpensKeeps
<1>3. CASE ~buffer.open
  <2>1. UNCHANGED <<docs, created, tracked, lost>>
    BY <1>3 DEF Reconnect, Loses
  <2>2. LspTypeOK' /\ Tracks' /\ ClosesInTurn'
    BY <1>1, <2>1 DEF LspInv, LspTypeOK, Tracks, ClosesInTurn, Closing, Awaited
  <2>3. OneAnnounced => OneAnnounced'
    BY <1>1, <2>1 DEF OneAnnounced, Closing, Awaited
  <2>4. lost = {} => UpToDate'
    BY <1>1, <2>1, TrackedKeeps DEF LspInv
  <2> QED BY <2>1, <2>2, <2>3, <2>4 DEF LspInv
<1> QED BY <1>2, <1>3

(* Of the documents only what is pending of d moved. *)
Repends(d, pending) ==
  /\ docs' \in [Documents -> DocumentRecords]
  /\ docs'[d].pending = pending
  /\ docs'[d].synced = docs[d].synced /\ docs'[d].opening = docs[d].opening
  /\ docs'[d].opened = docs[d].opened /\ docs'[d].after = docs[d].after
  /\ \A e \in Documents : e # d => docs'[e] = docs[e]

\* A text to be sent, or none, and a timer or none.
LEMMA PendingIsSet ==
  ASSUME LspTypeOK, NEW d \in Documents, NEW pending \in Texts, NEW armed \in BOOLEAN,
         docs' = [docs EXCEPT ![d].pending = pending, ![d].timer = armed]
  PROVE  Repends(d, pending) /\ docs'[d].timer = armed
<1>1. docs[d] \in DocumentRecords
  BY DEF LspTypeOK
<1>2. docs' = [docs EXCEPT ![d] = [docs[d] EXCEPT !.pending = pending, !.timer = armed]]
  BY DEF LspTypeOK
<1>3. [docs[d] EXCEPT !.pending = pending, !.timer = armed] \in DocumentRecords
  BY <1>1 DEF DocumentRecords
<1> QED BY <1>1, <1>2, <1>3 DEF LspTypeOK, Repends, DocumentRecords

\* The timer is stopped, and what is pending stays.
LEMMA TimerIsStopped ==
  ASSUME LspTypeOK, NEW d \in Documents, docs' = [docs EXCEPT ![d].timer = FALSE]
  PROVE  Repends(d, docs[d].pending)
<1>1. docs[d] \in DocumentRecords
  BY DEF LspTypeOK
<1>2. docs' = [docs EXCEPT ![d] = [docs[d] EXCEPT !.timer = FALSE]]
  BY DEF LspTypeOK
<1>3. [docs[d] EXCEPT !.timer = FALSE] \in DocumentRecords
  BY <1>1 DEF DocumentRecords
<1> QED BY <1>1, <1>2, <1>3 DEF LspTypeOK, Repends, DocumentRecords

\* Texts and flushes leave the documents and their closes as they are.
LEMMA StructureKeeps ==
  ASSUME LspInv, NEW d \in Documents, d <= created, NEW pending, Repends(d, pending),
         buffer' \in [open : BOOLEAN, text : Texts], buffer'.open = buffer.open,
         buffer'.open => buffer'.text \in Contents,
         flushes' \subseteq FlushRecords, IsFiniteSet(flushes'),
         \A f \in flushes' : f.doc <= created /\ (f.pc # "opening" => docs[f.doc].opened),
         UNCHANGED <<created, tracked, barrier, closes, server>>
  PROVE  LspTypeOK' /\ Tracks' /\ ClosesInTurn' /\ (OneAnnounced => OneAnnounced')
<1> USE DEF LspInv
<1>1. LspTypeOK'
  BY DEF LspTypeOK, Repends
<1>2. /\ \A e \in Documents : /\ docs'[e].opening = docs[e].opening
                              /\ docs'[e].opened = docs[e].opened
                              /\ docs'[e].after = docs[e].after
      /\ \A e \in Documents : e > created => docs'[e] = docs[e]
  BY DEF Repends, LspTypeOK, Documents
<1>3. \A c : Closing(c)' <=> Closing(c)
  BY DEF Closing
<1>4. \A f \in flushes' : f.doc \in Documents
  BY DEF FlushRecords
<1>5. \A c \in closes : c.doc \in Documents
  BY DEF LspTypeOK, CloseRecords
<1>6. tracked # 0 => tracked \in Documents
  BY DEF LspTypeOK, Documents
<1>7. Tracks'
  BY <1>2, <1>4, <1>6 DEF Tracks, Awaited
<1>8. ClosesInTurn'
  BY <1>2, <1>3, <1>5 DEF ClosesInTurn
<1>9. OneAnnounced => OneAnnounced'
  BY <1>2, <1>3 DEF OneAnnounced, Awaited
<1> QED BY <1>1, <1>7, <1>8, <1>9

(* Of the tracked document nothing is sent and nothing left pending, or one  *)
(* change and no text but one the user typed after it.                      *)
SendsNone(sent, own, pending) ==
  /\ sent = {} /\ own = NoText /\ docs[tracked].pending \in {NoText, docs[tracked].synced}
  /\ pending = NoText /\ Unsettled(tracked) = {}

SendsOne(sent, own, pending) ==
  \E f : /\ sent = {f} /\ f.doc = tracked /\ f.pc = "sent"
         /\ f.text = (IF own # NoText THEN own ELSE docs[tracked].pending)
         /\ f.text # NoText /\ InFlight(tracked) = {}
         /\ pending = IF own = NoText \/ docs[tracked].pending = own
                      THEN NoText ELSE docs[tracked].pending

\* A flush that has nothing to send leaves the latest text synced; one that
\* sends, sends it, unless it was given another and the latest stays pending.
LEMMA SendsKeeps ==
  ASSUME LspInv, UpToDate, tracked # 0, docs[tracked].opened,
         NEW own \in Texts, NEW sent, NEW others \in SUBSET flushes, NEW pending,
         Repends(tracked, pending), flushes' = others \cup sent,
         \A f \in flushes \ others : f.pc = "opening" /\ f.own = own,
         own \notin {NoText, buffer.text} => docs'[tracked].timer = docs[tracked].timer,
         own # NoText => docs[tracked].pending # NoText \/ InFlight(tracked) # {},
         SendsNone(sent, own, pending) \/ SendsOne(sent, own, pending),
         UNCHANGED <<buffer, tracked, server>>
  PROVE  UpToDate'
<1> DEFINE doc == docs[tracked]
<1>1. OneChange /\ PendingIsLatest /\ LatestIsSent /\ OwnIsUnsent /\ ServerHasLast
  BY DEF UpToDate
<1>2. /\ docs'[tracked].pending = pending
      /\ docs'[tracked].synced = doc.synced /\ docs'[tracked].opening = doc.opening
      /\ docs'[tracked].opened = doc.opened
  BY DEF Repends
<1>3. CASE /\ sent = {} /\ own = NoText /\ doc.pending \in {NoText, doc.synced}
           /\ pending = NoText /\ Unsettled(tracked) = {}
  <2>1. /\ InFlight(tracked) = {} /\ InFlight(tracked)' = {}
        /\ \A f \in flushes' : f \in flushes /\ (f.doc = tracked => f.own = NoText)
    BY <1>3 DEF InFlight, Unsettled
  <2>2. buffer.text = doc.synced
    BY <1>1, <1>3, <2>1 DEF PendingIsLatest, LatestIsSent
  <2>3. OneChange'
    BY <1>1, <1>2, <2>1 DEF OneChange
  <2>4. PendingIsLatest' /\ LatestIsSent'
    BY <1>2, <1>3, <2>1, <2>2 DEF PendingIsLatest, LatestIsSent
  <2>5. OwnIsUnsent' /\ ServerHasLast'
    BY <1>1, <1>2, <2>1 DEF OwnIsUnsent, ServerHasLast, Waits, Waiting
  <2> QED BY <2>3, <2>4, <2>5 DEF UpToDate
<1>4. ASSUME NEW f, sent = {f}, f.doc = tracked, f.pc = "sent",
             f.text = (IF own # NoText THEN own ELSE doc.pending),
             f.text # NoText, InFlight(tracked) = {},
             pending = IF own = NoText \/ doc.pending = own THEN NoText ELSE doc.pending
      PROVE  UpToDate'
  <2>1. InFlight(tracked)' = {f}
    BY <1>4 DEF InFlight
  <2>2. doc.pending # NoText /\ buffer.text = doc.pending
    BY <1>1, <1>4 DEF PendingIsLatest
  <2>3. OneChange'
    BY <1>1, <1>2, <1>4, <2>1 DEF OneChange
  <2>4. PendingIsLatest'
    <3>1. CASE own = NoText \/ doc.pending = own
      BY <1>2, <1>4, <3>1 DEF PendingIsLatest
    <3>2. CASE own # NoText /\ doc.pending # own
      <4>1. docs'[tracked].timer = doc.timer /\ pending = doc.pending
        BY <1>4, <2>2, <3>2
      <4>2. \A g \in Waits(tracked) : g.own \in {NoText, doc.pending} => g \in Waits(tracked)'
        BY <3>2 DEF Waits, Waiting
      <4> QED BY <1>1, <1>2, <4>1, <4>2 DEF PendingIsLatest
    <3> QED BY <3>1, <3>2
  <2>5. LatestIsSent'
    <3>1. pending = NoText => f.text = doc.pending
      BY <1>4, <2>2
    <3> QED BY <1>2, <2>1, <2>2, <3>1 DEF LatestIsSent
  <2>6. OwnIsUnsent' /\ ServerHasLast'
    BY <1>4, <2>1 DEF OwnIsUnsent, ServerHasLast
  <2> QED BY <2>3, <2>4, <2>5, <2>6 DEF UpToDate
<1> QED BY <1>3, <1>4 DEF SendsNone, SendsOne

(* What a flush of document d does: next is what it leaves of the documents  *)
(* and the change it sends.                                                 *)
Flushed(next, d, own) ==
  LET text == IF own # NoText THEN own ELSE docs[d].pending
  IN /\ next.docs \in [Documents -> DocumentRecords]
     /\ next.docs[d].pending \in Texts
     /\ next.docs[d].timer \in BOOLEAN
     /\ own # NoText => next.docs[d].timer = docs[d].timer
     /\ next.docs[d].synced = docs[d].synced /\ next.docs[d].opening = docs[d].opening
     /\ next.docs[d].opened = docs[d].opened /\ next.docs[d].after = docs[d].after
     /\ \A e \in Documents : e # d => next.docs[e] = docs[e]
     /\ own = NoText \/ docs[d].pending = own => next.docs[d].pending = NoText
     /\ text \in {NoText, docs[d].synced} => next.sent = {}
     /\ text \notin {NoText, docs[d].synced} =>
          /\ \E f \in FlushRecords :
               next.sent = {f} /\ f.doc = d /\ f.pc = "sent" /\ f.text = text
          /\ ~(own = NoText \/ docs[d].pending = own) => next.docs[d].pending = docs[d].pending

\* A flush of an opened document sends the text it was given or the pending one.
LEMMA WhatIsSent ==
  ASSUME LspTypeOK, NEW d \in Documents, tracked = d, docs[d].opened,
         NEW own \in Texts, NEW before \in Texts
  PROVE  Flushed(Sends(d, own, before), d, own)
<1> DEFINE text  == IF own # NoText THEN own ELSE docs[d].pending
           none  == text \in {NoText, docs[d].synced}
           same  == own = NoText \/ docs[d].pending = text \/ (none /\ docs[d].pending = before)
           armed == docs[d].timer /\ own # NoText
           left  == IF same THEN NoText ELSE docs[d].pending
           kept  == [docs[d] EXCEPT !.timer = armed, !.pending = left]
           f     == [doc |-> d, own |-> own, before |-> before, text |-> text, pc |-> "sent",
                     turn |-> 0]
           next  == Sends(d, own, before)
<1>1. docs[d] \in DocumentRecords /\ docs[d].pending \in Texts /\ docs[d].timer \in BOOLEAN
  BY DEF LspTypeOK, DocumentRecords
<1>2. next = [docs |-> [docs EXCEPT ![d] = kept], sent |-> IF none THEN {} ELSE {f}]
  BY DEF Sends
<1>3. /\ armed \in BOOLEAN /\ (own # NoText => armed = docs[d].timer)
      /\ left \in Texts
      /\ own = NoText \/ docs[d].pending = own => left = NoText
      /\ ~none /\ ~(own = NoText \/ docs[d].pending = own) => left = docs[d].pending
  BY <1>1 DEF Texts
<1>4. f \in FlushRecords /\ f.doc = d /\ f.pc = "sent" /\ f.text = text
  BY <1>1 DEF FlushRecords
<1> HIDE DEF armed, left, same, f
<1>5. /\ kept \in DocumentRecords /\ kept.timer = armed /\ kept.pending = left
      /\ kept.synced = docs[d].synced /\ kept.opening = docs[d].opening
      /\ kept.opened = docs[d].opened /\ kept.after = docs[d].after
  BY <1>1, <1>3 DEF DocumentRecords
<1> HIDE DEF kept
<1>6. next.docs = [docs EXCEPT ![d] = kept] /\ next.sent = IF none THEN {} ELSE {f}
  BY <1>2
<1> HIDE DEF next
<1>7. /\ next.docs \in [Documents -> DocumentRecords] /\ next.docs[d] = kept
      /\ \A e \in Documents : e # d => next.docs[e] = docs[e]
  BY <1>5, <1>6 DEF LspTypeOK
<1>8. none => next.sent = {}
  BY <1>6
<1>9. ~none => /\ \E g \in FlushRecords :
                    next.sent = {g} /\ g.doc = d /\ g.pc = "sent" /\ g.text = text
               /\ ~(own = NoText \/ docs[d].pending = own) =>
                    next.docs[d].pending = docs[d].pending
  <2> SUFFICES ASSUME ~none
               PROVE  /\ \E g \in FlushRecords :
                           next.sent = {g} /\ g.doc = d /\ g.pc = "sent" /\ g.text = text
                      /\ ~(own = NoText \/ docs[d].pending = own) =>
                           next.docs[d].pending = docs[d].pending
    OBVIOUS
  <2>1. next.sent = {f}
    BY <1>6
  <2> HIDE DEF text, none
  <2> QED BY <1>3, <1>4, <1>5, <1>7, <2>1
<1>10. /\ next.docs[d].pending \in Texts
       /\ next.docs[d].timer \in BOOLEAN
       /\ own # NoText => next.docs[d].timer = docs[d].timer
       /\ next.docs[d].synced = docs[d].synced /\ next.docs[d].opening = docs[d].opening
       /\ next.docs[d].opened = docs[d].opened /\ next.docs[d].after = docs[d].after
       /\ own = NoText \/ docs[d].pending = own => next.docs[d].pending = NoText
  <2> HIDE DEF text, none
  <2> QED BY <1>3, <1>5, <1>7
<1>11. Flushed(next, d, own)
  BY <1>7, <1>8, <1>9, <1>10 DEF Flushed
<1> QED BY <1>11 DEF next

\* A flush, by the timer or by a request, sends what is latest, or waits for
\* the open with it.
LEMMA FlushKeeps ==
  ASSUME LspInv, tracked # 0, NEW own \in {NoText, buffer.text}, Flush(own),
         UNCHANGED <<buffer, created, tracked, barrier, closes, server>>
  PROVE  LspInv'
<1> USE DEF LspInv
<1> DEFINE d    == tracked
           doc  == docs[d]
           text == IF own # NoText THEN own ELSE doc.pending
<1>1. /\ d \in Documents /\ d <= created /\ doc \in DocumentRecords
      /\ buffer.open /\ own \in Texts /\ (own # NoText => own = buffer.text)
      /\ Awaited(d) \/ doc.opened
      /\ buffer \in [open : BOOLEAN, text : Texts] /\ buffer.text \in Contents
  BY DEF LspTypeOK, Tracks, Documents, Texts
<1>2. \A f \in flushes : f.doc <= created /\ (f.pc # "opening" => docs[f.doc].opened)
  BY DEF Tracks
<1>3. flushes \subseteq FlushRecords /\ IsFiniteSet(flushes) /\ doc.pending \in Texts
  BY <1>1 DEF LspTypeOK, DocumentRecords
<1>4. CASE /\ text \in {NoText, doc.synced}
           /\ docs' = [docs EXCEPT ![d].timer = FALSE, ![d].pending = NoText]
           /\ Loses("reverted", Unsettled(d) # {})
           /\ UNCHANGED flushes
  <2>1. docs' = [docs EXCEPT ![d].pending = NoText, ![d].timer = FALSE]
    BY <1>1, <1>4 DEF LspTypeOK
  <2>2. Repends(d, NoText)
    BY <1>1, <2>1, PendingIsSet DEF Texts
  <2>3. LspTypeOK' /\ Tracks' /\ ClosesInTurn' /\ (OneAnnounced => OneAnnounced')
    BY <1>1, <1>2, <1>3, <1>4, <2>2, StructureKeeps
  <2>4. ASSUME lost' = {} PROVE lost = {} /\ UpToDate'
    <3>1. lost = {} /\ Unsettled(d) = {}
      BY <1>4, <2>4 DEF Loses
    <3>2. OneChange /\ PendingIsLatest /\ LatestIsSent /\ OwnIsUnsent /\ ServerHasLast
      BY <3>1 DEF UpToDate
    <3>3. InFlight(d) = {} /\ \A f \in Waits(d) : f.own = NoText
      BY <3>1 DEF Unsettled, Waits, Waiting
    <3>4. buffer.text = doc.synced
      BY <1>1, <1>4, <3>2, <3>3 DEF PendingIsLatest, LatestIsSent
    <3>5. InFlight(d)' = InFlight(d) /\ Waits(d)' = Waits(d)
      BY <1>4 DEF InFlight, Waits, Waiting
    <3>6. /\ docs'[d].pending = NoText /\ docs'[d].synced = doc.synced
          /\ docs'[d].opening = doc.opening /\ docs'[d].opened = doc.opened
      BY <2>2 DEF Repends
    <3> HIDE DEF doc, text
    <3> QED BY <1>4, <3>1, <3>2, <3>3, <3>4, <3>5, <3>6
            DEF UpToDate, OneChange, PendingIsLatest, LatestIsSent, OwnIsUnsent, ServerHasLast, doc
  <2> QED BY <2>3, <2>4
<1>5. CASE /\ text \notin {NoText, doc.synced} /\ Awaited(d)
           /\ docs' = [docs EXCEPT ![d].timer = FALSE]
           /\ flushes' = flushes \cup {[doc |-> d, own |-> own, before |-> doc.pending,
                                        text |-> NoText, pc |-> "opening",
                                        turn |-> Cardinality(Waiting)]}
           /\ UNCHANGED lost
  <2> DEFINE turn == Cardinality(Waiting)
             f == [doc |-> d, own |-> own, before |-> doc.pending, text |-> NoText,
                   pc |-> "opening", turn |-> turn]
  <2>1. turn \in Nat
    <3>1. IsFiniteSet(Waiting)
      BY <1>3, FS_Subset DEF Waiting
    <3> QED BY <3>1, FS_CardinalityType
  <2>2. f \in FlushRecords /\ f.doc = d /\ f.pc = "opening" /\ f.own = own
    <3> HIDE DEF turn
    <3> QED BY <1>1, <1>3, <2>1 DEF FlushRecords, Texts
  <2>3. flushes' = flushes \cup {f}
    BY <1>5
  <2> HIDE DEF f, turn
  <2>4. Repends(d, doc.pending)
    BY <1>1, <1>5, TimerIsStopped
  <2>5. LspTypeOK' /\ Tracks' /\ ClosesInTurn' /\ (OneAnnounced => OneAnnounced')
    <3>1. IsFiniteSet(flushes')
      BY <1>3, <2>3, FS_AddElement
    <3> QED BY <1>1, <1>2, <1>3, <2>2, <2>3, <2>4, <3>1, StructureKeeps
  <2>6. ASSUME lost' = {} PROVE lost = {} /\ UpToDate'
    <3>1. lost = {} /\ UpToDate
      BY <1>5, <2>6
    <3>2. OneChange /\ PendingIsLatest /\ LatestIsSent /\ OwnIsUnsent /\ ServerHasLast
      BY <3>1 DEF UpToDate
    <3>3. InFlight(d)' = InFlight(d) /\ Waits(d)' = Waits(d) \cup {f}
      BY <2>2, <2>3 DEF InFlight, Waits, Waiting
    <3>4. InFlight(d) = {}
      BY <1>1, <1>2, <1>5 DEF InFlight, Tracks, Awaited
    <3>5. /\ docs'[d].pending = doc.pending /\ docs'[d].synced = doc.synced
          /\ docs'[d].opening = doc.opening /\ docs'[d].opened = doc.opened
      BY <2>4 DEF Repends
    <3>6. doc.pending # NoText /\ (own # NoText => own = doc.pending)
      BY <1>1, <1>5, <3>2, <3>4 DEF PendingIsLatest, LatestIsSent
    <3>7. OneChange'
      BY <2>2, <2>3, <3>2, <3>3, <3>5 DEF OneChange
    <3>8. PendingIsLatest' /\ LatestIsSent' /\ OwnIsUnsent'
      BY <2>2, <3>2, <3>3, <3>5, <3>6 DEF PendingIsLatest, LatestIsSent, OwnIsUnsent
    <3>9. ServerHasLast'
      BY <3>2, <3>3, <3>5 DEF ServerHasLast
    <3> QED BY <3>1, <3>7, <3>8, <3>9 DEF UpToDate
  <2> QED BY <2>5, <2>6
<1>6. CASE /\ text \notin {NoText, doc.synced} /\ ~Awaited(d)
           /\ docs' = [Sends(d, own, doc.pending).docs EXCEPT ![d].timer = FALSE]
           /\ Sent(d, Sends(d, own, doc.pending).sent, flushes)
  <2> DEFINE next == Sends(d, own, doc.pending)
  <2>1. /\ next.docs \in [Documents -> DocumentRecords]
        /\ next.docs[d].synced = doc.synced /\ next.docs[d].opening = doc.opening
        /\ next.docs[d].opened = doc.opened /\ next.docs[d].after = doc.after
        /\ \A e \in Documents : e # d => next.docs[e] = docs[e]
        /\ own = NoText \/ doc.pending = own => next.docs[d].pending = NoText
        /\ ~(own = NoText \/ doc.pending = own) => next.docs[d].pending = doc.pending
        /\ \E f \in FlushRecords : next.sent = {f} /\ f.doc = d /\ f.pc = "sent" /\ f.text = text
    <3>1. d \in Documents /\ doc.opened /\ own \in Texts /\ doc.pending \in Texts /\ LspTypeOK
      BY <1>1, <1>3, <1>6
    <3>2. Flushed(next, d, own)
      BY <3>1, WhatIsSent
    <3> HIDE DEF next
    <3> QED BY <1>6, <3>2 DEF Flushed
  <2>2. docs' = [next.docs EXCEPT ![d].timer = FALSE] /\ Sent(d, next.sent, flushes)
    BY <1>6
  <2> HIDE DEF next
  <2>3. PICK f \in FlushRecords : next.sent = {f} /\ f.doc = d /\ f.pc = "sent" /\ f.text = text
    BY <2>1
  <2>4. Repends(d, next.docs[d].pending)
    <3>1. next.docs[d] \in DocumentRecords
      BY <1>1, <2>1
    <3>2. docs' = [next.docs EXCEPT ![d] = [next.docs[d] EXCEPT !.timer = FALSE]]
      BY <1>1, <2>1, <2>2
    <3>3. [next.docs[d] EXCEPT !.timer = FALSE] \in DocumentRecords
      BY <3>1 DEF DocumentRecords
    <3> QED BY <1>1, <2>1, <3>1, <3>2, <3>3 DEF Repends, DocumentRecords
  <2>5. flushes' = flushes \cup {f} /\ (lost' = {} => lost = {} /\ InFlight(d) = {})
    BY <2>2, <2>3 DEF Sent
  <2>6. LspTypeOK' /\ Tracks' /\ ClosesInTurn' /\ (OneAnnounced => OneAnnounced')
    <3>1. IsFiniteSet(flushes')
      BY <1>3, <2>5, FS_AddElement
    <3>2. \A g \in flushes' : g.doc <= created /\ (g.pc # "opening" => docs[g.doc].opened)
      BY <1>1, <1>2, <1>6, <2>3, <2>5
    <3>3. flushes' \subseteq FlushRecords
      BY <1>3, <2>3, <2>5
    <3> QED BY <1>1, <2>4, <3>1, <3>2, <3>3, StructureKeeps
  <2>7. ASSUME lost' = {} PROVE lost = {} /\ UpToDate'
    <3>1. lost = {} /\ UpToDate /\ InFlight(d) = {}
      BY <2>5, <2>7
    <3>2. LatestIsSent
      BY <3>1 DEF UpToDate
    <3>3. own # NoText => doc.pending # NoText
      BY <1>1, <1>6, <3>1, <3>2 DEF LatestIsSent
    <3>4. doc.opened /\ own \notin {NoText, buffer.text} => docs'[d].timer = doc.timer
      BY <1>1, <1>6
    <3>5. SendsOne(next.sent, own, next.docs[d].pending)
      BY <1>6, <2>1, <2>3, <3>1 DEF SendsOne
    <3>6. flushes' = flushes \cup next.sent
      BY <2>3, <2>5
    <3> QED BY <1>1, <1>6, <2>4, <3>1, <3>3, <3>5, <3>6, SendsKeeps
  <2> QED BY <2>6, <2>7
<1> QED BY <1>4, <1>5, <1>6 DEF Flush

\* The timer flushes the tracked document.
LEMMA TimerKeeps == ASSUME LspInv, Timer PROVE LspInv'
<1>1. /\ tracked # 0 /\ Flush(NoText)
      /\ UNCHANGED <<buffer, created, tracked, barrier, closes, server>>
  BY DEF Timer
<1>2. NoText \in {NoText, buffer.text}
  OBVIOUS
<1> QED BY <1>1, <1>2, FlushKeeps

\* A request, a completion or a save flushes it too.
LEMMA RequestKeeps == ASSUME LspInv, LspRequest PROVE LspInv'
<1>1. tracked # 0 /\ UNCHANGED <<buffer, created, tracked, barrier, closes, server>>
  BY DEF LspRequest
<1>2. PICK own \in {NoText, buffer.text} : Flush(own)
  BY DEF LspRequest
<1> QED BY <1>1, <1>2, FlushKeeps

\* A flush that waited for the open goes on.
LEMMA FlushContinuesKeeps ==
  ASSUME LspInv, NEW f \in flushes, FlushContinues(f) PROVE LspInv'
<1> USE DEF LspInv
<1> DEFINE d    == f.doc
           own  == f.own
           text == IF own # NoText THEN own ELSE docs[d].pending
           next == Sends(d, own, f.before)
<1>1. /\ f.pc = "opening" /\ ~Awaited(d)
      /\ docs' = next.docs /\ Sent(d, next.sent, flushes \ {f})
      /\ UNCHANGED <<buffer, created, tracked, barrier, closes, server, reconnect, used>>
  BY DEF FlushContinues, Waiting
<1>2. /\ d \in Documents /\ d <= created /\ own \in Texts /\ f.before \in Texts
      /\ docs[d] \in DocumentRecords
      /\ buffer \in [open : BOOLEAN, text : Texts] /\ (buffer.open => buffer.text \in Contents)
      /\ flushes \subseteq FlushRecords /\ IsFiniteSet(flushes)
      /\ \A g \in flushes : g.doc <= created /\ (g.pc # "opening" => docs[g.doc].opened)
  BY DEF LspTypeOK, FlushRecords, Tracks
<1>3. IsFiniteSet(flushes \ {f})
  BY <1>2, FS_RemoveElement
<1>4. CASE tracked # d \/ ~docs[d].opened
  <2>1. next.docs = docs /\ next.sent = {}
    BY <1>4 DEF Sends
  <2>2. docs' = docs /\ flushes' = flushes \ {f} /\ (lost' = {} => lost = {})
    BY <1>1, <2>1 DEF Sent
  <2>3. Repends(d, docs[d].pending)
    BY <2>2 DEF Repends, LspTypeOK
  <2>4. LspTypeOK' /\ Tracks' /\ ClosesInTurn' /\ (OneAnnounced => OneAnnounced')
    BY <1>1, <1>2, <1>3, <2>2, <2>3, StructureKeeps
  <2>5. tracked # 0 => tracked # d
    BY <1>1, <1>4 DEF Tracks
  <2>6. ASSUME lost' = {}, tracked # 0
        PROVE  /\ OneChange' /\ PendingIsLatest' /\ LatestIsSent' /\ OwnIsUnsent'
               /\ ServerHasLast'
    <3>1. OneChange /\ PendingIsLatest /\ LatestIsSent /\ OwnIsUnsent /\ ServerHasLast
      BY <2>2, <2>6 DEF UpToDate
    <3>2. InFlight(tracked)' = InFlight(tracked) /\ Waits(tracked)' = Waits(tracked)
      BY <1>1, <2>2, <2>5, <2>6 DEF InFlight, Waits, Waiting
    <3> QED BY <1>1, <2>2, <3>1, <3>2
            DEF OneChange, PendingIsLatest, LatestIsSent, OwnIsUnsent, ServerHasLast
  <2> QED BY <1>1, <2>2, <2>4, <2>6 DEF UpToDate
<1>5. CASE tracked = d /\ docs[d].opened
  <2>1. Flushed(next, d, own)
    BY <1>2, <1>5, WhatIsSent
  <2> HIDE DEF next
  <2>2. Repends(d, next.docs[d].pending)
    BY <1>1, <2>1 DEF Flushed, Repends
  <2>3. flushes' = (flushes \ {f}) \cup next.sent
    BY <1>1 DEF Sent
  <2>4. \/ text \in {NoText, docs[d].synced} /\ next.sent = {}
        \/ /\ text \notin {NoText, docs[d].synced}
           /\ \E g \in FlushRecords :
                next.sent = {g} /\ g.doc = d /\ g.pc = "sent" /\ g.text = text
    BY <2>1 DEF Flushed
  <2>5. LspTypeOK' /\ Tracks' /\ ClosesInTurn' /\ (OneAnnounced => OneAnnounced')
    <3>1. /\ flushes' \subseteq FlushRecords /\ IsFiniteSet(flushes')
          /\ \A g \in flushes' : g.doc <= created /\ (g.pc # "opening" => docs[g.doc].opened)
      <4>1. CASE next.sent = {}
        <5>1. flushes' = flushes \ {f}
          BY <2>3, <4>1
        <5> QED BY <1>2, <1>3, <5>1
      <4>2. ASSUME NEW g \in FlushRecords, next.sent = {g}, g.doc = d
            PROVE  /\ flushes' \subseteq FlushRecords /\ IsFiniteSet(flushes')
                   /\ \A e \in flushes' :
                        e.doc <= created /\ (e.pc # "opening" => docs[e.doc].opened)
        <5>1. flushes' = (flushes \ {f}) \cup {g}
          BY <2>3, <4>2
        <5>2. IsFiniteSet(flushes')
          BY <1>3, <5>1, FS_AddElement
        <5> QED BY <1>2, <1>5, <4>2, <5>1, <5>2
      <4> QED BY <2>4, <4>1, <4>2
    <3> QED BY <1>1, <1>2, <2>2, <3>1, StructureKeeps
  <2>6. ASSUME lost' = {} PROVE lost = {} /\ UpToDate'
    <3>1. /\ lost = {} /\ (next.sent # {} => InFlight(d) = {})
          /\ next.sent = {} => Unsettled(d) = {}
      BY <1>1, <2>6 DEF Sent
    <3>2. UpToDate /\ tracked # 0
      BY <1>2, <1>5, <3>1 DEF Documents
    <3>3. own # NoText => docs[tracked].pending # NoText \/ InFlight(tracked) # {}
      BY <1>1, <1>5, <3>2 DEF UpToDate, OwnIsUnsent, Waits, Waiting
    <3>4. own # NoText => docs'[tracked].timer = docs[tracked].timer
      BY <1>1, <1>5, <2>1 DEF Flushed
    <3>5. SendsNone(next.sent, own, next.docs[d].pending)
             \/ SendsOne(next.sent, own, next.docs[d].pending)
      <4>1. CASE text \in {NoText, docs[d].synced} /\ next.sent = {}
        <5>1. own = NoText /\ Unsettled(d) = {}
          BY <3>1, <4>1 DEF Unsettled
        <5> QED BY <1>5, <2>1, <4>1, <5>1 DEF SendsNone, Flushed
      <4>2. CASE text \notin {NoText, docs[d].synced}
        <5>1. PICK g : next.sent = {g} /\ g.doc = d /\ g.pc = "sent" /\ g.text = text
          BY <2>4, <4>2
        <5>2. next.docs[d].pending = IF own = NoText \/ docs[d].pending = own
                                     THEN NoText ELSE docs[d].pending
          BY <2>1, <4>2 DEF Flushed
        <5>3. InFlight(d) = {}
          BY <3>1, <5>1
        <5> QED BY <1>5, <4>2, <5>1, <5>2, <5>3 DEF SendsOne
      <4> QED BY <2>4, <4>1, <4>2
    <3>6. \A g \in flushes \ (flushes \ {f}) : g.pc = "opening" /\ g.own = own
      BY <1>1
    <3>7. own \in Texts /\ docs[tracked].opened /\ Repends(tracked, next.docs[d].pending)
          /\ (flushes \ {f}) \in SUBSET flushes
      BY <1>2, <1>5, <2>2
    <3> HIDE DEF own, d
    <3> QED BY <1>1, <2>3, <3>1, <3>2, <3>3, <3>4, <3>5, <3>6, <3>7, SendsKeeps
  <2> QED BY <2>5, <2>6
<1> QED BY <1>4, <1>5

\* What is typed is pending, unless it is what the server has.
LEMMA TypesKeeps == ASSUME LspInv, Types PROVE LspInv'
<1> USE DEF LspInv
<1>1. PICK text \in Contents :
        buffer' = [buffer EXCEPT !.text = text] /\ Schedule(text)
  BY DEF Types
<1>2. buffer.open /\ UNCHANGED <<created, tracked, barrier, flushes, closes, server, reconnect>>
  BY DEF Types
<1>3. /\ buffer' \in [open : BOOLEAN, text : Texts] /\ buffer'.open = buffer.open
      /\ buffer'.text = text
  BY <1>1 DEF LspTypeOK, Texts
<1>4. CASE tracked = 0 /\ UNCHANGED <<docs, lost>>
  <2>1. LspTypeOK' /\ Tracks' /\ ClosesInTurn'
    BY <1>2, <1>3, <1>4 DEF LspTypeOK, Tracks, ClosesInTurn, Closing, Awaited
  <2>2. OneAnnounced => OneAnnounced'
    BY <1>2, <1>4 DEF OneAnnounced, Closing, Awaited
  <2> QED BY <1>2, <1>4, <2>1, <2>2 DEF UpToDate
<1>5. ASSUME tracked # 0
      PROVE  /\ tracked \in Documents /\ tracked <= created /\ docs[tracked] \in DocumentRecords
             /\ flushes' \subseteq FlushRecords /\ IsFiniteSet(flushes')
             /\ \A f \in flushes' : f.doc <= created /\ (f.pc # "opening" => docs[f.doc].opened)
  BY <1>2, <1>5 DEF LspTypeOK, Tracks, Documents
<1>6. CASE /\ tracked # 0 /\ text = docs[tracked].synced
           /\ docs' = [docs EXCEPT ![tracked].pending = NoText, ![tracked].timer = FALSE]
           /\ Loses("reverted", Unsettled(tracked) # {})
  <2>1. Repends(tracked, NoText)
    BY <1>5, <1>6, PendingIsSet DEF Texts
  <2>2. LspTypeOK' /\ Tracks' /\ ClosesInTurn' /\ (OneAnnounced => OneAnnounced')
    BY <1>2, <1>3, <1>5, <1>6, <2>1, StructureKeeps
  <2>3. ASSUME lost' = {} PROVE lost = {} /\ UpToDate'
    <3>1. lost = {} /\ Unsettled(tracked) = {}
      BY <1>6, <2>3 DEF Loses
    <3>2. OneChange /\ PendingIsLatest /\ LatestIsSent /\ OwnIsUnsent /\ ServerHasLast
      BY <1>6, <3>1 DEF UpToDate
    <3>3. InFlight(tracked) = {} /\ InFlight(tracked)' = {}
          /\ \A f \in Waits(tracked)' : f.own = NoText
      BY <1>2, <3>1 DEF InFlight, Unsettled, Waits, Waiting
    <3>4. OneChange'
      BY <1>2, <2>1, <3>2, <3>3 DEF OneChange, Repends
    <3>5. PendingIsLatest' /\ LatestIsSent' /\ OwnIsUnsent'
      BY <1>2, <1>3, <1>6, <2>1, <3>3 DEF PendingIsLatest, LatestIsSent, OwnIsUnsent, Repends
    <3>6. ServerHasLast'
      BY <1>2, <2>1, <3>2, <3>3 DEF ServerHasLast, Repends
    <3> QED BY <3>1, <3>4, <3>5, <3>6 DEF UpToDate
  <2> QED BY <2>2, <2>3
<1>7. CASE /\ tracked # 0 /\ text # docs[tracked].synced
           /\ docs' = [docs EXCEPT ![tracked].pending = text, ![tracked].timer = TRUE]
           /\ UNCHANGED lost
  <2>1. Repends(tracked, text) /\ docs'[tracked].timer
    BY <1>5, <1>7, PendingIsSet DEF Texts
  <2>2. LspTypeOK' /\ Tracks' /\ ClosesInTurn' /\ (OneAnnounced => OneAnnounced')
    BY <1>2, <1>3, <1>5, <1>7, <2>1, StructureKeeps
  <2>3. ASSUME lost = {} PROVE UpToDate'
    <3>1. OneChange /\ PendingIsLatest /\ LatestIsSent /\ OwnIsUnsent /\ ServerHasLast
      BY <1>7, <2>3 DEF UpToDate
    <3>2. InFlight(tracked)' = InFlight(tracked)
      BY <1>2 DEF InFlight
    <3>3. docs'[tracked].pending = text /\ text # NoText
      BY <2>1, TextsAssumption DEF Repends
    <3>4. OneChange'
      BY <1>2, <2>1, <3>1, <3>2 DEF OneChange, Repends
    <3>5. PendingIsLatest' /\ LatestIsSent' /\ OwnIsUnsent'
      BY <1>2, <1>3, <2>1, <3>3 DEF PendingIsLatest, LatestIsSent, OwnIsUnsent
    <3>6. ServerHasLast'
      BY <1>2, <2>1, <3>1, <3>2 DEF ServerHasLast, Repends
    <3> QED BY <3>4, <3>5, <3>6 DEF UpToDate
  <2> QED BY <1>7, <2>2, <2>3
<1> QED BY <1>1, <1>4, <1>6, <1>7 DEF Schedule

\* Every step keeps the invariant.
LEMMA DocumentStep == LspInv /\ [LspNext]_lspVars => LspInv'
<1> SUFFICES ASSUME LspInv, [LspNext]_lspVars PROVE LspInv'
  OBVIOUS
<1>1. CASE OpenFile \/ Types \/ LspRequest \/ CloseFile \/ Crash \/ Timer \/ Reconnect
  BY <1>1, OpenFileKeeps, TypesKeeps, RequestKeeps, CloseFileKeeps, CrashKeeps, TimerKeeps,
     ReconnectKeeps
<1>2. ASSUME NEW d \in 1 .. MaxDocs, OpenGoes(d) \/ OpenEnds(d) PROVE LspInv'
  BY <1>2, OpenGoesKeeps, OpenEndsKeeps DEF Documents
<1>3. ASSUME NEW f \in flushes, FlushContinues(f) \/ ChangeArrives(f) \/ ChangeReturns(f)
      PROVE  LspInv'
  BY <1>3, FlushContinuesKeeps, ChangeArrivesKeeps, ChangeReturnsKeeps
<1>4. ASSUME NEW c \in closes, CloseGoes(c) \/ CloseChanges(c) \/ CloseReleases(c) PROVE LspInv'
  BY <1>4, CloseGoesKeeps, CloseChangesKeeps, CloseReleasesKeeps
<1>5. CASE UNCHANGED lspVars
  <2>1. UNCHANGED <<buffer, docs, created, tracked, barrier, flushes, closes, server, lost>>
    BY <1>5 DEF lspVars
  <2>2. lost = {} => UpToDate'
    BY <2>1, TrackedKeeps DEF LspInv
  <2> QED BY <2>1, <2>2
          DEF LspInv, LspTypeOK, Tracks, ClosesInTurn, OneAnnounced, Closing, Awaited
<1> QED BY <1>1, <1>2, <1>3, <1>4, <1>5 DEF LspNext, LspContinues

\* The invariant holds in every reachable state.
THEOREM DocumentInvariance == LspSpec => []LspInv
BY InitDocuments, DocumentStep, PTL DEF LspSpec

\* The server has the latest text once nothing is left to be sent, apart from
\* the races that lost names (lspDocumentSync.ts): the part of ServerFollows
\* that is about states.
THEOREM LatestStateIsKept == LspSpec => []LatestStateApart
<1>1. LspInv => LatestStateApart
  <2> SUFFICES ASSUME LspInv, Quiet, lost = {} PROVE server.text = buffer.text
    BY DEF LatestStateApart
  <2>1. UpToDate /\ tracked # 0 /\ InFlight(tracked) = {} /\ Waits(tracked) = {}
    BY DEF LspInv, Quiet, InFlight, Waits, Waiting
  <2>2. PendingIsLatest /\ LatestIsSent /\ ServerHasLast
    BY <2>1 DEF UpToDate
  <2>3. docs[tracked].pending = NoText
    BY <2>1, <2>2 DEF PendingIsLatest, Quiet
  <2> QED BY <2>1, <2>2, <2>3 DEF LatestIsSent, ServerHasLast, Quiet
<1> QED BY <1>1, DocumentInvariance, PTL

(* No document of a closed file is at the server once no close is left.      *)
ClosedLeaves == ~buffer.open /\ closes = {} /\ lost = {} => server.refs = 0

\* A close that is through has taken the document from the server, however its
\* open was delayed (closeTrackedDocument awaits it): the state that the other
\* part of ServerFollows says is reached.
THEOREM ClosesRelease == LspSpec => []ClosedLeaves
<1>1. LspInv => ClosedLeaves
  BY DEF LspInv, ClosedLeaves, OneAnnounced, Closing, Tracks, LspTypeOK, Documents
<1> QED BY <1>1, DocumentInvariance, PTL
=============================================================================
