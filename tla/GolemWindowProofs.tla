-------------------------- MODULE GolemWindowProofs --------------------------
(***************************************************************************)
(* Proof that moving the Golem chat between windows (GolemWindow) moves    *)
(* one text between two composers (DraftOwnership), for every number of    *)
(* windows, transitions, texts, Sends, repeated posts and posts under way. *)
(***************************************************************************)
EXTENDS GolemWindow, SequenceTheorems, TLAPS

(***************************************************************************)
(* Types.                                                                  *)
(***************************************************************************)
Phases == {"closed", "bootstrapping", "bootstrapped", "ready", "closing"}
Modes == {"docked", "undocked"}
Kinds == {"drafts", "view", "ack", "action", "ready", "abort"}
Drafts == 0 .. MaxEdits

Snapshots ==
  [rev : Nat, phase : Phases, mode : Modes, instance : Nat, handoff : Nat, reason : BOOLEAN]

Messages ==
  [from : Windows, kind : Kinds, instance : Nat, handoff : Nat, id : Nat, text : Drafts,
   ok : BOOLEAN, checked : BOOLEAN]

Runtimes ==
  [phase : Phases, mode : Modes, instance : Nat, handoff : Nat, view : BOOLEAN,
   transfer : Nat, acked : BOOLEAN, handle : BOOLEAN, authorized : BOOLEAN,
   failed : BOOLEAN, observing : BOOLEAN, reason : BOOLEAN, rev : Nat]

Mains ==
  [st : Snapshots, frozen : BOOLEAN, draft : Drafts, core : Nat, lastAction : Nat,
   lastOk : BOOLEAN, settling : Nat, inHandoff : Nat, inAck : {"none", "ok", "refused"},
   claimed : Messages, transfer : Nat, payload : Drafts, attempts : Nat,
   settled : BOOLEAN, cleared : Nat, closing : Nat,
   undock : {"none", "opening", "opened"}, held : BOOLEAN, dock : BOOLEAN]

Sats ==
  [boot : {"calling", "answering", "up", "failed"}, instance : Nat, st : Snapshots,
   frozen : BOOLEAN, draft : Drafts, installed : BOOLEAN, view : BOOLEAN,
   deferred : Messages, nextId : Nat, blocked : BOOLEAN, action : Nat, text : Drafts,
   attempts : Nat, armed : BOOLEAN, handoff : Nat, transfer : Nat,
   stage : {"none", "draining", "posted", "settled"}, payload : Drafts, posted : Nat,
   due : BOOLEAN, sends : Nat, redock : Nat, confirm : Nat, refused : BOOLEAN]

OpenPcs == {"idle", "called", "creating", "published", "added", "accepted", "refused"}

HostTypeOK ==
  /\ go \in Runtimes
  /\ seqs \in [instance : Nat, handoff : Nat, stalls : Nat]
  /\ open \in [pc : OpenPcs, instance : Nat]
  /\ win \in [shown : {"none", "added", "run"}, closing : BOOLEAN]

ChannelsTypeOK ==
  /\ news \in [Windows -> SUBSET Snapshots]
  /\ posts \in SUBSET Messages
  /\ relayed \in [Windows -> Seq(Messages)]

WindowTypeOK ==
  /\ HostTypeOK /\ ChannelsTypeOK
  /\ main \in Mains /\ sat \in Sats
  /\ typed \in Drafts /\ sent \in [Texts -> Nat]

(***************************************************************************)
(* The operators keep the types.                                           *)
(***************************************************************************)
\* The composer may be empty.
LEMMA EmptyDraft == 0 \in Drafts
BY BoundsAssumption DEF Drafts

\* A message has the type of messages.
LEMMA MessageType ==
  ASSUME NEW from \in Windows, NEW kind \in Kinds, NEW instance \in Nat, NEW handoff \in Nat,
         NEW id \in Nat, NEW text \in Drafts, NEW ok \in BOOLEAN
  PROVE  Message(from, kind, instance, handoff, id, text, ok) \in Messages
BY DEF Message, Messages

\* The host publishes snapshots.
LEMMA SnapshotType ==
  ASSUME NEW g \in Runtimes
  PROVE  /\ Snapshot(g) \in Snapshots
         /\ Snapshot(g).rev = g.rev /\ Snapshot(g).phase = g.phase /\ Snapshot(g).mode = g.mode
         /\ Snapshot(g).instance = g.instance /\ Snapshot(g).handoff = g.handoff
BY DEF Snapshot, Snapshots, Runtimes

\* The closed runtime, and a retired one.
LEMMA RetiredType ==
  ASSUME NEW g \in Runtimes
  PROVE  /\ ClosedRuntime \in Runtimes
         /\ Retired(g) \in Runtimes
         /\ Retired(g) = [ClosedRuntime EXCEPT !.rev = g.rev, !.reason = g.reason]
         /\ Retired(g).rev = g.rev
BY DEF Retired, ClosedRuntime, Runtimes, Phases, Modes

\* What a later step of a window may change of it without a change of the
\* text, of the Sends and of the state it has seen.
SatKept(w, r) ==
  /\ r.instance = w.instance /\ r.st = w.st /\ r.draft = w.draft
  /\ r.installed = w.installed
  /\ r.action = w.action /\ r.text = w.text /\ r.handoff = w.handoff
  /\ r.nextId >= w.nextId
  /\ (r.stage = w.stage /\ r.payload = w.payload) \/ r.stage \in {"none", "settled"}
  /\ r.boot = "up" => w.boot = "up"
  /\ r.frozen \/ r.st.phase = "ready"

SatSame(w, r) == SatKept(w, r) /\ r.deferred = w.deferred

\* The barrier decides of frozen only.
LEMMA BarrierFields ==
  ASSUME NEW w \in Sats
  PROVE  /\ Barrier(w) \in Sats
         /\ SatSame(w, Barrier(w))
         /\ Barrier(w).stage = w.stage /\ Barrier(w).payload = w.payload
         /\ Barrier(w).boot = w.boot /\ Barrier(w).nextId = w.nextId
<1>1. PICK v : v = Barrier(w)
  OBVIOUS
<1>2. \/ v = [w EXCEPT !.frozen = TRUE]
      \/ v = [w EXCEPT !.frozen = FALSE] /\ w.st.phase = "ready"
  BY <1>1 DEF Barrier
<1>3. v \in Sats
  <2>1. CASE v = [w EXCEPT !.frozen = TRUE]
    BY <2>1 DEF Sats
  <2>2. CASE v = [w EXCEPT !.frozen = FALSE]
    BY <2>2 DEF Sats
  <2> QED BY <1>2, <2>1, <2>2
<1>4. /\ v.instance = w.instance /\ v.st = w.st /\ v.draft = w.draft
      /\ v.installed = w.installed /\ v.deferred = w.deferred
      /\ v.action = w.action /\ v.text = w.text /\ v.handoff = w.handoff
      /\ v.stage = w.stage /\ v.payload = w.payload
      /\ v.boot = w.boot /\ v.nextId = w.nextId
  BY <1>2 DEF Sats
<1>5. v.frozen \/ w.st.phase = "ready"
  BY <1>2 DEF Sats
<1>6. w.nextId \in Nat
  BY DEF Sats
<1>7. SatSame(w, v)
  BY <1>4, <1>5, <1>6 DEF SatSame, SatKept
<1> QED BY <1>1, <1>3, <1>4, <1>7

\* What a lifted handoff leaves.
LEMMA LiftedFields ==
  ASSUME NEW w \in Sats, NEW h \in Nat, w.frozen \/ w.st.phase = "ready"
  PROVE  /\ Lifted(w, h) \in Sats
         /\ SatSame(w, Lifted(w, h))
<1>1. CASE w.handoff # h
  BY <1>1 DEF Lifted, SatSame, SatKept, Sats
<1>2. CASE w.handoff = h
  <2>1. PICK r \in Nat :
          Lifted(w, h) = [w EXCEPT !.blocked = FALSE, !.payload = 0, !.stage = "settled",
                                   !.posted = 0, !.due = FALSE, !.redock = r]
    BY <1>2 DEF Lifted, Sats
  <2>2. [w EXCEPT !.blocked = FALSE, !.payload = 0, !.stage = "settled",
                  !.posted = 0, !.due = FALSE, !.redock = r] \in Sats
    BY EmptyDraft DEF Sats
  <2> QED BY <2>1, <2>2 DEF SatSame, SatKept, Sats
<1> QED BY <1>1, <1>2

\* A sequence of such steps is one.
LEMMA SameTransitive ==
  ASSUME NEW w \in Sats, NEW v \in Sats, NEW r \in Sats, SatSame(w, v), SatSame(v, r)
  PROVE  SatSame(w, r)
BY DEF SatSame, SatKept, Sats

\* What a failed handoff leaves.
LEMMA FailedFields ==
  ASSUME NEW w \in Sats, NEW h \in Nat, w.frozen \/ w.st.phase = "ready"
  PROVE  Failed(w, h) \in Sats /\ SatSame(w, Failed(w, h))
<1>1. PICK l : l = Lifted(w, h)
  OBVIOUS
<1>2. PICK v : v = [l EXCEPT !.redock = IF @ = h THEN 0 ELSE @]
  OBVIOUS
<1>3. Failed(w, h) = Barrier(v)
  BY <1>1, <1>2 DEF Failed
<1>4. l \in Sats /\ SatSame(w, l)
  BY <1>1, LiftedFields
<1>5. PICK r \in Nat : v = [l EXCEPT !.redock = r]
  BY <1>2, <1>4 DEF Sats
<1>6. v \in Sats /\ SatSame(l, v)
  BY <1>4, <1>5 DEF Sats, SatSame, SatKept
<1>7. Barrier(v) \in Sats /\ SatSame(v, Barrier(v))
  BY <1>6, BarrierFields
<1>8. SatSame(w, Barrier(v))
  BY <1>4, <1>6, <1>7, SameTransitive
<1> QED BY <1>3, <1>7, <1>8

\* What the window is after it has installed a state: its handoff goes on, is
\* over, or begins.
SatMoved(w, s, r) ==
  /\ r.boot = w.boot /\ r.instance = w.instance /\ r.st = s /\ r.draft = w.draft
  /\ r.installed = w.installed /\ r.deferred = w.deferred
  /\ r.action = w.action /\ r.text = w.text /\ r.nextId >= w.nextId
  /\ r.frozen \/ s.phase = "ready"
  /\ \/ r.handoff = w.handoff /\ r.stage = w.stage /\ r.payload = w.payload
     \/ r.handoff = w.handoff /\ r.stage \in {"none", "settled"}
     \/ /\ r.handoff = s.handoff /\ r.stage = "draining"
        /\ s.phase = "closing" /\ s.mode = "undocked"

LEMMA InstalledFields ==
  ASSUME NEW w \in Sats, NEW s \in Snapshots
  PROVE  /\ SatelliteInstalled(w, s) \in Sats
         /\ SatMoved(w, s, SatelliteInstalled(w, s))
<1>1. PICK seen : seen = [w EXCEPT !.st = s]
  OBVIOUS
<1>2. PICK back : back = IF (w.instance # 0 /\ s.instance = w.instance) /\ s.phase = "ready"
                            /\ w.redock = s.handoff
                         THEN Lifted(seen, s.handoff) ELSE seen
  OBVIOUS
<1>3. PICK v : v = Barrier(back)
  OBVIOUS
<1> DEFINE Kept(r) ==
         /\ r \in Sats
         /\ r.boot = w.boot /\ r.instance = w.instance /\ r.st = s /\ r.draft = w.draft
         /\ r.installed = w.installed /\ r.deferred = w.deferred
         /\ r.action = w.action /\ r.text = w.text /\ r.nextId = w.nextId
         /\ r.handoff = w.handoff
         /\ \/ r.stage = w.stage /\ r.payload = w.payload
            \/ r.stage \in {"none", "settled"}
           Begun(r) ==
         /\ r \in Sats
         /\ r.boot = w.boot /\ r.instance = w.instance /\ r.st = s /\ r.draft = w.draft
         /\ r.installed = w.installed /\ r.deferred = w.deferred
         /\ r.action = w.action /\ r.text = w.text /\ r.nextId >= w.nextId
         /\ r.frozen /\ r.handoff = s.handoff /\ r.stage = "draining"
           begins == /\ w.instance # 0 /\ s.instance = w.instance
                     /\ s.phase = "closing" /\ s.mode = "undocked" /\ w.redock # s.handoff
<1>4. s.handoff \in Nat /\ w.nextId \in Nat /\ Kept(seen)
  BY <1>1 DEF Sats, Snapshots
<1>5. Kept(back)
  <2>1. CASE back = seen
    BY <1>4, <2>1
  <2>2. CASE back # seen
    <3>1. PICK r \in Nat :
            back = [seen EXCEPT !.blocked = FALSE, !.payload = 0, !.stage = "settled",
                                !.posted = 0, !.due = FALSE, !.redock = r]
      BY <1>2, <1>4, <2>2 DEF Lifted, Sats
    <3>2. back \in Sats
      BY <1>4, <3>1, EmptyDraft DEF Sats
    <3> QED BY <1>4, <3>1, <3>2 DEF Sats
  <2> QED BY <2>1, <2>2
<1>6. Kept(v) /\ (v.frozen \/ s.phase = "ready")
  <2>1. /\ v \in Sats /\ SatSame(back, v) /\ v.boot = back.boot /\ v.nextId = back.nextId
        /\ v.stage = back.stage /\ v.payload = back.payload
    BY <1>3, <1>5, BarrierFields
  <2> QED BY <1>5, <2>1 DEF SatSame, SatKept
<1>7. SatelliteInstalled(w, s) = IF begins THEN HandoffBegun(v, s.handoff) ELSE v
  BY <1>1, <1>2, <1>3 DEF SatelliteInstalled
<1>8. CASE begins
  <2>1. PICK r : r = HandoffBegun(v, s.handoff)
    OBVIOUS
  <2>2. PICK n \in Nat : n = v.nextId + 1
    BY <1>6 DEF Sats
  <2>3. r = [v EXCEPT !.frozen = TRUE, !.blocked = TRUE, !.redock = s.handoff,
                      !.handoff = s.handoff, !.nextId = n, !.transfer = n,
                      !.stage = "draining", !.payload = 0, !.due = FALSE]
    BY <1>6, <2>1, <2>2 DEF HandoffBegun, Sats
  <2>4. PICK h \in Nat : h = s.handoff
    BY <1>4
  <2>5. r = [v EXCEPT !.frozen = TRUE, !.blocked = TRUE, !.redock = h,
                      !.handoff = h, !.nextId = n, !.transfer = n,
                      !.stage = "draining", !.payload = 0, !.due = FALSE]
    BY <2>3, <2>4
  <2>6. r \in Sats
    BY <1>6, <2>5, EmptyDraft DEF Sats
  <2>7. /\ r.boot = w.boot /\ r.instance = w.instance /\ r.st = s /\ r.draft = w.draft
        /\ r.installed = w.installed /\ r.deferred = w.deferred
        /\ r.action = w.action /\ r.text = w.text /\ r.nextId = n
        /\ r.frozen /\ r.handoff = s.handoff /\ r.stage = "draining"
    BY <1>6, <2>3 DEF Sats
  <2>8. n >= w.nextId
    BY <1>4, <1>6, <2>2
  <2>9. Begun(r)
    BY <2>6, <2>7, <2>8
  <2> QED BY <1>7, <1>8, <2>1, <2>9 DEF SatMoved
<1>9. CASE ~begins
  BY <1>4, <1>6, <1>7, <1>9 DEF SatMoved
<1> QED BY <1>8, <1>9

\* The main window keeps its composer unless the Golem window is ready, its core
\* while the instance is the same, and its transfer unless one begins or ends.
MainMoved(m, s, r) ==
  /\ r.st = s /\ (s.phase # "closed" => r.frozen)
  /\ r.draft = m.draft \/ s.phase = "ready"
  /\ r.core = IF s.phase = "closed" THEN 0 ELSE s.instance
  /\ \/ /\ r.core = m.core
        /\ r.lastAction = m.lastAction /\ r.lastOk = m.lastOk /\ r.settling = m.settling
        /\ r.inHandoff = m.inHandoff /\ r.inAck = m.inAck /\ r.claimed = m.claimed
     \/ /\ r.core # m.core
        /\ r.lastAction = 0 /\ r.settling = 0 /\ r.inHandoff = 0 /\ r.inAck = "none"
        /\ r.claimed = NoMessage
  /\ \/ /\ s.phase = "bootstrapped" /\ r.transfer = s.handoff /\ r.payload = m.draft
        /\ ~r.settled
     \/ /\ ~StartsTransfer(m, s)
        /\ r.transfer = m.transfer
        /\ r.settled \/ (~m.settled /\ r.payload = m.payload)

LEMMA NoMessageType == NoMessage \in Messages
BY EmptyDraft, MessageType DEF NoMessage, Windows, Kinds

\* The fields an installed state gives, in two steps.
Shown(m, st, frozen, draft, cleared, transfer, attempts) ==
  [m EXCEPT !.st = st, !.frozen = frozen, !.draft = draft, !.cleared = cleared,
            !.transfer = transfer, !.attempts = attempts]

Settled(m, payload, settled, closing, dock, undock, held) ==
  [m EXCEPT !.payload = payload, !.settled = settled, !.closing = closing,
            !.dock = dock, !.undock = undock, !.held = held]

SameCore(m, r) ==
  /\ r.core = m.core /\ r.lastAction = m.lastAction /\ r.lastOk = m.lastOk
  /\ r.settling = m.settling /\ r.inHandoff = m.inHandoff
  /\ r.inAck = m.inAck /\ r.claimed = m.claimed

LEMMA ShownFields ==
  ASSUME NEW m \in Mains, NEW st \in Snapshots, NEW frozen \in BOOLEAN, NEW draft \in Drafts,
         NEW cleared \in Nat, NEW transfer \in Nat, NEW attempts \in Nat
  PROVE  LET r == Shown(m, st, frozen, draft, cleared, transfer, attempts) IN
         /\ r \in Mains
         /\ r.st = st /\ r.frozen = frozen /\ r.draft = draft /\ r.transfer = transfer
         /\ SameCore(m, r)
<1> DEFINE r == Shown(m, st, frozen, draft, cleared, transfer, attempts)
<1>1. r \in Mains
  BY DEF Mains, Shown
<1>2. r.st = st /\ r.frozen = frozen /\ r.draft = draft /\ r.transfer = transfer
  BY DEF Mains, Shown
<1>3. SameCore(m, r)
  BY DEF Mains, Shown, SameCore
<1> QED BY <1>1, <1>2, <1>3

LEMMA MainInstalledFields ==
  ASSUME NEW m \in Mains, NEW s \in Snapshots
  PROVE  MainInstalled(m, s) \in Mains /\ MainMoved(m, s, MainInstalled(m, s))
<1> DEFINE bound == BoundTo(m, s)
           r == MainInstalled(m, s)
<1>1. bound = BoundTo(m, s)
  OBVIOUS
<1> HIDE DEF bound, r
<1>2. PICK core \in Nat : core = IF s.phase = "closed" THEN 0 ELSE s.instance
  BY DEF Snapshots
<1> DEFINE Kept ==
      /\ bound.core = m.core
      /\ bound.lastAction = m.lastAction /\ bound.lastOk = m.lastOk
      /\ bound.settling = m.settling /\ bound.inHandoff = m.inHandoff
      /\ bound.inAck = m.inAck /\ bound.claimed = m.claimed
           Fresh ==
      /\ bound.core # m.core
      /\ bound.lastAction = 0 /\ bound.settling = 0 /\ bound.inHandoff = 0
      /\ bound.inAck = "none" /\ bound.claimed = NoMessage
<1>3. /\ bound \in Mains /\ bound.core = core /\ (Kept \/ Fresh)
      /\ bound.draft = m.draft /\ bound.transfer = m.transfer /\ bound.payload = m.payload
      /\ bound.settled = m.settled /\ bound.dock = m.dock /\ bound.attempts = m.attempts
      /\ bound.cleared = m.cleared /\ bound.closing = m.closing /\ bound.undock = m.undock
      /\ bound.held = m.held
  <2>1. CASE m.core = core
    BY <1>1, <1>2, <2>1 DEF BoundTo
  <2>2. CASE m.core # core
    <3>1. bound = [m EXCEPT !.core = core, !.lastAction = 0, !.lastOk = FALSE, !.settling = 0,
                            !.inHandoff = 0, !.inAck = "none", !.claimed = NoMessage]
      BY <1>1, <1>2, <2>2 DEF BoundTo
    <3>2. bound \in Mains
      BY <3>1, NoMessageType DEF Mains
    <3> QED BY <2>2, <3>1, <3>2 DEF Mains
  <2> QED BY <2>1, <2>2
<1> DEFINE starts == StartsTransfer(m, s)
           ready == s.phase = "ready"
           closed == s.phase = "closed"
<1> DEFINE frozen == ~closed
           draft == IF ready /\ m.cleared # s.instance THEN 0 ELSE bound.draft
           cleared == IF ready THEN s.instance ELSE bound.cleared
           transfer == IF starts THEN s.handoff ELSE bound.transfer
           attempts == IF starts THEN 1 ELSE IF ready \/ closed THEN 0 ELSE bound.attempts
           payload == IF starts THEN m.draft ELSE IF ready \/ closed THEN 0 ELSE bound.payload
           settled == IF starts THEN FALSE ELSE bound.settled \/ ready \/ closed
           returned == ready /\ m.closing = s.instance
           stalled == /\ s.phase = "closing" /\ s.reason /\ m.st.phase = "closing"
                      /\ m.st.instance = s.instance /\ m.closing = s.instance
           opening == m.undock = "opening"
           closing == IF s.phase = "closing" THEN s.instance
                      ELSE IF returned \/ closed THEN 0 ELSE bound.closing
           dock == bound.dock /\ ~(stalled \/ returned \/ closed)
           undock == IF ready \/ (closed /\ ~opening) THEN "none" ELSE bound.undock
           held == (bound.held \/ closed) /\ opening /\ ~ready
           first == Shown(bound, s, frozen, draft, cleared, transfer, attempts)
<1>4. r = Settled(first, payload, settled, closing, dock, undock, held)
  BY DEF MainInstalled, bound, r, Shown, Settled
<1>5. s \in Snapshots /\ bound \in Mains
  BY <1>3
<1> HIDE DEF first
<1>6. /\ frozen \in BOOLEAN /\ draft \in Drafts /\ cleared \in Nat /\ transfer \in Nat
       /\ attempts \in Nat /\ payload \in Drafts /\ settled \in BOOLEAN /\ closing \in Nat
       /\ dock \in BOOLEAN /\ undock \in {"none", "opening", "opened"} /\ held \in BOOLEAN
  <2>1. frozen \in BOOLEAN /\ settled \in BOOLEAN /\ dock \in BOOLEAN /\ held \in BOOLEAN
    BY <1>3 DEF Mains
  <2>2. draft \in Drafts /\ payload \in Drafts
    BY <1>3, EmptyDraft DEF Mains
  <2>3. cleared \in Nat /\ transfer \in Nat /\ attempts \in Nat /\ closing \in Nat
    BY <1>3 DEF Mains, Snapshots
  <2>4. undock \in {"none", "opening", "opened"}
    BY <1>3 DEF Mains
  <2> QED BY <2>1, <2>2, <2>3, <2>4
<1>7. /\ draft = m.draft \/ ready
      /\ starts => transfer = s.handoff /\ payload = m.draft /\ ~settled
      /\ ~starts => transfer = m.transfer
      /\ ~starts => settled \/ (~m.settled /\ payload = m.payload)
      /\ frozen = ~closed
  BY <1>3 DEF Mains
<1> HIDE DEF frozen, draft, cleared, transfer, attempts, payload, settled, closing, dock,
             undock, held
<1> HIDE DEF starts, Kept, Fresh, ready, closed, stalled, returned, opening
<1>8. /\ first \in Mains
      /\ first.st = s /\ first.frozen = frozen /\ first.draft = draft
      /\ first.transfer = transfer
      /\ SameCore(bound, first)
  BY <1>5, <1>6, ShownFields DEF first
<1>9. /\ r \in Mains
      /\ r.st = s /\ r.frozen = frozen /\ r.draft = draft /\ r.transfer = transfer
      /\ r.payload = payload /\ r.settled = settled
      /\ SameCore(bound, r)
  <2>1. first \in Mains
    BY <1>8
  <2> DEFINE e == Settled(first, payload, settled, closing, dock, undock, held)
  <2>2. e \in Mains
    BY <1>6, <2>1 DEF Mains, Settled
  <2>3. /\ e.st = first.st /\ e.frozen = first.frozen /\ e.draft = first.draft
        /\ e.transfer = first.transfer /\ e.payload = payload /\ e.settled = settled
    BY <1>6, <2>1 DEF Mains, Settled
  <2>4. SameCore(first, e)
    BY <1>6, <2>1 DEF Mains, Settled, SameCore
  <2> HIDE DEF e
  <2>5. r = e
    BY <1>4 DEF e
  <2>6. SameCore(bound, r)
    BY <1>8, <2>4, <2>5 DEF SameCore
  <2> QED BY <1>8, <2>2, <2>3, <2>5, <2>6
<1>10. r.core = IF closed THEN 0 ELSE s.instance
  BY <1>2, <1>3, <1>9 DEF SameCore, closed
<1>11. \/ r.core = m.core /\ SameCore(m, r)
       \/ /\ r.core # m.core
          /\ r.lastAction = 0 /\ r.settling = 0 /\ r.inHandoff = 0 /\ r.inAck = "none"
          /\ r.claimed = NoMessage
  BY <1>3, <1>9 DEF SameCore, Kept, Fresh
<1>12. /\ ~closed => r.frozen
       /\ r.draft = m.draft \/ ready
  BY <1>7, <1>9
<1>13. \/ s.phase = "bootstrapped" /\ r.transfer = s.handoff /\ r.payload = m.draft /\ ~r.settled
       \/ ~starts /\ r.transfer = m.transfer /\ (r.settled \/ (~m.settled /\ r.payload = m.payload))
  BY <1>7, <1>9 DEF StartsTransfer, starts
<1>14. MainMoved(m, s, r)
  BY <1>9, <1>10, <1>11, <1>12, <1>13 DEF MainMoved, SameCore, starts, closed, ready
<1> QED BY <1>9, <1>14 DEF r

(***************************************************************************)
(* Every step keeps the types.                                             *)
(***************************************************************************)
\* What the host publishes has the types of the runtime and of the channel.
LEMMA PublishType ==
  ASSUME HostTypeOK, ChannelsTypeOK, NEW g \in Runtimes, Publish(g)
  PROVE  /\ go' \in Runtimes /\ news' \in [Windows -> SUBSET Snapshots]
         /\ go' = [g EXCEPT !.rev = g.rev + 1]
         /\ news'["main"] = news["main"] \cup {Snapshot(go')}
         /\ news'["satellite"] = IF win.shown = "run"
                                 THEN news["satellite"] \cup {Snapshot(go')} ELSE {}
<1>1. PICK r \in Nat : r = g.rev + 1
  BY DEF Runtimes
<1>2. go' = [g EXCEPT !.rev = r]
  BY <1>1 DEF Publish, Runtimes
<1>3. go' \in Runtimes
  BY <1>2 DEF Runtimes
<1>4. Snapshot(go') \in Snapshots
  BY <1>3, SnapshotType
<1>5. news' = [w \in Windows |->
         IF w = "main" \/ win.shown = "run" THEN news[w] \cup {Snapshot(go')} ELSE {}]
  BY DEF Publish
<1>6. news' \in [Windows -> SUBSET Snapshots]
  BY <1>4, <1>5 DEF ChannelsTypeOK
<1>7. /\ news'["main"] = news["main"] \cup {Snapshot(go')}
      /\ news'["satellite"] = IF win.shown = "run"
                              THEN news["satellite"] \cup {Snapshot(go')} ELSE {}
  BY <1>5 DEF Windows
<1> QED BY <1>1, <1>2, <1>3, <1>6, <1>7

\* Messages added to the posts.
LEMMA PostType ==
  ASSUME ChannelsTypeOK, NEW ms \in SUBSET Messages, Post(ms)
  PROVE  posts' \in SUBSET Messages /\ posts' = posts \cup ms
BY DEF ChannelsTypeOK, Post

\* The fields of the records.
LEMMA GoFields ==
  ASSUME go \in Runtimes
  PROVE  /\ go.phase \in Phases /\ go.mode \in Modes /\ go.instance \in Nat
         /\ go.handoff \in Nat /\ go.view \in BOOLEAN /\ go.transfer \in Nat
         /\ go.acked \in BOOLEAN /\ go.handle \in BOOLEAN /\ go.authorized \in BOOLEAN
         /\ go.failed \in BOOLEAN /\ go.observing \in BOOLEAN /\ go.reason \in BOOLEAN
         /\ go.rev \in Nat
BY DEF Runtimes

LEMMA MessageFields ==
  ASSUME NEW m \in Messages
  PROVE  /\ m.from \in Windows /\ m.kind \in Kinds /\ m.instance \in Nat
         /\ m.handoff \in Nat /\ m.id \in Nat /\ m.text \in Drafts /\ m.ok \in BOOLEAN
         /\ m.checked \in BOOLEAN
BY DEF Messages

LEMMA SnapshotFields ==
  ASSUME NEW s \in Snapshots
  PROVE  /\ s.rev \in Nat /\ s.phase \in Phases /\ s.mode \in Modes
         /\ s.instance \in Nat /\ s.handoff \in Nat /\ s.reason \in BOOLEAN
BY DEF Snapshots

LEMMA MainFields ==
  ASSUME NEW m \in Mains
  PROVE  /\ m.st \in Snapshots /\ m.frozen \in BOOLEAN /\ m.draft \in Drafts
         /\ m.core \in Nat /\ m.lastAction \in Nat /\ m.lastOk \in BOOLEAN
         /\ m.settling \in Nat /\ m.inHandoff \in Nat /\ m.inAck \in {"none", "ok", "refused"}
         /\ m.claimed \in Messages /\ m.transfer \in Nat /\ m.payload \in Drafts
         /\ m.attempts \in Nat /\ m.settled \in BOOLEAN
BY DEF Mains

LEMMA SatFields ==
  ASSUME NEW w \in Sats
  PROVE  /\ w.boot \in {"calling", "answering", "up", "failed"} /\ w.instance \in Nat
         /\ w.st \in Snapshots /\ w.frozen \in BOOLEAN /\ w.draft \in Drafts
         /\ w.installed \in BOOLEAN /\ w.view \in BOOLEAN /\ w.deferred \in Messages
         /\ w.nextId \in Nat /\ w.action \in Nat /\ w.text \in Drafts /\ w.handoff \in Nat
         /\ w.transfer \in Nat /\ w.payload \in Drafts /\ w.confirm \in Nat
         /\ w.attempts \in Nat /\ w.posted \in Nat /\ w.sends \in Nat
         /\ w.stage \in {"none", "draining", "posted", "settled"}
BY DEF Sats

(***************************************************************************)
(* The invariant.                                                          *)
(***************************************************************************)
Running == win.shown = "run"
Undocked == go.mode = "undocked"
Leaving == Undocked /\ go.phase = "closing"
Adding == open.pc \in {"creating", "published", "added"}

\* The host: an instance is the last one reserved, and so is its transition.
HostFits ==
  /\ go.phase = "closed" => go.instance = 0 /\ go.handoff = 0
  /\ go.phase # "closed" => /\ go.instance = seqs.instance /\ go.handoff = seqs.handoff
                            /\ go.instance # 0 /\ go.handoff # 0
  /\ Undocked => go.phase \in {"ready", "closing"} /\ go.handle
  /\ go.phase = "ready" => Undocked
  /\ go.phase = "closing" /\ ~Undocked => go.authorized
  /\ go.authorized => go.phase = "closing"
  /\ go.observing => go.authorized
  /\ go.phase = "bootstrapped" => Running
  /\ Running => go.handle /\ go.instance = open.instance /\ go.phase # "closed"
  /\ win.closing => Running /\ go.authorized
  /\ Undocked /\ ~go.authorized => Running
  /\ Adding => /\ ~Running /\ ~Undocked
                /\ open.instance # 0 /\ go.instance \in {0, open.instance}
  /\ open.pc = "creating" /\ go.instance = open.instance =>
       go.phase = "bootstrapping" /\ ~go.handle
  /\ open.pc \in {"published", "added"} /\ go.instance = open.instance => go.handle

\* A window that is not run has heard and installed nothing.
SatFresh == ~Running => ~sat.installed /\ news["satellite"] = {}

\* The states a window has installed or will.
SeenBy(w) == news[w] \cup {IF w = "main" THEN main.st ELSE sat.st}

SnapshotFits(s) ==
  /\ s.instance <= seqs.instance /\ s.handoff <= seqs.handoff /\ s.rev <= go.rev
  /\ (s.phase = "closed") <=> (s.instance = 0)
  /\ s.phase # "closed" => s.handoff # 0
  /\ s.phase = "ready" => s.mode = "undocked"
  /\ s.handoff = go.handoff /\ s.handoff # 0 => s.instance = go.instance

SnapshotsFit == \A w \in Windows : \A s \in SeenBy(w) : SnapshotFits(s)

MainInOrder == \A s \in news["main"] : s.rev > main.st.rev

\* Nothing published before the current instance comes after a state of it, and
\* the states of an instance are not interrupted.
CurrentLast ==
  \A s, t \in SeenBy("main") :
    s.instance = go.instance /\ go.instance # 0 /\ t.rev > s.rev => t.instance = go.instance

Contiguous ==
  \A s, t, u \in SeenBy("main") :
    s.rev < t.rev /\ t.rev < u.rev /\ s.instance = u.instance /\ s.instance # 0
      => t.instance = s.instance

\* Nobody who has seen the move back begin will see the Golem window ready.
NoWayBack ==
  Leaving =>
    \A w \in Windows : \A s, t \in SeenBy(w) :
      s.phase = "closing" /\ s.handoff = go.handoff /\ t.rev >= s.rev => t.phase # "ready"

MainFollows ==
  /\ Undocked => main.st.instance = go.instance
  /\ ~Undocked => \A s \in news["main"] : s.phase # "ready"

SatFollows ==
  Running => \A s \in SeenBy("satellite") :
               /\ s.mode = "undocked" => Undocked
               /\ go.phase \in Opening => s.handoff \in {0, go.handoff}

StatesFit ==
  /\ SnapshotsFit /\ MainInOrder /\ CurrentLast /\ Contiguous /\ NoWayBack
  /\ MainFollows /\ SatFollows

\* The main window: its core, the map it has claimed, the map it sends.
MainFits ==
  /\ main.core = main.st.instance
  /\ main.st.phase # "closed" => main.frozen
  /\ main.inHandoff <= seqs.handoff /\ main.transfer <= seqs.handoff
  /\ main.claimed # NoMessage =>
       /\ main.inAck = "none" /\ main.claimed.handoff = main.inHandoff
       /\ main.claimed.kind = "drafts" /\ main.claimed.instance = main.core
  /\ main.settling # 0 => main.settling = main.lastAction
  /\ ~main.settled => main.transfer # 0
  /\ ~main.settled /\ main.transfer = go.handoff /\ go.phase \in Opening =>
       main.payload = main.draft /\ main.core = go.instance
  /\ main.core = 0 \/ (main.core = go.instance /\ ~Undocked) => main.lastAction = 0
  /\ main.core = go.instance /\ Running => main.lastAction <= sat.nextId
  /\ ~Undocked => main.claimed = NoMessage

\* The Golem window: the Send it waits for, the map it moves back, the map it
\* has got.
SatFits ==
  /\ sat.frozen \/ sat.st.phase = "ready"
  /\ Running /\ sat.boot = "up" => sat.instance = go.instance
  /\ sat.action # 0 =>
       /\ Undocked /\ Running /\ sat.instance = go.instance
       /\ sat.text = sat.draft /\ sat.draft # 0
       /\ main.lastAction <= sat.action /\ sat.action <= sat.nextId
  /\ sat.stage \in {"draining", "posted"} => Undocked /\ Running /\ sat.handoff # 0
  /\ sat.handoff <= seqs.handoff
  /\ sat.deferred # NoMessage =>
       /\ sat.deferred.kind = "drafts" /\ sat.deferred.instance = go.instance /\ Running
       /\ go.phase \in Opening => sat.deferred.handoff = go.handoff
  /\ Running /\ Undocked => sat.installed
  /\ Running /\ sat.installed /\ go.phase \in Opening =>
       sat.draft = main.draft /\ main.core = go.instance

\* The messages on their way to a window, and the one it has set aside.
Queued(w) == {relayed[w][i] : i \in DOMAIN relayed[w]}

ToMain ==
  {m \in posts : m.from = "satellite"} \cup Queued("main") \cup ({main.claimed} \ {NoMessage})

ToSatellite ==
  {m \in posts : m.from = "main"} \cup Queued("satellite") \cup ({sat.deferred} \ {NoMessage})

\* Main will not have a core for the instance again.
Gone(k) == k # go.instance /\ \A s \in SeenBy("main") : s.instance # k

\* The Golem window has no Send under way and will not accept typing.
Quiesced == sat.action = 0 /\ \A s \in SeenBy("satellite") : s.phase # "ready"

ForMain(m) ==
  /\ m.kind \in {"action", "drafts", "ready", "abort"}
  /\ m.kind # "abort" => m.instance <= seqs.instance /\ m.handoff <= seqs.handoff
  /\ m.kind \in {"action", "drafts"} =>
       /\ m.instance # 0 /\ (m.instance = main.core \/ Gone(m.instance))
       /\ m.instance = go.instance => Undocked
  /\ m.kind = "drafts" =>
       /\ m.handoff # 0
       /\ ~Undocked /\ m.instance = main.core => m.handoff <= main.inHandoff
       /\ Leaving /\ m.instance = go.instance /\ m.handoff = go.handoff =>
            Quiesced /\ m.text = sat.draft
  /\ m.kind = "action" =>
       /\ m.id # 0
       /\ m.instance = main.core /\ m.id > main.lastAction =>
            m.instance = go.instance /\ sat.action = m.id /\ sat.text = m.text
  /\ m.kind = "ready" /\ m.instance = go.instance /\ go.phase \in Opening => sat.installed

ForSatellite(m) ==
  /\ m.kind \in {"view", "drafts", "ack", "abort"}
  /\ m.kind \in {"drafts", "ack"} => m.instance <= seqs.instance /\ m.handoff <= seqs.handoff
  /\ m.kind = "drafts" =>
       /\ m.handoff # 0
       /\ m.instance = go.instance /\ m.handoff = go.handoff /\ go.phase \in Opening =>
            m.text = main.draft /\ main.core = go.instance
  /\ m.kind = "ack" /\ m.handoff = 0 =>
       /\ m.id # 0 /\ m.instance # 0
       /\ m.instance = go.instance =>
            /\ main.core = go.instance /\ m.id <= main.lastAction
            /\ m.id = main.lastAction => m.ok = main.lastOk
  /\ m.kind = "ack" /\ m.handoff # 0 /\ m.instance = go.instance /\ m.handoff = go.handoff
       /\ Leaving /\ m.ok => main.inHandoff = go.handoff /\ main.inAck = "ok"

MessagesFit ==
  /\ \A m \in ToMain : ForMain(m)
  /\ \A m \in ToSatellite : ForSatellite(m)

\* The move back: once the map is on its way nothing changes it, and a close is
\* confirmed with the map installed.
MovesFit ==
  /\ Leaving /\ Running /\ sat.handoff = go.handoff =>
       /\ \A s \in SeenBy("satellite") : s.phase # "ready"
       /\ sat.stage = "posted" => sat.action = 0 /\ sat.payload = sat.draft
  /\ Leaving /\ main.inHandoff = go.handoff =>
       /\ \A s \in news["main"] : s.phase # "ready"
       /\ main.inAck = "ok" => Quiesced /\ main.draft = sat.draft
  /\ Leaving /\ (go.acked \/ go.authorized) => main.inHandoff = go.handoff /\ main.inAck = "ok"

WindowInv ==
  /\ WindowTypeOK /\ HostFits /\ SatFresh /\ StatesFit /\ MainFits /\ SatFits
  /\ MessagesFit /\ MovesFit

\* The texts in the composers have been typed and not been submitted.
TextFits ==
  /\ \A t \in Texts : t > typed => sent[t] = 0
  /\ ComposerText # 0 => ComposerText <= typed /\ sent[ComposerText] = 0

(***************************************************************************)
(* Steps that move nothing: the host stays with the window it has, and     *)
(* what the windows keep of the text, the Sends and the maps is the same.  *)
(***************************************************************************)
IsTold(s) ==
  /\ s.rev = go'.rev /\ s.phase = go'.phase /\ s.mode = go'.mode
  /\ s.instance = go'.instance /\ s.handoff = go'.handoff

\* What the host has published in a step, if anything.
Told ==
  /\ go'.rev = go.rev + 1
  /\ news'["main"] = news["main"] \cup {Snapshot(go')}
  /\ news'["satellite"] = IF Running THEN news["satellite"] \cup {Snapshot(go')} ELSE {}

Heard == Told \/ (news' = news /\ go'.rev = go.rev)

HeardOnly ==
  /\ go'.rev >= go.rev
  /\ \A s \in SeenBy("main")' :
       s \in Snapshots /\ (s \in SeenBy("main") \/ (IsTold(s) /\ go'.rev = go.rev + 1))
  /\ \A s \in news'["main"] : s \in news["main"] \/ (IsTold(s) /\ go'.rev = go.rev + 1)
  /\ \A s \in SeenBy("satellite")' :
       s \in Snapshots /\ (s \in SeenBy("satellite")
                             \/ (IsTold(s) /\ go'.rev = go.rev + 1 /\ Running))

\* Nothing else comes to the windows than what the host publishes.
LEMMA HeardFacts ==
  ASSUME WindowTypeOK, WindowTypeOK', main'.st = main.st, sat'.st = sat.st, Heard
  PROVE  HeardOnly
<1>1. go.rev \in Nat /\ go'.rev \in Nat
  BY DEF WindowTypeOK, HostTypeOK, Runtimes
<1>2. IsTold(Snapshot(go'))
  BY SnapshotType DEF WindowTypeOK, HostTypeOK, IsTold
<1>3. /\ news'["main"] \in SUBSET Snapshots /\ news'["satellite"] \in SUBSET Snapshots
      /\ main'.st \in Snapshots /\ sat'.st \in Snapshots
  BY MainFields, SatFields DEF WindowTypeOK, ChannelsTypeOK, Windows
<1>4. CASE Told
  BY <1>1, <1>2, <1>3, <1>4 DEF Told, HeardOnly, SeenBy
<1>5. CASE news' = news /\ go'.rev = go.rev
  BY <1>1, <1>3, <1>5 DEF HeardOnly, SeenBy
<1> QED BY <1>4, <1>5 DEF Heard

QuietMain ==
  /\ main'.st = main.st /\ main'.draft = main.draft /\ main'.core = main.core
  /\ main'.lastAction = main.lastAction /\ main'.lastOk = main.lastOk
  /\ main'.inHandoff = main.inHandoff /\ main'.inAck = main.inAck
  /\ main'.claimed = main.claimed
  /\ main'.transfer = main.transfer /\ main'.payload = main.payload
  /\ main'.settling \in {0, main.settling}
  /\ main'.settled \/ ~main.settled
  /\ main.st.phase # "closed" => main'.frozen

\* A map the Golem window may set aside.
Awaited(m) ==
  /\ m.kind = "drafts" /\ m.instance = go.instance /\ Running
  /\ go.phase \in Opening => m.handoff = go.handoff

QuietSat ==
  /\ SatKept(sat, sat')
  /\ sat'.deferred \in {NoMessage, sat.deferred} \/ Awaited(sat'.deferred)

\* Two posts of one message.
MessageLike(m, n) ==
  /\ n.kind = m.kind /\ n.instance = m.instance /\ n.handoff = m.handoff
  /\ n.id = m.id /\ n.text = m.text /\ n.ok = m.ok

\* Every message on its way was before the step, or fits after it.
MessagesHold ==
  /\ \A m \in ToMain' : ForMain(m)' \/ \E n \in ToMain : MessageLike(n, m)
  /\ \A m \in ToSatellite' : ForSatellite(m)' \/ \E n \in ToSatellite : MessageLike(n, m)

\* A copy of a message fits like the message.
LEMMA CopyFits ==
  ASSUME NEW m, NEW n, MessageLike(n, m)
  PROVE  (ForMain(n) => ForMain(m)) /\ (ForSatellite(n) => ForSatellite(m))
BY DEF MessageLike, ForMain, ForSatellite

\* If what fits before the step fits after it, all messages do.
LEMMA MessagesKept ==
  ASSUME MessagesFit, MessagesHold,
         \A m : ForMain(m) => ForMain(m)',
         \A m : ForSatellite(m) => ForSatellite(m)'
  PROVE  MessagesFit'
<1>1. ASSUME NEW m \in ToMain' PROVE ForMain(m)'
  BY <1>1, CopyFits DEF MessagesFit, MessagesHold
<1>2. ASSUME NEW m \in ToSatellite' PROVE ForSatellite(m)'
  BY <1>2, CopyFits DEF MessagesFit, MessagesHold
<1> QED BY <1>1, <1>2 DEF MessagesFit

SameSeqs == seqs'.instance = seqs.instance /\ seqs'.handoff = seqs.handoff

SamePlace ==
  /\ go'.mode = go.mode /\ go'.instance = go.instance /\ go'.handoff = go.handoff
  /\ Leaving' => Leaving
  /\ go'.phase \in Opening => go.phase \in Opening
  /\ Running' <=> Running

\* Closing and confirmed means that main has installed the map.
Confirmed ==
  Leaving' /\ (go'.acked \/ go'.authorized) => main.inHandoff = go.handoff /\ main.inAck = "ok"

\* The states fit after a step in which the host stays with its window.
LEMMA StayedStates ==
  ASSUME WindowInv, WindowTypeOK', HostFits', SamePlace, SameSeqs, HeardOnly,
         main'.st = main.st
  PROVE  StatesFit'
<1> USE DEF WindowInv
<1>1. /\ go.rev \in Nat /\ go'.rev \in Nat /\ go.instance \in Nat /\ go.handoff \in Nat
      /\ seqs.instance \in Nat /\ seqs.handoff \in Nat
  BY DEF WindowTypeOK, HostTypeOK, Runtimes
<1>2. \A s \in Snapshots : /\ s.rev \in Nat /\ s.instance \in Nat /\ s.handoff \in Nat
  BY DEF Snapshots
<1>3. /\ \A s \in SeenBy("main") : s \in Snapshots /\ SnapshotFits(s)
      /\ \A s \in SeenBy("satellite") : s \in Snapshots /\ SnapshotFits(s)
  BY MainFields, SatFields
     DEF StatesFit, SnapshotsFit, WindowTypeOK, ChannelsTypeOK, Windows, SeenBy
<1>4. main.st \in SeenBy("main") /\ main.st.rev <= go.rev
  BY <1>3 DEF SeenBy, SnapshotFits
<1>5. SnapshotsFit'
  <2>1. ASSUME NEW s \in SeenBy("main")' PROVE SnapshotFits(s)'
    BY <1>1, <1>2, <1>3, <2>1 DEF HeardOnly, IsTold, SnapshotFits, SamePlace, SameSeqs, HostFits,
             Undocked
  <2>2. ASSUME NEW s \in SeenBy("satellite")' PROVE SnapshotFits(s)'
    BY <1>1, <1>2, <1>3, <2>2 DEF HeardOnly, IsTold, SnapshotFits, SamePlace, SameSeqs, HostFits,
             Undocked
  <2> QED BY <2>1, <2>2 DEF SnapshotsFit, Windows
<1>6. MainInOrder'
  BY <1>1, <1>2, <1>3, <1>4 DEF MainInOrder, StatesFit, HeardOnly, IsTold
<1>7. CurrentLast'
  BY <1>1, <1>2, <1>3 DEF CurrentLast, StatesFit, HeardOnly, IsTold, SnapshotFits, SamePlace
<1>8. Contiguous'
  BY <1>1, <1>2, <1>3
     DEF Contiguous, CurrentLast, StatesFit, HeardOnly, IsTold, SnapshotFits, SamePlace
<1>9. NoWayBack'
  <2>1. ASSUME Leaving', NEW s \in SeenBy("main")', NEW t \in SeenBy("main")',
               s.phase = "closing", s.handoff = go'.handoff, t.rev >= s.rev
        PROVE  t.phase # "ready"
    BY <1>1, <1>2, <1>3, <2>1
       DEF NoWayBack, StatesFit, HeardOnly, IsTold, SnapshotFits, SamePlace, Windows, Leaving
  <2>2. ASSUME Leaving', NEW s \in SeenBy("satellite")', NEW t \in SeenBy("satellite")',
               s.phase = "closing", s.handoff = go'.handoff, t.rev >= s.rev
        PROVE  t.phase # "ready"
    BY <1>1, <1>2, <1>3, <2>2
       DEF NoWayBack, StatesFit, HeardOnly, IsTold, SnapshotFits, SamePlace, Windows, Leaving
  <2> QED BY <2>1, <2>2 DEF NoWayBack, Windows
<1>10. MainFollows'
  BY DEF MainFollows, StatesFit, HeardOnly, IsTold, SamePlace, HostFits, Undocked
<1>11. SatFollows'
  BY DEF SatFollows, StatesFit, HeardOnly, IsTold, SamePlace, Undocked, Opening
<1> QED BY <1>5, <1>6, <1>7, <1>8, <1>9, <1>10, <1>11 DEF StatesFit

\* Main and the Golem window fit.
LEMMA StayedMain ==
  ASSUME WindowInv, WindowTypeOK', SamePlace, SameSeqs, QuietMain, sat'.nextId >= sat.nextId
  PROVE  MainFits'
<1> USE DEF WindowInv
<1>1. /\ main.lastAction \in Nat /\ sat.nextId \in Nat /\ sat'.nextId \in Nat
      /\ main.core \in Nat /\ main.settled \in BOOLEAN
  BY DEF WindowTypeOK, Mains, Sats
<1> QED BY <1>1 DEF MainFits, QuietMain, SamePlace, SameSeqs, Undocked, Opening

LEMMA StayedSat ==
  ASSUME WindowInv, WindowTypeOK', SamePlace, SameSeqs, QuietMain, QuietSat
  PROVE  SatFits'
<1> USE DEF WindowInv
<1>1. /\ main.lastAction \in Nat /\ sat.nextId \in Nat /\ sat'.nextId \in Nat
      /\ sat.action \in Nat
  BY DEF WindowTypeOK, Mains, Sats
<1> QED
  BY <1>1
     DEF SatFits, QuietMain, QuietSat, SatKept, Awaited, SamePlace, SameSeqs, Undocked, Opening

\* The Golem window hears of no ready state while the move back goes on.
LEMMA StayedQuiet ==
  ASSUME WindowInv, HostFits', SamePlace, HeardOnly, Leaving'
  PROVE  /\ (\A s \in SeenBy("satellite") : s.phase # "ready")
              => \A s \in SeenBy("satellite")' : s.phase # "ready"
         /\ (\A s \in news["main"] : s.phase # "ready")
              => \A s \in news'["main"] : s.phase # "ready"
BY DEF SamePlace, HeardOnly, IsTold, Leaving

LEMMA StayedMessages ==
  ASSUME WindowInv, HostFits', SamePlace, SameSeqs, HeardOnly, QuietMain, QuietSat, MessagesHold
  PROVE  MessagesFit'
<1>1. \A k : Gone(k) => Gone(k)'
  BY DEF Gone, HeardOnly, IsTold, SamePlace
<1>2. Leaving' => (Quiesced => Quiesced')
  BY StayedQuiet DEF Quiesced, QuietSat, SatKept
<1>3. ASSUME NEW m, ForMain(m) PROVE ForMain(m)'
  BY <1>1, <1>2, <1>3
     DEF ForMain, SamePlace, SameSeqs, QuietMain, QuietSat, SatKept, Undocked, Opening
<1>4. ASSUME NEW m, ForSatellite(m) PROVE ForSatellite(m)'
  BY <1>4 DEF ForSatellite, SamePlace, SameSeqs, QuietMain, QuietSat, SatKept, Undocked, Opening
<1> QED BY <1>3, <1>4, MessagesKept DEF WindowInv

LEMMA StayedMoves ==
  ASSUME WindowInv, HostFits', SamePlace, HeardOnly, QuietMain, QuietSat, Confirmed
  PROVE  MovesFit'
<1> USE DEF WindowInv
<1>1. ASSUME Leaving', Running', sat'.handoff = go'.handoff
      PROVE  /\ \A s \in SeenBy("satellite")' : s.phase # "ready"
             /\ sat'.stage = "posted" => sat'.action = 0 /\ sat'.payload = sat'.draft
  BY <1>1, StayedQuiet DEF MovesFit, SamePlace, QuietSat, SatKept
<1>2. ASSUME Leaving', main'.inHandoff = go'.handoff
      PROVE  /\ \A s \in news'["main"] : s.phase # "ready"
             /\ main'.inAck = "ok" => Quiesced' /\ main'.draft = sat'.draft
  BY <1>2, StayedQuiet DEF MovesFit, SamePlace, QuietMain, QuietSat, SatKept, Quiesced
<1>3. Leaving' /\ (go'.acked \/ go'.authorized)
        => main'.inHandoff = go'.handoff /\ main'.inAck = "ok"
  BY DEF Confirmed, SamePlace, QuietMain
<1> QED BY <1>1, <1>2, <1>3 DEF MovesFit

SameText == ComposerText' = ComposerText

\* A step that moves nothing keeps the invariant and the text.
LEMMA Stays ==
  ASSUME WindowInv, WindowTypeOK', HostFits', SamePlace, SameSeqs, Heard, QuietMain, QuietSat,
         MessagesHold, Confirmed
  PROVE  WindowInv' /\ SameText
<1>1. HeardOnly
  BY HeardFacts DEF WindowInv, QuietMain, QuietSat, SatKept
<1>2. SatFresh'
  BY DEF SatFresh, WindowInv, SamePlace, Heard, Told, QuietSat, SatKept
<1>3. SameText
  BY DEF SameText, ComposerText, Submitted, SamePlace, QuietMain, QuietSat, SatKept
<1>4. sat'.nextId >= sat.nextId /\ main'.st = main.st
  BY DEF QuietSat, SatKept, QuietMain
<1> QED
  BY <1>1, <1>2, <1>3, <1>4, StayedStates, StayedMain, StayedSat, StayedMessages, StayedMoves
     DEF WindowInv

(***************************************************************************)
(* Steps of the host that move the chat.                                   *)
(***************************************************************************)
StillMessages == posts' = posts /\ relayed' = relayed

\* Every message on its way was.
MessagesSame ==
  /\ \A m \in ToMain' : \E n \in ToMain : MessageLike(n, m)
  /\ \A m \in ToSatellite' : \E n \in ToSatellite : MessageLike(n, m)

LEMMA SameHold == ASSUME MessagesSame PROVE MessagesHold
BY DEF MessagesSame, MessagesHold

\* Messages that stay are the ones there were.
LEMMA StillMessagesSame ==
  ASSUME WindowInv, StillMessages, main'.claimed \in {NoMessage, main.claimed},
         sat'.deferred \in {NoMessage, sat.deferred}
  PROVE  MessagesSame
<1>1. ToMain' \subseteq ToMain
  BY DEF ToMain, Queued, StillMessages
<1>2. ToSatellite' \subseteq ToSatellite
  BY DEF ToSatellite, Queued, StillMessages
<1> QED BY <1>1, <1>2 DEF MessagesSame, MessageLike

\* The messages on their way are messages.
LEMMA QueuedType ==
  ASSUME ChannelsTypeOK, NEW w \in Windows
  PROVE  Queued(w) \in SUBSET Messages
<1>1. relayed[w] \in Seq(Messages)
  BY DEF ChannelsTypeOK
<1> QED BY <1>1, ElementOfSeq DEF Queued

LEMMA ToMainType == ASSUME WindowTypeOK PROVE ToMain \in SUBSET Messages
<1>1. Queued("main") \in SUBSET Messages /\ posts \in SUBSET Messages
  BY QueuedType DEF WindowTypeOK, ChannelsTypeOK, Windows
<1>2. main.claimed \in Messages
  BY MainFields DEF WindowTypeOK
<1> QED BY <1>1, <1>2 DEF ToMain

LEMMA ToSatelliteType == ASSUME WindowTypeOK PROVE ToSatellite \in SUBSET Messages
<1>1. Queued("satellite") \in SUBSET Messages /\ posts \in SUBSET Messages
  BY QueuedType DEF WindowTypeOK, ChannelsTypeOK, Windows
<1>2. sat.deferred \in Messages
  BY SatFields DEF WindowTypeOK
<1> QED BY <1>1, <1>2 DEF ToSatellite

\* The types of what the invariant counts.
Counted ==
  /\ go.rev \in Nat /\ go'.rev \in Nat /\ go.instance \in Nat /\ go.handoff \in Nat
  /\ go'.instance \in Nat /\ go'.handoff \in Nat
  /\ seqs.instance \in Nat /\ seqs.handoff \in Nat
  /\ seqs'.instance \in Nat /\ seqs'.handoff \in Nat
  /\ main.lastAction \in Nat /\ main.core \in Nat /\ main.inHandoff \in Nat
  /\ main.transfer \in Nat
  /\ sat.action \in Nat /\ sat.nextId \in Nat /\ sat'.nextId \in Nat /\ sat.handoff \in Nat

LEMMA CountedType == ASSUME WindowTypeOK, WindowTypeOK' PROVE Counted
BY DEF Counted, WindowTypeOK, HostTypeOK, Runtimes, Mains, Sats

SeenTypeOK ==
  /\ \A s \in SeenBy("main") : s \in Snapshots /\ SnapshotFits(s)
  /\ \A s \in SeenBy("satellite") : s \in Snapshots /\ SnapshotFits(s)

LEMMA SeenType == ASSUME WindowInv PROVE SeenTypeOK
BY MainFields, SatFields
   DEF SeenTypeOK, StatesFit, SnapshotsFit, WindowInv, WindowTypeOK, ChannelsTypeOK, Windows,
       SeenBy

LEMMA SnapshotNumbers ==
  \A s \in Snapshots : s.rev \in Nat /\ s.instance \in Nat /\ s.handoff \in Nat
BY DEF Snapshots

\* The move back begins.
Redocks ==
  /\ go.phase = "ready" /\ go'.phase = "closing" /\ go'.mode = go.mode
  /\ go'.instance = go.instance /\ go'.handoff = seqs.handoff + 1
  /\ seqs'.instance = seqs.instance /\ seqs'.handoff = seqs.handoff + 1
  /\ ~go'.acked /\ ~go'.authorized
  /\ Told /\ (Running' <=> Running)

LEMMA RedocksStates ==
  ASSUME WindowInv, WindowTypeOK', HostFits', Redocks, HeardOnly, main'.st = main.st
  PROVE  StatesFit'
<1> USE DEF WindowInv
<1>1. Counted
  BY CountedType
<1>2. \A s \in Snapshots : /\ s.rev \in Nat /\ s.instance \in Nat /\ s.handoff \in Nat
  BY DEF Snapshots
<1>3. SeenTypeOK
  BY SeenType
<1>4. /\ Undocked /\ Undocked' /\ go.handoff = seqs.handoff
      /\ go.instance = seqs.instance /\ go.instance # 0
  BY DEF HostFits, Redocks, Undocked
<1>5. SnapshotsFit'
  <2>1. ASSUME NEW s \in Snapshots, SnapshotFits(s) PROVE SnapshotFits(s)'
    BY <1>1, <1>2, <2>1 DEF Counted, HeardOnly, SnapshotFits, Redocks
  <2>2. ASSUME NEW s \in Snapshots, IsTold(s) PROVE SnapshotFits(s)'
    BY <1>1, <1>2, <1>4, <2>2 DEF Counted, IsTold, SnapshotFits, Redocks, Undocked
  <2> QED BY <1>3, <2>1, <2>2 DEF SnapshotsFit, Windows, HeardOnly, SeenTypeOK
<1>6. main.st \in SeenBy("main") /\ main.st.rev <= go.rev
  BY <1>3 DEF SeenBy, SnapshotFits, SeenTypeOK
<1>7. MainInOrder'
  BY <1>1, <1>2, <1>3, <1>6 DEF Counted, SeenTypeOK, MainInOrder, StatesFit, HeardOnly, IsTold
<1>8. CurrentLast'
  BY <1>1, <1>2, <1>3
     DEF Counted, SeenTypeOK, CurrentLast, StatesFit, HeardOnly, IsTold, SnapshotFits, Redocks
<1>9. Contiguous'
  BY <1>1, <1>2, <1>3
     DEF Counted, SeenTypeOK, Contiguous, CurrentLast, StatesFit, HeardOnly, IsTold,
         SnapshotFits, Redocks
<1>10. NoWayBack'
  <2>1. ASSUME NEW s \in SeenBy("main")', NEW t \in SeenBy("main")',
               s.handoff = go'.handoff, t.rev >= s.rev
        PROVE  t.phase # "ready"
    BY <1>1, <1>2, <1>3, <2>1
       DEF Counted, SeenTypeOK, HeardOnly, IsTold, SnapshotFits, Redocks
  <2>2. ASSUME NEW s \in SeenBy("satellite")', NEW t \in SeenBy("satellite")',
               s.handoff = go'.handoff, t.rev >= s.rev
        PROVE  t.phase # "ready"
    BY <1>1, <1>2, <1>3, <2>2
       DEF Counted, SeenTypeOK, HeardOnly, IsTold, SnapshotFits, Redocks
  <2> QED BY <2>1, <2>2 DEF NoWayBack, Windows
<1>11. MainFollows'
  BY <1>4 DEF MainFollows, StatesFit, Redocks
<1>12. SatFollows'
  BY <1>4 DEF SatFollows, Redocks, Opening
<1> QED BY <1>5, <1>7, <1>8, <1>9, <1>10, <1>11, <1>12 DEF StatesFit

\* The transition is new to everybody.
LEMMA RedocksKeeps ==
  ASSUME WindowInv, WindowTypeOK', HostFits', Redocks, QuietMain, QuietSat, MessagesSame,
         sat'.deferred = sat.deferred
  PROVE  WindowInv' /\ SameText
<1> USE DEF WindowInv
<1>1. Counted
  BY CountedType
<1>2. Undocked /\ Undocked' /\ go.handoff = seqs.handoff /\ go.instance # 0 /\ ~Leaving
  BY DEF HostFits, Redocks, Undocked, Leaving
<1>3. HeardOnly
  BY HeardFacts DEF QuietMain, QuietSat, SatKept, Heard, Redocks
<1>4. StatesFit'
  BY <1>3, RedocksStates DEF QuietMain
<1>5. SatFresh'
  BY DEF SatFresh, Redocks, Told, QuietSat, SatKept
<1>6. MainFits'
  BY <1>1, <1>2 DEF Counted, MainFits, QuietMain, QuietSat, SatKept, Redocks, Opening
<1>7. SatFits'
  BY <1>1, <1>2 DEF Counted, SatFits, QuietMain, QuietSat, SatKept, Redocks, Opening
<1>8. \A k : Gone(k) => Gone(k)'
  BY <1>3 DEF Gone, HeardOnly, IsTold, Redocks
<1>9. MessagesFit'
  <2>1. ASSUME NEW m \in ToMain' PROVE ForMain(m)'
    <3>1. PICK n \in ToMain : MessageLike(n, m)
      BY <2>1 DEF MessagesSame
    <3>2. ForMain(m)
      BY <3>1, CopyFits DEF MessagesFit
    <3>3. m.instance \in Nat /\ m.handoff \in Nat /\ m.id \in Nat
      BY <3>1, ToMainType, MessageFields DEF MessageLike
    <3> QED
      BY <1>1, <1>2, <1>8, <3>2, <3>3
         DEF Counted, ForMain, Redocks, QuietMain, QuietSat, SatKept, Opening
  <2>2. ASSUME NEW m \in ToSatellite' PROVE ForSatellite(m)'
    <3>1. PICK n \in ToSatellite : MessageLike(n, m)
      BY <2>2 DEF MessagesSame
    <3>2. ForSatellite(m)
      BY <3>1, CopyFits DEF MessagesFit
    <3>3. m.instance \in Nat /\ m.handoff \in Nat /\ m.id \in Nat
      BY <3>1, ToSatelliteType, MessageFields DEF MessageLike
    <3> QED
      BY <1>1, <1>2, <3>2, <3>3
         DEF Counted, ForSatellite, Redocks, QuietMain, QuietSat, SatKept, Opening
  <2> QED BY <2>1, <2>2 DEF MessagesFit
<1>10. MovesFit'
  BY <1>1 DEF Counted, MovesFit, MainFits, SatFits, QuietMain, QuietSat, SatKept, Redocks
<1>11. SameText
  BY DEF SameText, ComposerText, Submitted, QuietMain, QuietSat, SatKept, Redocks
<1> QED BY <1>4, <1>5, <1>6, <1>7, <1>9, <1>10, <1>11

\* The instance is over, with nobody in its window.
Retires ==
  /\ go.phase # "closed" /\ ~Running /\ ~Running'
  /\ ~Undocked \/ go.authorized
  /\ go'.phase = "closed" /\ go'.mode = "docked" /\ go'.instance = 0 /\ go'.handoff = 0
  /\ SameSeqs /\ Told

\* A close that is authorized has left the text in the main window.
LEMMA AuthorizedFacts ==
  ASSUME WindowInv, Undocked, go.authorized
  PROVE  /\ Leaving /\ go.handoff = seqs.handoff
         /\ main.inHandoff = go.handoff /\ main.inAck = "ok" /\ main.claimed = NoMessage
         /\ \A s \in news["main"] : s.phase # "ready"
         /\ Quiesced /\ main.draft = sat.draft
<1> USE DEF WindowInv
<1>1. Leaving /\ go.handoff = seqs.handoff
  BY DEF HostFits, Leaving
<1>2. main.inHandoff = go.handoff /\ main.inAck = "ok"
  BY <1>1 DEF MovesFit
<1> QED BY <1>1, <1>2 DEF MovesFit, MainFits

LEMMA RetiresStates ==
  ASSUME WindowInv, WindowTypeOK', HostFits', Retires, HeardOnly, main'.st = main.st
  PROVE  StatesFit'
<1> USE DEF WindowInv
<1>1. Counted
  BY CountedType
<1>2. \A s \in Snapshots : /\ s.rev \in Nat /\ s.instance \in Nat /\ s.handoff \in Nat
  BY DEF Snapshots
<1>3. SeenTypeOK
  BY SeenType
<1>4. ~Undocked' /\ ~Leaving'
  BY DEF Retires, Undocked, Leaving
<1>5. SnapshotsFit'
  <2>1. ASSUME NEW s \in Snapshots, SnapshotFits(s) PROVE SnapshotFits(s)'
    BY <1>1, <1>2, <2>1 DEF Counted, HeardOnly, SnapshotFits, Retires, SameSeqs
  <2>2. ASSUME NEW s \in Snapshots, IsTold(s) PROVE SnapshotFits(s)'
    BY <1>1, <1>2, <2>2 DEF Counted, IsTold, SnapshotFits, Retires, SameSeqs
  <2> QED BY <1>3, <2>1, <2>2 DEF SnapshotsFit, Windows, HeardOnly, SeenTypeOK
<1>6. main.st \in SeenBy("main") /\ main.st.rev <= go.rev
  BY <1>3 DEF SeenBy, SnapshotFits, SeenTypeOK
<1>7. MainInOrder'
  BY <1>1, <1>2, <1>3, <1>6 DEF Counted, SeenTypeOK, MainInOrder, StatesFit, HeardOnly, IsTold
<1>8. CurrentLast'
  BY DEF CurrentLast, Retires
<1>9. Contiguous'
  BY <1>1, <1>2, <1>3
     DEF Counted, SeenTypeOK, Contiguous, StatesFit, HeardOnly, IsTold, SnapshotFits, Retires
<1>10. \A s \in news'["main"] : s.phase # "ready"
  <2>1. \A s \in news["main"] : s.phase # "ready"
    BY AuthorizedFacts DEF Retires, StatesFit, MainFollows
  <2> QED BY <2>1 DEF HeardOnly, IsTold, Retires
<1>11. MainFollows'
  BY <1>4, <1>10 DEF MainFollows
<1>12. SatFollows' /\ NoWayBack'
  BY <1>4 DEF SatFollows, NoWayBack, Retires
<1> QED BY <1>5, <1>7, <1>8, <1>9, <1>11, <1>12 DEF StatesFit

\* Whatever the window had is in the main window.
LEMMA RetiresKeeps ==
  ASSUME WindowInv, WindowTypeOK', HostFits', Retires, QuietMain, QuietSat, MessagesSame,
         sat'.deferred = sat.deferred
  PROVE  WindowInv' /\ SameText
<1> USE DEF WindowInv
<1>1. Counted
  BY CountedType
<1>2. /\ ~Undocked' /\ ~Leaving' /\ go'.phase \notin Opening /\ go.instance # 0
      /\ go.handoff = seqs.handoff
  BY DEF Retires, Undocked, Leaving, Opening, HostFits
<1>3. HeardOnly
  BY HeardFacts DEF QuietMain, QuietSat, SatKept, Heard, Retires
<1>4. StatesFit'
  BY <1>3, RetiresStates DEF QuietMain
<1>5. SatFresh'
  BY DEF SatFresh, Retires, Told, QuietSat, SatKept
<1>6. sat.action = 0 /\ sat.stage \notin {"draining", "posted"} /\ sat.deferred = NoMessage
  BY DEF SatFits, Retires
<1>7. main.claimed = NoMessage
  BY AuthorizedFacts DEF Retires, MainFits
<1>8. MainFits'
  <2>1. main.core = 0 => main.lastAction = 0
    BY DEF MainFits
  <2> QED
    BY <1>1, <1>2, <1>7, <2>1 DEF Counted, MainFits, QuietMain, Retires, SameSeqs
<1>9. SatFits'
  BY <1>1, <1>2, <1>6 DEF Counted, SatFits, QuietMain, QuietSat, SatKept, Retires, SameSeqs
<1>10. \A k : k # 0 /\ Gone(k) => Gone(k)'
  BY <1>3 DEF Gone, HeardOnly, IsTold, Retires
<1>11. MessagesFit'
  <2>1. ASSUME NEW m \in ToMain' PROVE ForMain(m)'
    <3>1. PICK n \in ToMain : MessageLike(n, m)
      BY <2>1 DEF MessagesSame
    <3>2. ForMain(m)
      BY <3>1, CopyFits DEF MessagesFit
    <3>3. m.instance \in Nat /\ m.handoff \in Nat /\ m.id \in Nat
      BY <3>1, ToMainType, MessageFields DEF MessageLike
    <3>4. m.kind = "drafts" /\ m.instance = main.core => m.handoff <= main.inHandoff
      BY <1>1, <1>2, <3>2, <3>3, AuthorizedFacts DEF Counted, ForMain, Retires
    <3>5. m.kind = "action" /\ m.instance = main.core => ~(m.id > main.lastAction)
      BY <1>6, <3>2 DEF ForMain
    <3> QED
      BY <1>1, <1>2, <1>10, <3>2, <3>3, <3>4, <3>5
         DEF Counted, ForMain, Retires, QuietMain, SameSeqs
  <2>2. ASSUME NEW m \in ToSatellite' PROVE ForSatellite(m)'
    <3>1. PICK n \in ToSatellite : MessageLike(n, m)
      BY <2>2 DEF MessagesSame
    <3>2. ForSatellite(m)
      BY <3>1, CopyFits DEF MessagesFit
    <3> QED
      BY <1>2, <3>2 DEF ForSatellite, Retires, QuietMain, SameSeqs
  <2> QED BY <2>1, <2>2 DEF MessagesFit
<1>12. MovesFit'
  BY <1>2 DEF MovesFit
<1>13. SameText
  <2>1. ComposerText' = main.draft
    BY DEF ComposerText, Retires, QuietMain
  <2>2. CASE Undocked
    BY <1>6, <2>1, <2>2, AuthorizedFacts DEF SameText, ComposerText, Submitted, Retires, Undocked
  <2>3. CASE ~Undocked
    <3>1. go.mode = "docked"
      BY <2>3 DEF Undocked, WindowTypeOK, HostTypeOK, Runtimes, Modes
    <3> QED BY <2>1, <3>1 DEF SameText, ComposerText
  <2> QED BY <2>2, <2>3
<1> QED BY <1>4, <1>5, <1>8, <1>9, <1>11, <1>12, <1>13

\* The Golem window is ready.
Readied ==
  /\ go.phase = "bootstrapped" /\ go'.phase = "ready" /\ go'.mode = "undocked"
  /\ go'.instance = go.instance /\ go'.handoff = go.handoff
  /\ sat.installed /\ Running /\ Running'
  /\ SameSeqs /\ Told

LEMMA ReadiedStates ==
  ASSUME WindowInv, WindowTypeOK', HostFits', Readied, HeardOnly, main'.st = main.st
  PROVE  StatesFit'
<1> USE DEF WindowInv
<1>1. Counted
  BY CountedType
<1>2. \A s \in Snapshots : /\ s.rev \in Nat /\ s.instance \in Nat /\ s.handoff \in Nat
  BY DEF Snapshots
<1>3. SeenTypeOK
  BY SeenType
<1>4. /\ Undocked' /\ ~Leaving' /\ main.st.instance = go.instance
      /\ go.instance = seqs.instance /\ go.handoff = seqs.handoff
      /\ go.instance # 0 /\ go.handoff # 0
  BY DEF Readied, Undocked, Leaving, SatFits, MainFits, Opening, HostFits
<1>5. SnapshotsFit'
  <2>1. ASSUME NEW s \in Snapshots, SnapshotFits(s) PROVE SnapshotFits(s)'
    BY <1>1, <1>2, <2>1 DEF Counted, HeardOnly, SnapshotFits, Readied, SameSeqs
  <2>2. ASSUME NEW s \in Snapshots, IsTold(s) PROVE SnapshotFits(s)'
    BY <1>1, <1>2, <1>4, <2>2 DEF Counted, IsTold, SnapshotFits, Readied, SameSeqs
  <2> QED BY <1>3, <2>1, <2>2 DEF SnapshotsFit, Windows, HeardOnly, SeenTypeOK
<1>6. main.st \in SeenBy("main") /\ main.st.rev <= go.rev
  BY <1>3 DEF SeenBy, SnapshotFits, SeenTypeOK
<1>7. MainInOrder'
  BY <1>1, <1>2, <1>3, <1>6 DEF Counted, SeenTypeOK, MainInOrder, StatesFit, HeardOnly, IsTold
<1>8. CurrentLast'
  BY <1>1, <1>2, <1>3
     DEF Counted, SeenTypeOK, CurrentLast, StatesFit, HeardOnly, IsTold, SnapshotFits, Readied
<1>9. Contiguous'
  BY <1>1, <1>2, <1>3
     DEF Counted, SeenTypeOK, Contiguous, CurrentLast, StatesFit, HeardOnly, IsTold,
         SnapshotFits, Readied
<1>10. NoWayBack' /\ MainFollows' /\ SatFollows'
  BY <1>4 DEF NoWayBack, MainFollows, SatFollows, Readied, Opening
<1> QED BY <1>5, <1>7, <1>8, <1>9, <1>10 DEF StatesFit

\* Its composer has got what the main window had.
LEMMA ReadiedKeeps ==
  ASSUME WindowInv, WindowTypeOK', HostFits', Readied, QuietMain, QuietSat, MessagesHold,
         sat'.deferred = sat.deferred
  PROVE  WindowInv' /\ SameText
<1> USE DEF WindowInv
<1>1. Counted
  BY CountedType
<1>2. /\ Undocked' /\ ~Leaving' /\ ~Undocked /\ ~Leaving /\ go'.phase \notin Opening
      /\ go.phase \in Opening
  BY DEF Readied, Undocked, Leaving, Opening, HostFits
<1>3. HeardOnly
  BY HeardFacts DEF QuietMain, QuietSat, SatKept, Heard, Readied
<1>4. StatesFit'
  BY <1>3, ReadiedStates DEF QuietMain
<1>5. SatFresh'
  BY DEF SatFresh, Readied
<1>6. sat.action = 0 /\ sat.draft = main.draft
  BY <1>2 DEF SatFits, Readied
<1>7. MainFits'
  BY <1>1, <1>2 DEF Counted, MainFits, QuietMain, QuietSat, SatKept, Readied, SameSeqs
<1>8. SatFits'
  BY <1>1, <1>2, <1>6 DEF Counted, SatFits, QuietMain, QuietSat, SatKept, Readied, SameSeqs
<1>9. \A k : Gone(k) => Gone(k)'
  BY <1>3 DEF Gone, HeardOnly, IsTold, Readied
<1>10. MessagesFit'
  <2>1. ASSUME NEW m, ForMain(m) PROVE ForMain(m)'
    BY <1>2, <1>9, <2>1 DEF ForMain, Readied, QuietMain, QuietSat, SatKept, SameSeqs
  <2>2. ASSUME NEW m, ForSatellite(m) PROVE ForSatellite(m)'
    BY <1>2, <2>2 DEF ForSatellite, Readied, QuietMain, QuietSat, SatKept, SameSeqs
  <2> QED BY <2>1, <2>2, MessagesKept
<1>11. MovesFit'
  BY <1>2 DEF MovesFit
<1>12. SameText
  <2>1. ComposerText = main.draft
    BY <1>2 DEF ComposerText, Undocked, WindowTypeOK, HostTypeOK, Runtimes, Modes
  <2>2. ComposerText' = sat.draft
    BY <1>6 DEF ComposerText, Submitted, Readied, QuietSat, SatKept
  <2> QED BY <1>6, <2>1, <2>2 DEF SameText
<1> QED BY <1>4, <1>5, <1>7, <1>8, <1>10, <1>11, <1>12

\* An instance is reserved: nobody has heard of it.
Reserves ==
  /\ go.phase = "closed" /\ go'.phase = "bootstrapping" /\ go'.mode = "docked"
  /\ go'.instance = seqs.instance + 1 /\ go'.handoff = seqs.handoff + 1
  /\ seqs'.instance = seqs.instance + 1 /\ seqs'.handoff = seqs.handoff + 1
  /\ go'.rev = go.rev /\ news' = news /\ StillMessages /\ main' = main /\ sat' = sat
  /\ ~Running'

LEMMA ReservesKeeps ==
  ASSUME WindowInv, WindowTypeOK', HostFits', Reserves
  PROVE  WindowInv' /\ SameText
<1> USE DEF WindowInv
<1>1. Counted
  BY CountedType
<1>2. \A s \in Snapshots : /\ s.rev \in Nat /\ s.instance \in Nat /\ s.handoff \in Nat
  BY DEF Snapshots
<1>3. SeenTypeOK
  BY SeenType
<1>4. /\ ~Undocked /\ ~Undocked' /\ ~Leaving /\ ~Leaving' /\ ~Running /\ go.mode = "docked"
  BY DEF Reserves, Undocked, Leaving, HostFits, WindowTypeOK, HostTypeOK, Runtimes, Modes
<1>5. SeenBy("main")' = SeenBy("main") /\ SeenBy("satellite")' = SeenBy("satellite")
  BY DEF SeenBy, Reserves
<1>6. StatesFit'
  <2>1. SnapshotsFit'
    <3>1. ASSUME NEW s \in Snapshots, SnapshotFits(s) PROVE SnapshotFits(s)'
      BY <1>1, <1>2, <3>1 DEF Counted, SnapshotFits, Reserves
    <3> QED BY <1>3, <1>5, <3>1 DEF SnapshotsFit, Windows, SeenTypeOK
  <2>2. \A s \in SeenBy("main")' : s.instance # go'.instance
    BY <1>1, <1>2, <1>3, <1>5 DEF Counted, SeenTypeOK, SnapshotFits, Reserves
  <2>3. MainInOrder' /\ CurrentLast' /\ Contiguous'
    BY <1>5, <2>2 DEF MainInOrder, CurrentLast, Contiguous, StatesFit, Reserves
  <2>4. NoWayBack' /\ MainFollows' /\ SatFollows'
    BY <1>4 DEF NoWayBack, MainFollows, SatFollows, Reserves, StatesFit
  <2> QED BY <2>1, <2>3, <2>4 DEF StatesFit
<1>7. SatFresh'
  BY <1>4 DEF SatFresh, Reserves
<1>8. sat.action = 0 /\ sat.stage \notin {"draining", "posted"} /\ sat.deferred = NoMessage
  BY <1>4 DEF SatFits
<1>9. main.core # go'.instance
  <2>1. main.st \in Snapshots /\ SnapshotFits(main.st) /\ main.core = main.st.instance
    BY <1>3 DEF SeenTypeOK, SeenBy, MainFits
  <2> QED BY <1>1, <1>2, <2>1 DEF Counted, SnapshotFits, Reserves
<1>10. MainFits'
  BY <1>1, <1>4, <1>9 DEF Counted, MainFits, Reserves
<1>11. SatFits'
  BY <1>1, <1>4, <1>8 DEF Counted, SatFits, Reserves
<1>12. MessagesFit'
  <2>1. ASSUME NEW m \in ToMain' PROVE ForMain(m)'
    <3>1. m \in ToMain /\ ForMain(m)
      BY <2>1 DEF ToMain, Queued, StillMessages, Reserves, MessagesFit
    <3>2. m \in Messages
      BY <3>1, ToMainType
    <3>3. m.instance \in Nat /\ m.handoff \in Nat /\ m.id \in Nat
      BY <3>2, MessageFields
    <3>4. m.kind # "abort" => m.instance # go'.instance
      BY <1>1, <3>1, <3>3 DEF Counted, ForMain, Reserves
    <3>5. m.kind # "abort" /\ Gone(m.instance) => Gone(m.instance)'
      BY <1>5, <3>4 DEF Gone
    <3>6. m.kind = "action" /\ m.instance = main.core => ~(m.id > main.lastAction)
      BY <1>8, <3>1 DEF ForMain
    <3>7. m.kind # "abort" => m.instance <= seqs'.instance /\ m.handoff <= seqs'.handoff
      BY <1>1, <3>1, <3>3 DEF Counted, ForMain, Reserves
    <3> QED
      BY <1>4, <3>1, <3>4, <3>5, <3>6, <3>7 DEF ForMain, Reserves
  <2>2. ASSUME NEW m \in ToSatellite' PROVE ForSatellite(m)'
    <3>1. m \in ToSatellite /\ ForSatellite(m)
      BY <2>2 DEF ToSatellite, Queued, StillMessages, Reserves, MessagesFit
    <3>2. m \in Messages
      BY <3>1, ToSatelliteType
    <3>3. m.instance \in Nat /\ m.handoff \in Nat /\ m.id \in Nat
      BY <3>2, MessageFields
    <3>4. m.kind \in {"drafts", "ack"} => /\ m.instance # go'.instance
                                          /\ m.instance <= seqs'.instance
                                          /\ m.handoff <= seqs'.handoff
      BY <1>1, <3>1, <3>3 DEF Counted, ForSatellite, Reserves
    <3> QED BY <1>4, <3>1, <3>4 DEF ForSatellite
  <2> QED BY <2>1, <2>2 DEF MessagesFit
<1>13. MovesFit'
  BY <1>4 DEF MovesFit
<1>14. SameText
  BY <1>4 DEF SameText, ComposerText, Reserves
<1> QED BY <1>6, <1>7, <1>10, <1>11, <1>12, <1>13, <1>14

\* The steps of a window leave the host alone.
HostStill == go' = go /\ seqs' = seqs

\* The states main knows, and those the Golem window knows.
MainSees ==
  /\ \A s \in SeenBy("main")' : s \in SeenBy("main")
  /\ \A s \in news'["main"] : s \in news["main"] /\ s.rev > main'.st.rev
  /\ Undocked => main'.st.instance = go.instance

SatSees ==
  \/ \A s \in SeenBy("satellite")' : s \in SeenBy("satellite") /\ (Running' => Running)
  \/ SeenBy("satellite")' = {Snapshot(ClosedRuntime)}

LEMMA ClosedSnapshot ==
  LET s == Snapshot(ClosedRuntime) IN
  /\ s \in Snapshots /\ s.rev = 0 /\ s.phase = "closed" /\ s.mode = "docked"
  /\ s.instance = 0 /\ s.handoff = 0
BY DEF Snapshot, ClosedRuntime, Snapshots, Phases, Modes

LEMMA SeenStates ==
  ASSUME WindowInv, HostStill, MainSees, SatSees
  PROVE  StatesFit'
<1> USE DEF WindowInv
<1>1. \A s : SnapshotFits(s) => SnapshotFits(s)'
  BY DEF SnapshotFits, HostStill
<1>2. SnapshotFits(Snapshot(ClosedRuntime))
  BY ClosedSnapshot DEF SnapshotFits, WindowTypeOK, HostTypeOK, Runtimes
<1>3. SnapshotsFit'
  BY <1>1, <1>2 DEF SnapshotsFit, StatesFit, Windows, MainSees, SatSees
<1>4. MainInOrder'
  BY DEF MainInOrder, MainSees
<1>5. CurrentLast'
  BY DEF CurrentLast, StatesFit, HostStill, MainSees
<1>6. Contiguous'
  BY DEF Contiguous, StatesFit, HostStill, MainSees
<1>7. NoWayBack'
  BY ClosedSnapshot
     DEF NoWayBack, StatesFit, HostStill, Windows, Leaving, Undocked, MainSees, SatSees
<1>8. MainFollows'
  BY DEF MainFollows, StatesFit, HostStill, Undocked, MainSees
<1>9. SatFollows'
  BY ClosedSnapshot DEF SatFollows, StatesFit, HostStill, Undocked, Opening, SatSees
<1> QED BY <1>3, <1>4, <1>5, <1>6, <1>7, <1>8, <1>9 DEF StatesFit

\* A main window that has not done anything.
MainStill == main' = main /\ news'["main"] = news["main"]

LEMMA MainStillSees ==
  ASSUME WindowInv, MainStill
  PROVE  MainSees /\ (\A k : HostStill /\ Gone(k) => Gone(k)')
BY DEF MainStill, MainSees, SeenBy, WindowInv, StatesFit, MainFollows, MainInOrder, HostStill, Gone

\* A new window runs: it knows nothing.
Runs ==
  /\ HostStill /\ MainStill /\ posts' = posts
  /\ relayed' = [relayed EXCEPT !["satellite"] = <<>>]
  /\ open.pc = "added" /\ go.instance = open.instance
  /\ Running' /\ sat' = FreshSatellite /\ news' = news

LEMMA FreshFields ==
  LET w == FreshSatellite IN
  /\ w.boot = "calling" /\ w.instance = 0 /\ w.st = Snapshot(ClosedRuntime) /\ w.frozen
  /\ w.draft = 0 /\ ~w.installed /\ w.deferred = NoMessage /\ w.nextId = 0 /\ w.action = 0
  /\ w.stage = "none" /\ w.handoff = 0
BY DEF FreshSatellite

LEMMA EmptyRelay ==
  ASSUME ChannelsTypeOK, relayed' = [relayed EXCEPT !["satellite"] = <<>>]
  PROVE  Queued("satellite")' = {} /\ Queued("main")' = Queued("main")
<1>1. relayed'["satellite"] = <<>> /\ relayed'["main"] = relayed["main"]
  BY DEF ChannelsTypeOK, Windows
<1> QED BY <1>1 DEF Queued

LEMMA RunsKeeps ==
  ASSUME WindowInv, WindowTypeOK', HostFits', Runs
  PROVE  WindowInv' /\ SameText
<1> USE DEF WindowInv
<1>1. Counted
  BY CountedType
<1>2. /\ ~Undocked /\ ~Undocked' /\ ~Leaving /\ ~Leaving' /\ ~Running /\ go.mode = "docked"
  BY DEF Runs, HostStill, Undocked, Leaving, HostFits, Adding, WindowTypeOK, HostTypeOK,
         Runtimes, Modes
<1>3. news'["satellite"] = {} /\ ~sat.installed
  BY <1>2 DEF SatFresh, Runs
<1>4. SeenBy("satellite")' = {Snapshot(ClosedRuntime)}
  BY <1>3, FreshFields DEF SeenBy, Runs
<1>5. StatesFit' /\ (\A k : Gone(k) => Gone(k)')
  BY <1>4, SeenStates, MainStillSees DEF SatSees, Runs
<1>6. SatFresh'
  BY DEF SatFresh, Runs
<1>7. MainFits'
  BY <1>1, <1>2, FreshFields DEF Counted, MainFits, Runs, HostStill, MainStill
<1>8. SatFits'
  BY <1>1, <1>2, FreshFields DEF Counted, SatFits, Runs, HostStill, MainStill
<1>9. MessagesFit'
  <2>1. ASSUME NEW m \in ToMain' PROVE ForMain(m)'
    <3>1. m \in ToMain /\ ForMain(m)
      BY <2>1, EmptyRelay DEF ToMain, Runs, MainStill, MessagesFit, WindowTypeOK
    <3>2. m.kind = "action" /\ m.instance = main.core => ~(m.id > main.lastAction)
      BY <1>2, <3>1 DEF ForMain, SatFits
    <3> QED
      BY <1>2, <1>3, <1>5, <3>1, <3>2 DEF ForMain, Runs, HostStill, MainStill
  <2>2. ASSUME NEW m \in ToSatellite' PROVE ForSatellite(m)'
    <3>1. m \in ToSatellite /\ ForSatellite(m)
      BY <2>2, EmptyRelay, FreshFields DEF ToSatellite, Runs, MessagesFit, WindowTypeOK
    <3> QED BY <1>2, <3>1 DEF ForSatellite, Runs, HostStill, MainStill
  <2> QED BY <2>1, <2>2 DEF MessagesFit
<1>10. MovesFit' /\ SameText
  BY <1>2 DEF MovesFit, SameText, ComposerText, Runs, HostStill, MainStill
<1> QED BY <1>5, <1>6, <1>7, <1>8, <1>9, <1>10

\* The window is destroyed: what it had moved back is in the main window.
Removed ==
  /\ HostStill /\ MainStill /\ posts' = posts
  /\ relayed' = [relayed EXCEPT !["satellite"] = <<>>]
  /\ go.authorized /\ ~Running' /\ news'["satellite"] = {}
  /\ sat' = [FreshSatellite EXCEPT !.draft = sat.draft]

LEMMA RemovedFields ==
  ASSUME Removed
  PROVE  /\ sat'.boot = "calling" /\ sat'.instance = 0 /\ sat'.st = Snapshot(ClosedRuntime)
         /\ sat'.frozen /\ sat'.draft = sat.draft /\ ~sat'.installed
         /\ sat'.deferred = NoMessage /\ sat'.nextId = 0 /\ sat'.action = 0
         /\ sat'.stage = "none" /\ sat'.handoff = 0
BY DEF Removed, FreshSatellite

LEMMA RemovedKeeps ==
  ASSUME WindowInv, WindowTypeOK', HostFits', Removed
  PROVE  WindowInv' /\ SameText
<1> USE DEF WindowInv
<1>1. Counted
  BY CountedType
<1>2. /\ go.phase \notin Opening /\ (Undocked' <=> Undocked) /\ (Leaving' <=> Leaving)
  BY DEF Removed, HostStill, HostFits, Undocked, Leaving, Opening
<1>3. Undocked => Quiesced /\ sat.action = 0 /\ main.draft = sat.draft
  BY AuthorizedFacts DEF Removed, Quiesced
<1>4. SeenBy("satellite")' = {Snapshot(ClosedRuntime)}
  BY RemovedFields DEF SeenBy, Removed
<1>5. StatesFit' /\ (\A k : Gone(k) => Gone(k)')
  BY <1>4, SeenStates, MainStillSees DEF SatSees, Removed
<1>6. SatFresh'
  BY RemovedFields DEF SatFresh, Removed
<1>7. MainFits'
  BY <1>1, <1>2 DEF Counted, MainFits, Removed, HostStill, MainStill
<1>8. SatFits'
  BY <1>1, <1>2, RemovedFields DEF Counted, SatFits, Removed, HostStill, MainStill
<1>9. Quiesced' /\ sat.action = 0
  BY <1>3, <1>4, ClosedSnapshot, RemovedFields DEF Quiesced, SatFits
<1>10. MessagesFit'
  <2>1. ASSUME NEW m \in ToMain' PROVE ForMain(m)'
    <3>1. m \in ToMain /\ ForMain(m)
      BY <2>1, EmptyRelay DEF ToMain, Removed, MainStill, MessagesFit, WindowTypeOK
    <3>2. m.kind = "action" /\ m.instance = main.core => ~(m.id > main.lastAction)
      BY <1>9, <3>1 DEF ForMain
    <3> QED
      BY <1>2, <1>5, <1>9, <3>1, <3>2, RemovedFields DEF ForMain, Removed, HostStill, MainStill
  <2>2. ASSUME NEW m \in ToSatellite' PROVE ForSatellite(m)'
    <3>1. m \in ToSatellite /\ ForSatellite(m)
      BY <2>2, EmptyRelay, RemovedFields DEF ToSatellite, Removed, MessagesFit, WindowTypeOK
    <3> QED BY <1>2, <3>1 DEF ForSatellite, Removed, HostStill, MainStill
  <2> QED BY <2>1, <2>2 DEF MessagesFit
<1>11. MovesFit'
  BY <1>2, <1>3, <1>9, RemovedFields DEF MovesFit, Removed, HostStill, MainStill
<1>12. SameText
  BY <1>9, RemovedFields DEF SameText, ComposerText, Submitted, Removed, HostStill, MainStill
<1> QED BY <1>5, <1>6, <1>7, <1>8, <1>10, <1>11, <1>12

(***************************************************************************)
(* Steps of the main window.                                               *)
(***************************************************************************)
SatStill == sat' = sat /\ news'["satellite"] = news["satellite"] /\ (Running' <=> Running)

LEMMA SatStillSees ==
  ASSUME WindowInv, SatStill
  PROVE  /\ SatSees /\ SeenBy("satellite")' = SeenBy("satellite") /\ (Quiesced' <=> Quiesced)
         /\ SatFresh'
BY DEF SatStill, SatSees, SeenBy, WindowInv, Quiesced, SatFresh

\* Main installs a state it has heard of.
MainInstalls(s) ==
  /\ HostStill /\ SatStill
  /\ s \in news["main"] /\ MainMoved(main, s, main')
  /\ news'["main"] = {other \in news["main"] : other.rev > s.rev}

\* The state is one of the instance main has, or main has lost that one.
LEMMA InstallFacts ==
  ASSUME WindowInv, WindowTypeOK', NEW s, MainInstalls(s)
  PROVE  /\ main'.st = s /\ main'.core = s.instance
         /\ s \in SeenBy("main") /\ SnapshotFits(s) /\ s.rev > main.st.rev /\ s \in Snapshots
         /\ go.instance # 0 /\ main.st.instance = go.instance => s.instance = go.instance
         /\ \A k : k = main.core /\ k # main'.core /\ k # 0 => Gone(k)'
         /\ \A k : Gone(k) => Gone(k)' /\ k # main'.core
         /\ \A t \in SeenBy("main")' : t \in SeenBy("main") /\ t.rev >= s.rev
<1> USE DEF WindowInv
<1>1. SeenTypeOK
  BY SeenType
<1>2. s \in SeenBy("main") /\ s \in Snapshots /\ SnapshotFits(s) /\ s.rev > main.st.rev
  BY <1>1 DEF SeenBy, SeenTypeOK, MainInstalls, StatesFit, MainInOrder
<1>3. main'.st = s /\ main'.core = s.instance
  BY <1>2 DEF MainInstalls, MainMoved, SnapshotFits
<1>4. main.st \in SeenBy("main") /\ main.core = main.st.instance /\ main.st.rev \in Nat
  BY <1>1, SnapshotNumbers DEF SeenBy, MainFits, SeenTypeOK
<1>5. s.rev \in Nat /\ \A t \in SeenBy("main") : t.rev \in Nat
  BY <1>1, <1>2, SnapshotNumbers DEF SeenTypeOK
<1>6. \A t \in SeenBy("main")' : t \in SeenBy("main") /\ (t = s \/ t.rev > s.rev)
  BY <1>2, <1>3 DEF SeenBy, MainInstalls
<1>7. go.instance # 0 /\ main.st.instance = go.instance => s.instance = go.instance
  BY <1>2, <1>4 DEF StatesFit, CurrentLast
<1>8. ASSUME NEW k, k = main.core, k # main'.core, k # 0 PROVE Gone(k)'
  <2>1. k # go.instance
    BY <1>3, <1>4, <1>7, <1>8
  <2>2. ASSUME NEW t \in SeenBy("main")', t.instance = k PROVE FALSE
    <3>1. t # s
      BY <1>3, <1>8, <2>2
    <3>2. t \in SeenBy("main") /\ t.rev > s.rev
      BY <1>6, <2>2, <3>1
    <3>3. main.st.rev < s.rev /\ s.rev < t.rev
      BY <1>2, <1>4, <1>5, <3>2
    <3>4. s.instance = k
      BY <1>2, <1>4, <1>8, <2>2, <3>2, <3>3 DEF StatesFit, Contiguous
    <3> QED BY <1>3, <1>8, <3>4
  <2> QED BY <2>1, <2>2 DEF Gone, MainInstalls, HostStill
<1>9. \A k : Gone(k) => Gone(k)' /\ k # main'.core
  BY <1>2, <1>3, <1>6 DEF Gone, MainInstalls, HostStill
<1>10. \A t \in SeenBy("main")' : t.rev >= s.rev
  BY <1>5, <1>6
<1> QED BY <1>2, <1>3, <1>6, <1>7, <1>8, <1>9, <1>10

\* While an instance is current main keeps its core.
LEMMA InstallKeepsCore ==
  ASSUME WindowInv, WindowTypeOK', NEW s, MainInstalls(s), main.core = go.instance,
         go.instance # 0
  PROVE  main'.core = main.core
BY InstallFacts DEF WindowInv, MainFits

\* The text stays in the main window unless the Golem window is ready.
LEMMA InstallKeepsDraft ==
  ASSUME WindowInv, NEW s, MainInstalls(s),
         ~Undocked \/ (Leaving /\ main.inHandoff = go.handoff)
  PROVE  main'.draft = main.draft
BY DEF WindowInv, MainInstalls, MainMoved, StatesFit, MainFollows, MovesFit

LEMMA InstallsMainFits ==
  ASSUME WindowInv, WindowTypeOK', NEW s, MainInstalls(s)
  PROVE  MainFits'
<1> USE DEF WindowInv
<1>1. Counted
  BY CountedType
<1>2. /\ main'.st = s /\ main'.core = s.instance /\ SnapshotFits(s) /\ s \in Snapshots
      /\ (Undocked' <=> Undocked) /\ (Running' <=> Running) /\ go' = go /\ seqs' = seqs
      /\ sat' = sat
  BY InstallFacts DEF MainInstalls, HostStill, SatStill, Undocked
<1>3. MainMoved(main, s, main')
  BY DEF MainInstalls
<1>4. main'.core = main'.st.instance /\ (s.phase # "closed" => main'.frozen)
  BY <1>2, <1>3 DEF MainMoved
<1>5. s.handoff \in Nat
  BY <1>2, SnapshotNumbers
<1>6. /\ main'.inHandoff <= seqs.handoff /\ main'.transfer <= seqs.handoff
      /\ ~main'.settled => main'.transfer # 0
  <2>1. main'.inHandoff \in {0, main.inHandoff}
    BY <1>3 DEF MainMoved
  <2>2. \/ main'.transfer = s.handoff /\ s.handoff # 0
        \/ main'.transfer = main.transfer /\ (main'.settled \/ ~main.settled)
    BY <1>2, <1>3 DEF MainMoved, SnapshotFits
  <2> QED BY <1>1, <1>2, <2>1, <2>2 DEF Counted, MainFits, SnapshotFits
<1>7. main'.claimed # NoMessage =>
        /\ main'.inAck = "none" /\ main'.claimed.handoff = main'.inHandoff
        /\ main'.claimed.kind = "drafts" /\ main'.claimed.instance = main'.core
  BY <1>3 DEF MainMoved, MainFits
<1>8. main'.settling # 0 => main'.settling = main'.lastAction
  BY <1>3 DEF MainMoved, MainFits
<1>9. ASSUME ~main'.settled, main'.transfer = go.handoff, go.phase \in Opening
      PROVE  main'.payload = main'.draft /\ main'.core = go.instance
  <2>1. ~Undocked /\ go.instance # 0 /\ go.handoff # 0
    BY <1>9 DEF HostFits, Undocked, Opening
  <2>2. main'.draft = main.draft
    BY <2>1, InstallKeepsDraft
  <2>3. CASE s.phase = "bootstrapped" /\ main'.transfer = s.handoff /\ main'.payload = main.draft
    BY <1>2, <1>9, <2>1, <2>2, <2>3 DEF SnapshotFits
  <2>4. CASE main'.transfer = main.transfer /\ ~main.settled /\ main'.payload = main.payload
    <3>1. main.payload = main.draft /\ main.core = go.instance
      BY <1>9, <2>4 DEF MainFits
    <3> QED BY <2>1, <2>2, <2>4, <3>1, InstallKeepsCore
  <2> QED BY <1>3, <1>9, <2>3, <2>4 DEF MainMoved
<1>10. main'.core = 0 \/ (main'.core = go.instance /\ ~Undocked) => main'.lastAction = 0
  BY <1>3 DEF MainMoved, MainFits
<1>11. main'.core = go.instance /\ Running => main'.lastAction <= sat.nextId
  BY <1>1, <1>3 DEF Counted, MainMoved, MainFits
<1>12. ~Undocked => main'.claimed = NoMessage
  BY <1>3 DEF MainMoved, MainFits
<1> QED BY <1>2, <1>4, <1>6, <1>7, <1>8, <1>9, <1>10, <1>11, <1>12 DEF MainFits

LEMMA InstallsMessages ==
  ASSUME WindowInv, WindowTypeOK', NEW s, MainInstalls(s), MessagesHold
  PROVE  MessagesFit'
<1> USE DEF WindowInv
<1>1. /\ (Undocked' <=> Undocked) /\ (Running' <=> Running) /\ (Leaving' <=> Leaving)
      /\ go' = go /\ seqs' = seqs /\ sat' = sat /\ (Quiesced' <=> Quiesced)
  BY SatStillSees DEF MainInstalls, HostStill, SatStill, Undocked, Leaving
<1>2. MainMoved(main, s, main')
  BY DEF MainInstalls
<1>3. ASSUME NEW m, ForMain(m) PROVE ForMain(m)'
  <2>1. ASSUME m.instance # 0, m.instance = main.core \/ Gone(m.instance)
        PROVE  /\ m.instance = main'.core \/ Gone(m.instance)'
               /\ m.instance = main'.core => main'.core = main.core
    <3>1. CASE Gone(m.instance)
      BY <3>1, InstallFacts
    <3>2. CASE m.instance = main.core
      BY <2>1, <3>2, InstallFacts
    <3> QED BY <2>1, <3>1, <3>2
  <2>2. main'.core = main.core => main'.lastAction = main.lastAction
                                  /\ main'.inHandoff = main.inHandoff
    BY <1>2 DEF MainMoved
  <2> QED BY <1>1, <1>3, <2>1, <2>2 DEF ForMain
<1>4. ASSUME NEW m, ForSatellite(m) PROVE ForSatellite(m)'
  <2>1. go.phase \in Opening => main'.draft = main.draft
    BY InstallKeepsDraft DEF HostFits, Undocked, Opening
  <2>2. main.core = go.instance /\ go.instance # 0 =>
          /\ main'.core = main.core /\ main'.lastAction = main.lastAction
          /\ main'.lastOk = main.lastOk /\ main'.inHandoff = main.inHandoff
          /\ main'.inAck = main.inAck
    BY <1>2, InstallKeepsCore DEF MainMoved
  <2>3. Undocked => main.core = go.instance /\ go.instance # 0
    BY DEF MainFits, StatesFit, MainFollows, HostFits
  <2>4. go.phase \in Opening => go.instance # 0
    BY DEF HostFits, Opening
  <2> QED BY <1>1, <1>4, <2>1, <2>2, <2>3, <2>4 DEF ForSatellite, Leaving
<1> QED BY <1>3, <1>4, MessagesKept

LEMMA InstallsKeeps ==
  ASSUME WindowInv, WindowTypeOK', HostFits', NEW s, MainInstalls(s), MessagesHold
  PROVE  WindowInv' /\ SameText
<1> USE DEF WindowInv
<1>1. Counted
  BY CountedType
<1>2. /\ (Undocked' <=> Undocked) /\ (Running' <=> Running) /\ (Leaving' <=> Leaving)
      /\ go' = go /\ seqs' = seqs /\ sat' = sat /\ (Quiesced' <=> Quiesced)
      /\ SatSees /\ SatFresh' /\ SeenBy("satellite")' = SeenBy("satellite")
  BY SatStillSees DEF MainInstalls, HostStill, SatStill, Undocked, Leaving
<1>3. Undocked => main.st.instance = go.instance /\ main.core = go.instance /\ go.instance # 0
  BY DEF MainFits, StatesFit, MainFollows, HostFits
<1>4. Undocked => main'.core = main.core /\ main'.st.instance = go.instance
  BY <1>3, InstallKeepsCore, InstallFacts
<1>5. MainSees
  BY <1>4, InstallFacts DEF MainSees, MainInstalls
<1>6. StatesFit'
  BY <1>2, <1>5, SeenStates DEF MainInstalls
<1>7. MainMoved(main, s, main')
  BY DEF MainInstalls
<1>8. SatFits'
  <2>1. main'.lastAction \in {0, main.lastAction}
    BY <1>7 DEF MainMoved
  <2>2. sat.action # 0 => main'.lastAction <= sat.action
    BY <1>1, <2>1 DEF Counted, SatFits
  <2>3. Running /\ sat.installed /\ go.phase \in Opening =>
          sat.draft = main'.draft /\ main'.core = go.instance
    BY InstallKeepsDraft, InstallKeepsCore DEF HostFits, Undocked, Opening, SatFits
  <2> QED BY <1>2, <2>2, <2>3 DEF SatFits
<1>9. Undocked => /\ main'.inHandoff = main.inHandoff /\ main'.inAck = main.inAck
                  /\ main'.lastAction = main.lastAction /\ main'.lastOk = main.lastOk
  BY <1>4, <1>7 DEF MainMoved
<1>10. MovesFit'
  <2>1. Leaving /\ main.inHandoff = go.handoff => main'.draft = main.draft
    BY InstallKeepsDraft
  <2>2. \A t \in news'["main"] : t \in news["main"]
    BY DEF MainInstalls
  <2> QED BY <1>2, <1>9, <2>1, <2>2 DEF MovesFit, Leaving
<1>11. SameText
  <2>1. ~Undocked => main'.draft = main.draft
    BY InstallKeepsDraft
  <2>2. Undocked => (Submitted' <=> Submitted)
    BY <1>2, <1>4, <1>9 DEF Submitted
  <2>3. go.mode # "docked" => Undocked
    BY DEF Undocked, WindowTypeOK, HostTypeOK, Runtimes, Modes
  <2> QED BY <1>2, <2>1, <2>2, <2>3 DEF SameText, ComposerText, Undocked
<1> QED BY <1>2, <1>6, <1>8, <1>10, <1>11, InstallsMainFits, InstallsMessages

\* What a step of main that installs no state leaves of it.
MainAlike ==
  /\ news'["main"] = news["main"]
  /\ main'.st = main.st /\ main'.core = main.core /\ main'.frozen = main.frozen
  /\ main'.transfer = main.transfer /\ main'.payload = main.payload
  /\ main'.settled = main.settled

LEMMA AlikeStates ==
  ASSUME WindowInv, HostStill, SatStill, MainAlike
  PROVE  /\ StatesFit' /\ SatFresh' /\ (Quiesced' <=> Quiesced)
         /\ SeenBy("satellite")' = SeenBy("satellite")
         /\ (\A k : Gone(k) => Gone(k)')
         /\ (Undocked' <=> Undocked) /\ (Leaving' <=> Leaving)
         /\ Undocked => main.core = go.instance /\ go.instance # 0
<1>1. MainSees
  BY DEF MainAlike, MainSees, SeenBy, WindowInv, StatesFit, MainFollows, MainInOrder
<1>2. StatesFit'
  BY <1>1, SeenStates, SatStillSees
<1>3. \A k : Gone(k) => Gone(k)'
  BY DEF Gone, HostStill, MainAlike, SeenBy
<1>4. (Undocked' <=> Undocked) /\ (Leaving' <=> Leaving)
  BY DEF HostStill, Undocked, Leaving
<1>5. Undocked => main.core = go.instance /\ go.instance # 0
  BY DEF WindowInv, MainFits, StatesFit, MainFollows, HostFits
<1> QED BY <1>2, <1>3, <1>4, <1>5, SatStillSees

LEMMA TextOf ==
  ASSUME WindowTypeOK, WindowTypeOK'
  PROVE  /\ ComposerText = IF Undocked THEN IF Submitted THEN 0 ELSE sat.draft ELSE main.draft
         /\ ComposerText' = IF Undocked' THEN IF Submitted' THEN 0 ELSE sat'.draft
                           ELSE main'.draft
BY DEF ComposerText, Undocked, WindowTypeOK, HostTypeOK, Runtimes, Modes

\* Main runs the Send the Golem window waits for.
Executes(m) ==
  /\ HostStill /\ SatStill /\ MainAlike
  /\ m \in ToMain /\ m.kind = "action" /\ m.instance = main.core /\ m.id > main.lastAction
  /\ main'.draft = main.draft /\ main'.inHandoff = main.inHandoff
  /\ main'.inAck = main.inAck /\ main'.claimed = main.claimed
  /\ main'.lastAction = m.id /\ main'.settling = m.id

LEMMA ExecutesKeeps ==
  ASSUME WindowInv, WindowTypeOK', HostFits', NEW m, Executes(m), MessagesHold
  PROVE  /\ WindowInv'
         /\ m.text # 0 /\ ComposerText = m.text
         /\ ComposerText' = IF main'.lastOk THEN 0 ELSE m.text
<1> USE DEF WindowInv
<1>1. Counted
  BY CountedType
<1>2. /\ StatesFit' /\ SatFresh' /\ (Quiesced' <=> Quiesced)
      /\ SeenBy("satellite")' = SeenBy("satellite")
      /\ (\A k : Gone(k) => Gone(k)')
      /\ (Undocked' <=> Undocked) /\ (Leaving' <=> Leaving)
      /\ Undocked => main.core = go.instance /\ go.instance # 0
  BY AlikeStates DEF Executes
<1>3. m.id # 0 /\ m.instance = go.instance /\ sat.action = m.id /\ sat.text = m.text
      /\ m.instance # 0
  BY DEF Executes, ForMain, MessagesFit
<1>4. /\ Undocked /\ Running /\ sat.instance = go.instance /\ sat.text = sat.draft
      /\ sat.draft # 0 /\ sat.action <= sat.nextId
  BY <1>3 DEF SatFits
<1>5. m.id \in Nat
  BY <1>1, <1>3 DEF Counted
<1> DEFINE id == m.id
<1>6. main'.lastAction = id /\ id \in Nat /\ id > main.lastAction /\ id <= sat.nextId
  BY <1>3, <1>4, <1>5 DEF Executes
<1>7. MainFits'
  BY <1>1, <1>2, <1>3, <1>4, <1>6
     DEF Counted, MainFits, Executes, MainAlike, HostStill, SatStill
<1>8. SatFits'
  BY <1>1, <1>2, <1>3, <1>4, <1>6
     DEF Counted, SatFits, Executes, MainAlike, HostStill, SatStill
<1>9. MessagesFit'
  <2>1. ASSUME NEW n \in ToMain' PROVE ForMain(n)'
    <3>1. PICK o \in ToMain : ForMain(n)' \/ MessageLike(o, n)
      BY <2>1, MessagesKept DEF MessagesHold, Executes
    <3>2. CASE MessageLike(o, n)
      <4>1. ForMain(n)
        BY <3>2, CopyFits DEF MessagesFit
      <4>2. n.id \in Nat
        BY <3>2, ToMainType, MessageFields DEF MessageLike
      <4>3. n.kind = "action" /\ n.instance = main.core /\ n.id > id => FALSE
        BY <1>1, <1>3, <1>6, <4>1, <4>2 DEF ForMain, Counted
      <4> QED
        BY <1>2, <1>6, <4>1, <4>3 DEF ForMain, Executes, MainAlike, HostStill, SatStill
    <3> QED BY <3>1, <3>2
  <2>2. ASSUME NEW n \in ToSatellite' PROVE ForSatellite(n)'
    <3>1. CASE ForSatellite(n)'
      BY <3>1
    <3>2. CASE \E o \in ToSatellite : MessageLike(o, n)
      <4>1. PICK o \in ToSatellite : MessageLike(o, n)
        BY <3>2
      <4>2. ForSatellite(n)
        BY <4>1, CopyFits DEF MessagesFit
      <4>3. n.id \in Nat
        BY <4>1, ToSatelliteType, MessageFields DEF MessageLike
      <4>4. n.kind = "ack" /\ n.handoff = 0 /\ n.instance = go.instance =>
              n.id <= id /\ n.id # id
        BY <1>1, <1>6, <4>2, <4>3 DEF ForSatellite, Counted
      <4> QED
        BY <1>2, <1>6, <4>2, <4>4 DEF ForSatellite, Executes, MainAlike, HostStill, SatStill
    <3> QED BY <2>2, <3>1, <3>2 DEF MessagesHold
  <2> QED BY <2>1, <2>2 DEF MessagesFit
<1>10. MovesFit'
  BY <1>2 DEF MovesFit, Executes, MainAlike, HostStill, SatStill
<1>11. m.text # 0 /\ ComposerText = m.text
  <2>1. ~Submitted
    BY <1>1, <1>3 DEF Submitted, Executes, Counted
  <2> QED BY <1>3, <1>4, <2>1, TextOf
<1>12. ComposerText' = IF main'.lastOk THEN 0 ELSE m.text
  <2>1. Submitted' <=> main'.lastOk
    BY <1>2, <1>3, <1>4 DEF Submitted, Executes, MainAlike, SatStill
  <2>2. ComposerText' = IF Undocked' THEN IF Submitted' THEN 0 ELSE sat'.draft ELSE main'.draft
    BY TextOf
  <2> QED BY <1>2, <1>3, <1>4, <2>1, <2>2 DEF Executes, SatStill
<1> QED BY <1>2, <1>7, <1>8, <1>9, <1>10, <1>11, <1>12

\* Main claims the map of the move back.
Claims(m) ==
  /\ HostStill /\ SatStill /\ MainAlike
  /\ m \in ToMain /\ m.kind = "drafts" /\ m.instance = main.core
  /\ main.st.phase = "closing" /\ m.handoff = main.st.handoff /\ m.handoff > main.inHandoff
  /\ main'.draft = main.draft /\ main'.lastAction = main.lastAction
  /\ main'.lastOk = main.lastOk /\ main'.settling = main.settling
  /\ main'.inHandoff = m.handoff /\ main'.inAck = "none" /\ main'.claimed = m

LEMMA ClaimsKeeps ==
  ASSUME WindowInv, WindowTypeOK', HostFits', NEW m, Claims(m), MessagesHold
  PROVE  WindowInv' /\ SameText
<1> USE DEF WindowInv
<1>1. Counted
  BY CountedType
<1>2. /\ StatesFit' /\ SatFresh' /\ (Quiesced' <=> Quiesced)
      /\ SeenBy("satellite")' = SeenBy("satellite")
      /\ (\A k : Gone(k) => Gone(k)')
      /\ (Undocked' <=> Undocked) /\ (Leaving' <=> Leaving)
      /\ Undocked => main.core = go.instance /\ go.instance # 0
  BY AlikeStates DEF Claims
<1>3. ForMain(m) /\ m.handoff \in Nat
  BY ToMainType, MessageFields DEF Claims, MessagesFit
<1>4. m.instance # 0 /\ m.handoff # 0 /\ m.handoff <= seqs.handoff /\ Undocked
  BY <1>1, <1>3 DEF ForMain, Claims, Counted
<1>5. go.handoff = seqs.handoff
  BY <1>4 DEF HostFits, Undocked
<1>6. ~(main.inHandoff = go.handoff)
  BY <1>1, <1>3, <1>4, <1>5 DEF Claims, Counted
<1>7. MainFits'
  BY <1>1, <1>2, <1>3, <1>4 DEF Counted, MainFits, Claims, MainAlike, HostStill, SatStill
<1>8. SatFits'
  BY <1>1, <1>2 DEF Counted, SatFits, Claims, MainAlike, HostStill, SatStill
<1>9. ASSUME NEW n, ForMain(n) PROVE ForMain(n)'
  BY <1>2, <1>4, <1>9 DEF ForMain, Claims, MainAlike, HostStill, SatStill
<1>10. ASSUME NEW n, ForSatellite(n) PROVE ForSatellite(n)'
  BY <1>2, <1>6, <1>10 DEF ForSatellite, Claims, MainAlike, HostStill, SatStill
<1>11. MessagesFit'
  BY <1>9, <1>10, MessagesKept
<1>12. MovesFit'
  <2>1. Leaving /\ m.handoff = go.handoff => \A t \in news["main"] : t.phase # "ready"
    <3>1. SUFFICES ASSUME Leaving, m.handoff = go.handoff, NEW t \in news["main"]
                   PROVE  t.phase # "ready"
      OBVIOUS
    <3>2. t \in SeenBy("main") /\ main.st \in SeenBy("main") /\ t.rev > main.st.rev
      BY DEF SeenBy, StatesFit, MainInOrder
    <3>3. t.rev >= main.st.rev
      BY <3>2, SeenType, SnapshotNumbers DEF SeenTypeOK
    <3> QED BY <3>1, <3>2, <3>3 DEF Claims, StatesFit, NoWayBack, Windows
  <2> QED
    BY <1>2, <1>6, <2>1 DEF MovesFit, Claims, MainAlike, HostStill, SatStill
<1>13. SameText
  <2>1. Submitted' <=> Submitted
    BY DEF Submitted, Claims, MainAlike, SatStill
  <2> QED BY <1>2, <2>1, TextOf DEF SameText, Claims, SatStill
<1> QED BY <1>2, <1>7, <1>8, <1>11, <1>12, <1>13

\* Main installs the map it has claimed, or refuses one that was never its own.
Takes ==
  /\ HostStill /\ SatStill /\ MainAlike
  /\ main.claimed # NoMessage
  /\ main'.lastAction = main.lastAction /\ main'.lastOk = main.lastOk
  /\ main'.settling = main.settling /\ main'.inHandoff = main.inHandoff
  /\ main'.claimed = NoMessage
  /\ \/ main'.inAck = "ok" /\ main'.draft = main.claimed.text
     \/ main'.inAck = "refused" /\ main'.draft = main.draft

LEMMA TakesKeeps ==
  ASSUME WindowInv, WindowTypeOK', HostFits', Takes, MessagesHold
  PROVE  WindowInv' /\ SameText
<1> USE DEF WindowInv
<1>1. Counted
  BY CountedType
<1>2. /\ StatesFit' /\ SatFresh' /\ (Quiesced' <=> Quiesced)
      /\ SeenBy("satellite")' = SeenBy("satellite")
      /\ (\A k : Gone(k) => Gone(k)')
      /\ (Undocked' <=> Undocked) /\ (Leaving' <=> Leaving)
      /\ Undocked => main.core = go.instance /\ go.instance # 0
  BY AlikeStates DEF Takes
<1>3. /\ Undocked /\ go.phase \notin Opening /\ main.inAck = "none"
      /\ main.claimed.handoff = main.inHandoff /\ main.claimed.kind = "drafts"
      /\ main.claimed.instance = go.instance
  BY <1>2 DEF Takes, MainFits, HostFits, Opening, Undocked
<1>4. ForMain(main.claimed)
  BY DEF Takes, MessagesFit, ToMain
<1>5. Leaving /\ main.inHandoff = go.handoff => Quiesced /\ main.claimed.text = sat.draft
  BY <1>3, <1>4 DEF ForMain
<1>6. MainFits'
  BY <1>1, <1>2, <1>3 DEF Counted, MainFits, Takes, MainAlike, HostStill, SatStill
<1>7. SatFits'
  BY <1>1, <1>2, <1>3 DEF Counted, SatFits, Takes, MainAlike, HostStill, SatStill
<1>8. ASSUME NEW n, ForMain(n) PROVE ForMain(n)'
  BY <1>2, <1>3, <1>8 DEF ForMain, Takes, MainAlike, HostStill, SatStill
<1>9. ASSUME NEW n, ForSatellite(n) PROVE ForSatellite(n)'
  BY <1>2, <1>3, <1>9 DEF ForSatellite, Takes, MainAlike, HostStill, SatStill
<1>10. MessagesFit'
  BY <1>8, <1>9, MessagesKept
<1>11. MovesFit'
  BY <1>2, <1>3, <1>5 DEF MovesFit, Takes, MainAlike, HostStill, SatStill
<1>12. SameText
  <2>1. Submitted' <=> Submitted
    BY DEF Submitted, Takes, MainAlike, SatStill
  <2> QED BY <1>2, <1>3, <2>1, TextOf DEF SameText, Takes, SatStill
<1> QED BY <1>2, <1>6, <1>7, <1>10, <1>11, <1>12

\* The user types or sends in the main window.
MainEdits ==
  /\ HostStill /\ SatStill /\ MainAlike /\ StillMessages
  /\ ~main.frozen
  /\ main'.lastAction = main.lastAction /\ main'.lastOk = main.lastOk
  /\ main'.settling = main.settling /\ main'.inHandoff = main.inHandoff
  /\ main'.inAck = main.inAck /\ main'.claimed = main.claimed

\* An open main window has no part in a move.
LEMMA MainOpen ==
  ASSUME WindowInv, ~main.frozen
  PROVE  /\ ~Undocked /\ main.core = 0 /\ (go.phase \in Opening => go.instance # 0)
<1> USE DEF WindowInv
<1>1. main.st.phase = "closed" /\ main.st.instance = 0
  BY SeenType DEF MainFits, SeenTypeOK, SeenBy, SnapshotFits
<1> QED BY <1>1 DEF MainFits, StatesFit, MainFollows, HostFits, Opening

LEMMA MainEditsKeeps ==
  ASSUME WindowInv, WindowTypeOK', HostFits', MainEdits
  PROVE  /\ WindowInv'
         /\ ComposerText = main.draft /\ ComposerText' = main'.draft
<1> USE DEF WindowInv
<1>1. Counted
  BY CountedType
<1>2. /\ StatesFit' /\ SatFresh' /\ (Quiesced' <=> Quiesced)
      /\ SeenBy("satellite")' = SeenBy("satellite")
      /\ (\A k : Gone(k) => Gone(k)')
      /\ (Undocked' <=> Undocked) /\ (Leaving' <=> Leaving)
  BY AlikeStates DEF MainEdits
<1>3. ~Undocked /\ ~Leaving /\ main.core = 0 /\ (go.phase \in Opening => go.instance # 0)
  BY MainOpen DEF MainEdits, Leaving
<1>4. MainFits'
  BY <1>1, <1>2, <1>3 DEF Counted, MainFits, MainEdits, MainAlike, HostStill, SatStill
<1>5. SatFits'
  BY <1>1, <1>2, <1>3 DEF Counted, SatFits, MainEdits, MainAlike, HostStill, SatStill
<1>6. ASSUME NEW n, ForMain(n) PROVE ForMain(n)'
  BY <1>2, <1>6 DEF ForMain, MainEdits, MainAlike, HostStill, SatStill
<1>7. ASSUME NEW n, ForSatellite(n) PROVE ForSatellite(n)'
  BY <1>2, <1>3, <1>7 DEF ForSatellite, MainEdits, MainAlike, HostStill, SatStill
<1>8. MessagesHold
  <2>1. ToMain' = ToMain /\ ToSatellite' = ToSatellite
    BY DEF ToMain, ToSatellite, Queued, MainEdits, StillMessages, SatStill
  <2> QED BY <2>1 DEF MessagesHold, MessageLike
<1>9. MessagesFit'
  BY <1>6, <1>7, <1>8, MessagesKept
<1>10. MovesFit'
  BY <1>2, <1>3 DEF MovesFit
<1> QED BY <1>2, <1>3, <1>4, <1>5, <1>9, <1>10, TextOf

(***************************************************************************)
(* Steps of the Golem window.                                              *)
(***************************************************************************)
Rests == HostStill /\ MainStill /\ (Running' <=> Running)

LEMMA RestsFacts ==
  ASSUME WindowInv, Rests
  PROVE  /\ (Undocked' <=> Undocked) /\ (Leaving' <=> Leaving)
         /\ (\A k : Gone(k) => Gone(k)') /\ MainSees
         /\ go' = go /\ seqs' = seqs /\ main' = main /\ news'["main"] = news["main"]
BY MainStillSees DEF Rests, HostStill, MainStill, Undocked, Leaving

\* The Golem window installs a state: none it knows is older.
SatHears(s) ==
  /\ Rests /\ Running
  /\ s \in SeenBy("satellite")
  /\ \A t \in news["satellite"] : s.rev <= t.rev
  /\ \A t \in news'["satellite"] : t \in news["satellite"]
  /\ SatMoved([sat EXCEPT !.boot = sat'.boot, !.instance = sat'.instance], s, sat')
  /\ sat'.instance \in {sat.instance, go.instance}
  /\ sat'.boot = "up" => sat'.instance = go.instance

LEMMA HearsFields ==
  ASSUME WindowTypeOK, NEW s, SatHears(s)
  PROVE  /\ sat'.st = s /\ sat'.draft = sat.draft
         /\ sat'.installed = sat.installed /\ sat'.deferred = sat.deferred
         /\ sat'.action = sat.action /\ sat'.text = sat.text /\ sat'.nextId >= sat.nextId
         /\ sat'.frozen \/ s.phase = "ready"
         /\ \/ sat'.handoff = sat.handoff /\ sat'.stage = sat.stage /\ sat'.payload = sat.payload
            \/ sat'.handoff = sat.handoff /\ sat'.stage \in {"none", "settled"}
            \/ /\ sat'.handoff = s.handoff /\ sat'.stage = "draining"
               /\ s.phase = "closing" /\ s.mode = "undocked"
         /\ \A t \in SeenBy("satellite")' : t \in SeenBy("satellite")
<1> DEFINE w == [sat EXCEPT !.boot = sat'.boot, !.instance = sat'.instance]
<1>1. /\ w.draft = sat.draft /\ w.installed = sat.installed /\ w.deferred = sat.deferred
      /\ w.action = sat.action /\ w.text = sat.text /\ w.nextId = sat.nextId
      /\ w.handoff = sat.handoff /\ w.stage = sat.stage /\ w.payload = sat.payload
  BY DEF WindowTypeOK, Sats
<1>2. SatMoved(w, s, sat')
  BY DEF SatHears
<1> HIDE DEF w
<1> QED BY <1>1, <1>2 DEF SatMoved, SatHears, SeenBy

LEMMA HearsKeeps ==
  ASSUME WindowInv, WindowTypeOK', HostFits', NEW s, SatHears(s), MessagesHold
  PROVE  WindowInv' /\ SameText
<1> USE DEF WindowInv
<1>1. Counted
  BY CountedType
<1>2. /\ (Undocked' <=> Undocked) /\ (Leaving' <=> Leaving) /\ Running /\ Running'
      /\ (\A k : Gone(k) => Gone(k)') /\ MainSees
      /\ go' = go /\ seqs' = seqs /\ main' = main /\ news'["main"] = news["main"]
  BY RestsFacts DEF SatHears, Rests
<1>3. /\ sat'.st = s /\ sat'.draft = sat.draft
      /\ sat'.installed = sat.installed /\ sat'.deferred = sat.deferred
      /\ sat'.action = sat.action /\ sat'.text = sat.text /\ sat'.nextId >= sat.nextId
      /\ sat'.frozen \/ s.phase = "ready"
      /\ \/ sat'.handoff = sat.handoff /\ sat'.stage = sat.stage /\ sat'.payload = sat.payload
         \/ sat'.handoff = sat.handoff /\ sat'.stage \in {"none", "settled"}
         \/ /\ sat'.handoff = s.handoff /\ sat'.stage = "draining"
            /\ s.phase = "closing" /\ s.mode = "undocked"
      /\ \A t \in SeenBy("satellite")' : t \in SeenBy("satellite")
  BY HearsFields
<1>4. s \in SeenBy("satellite") /\ s \in Snapshots /\ SnapshotFits(s)
  BY SeenType DEF SeenTypeOK, SatHears
<1>5. StatesFit'
  BY <1>2, <1>3, SeenStates DEF SatSees, SatHears, Rests
<1>6. SatFresh'
  BY <1>2 DEF SatFresh
<1>7. MainFits'
  BY <1>1, <1>2, <1>3 DEF Counted, MainFits
<1>8. SatFits'
  <2>1. sat'.stage \in {"draining", "posted"} => Undocked /\ sat'.handoff # 0
    BY <1>2, <1>3, <1>4 DEF SatFits, SnapshotFits, StatesFit, SatFollows
  <2>2. sat'.handoff <= seqs.handoff
    BY <1>3, <1>4 DEF SatFits, SnapshotFits
  <2>3. Running' /\ sat'.boot = "up" => sat'.instance = go.instance
    BY DEF SatHears
  <2>4. sat'.action # 0 =>
          /\ Undocked /\ sat'.instance = go.instance
          /\ sat'.text = sat'.draft /\ sat'.draft # 0
          /\ main.lastAction <= sat'.action /\ sat'.action <= sat'.nextId
    BY <1>1, <1>3 DEF SatFits, SatHears, Counted
  <2> QED BY <1>2, <1>3, <2>1, <2>2, <2>3, <2>4 DEF SatFits
<1>9. Quiesced => Quiesced'
  BY <1>3 DEF Quiesced
<1>10. MessagesFit'
  <2>1. ASSUME NEW m, ForMain(m) PROVE ForMain(m)'
    BY <1>2, <1>3, <1>9, <2>1 DEF ForMain
  <2>2. ASSUME NEW m, ForSatellite(m) PROVE ForSatellite(m)'
    BY <1>2, <2>2 DEF ForSatellite
  <2> QED BY <2>1, <2>2, MessagesKept
<1>11. MovesFit'
  <2>1. ASSUME Leaving, sat'.handoff = go.handoff, NEW t \in SeenBy("satellite")'
        PROVE  t.phase # "ready"
    <3>1. CASE sat'.handoff = sat.handoff
      BY <1>2, <1>3, <2>1, <3>1 DEF MovesFit
    <3>2. CASE s.phase = "closing" /\ sat'.handoff = s.handoff
      <4>1. t = s \/ t \in news["satellite"]
        BY <1>3, <2>1 DEF SeenBy, SatHears
      <4>2. t \in SeenBy("satellite") /\ t.rev >= s.rev
        BY <1>3, <1>4, <2>1, <4>1, SeenType, SnapshotNumbers DEF SatHears, SeenTypeOK
      <4> QED BY <1>4, <2>1, <3>2, <4>2 DEF StatesFit, NoWayBack, Windows
    <3> QED BY <1>3, <3>1, <3>2
  <2>2. Leaving /\ sat'.handoff = go.handoff /\ sat'.stage = "posted" =>
          sat'.action = 0 /\ sat'.payload = sat'.draft
    BY <1>2, <1>3 DEF MovesFit
  <2> QED BY <1>2, <1>3, <1>9, <2>1, <2>2 DEF MovesFit
<1>12. SameText
  <2>1. Submitted' <=> Submitted
    BY <1>2, <1>3 DEF Submitted, SatFits, SatHears
  <2> QED BY <1>2, <1>3, <2>1, TextOf DEF SameText
<1> QED BY <1>2, <1>5, <1>6, <1>7, <1>8, <1>10, <1>11, <1>12

\* What a step of the Golem window that installs no state leaves of it.
SatAlike ==
  /\ Rests /\ Running
  /\ news'["satellite"] = news["satellite"]
  /\ sat'.st = sat.st /\ sat'.instance = sat.instance /\ sat'.handoff = sat.handoff
  /\ sat'.boot = sat.boot /\ (sat'.frozen \/ sat'.st.phase = "ready")

LEMMA SatAlikeFacts ==
  ASSUME WindowInv, SatAlike
  PROVE  /\ StatesFit' /\ SatFresh'
         /\ (Undocked' <=> Undocked) /\ (Leaving' <=> Leaving) /\ Running'
         /\ (\A k : Gone(k) => Gone(k)')
         /\ go' = go /\ seqs' = seqs /\ main' = main /\ news'["main"] = news["main"]
         /\ SeenBy("satellite")' = SeenBy("satellite")
<1>1. SeenBy("satellite")' = SeenBy("satellite")
  BY DEF SeenBy, SatAlike
<1>2. /\ (Undocked' <=> Undocked) /\ (Leaving' <=> Leaving) /\ Running'
      /\ (\A k : Gone(k) => Gone(k)') /\ MainSees
      /\ go' = go /\ seqs' = seqs /\ main' = main /\ news'["main"] = news["main"]
  BY RestsFacts DEF SatAlike, Rests
<1>3. StatesFit'
  BY <1>1, <1>2, SeenStates DEF SatSees, SatAlike, Rests
<1> QED BY <1>1, <1>2, <1>3 DEF SatFresh

\* A window that accepts typing is where the chat is.
LEMMA SatOpen ==
  ASSUME WindowInv, Running, ~sat.frozen
  PROVE  /\ Undocked /\ ~Quiesced /\ sat.st.phase = "ready" /\ go.phase \notin Opening
         /\ main.core = go.instance /\ go.instance # 0
         /\ ~(Leaving /\ sat.handoff = go.handoff)
         /\ ~(Leaving /\ main.inHandoff = go.handoff /\ main.inAck = "ok")
<1> USE DEF WindowInv
<1>1. sat.st.phase = "ready" /\ sat.st \in SeenBy("satellite")
  BY DEF SatFits, SeenBy
<1>2. SnapshotFits(sat.st)
  BY <1>1, SeenType DEF SeenTypeOK
<1>3. Undocked
  BY <1>1, <1>2 DEF SnapshotFits, StatesFit, SatFollows
<1>4. go.phase \notin Opening /\ main.core = go.instance /\ go.instance # 0
  BY <1>3 DEF HostFits, Opening, MainFits, StatesFit, MainFollows
<1>5. ~Quiesced
  BY <1>1 DEF Quiesced
<1> QED BY <1>1, <1>3, <1>4, <1>5 DEF MovesFit

\* The user types in the Golem window.
SatEdits ==
  /\ SatAlike /\ StillMessages
  /\ ~sat.frozen /\ sat.action = 0 /\ sat'.action = 0
  /\ sat'.installed = sat.installed /\ sat'.deferred = sat.deferred
  /\ sat'.nextId = sat.nextId /\ sat'.stage = sat.stage /\ sat'.payload = sat.payload

LEMMA SatEditsKeeps ==
  ASSUME WindowInv, WindowTypeOK', HostFits', SatEdits
  PROVE  WindowInv' /\ ComposerText' = sat'.draft
<1> USE DEF WindowInv
<1>1. Counted
  BY CountedType
<1>2. /\ StatesFit' /\ SatFresh'
      /\ (Undocked' <=> Undocked) /\ (Leaving' <=> Leaving) /\ Running' /\ Running
      /\ (\A k : Gone(k) => Gone(k)')
      /\ go' = go /\ seqs' = seqs /\ main' = main /\ news'["main"] = news["main"]
      /\ SeenBy("satellite")' = SeenBy("satellite")
  BY SatAlikeFacts DEF SatEdits, SatAlike
<1>3. /\ Undocked /\ ~Quiesced /\ go.phase \notin Opening
      /\ ~(Leaving /\ sat.handoff = go.handoff)
      /\ ~(Leaving /\ main.inHandoff = go.handoff /\ main.inAck = "ok")
  BY SatOpen DEF SatEdits, SatAlike
<1>4. MainFits'
  BY <1>1, <1>2 DEF Counted, MainFits, SatEdits
<1>5. SatFits'
  BY <1>1, <1>2, <1>3 DEF Counted, SatFits, SatEdits, SatAlike
<1>6. ASSUME NEW n \in ToMain, ForMain(n) PROVE ForMain(n)'
  BY <1>2, <1>3, <1>6 DEF ForMain, SatEdits
<1>7. ASSUME NEW n, ForSatellite(n) PROVE ForSatellite(n)'
  BY <1>2, <1>7 DEF ForSatellite
<1>8. ToMain' = ToMain /\ ToSatellite' = ToSatellite
  BY <1>2 DEF ToMain, ToSatellite, Queued, SatEdits, StillMessages
<1>9. MessagesFit'
  BY <1>6, <1>7, <1>8 DEF MessagesFit
<1>10. MovesFit'
  BY <1>2, <1>3 DEF MovesFit, SatEdits, SatAlike
<1> QED
  BY <1>2, <1>3, <1>4, <1>5, <1>9, <1>10, TextOf DEF SatEdits, Submitted

\* A Send leaves the Golem window.
SatSends ==
  /\ SatAlike
  /\ ~sat.frozen /\ sat.boot = "up" /\ sat.action = 0 /\ sat.draft # 0
  /\ sat'.action = sat.nextId + 1 /\ sat'.nextId = sat.nextId + 1
  /\ sat'.text = sat.draft /\ sat'.draft = sat.draft
  /\ sat'.installed = sat.installed /\ sat'.deferred = sat.deferred
  /\ sat'.stage = sat.stage /\ sat'.payload = sat.payload
  /\ relayed' = relayed
  /\ posts' = posts \cup
       {Message("satellite", "action", sat.instance, 0, sat.nextId + 1, sat.draft, FALSE)}

LEMMA SatSendsKeeps ==
  ASSUME WindowInv, WindowTypeOK', HostFits', SatSends
  PROVE  WindowInv' /\ SameText
<1> USE DEF WindowInv
<1>1. Counted
  BY CountedType
<1>2. /\ StatesFit' /\ SatFresh'
      /\ (Undocked' <=> Undocked) /\ (Leaving' <=> Leaving) /\ Running' /\ Running
      /\ (\A k : Gone(k) => Gone(k)')
      /\ go' = go /\ seqs' = seqs /\ main' = main /\ news'["main"] = news["main"]
      /\ SeenBy("satellite")' = SeenBy("satellite")
  BY SatAlikeFacts DEF SatSends, SatAlike
<1>3. /\ Undocked /\ ~Quiesced /\ go.phase \notin Opening
      /\ main.core = go.instance /\ go.instance # 0
      /\ ~(Leaving /\ sat.handoff = go.handoff)
      /\ ~(Leaving /\ main.inHandoff = go.handoff /\ main.inAck = "ok")
  BY SatOpen DEF SatSends, SatAlike
<1>4. sat.instance = go.instance /\ go.instance <= seqs.instance /\ main.lastAction <= sat.nextId
  BY <1>1, <1>2, <1>3 DEF SatFits, SatSends, HostFits, MainFits, Counted
<1>5. sat'.action # 0 /\ main.lastAction < sat'.action /\ sat.nextId <= sat'.nextId
      /\ sat'.action = sat'.nextId
  BY <1>1, <1>4 DEF Counted, SatSends
<1>6. MainFits'
  BY <1>1, <1>2, <1>4, <1>5 DEF Counted, MainFits, SatSends
<1>7. SatFits'
  BY <1>1, <1>2, <1>3, <1>4, <1>5 DEF Counted, SatFits, SatSends, SatAlike
<1>8. PICK m : m = Message("satellite", "action", sat.instance, 0, sat.nextId + 1, sat.draft, FALSE)
  OBVIOUS
<1>9. /\ m.from = "satellite" /\ m.kind = "action" /\ m.instance = go.instance /\ m.handoff = 0
      /\ m.id = sat'.action /\ m.text = sat'.text
  BY <1>4, <1>8 DEF Message, SatSends
<1>10. ForMain(m)'
  BY <1>1, <1>2, <1>3, <1>4, <1>5, <1>9 DEF ForMain, Counted
<1>11. ASSUME NEW n, ForMain(n) PROVE ForMain(n)'
  BY <1>2, <1>3, <1>11 DEF ForMain, SatSends
<1>12. ASSUME NEW n, ForSatellite(n) PROVE ForSatellite(n)'
  BY <1>2, <1>12 DEF ForSatellite
<1>13. MessagesFit'
  <2>1. \A n \in ToMain' : n \in ToMain \/ n = m
    BY <1>2, <1>8 DEF ToMain, Queued, SatSends
  <2>2. \A n \in ToSatellite' : n \in ToSatellite
    BY <1>8, <1>9 DEF ToSatellite, Queued, SatSends
  <2> QED BY <1>10, <1>11, <1>12, <2>1, <2>2 DEF MessagesFit
<1>14. MovesFit'
  BY <1>2, <1>3 DEF MovesFit, SatSends, SatAlike
<1>15. SameText
  <2>1. ~Submitted' /\ ~Submitted
    BY <1>1, <1>2, <1>5 DEF Submitted, SatSends, Counted
  <2> QED BY <1>2, <1>3, <2>1, TextOf DEF SameText, SatSends
<1> QED BY <1>2, <1>6, <1>7, <1>13, <1>14, <1>15

\* The map is read for the move back, after the Sends before it.
Drains ==
  /\ SatAlike
  /\ sat.boot = "up" /\ sat.stage = "draining" /\ sat.action = 0
  /\ sat'.stage = "posted" /\ sat'.payload = sat.draft
  /\ sat'.action = sat.action /\ sat'.text = sat.text /\ sat'.draft = sat.draft
  /\ sat'.nextId = sat.nextId
  /\ sat'.installed = sat.installed /\ sat'.deferred = sat.deferred
  /\ relayed' = relayed
  /\ \E m \in Messages :
       /\ m.from = "satellite" /\ m.kind = "drafts" /\ m.instance = sat.instance
       /\ m.handoff = sat.handoff /\ m.text = sat.draft
       /\ posts' = posts \cup {m}

\* A map on its way back to main fits.
LEMMA MapFits ==
  ASSUME WindowInv, NEW m, Running, sat.boot = "up", sat.stage \in {"draining", "posted"},
         sat.action = 0,
         m.kind = "drafts", m.instance = sat.instance, m.handoff = sat.handoff,
         Leaving /\ sat.handoff = go.handoff => m.text = sat.draft
  PROVE  ForMain(m)
<1> USE DEF WindowInv
<1>1. Undocked /\ sat.handoff # 0 /\ sat.handoff <= seqs.handoff /\ sat.instance = go.instance
  BY DEF SatFits
<1>2. go.instance # 0 /\ go.instance <= seqs.instance /\ main.core = go.instance
  BY <1>1 DEF HostFits, MainFits, StatesFit, MainFollows, WindowTypeOK, HostTypeOK
<1>3. Leaving /\ sat.handoff = go.handoff => Quiesced
  BY DEF MovesFit, Quiesced
<1> QED BY <1>1, <1>2, <1>3 DEF ForMain

LEMMA DrainsKeeps ==
  ASSUME WindowInv, WindowTypeOK', HostFits', Drains
  PROVE  WindowInv' /\ SameText
<1> USE DEF WindowInv
<1>1. Counted
  BY CountedType
<1>2. /\ StatesFit' /\ SatFresh'
      /\ (Undocked' <=> Undocked) /\ (Leaving' <=> Leaving) /\ Running' /\ Running
      /\ (\A k : Gone(k) => Gone(k)')
      /\ go' = go /\ seqs' = seqs /\ main' = main /\ news'["main"] = news["main"]
      /\ SeenBy("satellite")' = SeenBy("satellite")
  BY SatAlikeFacts DEF Drains, SatAlike
<1>3. MainFits'
  BY <1>1, <1>2 DEF Counted, MainFits, Drains
<1>4. SatFits'
  BY <1>1, <1>2 DEF Counted, SatFits, Drains, SatAlike
<1>5. Quiesced' <=> Quiesced
  BY <1>2 DEF Quiesced, Drains
<1>6. ASSUME NEW n, ForMain(n) PROVE ForMain(n)'
  BY <1>2, <1>5, <1>6 DEF ForMain, Drains
<1>7. ASSUME NEW n, ForSatellite(n) PROVE ForSatellite(n)'
  BY <1>2, <1>7 DEF ForSatellite
<1>8. MessagesFit'
  <2>1. PICK m \in Messages :
          /\ m.from = "satellite" /\ m.kind = "drafts" /\ m.instance = sat.instance
          /\ m.handoff = sat.handoff /\ m.text = sat.draft
          /\ posts' = posts \cup {m}
    BY DEF Drains
  <2>2. ForMain(m)
    BY <1>2, <2>1, MapFits DEF Drains
  <2>3. \A n \in ToMain' : n \in ToMain \/ n = m
    BY <1>2, <2>1 DEF ToMain, Queued, Drains
  <2>4. \A n \in ToSatellite' : n \in ToSatellite
    BY <2>1 DEF ToSatellite, Queued, Drains
  <2> QED BY <1>6, <1>7, <2>2, <2>3, <2>4 DEF MessagesFit
<1>9. MovesFit'
  BY <1>2, <1>5 DEF MovesFit, Drains, SatAlike
<1>10. SameText
  <2>1. Submitted' <=> Submitted
    BY <1>2 DEF Submitted, Drains, SatAlike
  <2> QED BY <1>2, <2>1, TextOf DEF SameText, Drains
<1> QED BY <1>2, <1>3, <1>4, <1>8, <1>9, <1>10

\* The Golem window clears the text main has accepted.
Clears(m) ==
  /\ SatAlike
  /\ sat.boot = "up"
  /\ m \in ToSatellite /\ m.kind = "ack" /\ m.handoff = 0 /\ m.instance = sat.instance
  /\ sat.action = m.id
  /\ sat'.action = 0 /\ sat'.draft = IF m.ok THEN 0 ELSE sat.draft
  /\ sat'.stage = sat.stage /\ sat'.payload = sat.payload /\ sat'.nextId = sat.nextId
  /\ sat'.installed = sat.installed /\ sat'.deferred = sat.deferred

LEMMA ClearsKeeps ==
  ASSUME WindowInv, WindowTypeOK', HostFits', NEW m, Clears(m), MessagesHold
  PROVE  WindowInv' /\ SameText
<1> USE DEF WindowInv
<1>1. Counted
  BY CountedType
<1>2. /\ StatesFit' /\ SatFresh'
      /\ (Undocked' <=> Undocked) /\ (Leaving' <=> Leaving) /\ Running' /\ Running
      /\ (\A k : Gone(k) => Gone(k)')
      /\ go' = go /\ seqs' = seqs /\ main' = main /\ news'["main"] = news["main"]
      /\ SeenBy("satellite")' = SeenBy("satellite")
  BY SatAlikeFacts DEF Clears, SatAlike
<1>3. ForSatellite(m) /\ m.id \in Nat /\ sat.instance = go.instance
  BY <1>2, ToSatelliteType, MessageFields DEF Clears, MessagesFit, SatFits
<1>4. /\ m.id # 0 /\ main.core = go.instance /\ m.id <= main.lastAction
      /\ m.id = main.lastAction => m.ok = main.lastOk
  BY <1>3 DEF ForSatellite, Clears
<1>5. /\ sat.action # 0 /\ Undocked /\ main.lastAction <= sat.action /\ ~Quiesced
  BY <1>4 DEF Clears, SatFits, Quiesced
<1>6. main.lastAction = m.id /\ m.ok = main.lastOk
  BY <1>1, <1>3, <1>4, <1>5 DEF Counted, Clears
<1>7. go.phase \notin Opening
  BY <1>5 DEF HostFits, Opening
<1>8. MainFits'
  BY <1>1, <1>2 DEF Counted, MainFits, Clears
<1>9. SatFits'
  BY <1>1, <1>2, <1>5, <1>7 DEF Counted, SatFits, Clears, SatAlike
<1>10. ASSUME NEW n \in ToMain, ForMain(n) PROVE ForMain(n)'
  <2>1. n.id \in Nat
    BY ToMainType, MessageFields
  <2>2. n.kind = "action" /\ n.instance = main.core => ~(n.id > main.lastAction)
    BY <1>1, <1>6, <1>10, <2>1 DEF ForMain, Counted, Clears
  <2> QED BY <1>2, <1>5, <1>7, <1>10, <2>2 DEF ForMain, Clears
<1>11. ASSUME NEW n, ForSatellite(n) PROVE ForSatellite(n)'
  BY <1>2, <1>11 DEF ForSatellite
<1>12. MessagesFit'
  <2>1. ASSUME NEW n \in ToMain' PROVE ForMain(n)'
    <3>1. CASE ForMain(n)'
      BY <3>1
    <3>2. CASE \E o \in ToMain : MessageLike(o, n)
      <4>1. PICK o \in ToMain : MessageLike(o, n)
        BY <3>2
      <4>2. ForMain(o)'
        BY <1>10 DEF MessagesFit
      <4> QED BY <4>1, <4>2 DEF MessageLike, ForMain
    <3> QED BY <2>1, <3>1, <3>2 DEF MessagesHold
  <2>2. ASSUME NEW n \in ToSatellite' PROVE ForSatellite(n)'
    BY <1>11, <2>2, CopyFits DEF MessagesHold, MessagesFit
  <2> QED BY <2>1, <2>2 DEF MessagesFit
<1>13. MovesFit'
  BY <1>2, <1>5 DEF MovesFit, Clears, SatAlike
<1>14. SameText
  <2>1. Submitted <=> main.lastOk
    BY <1>3, <1>4, <1>5, <1>6 DEF Submitted, Clears
  <2>2. ~Submitted'
    BY DEF Submitted, Clears
  <2> QED BY <1>2, <1>5, <1>6, <2>1, <2>2, TextOf DEF SameText, Clears
<1> QED BY <1>2, <1>8, <1>9, <1>12, <1>13, <1>14

\* The Golem window installs the map it was opened with.
Gets(m) ==
  /\ SatAlike
  /\ ~sat.installed /\ m \in ToSatellite /\ m.kind = "drafts" /\ m.instance = go.instance
  /\ go.phase \in Opening => m.handoff = go.handoff
  /\ sat'.draft = m.text /\ sat'.installed
  /\ sat'.deferred \in {NoMessage, sat.deferred}
  /\ sat'.action = sat.action /\ sat'.text = sat.text /\ sat'.nextId = sat.nextId
  /\ sat'.stage = sat.stage /\ sat'.payload = sat.payload

LEMMA GetsKeeps ==
  ASSUME WindowInv, WindowTypeOK', HostFits', NEW m, Gets(m), MessagesHold
  PROVE  WindowInv' /\ SameText
<1> USE DEF WindowInv
<1>1. Counted
  BY CountedType
<1>2. /\ StatesFit' /\ SatFresh'
      /\ (Undocked' <=> Undocked) /\ (Leaving' <=> Leaving) /\ Running' /\ Running
      /\ (\A k : Gone(k) => Gone(k)')
      /\ go' = go /\ seqs' = seqs /\ main' = main /\ news'["main"] = news["main"]
      /\ SeenBy("satellite")' = SeenBy("satellite")
  BY SatAlikeFacts DEF Gets, SatAlike
<1>3. ~Undocked /\ ~Leaving /\ sat.action = 0 /\ sat.stage \notin {"draining", "posted"}
  BY <1>2 DEF SatFits, Gets, Leaving
<1>4. go.phase \in Opening => m.text = main.draft /\ main.core = go.instance
  BY DEF Gets, MessagesFit, ForSatellite
<1>5. MainFits'
  BY <1>1, <1>2 DEF Counted, MainFits, Gets
<1>6. SatFits'
  BY <1>1, <1>2, <1>3, <1>4 DEF Counted, SatFits, Gets, SatAlike
<1>7. ASSUME NEW n, ForMain(n) PROVE ForMain(n)'
  BY <1>2, <1>3, <1>7 DEF ForMain, Gets, SatFits
<1>8. ASSUME NEW n, ForSatellite(n) PROVE ForSatellite(n)'
  BY <1>2, <1>8 DEF ForSatellite
<1>9. MessagesFit'
  BY <1>7, <1>8, MessagesKept
<1>10. MovesFit' /\ SameText
  BY <1>2, <1>3, TextOf DEF MovesFit, SameText
<1> QED BY <1>2, <1>5, <1>6, <1>9, <1>10

(***************************************************************************)
(* The actions of the host.                                                *)
(***************************************************************************)
\* The runtime a step has left, but for its revision.
GoAs(g) ==
  /\ go'.phase = g.phase /\ go'.mode = g.mode /\ go'.instance = g.instance
  /\ go'.handoff = g.handoff /\ go'.view = g.view /\ go'.transfer = g.transfer
  /\ go'.acked = g.acked /\ go'.handle = g.handle /\ go'.authorized = g.authorized
  /\ go'.failed = g.failed /\ go'.observing = g.observing /\ go'.reason = g.reason

LEMMA PublishFields ==
  ASSUME WindowTypeOK, NEW g \in Runtimes, Publish(g), g.rev = go.rev
  PROVE  go' \in Runtimes /\ news' \in [Windows -> SUBSET Snapshots] /\ GoAs(g) /\ Told
<1>1. /\ go' \in Runtimes /\ news' \in [Windows -> SUBSET Snapshots]
      /\ go' = [g EXCEPT !.rev = g.rev + 1]
      /\ news'["main"] = news["main"] \cup {Snapshot(go')}
      /\ news'["satellite"] = IF win.shown = "run"
                              THEN news["satellite"] \cup {Snapshot(go')} ELSE {}
  BY PublishType DEF WindowTypeOK
<1>2. go'.rev = go.rev + 1 /\ GoAs(g)
  BY <1>1 DEF Runtimes, GoAs
<1> QED BY <1>1, <1>2 DEF Told, Running

\* A step of the host leaves the chat where it is, closes the window that nobody
\* is in, begins to move the chat back, or has moved it to the Golem window.
HostStep ==
  /\ HostTypeOK' /\ news' \in [Windows -> SUBSET Snapshots] /\ HostFits'
  /\ \/ SamePlace /\ SameSeqs /\ Heard /\ Confirmed
     \/ Retires
     \/ Redocks
     \/ Readied

\* The windows only take notice.
Bystanders ==
  /\ posts' \in SUBSET Messages /\ relayed' \in [Windows -> Seq(Messages)]
  /\ main' \in Mains /\ QuietMain
  /\ sat' \in Sats /\ QuietSat /\ sat'.deferred = sat.deferred
  /\ typed' = typed /\ sent' = sent

LEMMA HostStepKeeps ==
  ASSUME WindowInv, HostStep, Bystanders, MessagesSame
  PROVE  WindowInv' /\ SameText
<1>1. WindowTypeOK'
  BY DEF WindowTypeOK, HostStep, Bystanders, ChannelsTypeOK, WindowInv
<1>2. CASE SamePlace /\ SameSeqs /\ Heard /\ Confirmed
  BY <1>1, <1>2, Stays, SameHold DEF HostStep, Bystanders
<1>3. CASE Retires
  BY <1>1, <1>3, RetiresKeeps DEF HostStep, Bystanders
<1>4. CASE Redocks
  BY <1>1, <1>4, RedocksKeeps DEF HostStep, Bystanders
<1>5. CASE Readied
  BY <1>1, <1>5, ReadiedKeeps, SameHold DEF HostStep, Bystanders
<1> QED BY <1>2, <1>3, <1>4, <1>5 DEF HostStep

LEMMA QuietSelf ==
  ASSUME WindowInv
  PROVE  /\ (main' = main => main' \in Mains /\ QuietMain)
         /\ (sat' = sat => sat' \in Sats /\ QuietSat /\ sat'.deferred = sat.deferred)
<1>1. sat.nextId \in Nat /\ main.settled \in BOOLEAN
  BY DEF WindowInv, WindowTypeOK, Sats, Mains
<1>2. sat.frozen \/ sat.st.phase = "ready"
  BY DEF WindowInv, SatFits
<1>3. main.st.phase # "closed" => main.frozen
  BY DEF WindowInv, MainFits
<1> QED BY <1>1, <1>2, <1>3 DEF QuietMain, QuietSat, SatKept, WindowInv, WindowTypeOK

\* A step of the host alone.
LEMMA HostAlone ==
  ASSUME WindowInv, HostStep, UNCHANGED <<posts, relayed, main, sat, typed, sent>>
  PROVE  WindowInv' /\ SameText
<1>1. Bystanders
  BY QuietSelf DEF Bystanders, WindowInv, WindowTypeOK, ChannelsTypeOK
<1>2. MessagesSame
  BY StillMessagesSame DEF StillMessages
<1> QED BY <1>1, <1>2, HostStepKeeps

LEMMA RuntimeFits ==
  ASSUME WindowInv
  PROVE  /\ HostTypeOK /\ HostFits /\ MovesFit /\ WindowTypeOK
         /\ go \in Runtimes /\ go.phase \in Phases /\ go.mode \in Modes
         /\ Undocked => go.phase \in {"ready", "closing"} /\ go.handle
         /\ Leaving /\ (go.acked \/ go.authorized) =>
              main.inHandoff = go.handoff /\ main.inAck = "ok"
BY DEF WindowInv, HostFits, MovesFit, WindowTypeOK, HostTypeOK, Runtimes

\* The goroutine that opens a window has not come nearer to it.
OpenRests ==
  /\ open' \in [pc : OpenPcs, instance : Nat]
  /\ open' = open \/ (open'.pc \notin {"creating", "published", "added"}
                      /\ open'.instance = open.instance)

\* An instance without a window of its own is retired.
LEMMA RetireStep ==
  ASSUME WindowInv, NEW g \in Runtimes, g.rev = go.rev, Publish(Retired(g)),
         UNCHANGED <<seqs, win>>, OpenRests,
         go.phase # "closed", ~Running, ~Undocked \/ go.authorized
  PROVE  HostStep
<1>1. Retired(g) \in Runtimes /\ Retired(g).rev = go.rev
  BY RetiredType
<1>2. go' \in Runtimes /\ news' \in [Windows -> SUBSET Snapshots] /\ GoAs(Retired(g)) /\ Told
  BY <1>1, PublishFields, RuntimeFits
<1>3. /\ go'.phase = "closed" /\ go'.mode = "docked" /\ go'.instance = 0 /\ go'.handoff = 0
      /\ ~go'.handle /\ ~go'.authorized /\ ~go'.observing
  BY <1>2, RetiredType DEF GoAs, ClosedRuntime, Retired
<1>4. Retires
  BY <1>2, <1>3 DEF Retires, SameSeqs, Running
<1>5. HostTypeOK'
  BY <1>2, RuntimeFits DEF HostTypeOK, OpenRests
<1>6. HostFits'
  BY <1>3, RuntimeFits DEF HostFits, Undocked, Running, Adding, OpenRests
<1> QED BY <1>2, <1>4, <1>5, <1>6 DEF HostStep

\* The native close of an instance: of one that is opening, or whose map has come.
LEMMA AuthorizeStep ==
  ASSUME WindowInv, NEW reason \in BOOLEAN, Authorize(reason), UNCHANGED <<seqs, open>>,
         go.phase \in Opening \/ (Leaving /\ go.acked)
  PROVE  HostStep
<1>1. go \in Runtimes /\ go.phase # "closed"
  BY RuntimeFits DEF Opening, Leaving
<1>2. CASE ~go.handle
  <2> DEFINE g == [go EXCEPT !.reason = reason]
  <2>1. g \in Runtimes /\ g.rev = go.rev
    BY <1>1 DEF Runtimes
  <2>2. Publish(Retired(g)) /\ win' = win
    BY <1>2 DEF Authorize
  <2>3. ~Running /\ ~Undocked /\ OpenRests
    BY <1>2, RuntimeFits DEF HostFits, OpenRests, HostTypeOK
  <2> HIDE DEF g
  <2> QED BY <1>1, <2>1, <2>2, <2>3, RetireStep
<1>3. CASE go.handle
  <2> DEFINE g == [go EXCEPT !.phase = "closing", !.authorized = TRUE, !.failed = FALSE,
                             !.observing = TRUE, !.reason = reason]
  <2>1. g \in Runtimes
    BY <1>1 DEF Runtimes, Phases
  <2>2. /\ g.rev = go.rev /\ g.phase = "closing" /\ g.mode = go.mode /\ g.instance = go.instance
        /\ g.handoff = go.handoff /\ g.acked = go.acked /\ g.handle /\ g.authorized
    BY <1>1, <1>3 DEF Runtimes
  <2>3. Publish(g) /\ win' = [win EXCEPT !.closing = win.shown = "run"]
    BY <1>3 DEF Authorize
  <2> HIDE DEF g
  <2>4. go' \in Runtimes /\ news' \in [Windows -> SUBSET Snapshots] /\ GoAs(g) /\ Told
    BY <2>1, <2>2, <2>3, PublishFields, RuntimeFits
  <2>5. /\ go'.phase = "closing" /\ go'.mode = go.mode /\ go'.instance = go.instance
        /\ go'.handoff = go.handoff /\ go'.handle /\ go'.authorized
    BY <2>2, <2>4 DEF GoAs
  <2>6. /\ win'.shown = win.shown /\ (win'.closing => win.shown = "run")
        /\ win' \in [shown : {"none", "added", "run"}, closing : BOOLEAN]
    BY <2>3, RuntimeFits DEF HostTypeOK
  <2>7. HostTypeOK'
    BY <2>4, <2>6, RuntimeFits DEF HostTypeOK
  <2>8. HostFits'
    <3>1. /\ seqs' = seqs /\ open' = open /\ (Running' <=> Running) /\ (Undocked' <=> Undocked)
          /\ (Adding' <=> Adding) /\ HostFits
      BY <2>5, <2>6, RuntimeFits DEF Undocked, Running, Adding
    <3>2. go.instance = seqs.instance /\ go.handoff = seqs.handoff /\ go.instance # 0 /\ go.handoff # 0
      BY <1>1, <3>1 DEF HostFits
    <3>3. win'.closing => Running
      BY <2>6 DEF Running
    <3>4. ~(open.pc = "creating" /\ go.instance = open.instance)
      BY <1>3, <3>1 DEF HostFits
    <3> QED BY <1>1, <1>3, <2>5, <3>1, <3>2, <3>3, <3>4 DEF HostFits
  <2>9. SamePlace /\ SameSeqs /\ Heard /\ Confirmed
    BY <1>1, <2>4, <2>5, <2>6, RuntimeFits
       DEF SamePlace, SameSeqs, Heard, Confirmed, Leaving, Undocked, Running, Opening
  <2> QED BY <2>4, <2>7, <2>8, <2>9 DEF HostStep
<1> QED BY <1>2, <1>3, RuntimeFits DEF Runtimes

\* A close that has not been authorized is given up.
LEMMA RestoreStep ==
  ASSUME WindowInv, RestoreReady, UNCHANGED <<seqs, open>>
  PROVE  HostStep
<1>1. /\ go \in Runtimes /\ go.phase = "closing" /\ ~go.authorized /\ Undocked /\ go.handle
      /\ HostFits
  BY RuntimeFits DEF RestoreReady, HostFits
<1> DEFINE g == [go EXCEPT !.phase = "ready", !.transfer = 0, !.acked = FALSE, !.reason = TRUE]
<1>2. g \in Runtimes
  BY <1>1 DEF Runtimes, Phases
<1>3. /\ g.rev = go.rev /\ g.phase = "ready" /\ g.mode = go.mode /\ g.instance = go.instance
      /\ g.handoff = go.handoff /\ g.handle = go.handle /\ g.authorized = go.authorized
      /\ g.observing = go.observing
  BY <1>1 DEF Runtimes
<1>4. Publish(g) /\ win' = win
  BY DEF RestoreReady
<1> HIDE DEF g
<1>5. go' \in Runtimes /\ news' \in [Windows -> SUBSET Snapshots] /\ GoAs(g) /\ Told
  BY <1>2, <1>3, <1>4, PublishFields, RuntimeFits
<1>6. /\ go'.phase = "ready" /\ go'.mode = go.mode /\ go'.instance = go.instance
      /\ go'.handoff = go.handoff /\ go'.handle /\ ~go'.authorized
      /\ go'.observing = go.observing
  BY <1>1, <1>3, <1>5 DEF GoAs
<1>7. HostTypeOK'
  BY <1>4, <1>5, RuntimeFits DEF HostTypeOK
<1>8. HostFits'
  BY <1>1, <1>4, <1>6 DEF HostFits, Undocked, Running, Adding
<1>9. SamePlace /\ SameSeqs /\ Heard /\ Confirmed
  BY <1>1, <1>4, <1>5, <1>6
     DEF SamePlace, SameSeqs, Heard, Confirmed, Leaving, Undocked, Running, Opening
<1> QED BY <1>5, <1>7, <1>8, <1>9 DEF HostStep

\* An opening is given up.
LEMMA AbortStep ==
  ASSUME WindowInv, AbortAttempt, UNCHANGED <<seqs, open>>
  PROVE  HostStep
BY AuthorizeStep DEF AbortAttempt

\* The deadline of a transition.
LEMMA TransitionTimeoutKeeps ==
  ASSUME WindowInv, TransitionTimeout
  PROVE  WindowInv' /\ SameText
BY HostAlone, RestoreStep, AbortStep DEF TransitionTimeout

\* A step of the host that publishes nothing.
LEMMA SilentStep ==
  ASSUME WindowInv, UNCHANGED <<go, news, seqs, win>>, OpenRests
  PROVE  HostStep
<1>1. HostTypeOK' /\ news' \in [Windows -> SUBSET Snapshots]
  BY RuntimeFits DEF HostTypeOK, OpenRests, WindowTypeOK, ChannelsTypeOK
<1>2. HostFits'
  BY RuntimeFits DEF HostFits, Undocked, Running, Adding, OpenRests
<1>3. SamePlace /\ SameSeqs /\ Heard /\ Confirmed
  BY RuntimeFits DEF SamePlace, SameSeqs, Heard, Confirmed, Leaving, Undocked, Running
<1> QED BY <1>1, <1>2, <1>3 DEF HostStep

\* The move back is asked for.
LEMMA ReDockStep ==
  ASSUME WindowInv, RequestReDock, open' = open
  PROVE  HostStep
<1>1. go \in Runtimes /\ HostFits /\ WindowTypeOK
  BY RuntimeFits
<1>2. CASE go.phase = "closing" /\ go.authorized /\ go.failed /\ ~go.observing
  <2> DEFINE g == [go EXCEPT !.failed = FALSE, !.reason = FALSE, !.observing = TRUE]
  <2>1. g \in Runtimes
    BY <1>1 DEF Runtimes
  <2>2. /\ g.rev = go.rev /\ g.phase = go.phase /\ g.mode = go.mode /\ g.instance = go.instance
        /\ g.handoff = go.handoff /\ g.handle = go.handle /\ g.authorized = go.authorized
        /\ g.acked = go.acked
    BY <1>1 DEF Runtimes
  <2>3. Publish(g) /\ UNCHANGED <<win, seqs>>
    BY <1>2 DEF RequestReDock, Opening
  <2> HIDE DEF g
  <2>4. go' \in Runtimes /\ news' \in [Windows -> SUBSET Snapshots] /\ GoAs(g) /\ Told
    BY <1>1, <2>1, <2>2, <2>3, PublishFields
  <2>5. /\ go'.phase = go.phase /\ go'.mode = go.mode /\ go'.instance = go.instance
        /\ go'.handoff = go.handoff /\ go'.handle = go.handle /\ go'.authorized = go.authorized
        /\ go'.acked = go.acked
    BY <2>2, <2>4 DEF GoAs
  <2>6. HostTypeOK'
    BY <2>3, <2>4, RuntimeFits DEF HostTypeOK
  <2>7. HostFits'
    BY <1>1, <1>2, <2>3, <2>5 DEF HostFits, Undocked, Running, Adding
  <2>8. SamePlace /\ SameSeqs /\ Heard /\ Confirmed
    BY <2>3, <2>4, <2>5, RuntimeFits
       DEF SamePlace, SameSeqs, Heard, Confirmed, Leaving, Undocked, Running, Opening
  <2> QED BY <2>4, <2>6, <2>7, <2>8 DEF HostStep
<1>3. CASE go.phase \in Opening
  BY <1>3, AbortStep DEF RequestReDock, Opening
<1>4. CASE go.phase = "ready"
  <2>1. PICK h \in Nat : h = seqs.handoff + 1
    BY <1>1 DEF WindowTypeOK, HostTypeOK
  <2> DEFINE g == [go EXCEPT !.phase = "closing", !.handoff = h, !.transfer = 0,
                             !.acked = FALSE, !.reason = FALSE]
  <2>2. g \in Runtimes
    BY <1>1 DEF Runtimes, Phases
  <2>3. /\ g.rev = go.rev /\ g.phase = "closing" /\ g.mode = go.mode /\ g.instance = go.instance
        /\ g.handoff = h /\ g.handle = go.handle /\ g.authorized = go.authorized
        /\ ~g.acked /\ g.observing = go.observing
    BY <1>1 DEF Runtimes
  <2>4. Publish(g) /\ win' = win /\ seqs' = [seqs EXCEPT !.handoff = h]
    BY <1>4, <2>1 DEF RequestReDock, Opening
  <2> HIDE DEF g
  <2>5. go' \in Runtimes /\ news' \in [Windows -> SUBSET Snapshots] /\ GoAs(g) /\ Told
    BY <1>1, <2>2, <2>3, <2>4, PublishFields
  <2>6. /\ go'.phase = "closing" /\ go'.mode = go.mode /\ go'.instance = go.instance
        /\ go'.handoff = h /\ go'.handle = go.handle /\ go'.authorized = go.authorized
        /\ ~go'.acked /\ go'.observing = go.observing
    BY <2>3, <2>5 DEF GoAs
  <2>7. /\ seqs' \in [instance : Nat, handoff : Nat, stalls : Nat]
        /\ seqs'.instance = seqs.instance /\ seqs'.handoff = h
    BY <1>1, <2>4 DEF WindowTypeOK, HostTypeOK
  <2>8. Undocked /\ ~go.authorized /\ h # 0
    BY <1>1, <1>4, <2>1 DEF HostFits, WindowTypeOK, HostTypeOK
  <2>9. HostTypeOK'
    BY <2>4, <2>5, <2>7, RuntimeFits DEF HostTypeOK
  <2>10. HostFits'
    BY <1>1, <1>4, <2>4, <2>6, <2>7, <2>8 DEF HostFits, Undocked, Running, Adding
  <2>11. Redocks
    BY <1>4, <2>1, <2>4, <2>5, <2>6, <2>7, <2>8 DEF Redocks, Running
  <2> QED BY <2>5, <2>9, <2>10, <2>11 DEF HostStep
<1>5. CASE ~(go.phase = "closing" /\ go.authorized /\ go.failed /\ ~go.observing)
           /\ go.phase \notin Opening /\ go.phase # "ready"
  <2>1. UNCHANGED <<go, news, win, seqs>>
    BY <1>5 DEF RequestReDock
  <2> QED BY <2>1, SilentStep, RuntimeFits DEF OpenRests, HostTypeOK
<1> QED BY <1>2, <1>3, <1>4, <1>5

LEMMA SatelliteClosesKeeps ==
  ASSUME WindowInv, SatelliteCloses
  PROVE  WindowInv' /\ SameText
BY HostAlone, ReDockStep DEF SatelliteCloses

\* The main window asks for it.
LEMMA DockGolemKeeps ==
  ASSUME WindowInv, DockGolem
  PROVE  WindowInv' /\ SameText
<1>1. HostStep
  BY ReDockStep DEF DockGolem
<1>2. main' = [main EXCEPT !.dock = TRUE] /\ main \in Mains
  BY DEF DockGolem, WindowInv, WindowTypeOK
<1>3. main' \in Mains
  BY <1>2 DEF Mains
<1>4. QuietMain /\ main'.claimed = main.claimed
  BY <1>2 DEF QuietMain, Mains, WindowInv, MainFits
<1>5. Bystanders
  BY <1>3, <1>4, QuietSelf DEF Bystanders, DockGolem, WindowInv, WindowTypeOK, ChannelsTypeOK
<1>6. MessagesSame
  BY <1>4, StillMessagesSame DEF StillMessages, DockGolem
<1> QED BY <1>1, <1>5, <1>6, HostStepKeeps

\* The native close passes through.
LEMMA NativeCloseKeeps ==
  ASSUME WindowInv, AuthorizedNativeClose
  PROVE  WindowInv' /\ SameText
<1>1. /\ win' = [win EXCEPT !.closing = TRUE] /\ win.shown = "run" /\ go.authorized
      /\ UNCHANGED <<go, seqs, open, news>>
  BY DEF AuthorizedNativeClose
<1>2. win'.shown = win.shown /\ win' \in [shown : {"none", "added", "run"}, closing : BOOLEAN]
  BY <1>1, RuntimeFits DEF HostTypeOK
<1>3. HostTypeOK' /\ news' \in [Windows -> SUBSET Snapshots]
  BY <1>1, <1>2, RuntimeFits DEF HostTypeOK, WindowTypeOK, ChannelsTypeOK
<1>4. HostFits'
  BY <1>1, <1>2, RuntimeFits DEF HostFits, Undocked, Running, Adding
<1>5. SamePlace /\ SameSeqs /\ Heard /\ Confirmed
  BY <1>1, <1>2, RuntimeFits
     DEF SamePlace, SameSeqs, Heard, Confirmed, Leaving, Undocked, Running
<1>6. HostStep
  BY <1>3, <1>4, <1>5 DEF HostStep
<1> QED BY <1>6, HostAlone DEF AuthorizedNativeClose

\* An instance is reserved, or there is one.
LEMMA OpenReserveKeeps ==
  ASSUME WindowInv, OpenReserve
  PROVE  WindowInv' /\ SameText
<1>1. /\ go \in Runtimes /\ open.pc = "called" /\ HostFits /\ HostTypeOK
      /\ UNCHANGED <<win, news, posts, relayed, main, sat, typed, sent>>
  BY RuntimeFits DEF OpenReserve
<1>2. CASE go.phase # "closed"
  <2>1. UNCHANGED <<go, seqs>> /\ open' = Answered(go.phase = "closing")
    BY <1>2 DEF OpenReserve
  <2>2. OpenRests
    BY <1>1, <2>1 DEF OpenRests, Answered, HostTypeOK, OpenPcs
  <2> QED BY <1>1, <2>1, <2>2, SilentStep, HostAlone
<1>3. CASE go.phase = "closed"
  <2>1. PICK i \in Nat, h \in Nat : i = seqs.instance + 1 /\ h = seqs.handoff + 1
    BY <1>1 DEF HostTypeOK
  <2>2. /\ seqs' = [seqs EXCEPT !.instance = i, !.handoff = h]
        /\ go' = [ClosedRuntime EXCEPT !.phase = "bootstrapping", !.rev = go.rev,
                      !.instance = i, !.handoff = h]
        /\ open' = [pc |-> "creating", instance |-> i]
    BY <1>3, <2>1 DEF OpenReserve
  <2>3. ClosedRuntime \in Runtimes /\ go.rev \in Nat
    BY <1>1, RetiredType DEF Runtimes
  <2>4. go' \in Runtimes
    BY <2>2, <2>3 DEF Runtimes, Phases
  <2>5. /\ go'.phase = "bootstrapping" /\ go'.rev = go.rev /\ go'.mode = "docked"
        /\ go'.instance = i /\ go'.handoff = h /\ ~go'.handle /\ ~go'.authorized
        /\ ~go'.observing
    BY <2>2 DEF ClosedRuntime
  <2>6. /\ seqs' \in [instance : Nat, handoff : Nat, stalls : Nat]
        /\ seqs'.instance = i /\ seqs'.handoff = h
    BY <1>1, <2>2 DEF HostTypeOK
  <2>7. open' \in [pc : OpenPcs, instance : Nat] /\ open'.pc = "creating" /\ open'.instance = i
    BY <2>2 DEF OpenPcs
  <2>8. ~Running /\ ~Undocked /\ ~win.closing /\ i # 0 /\ h # 0
    BY <1>1, <1>3, <2>1 DEF HostFits, HostTypeOK
  <2>9. WindowTypeOK'
    BY <1>1, <2>4, <2>6, <2>7, RuntimeFits DEF WindowTypeOK, HostTypeOK, ChannelsTypeOK
  <2>10. HostFits'
    BY <1>1, <2>5, <2>6, <2>7, <2>8 DEF HostFits, Undocked, Running, Adding
  <2>11. Reserves
    BY <1>1, <1>3, <2>1, <2>5, <2>6, <2>8 DEF Reserves, Running, StillMessages
  <2> QED BY <2>9, <2>10, <2>11, ReservesKeeps
<1> QED BY <1>2, <1>3

\* The creation of the window fails.
LEMMA AbandonOpenKeeps ==
  ASSUME WindowInv, AbandonOpen
  PROVE  WindowInv' /\ SameText
<1>1. /\ go \in Runtimes /\ open.pc = "creating" /\ HostFits /\ HostTypeOK
      /\ UNCHANGED <<seqs, win, posts, relayed, main, sat, typed, sent>>
      /\ open' = Answered(TRUE)
  BY RuntimeFits DEF AbandonOpen
<1>2. OpenRests
  BY <1>1 DEF OpenRests, Answered, HostTypeOK, OpenPcs
<1>3. CASE go.instance = open.instance
  <2>1. Publish(Retired(go))
    BY <1>3 DEF AbandonOpen
  <2>2. ~Running /\ ~Undocked /\ go.phase # "closed"
    BY <1>1, <1>3 DEF HostFits, Adding
  <2> QED BY <1>1, <1>2, <2>1, <2>2, RetireStep, HostAlone
<1>4. CASE go.instance # open.instance
  <2>1. UNCHANGED <<go, news>>
    BY <1>4 DEF AbandonOpen
  <2> QED BY <1>1, <1>2, <2>1, SilentStep, HostAlone
<1> QED BY <1>3, <1>4

\* The window is created and published.
LEMMA OpenPublishKeeps ==
  ASSUME WindowInv, OpenPublish
  PROVE  WindowInv' /\ SameText
<1>1. /\ go \in Runtimes /\ open.pc = "creating" /\ HostFits /\ HostTypeOK
      /\ UNCHANGED <<seqs, win, posts, relayed, main, sat, typed, sent>>
  BY RuntimeFits DEF OpenPublish
<1>2. CASE go.instance = open.instance /\ go.phase = "bootstrapping"
  <2> DEFINE g == [go EXCEPT !.handle = TRUE]
  <2>1. g \in Runtimes
    BY <1>1 DEF Runtimes
  <2>2. /\ g.rev = go.rev /\ g.phase = go.phase /\ g.mode = go.mode /\ g.instance = go.instance
        /\ g.handoff = go.handoff /\ g.handle /\ g.authorized = go.authorized
        /\ g.acked = go.acked /\ g.observing = go.observing
    BY <1>1 DEF Runtimes
  <2>3. Publish(g) /\ open' = [open EXCEPT !.pc = "published"]
    BY <1>2 DEF OpenPublish
  <2> HIDE DEF g
  <2>4. go' \in Runtimes /\ news' \in [Windows -> SUBSET Snapshots] /\ GoAs(g) /\ Told
    BY <1>1, <2>1, <2>2, <2>3, PublishFields, RuntimeFits
  <2>5. /\ go'.phase = go.phase /\ go'.mode = go.mode /\ go'.instance = go.instance
        /\ go'.handoff = go.handoff /\ go'.handle /\ go'.authorized = go.authorized
        /\ go'.acked = go.acked /\ go'.observing = go.observing
    BY <2>2, <2>4 DEF GoAs
  <2>6. /\ open' \in [pc : OpenPcs, instance : Nat] /\ open'.pc = "published"
        /\ open'.instance = open.instance
    BY <1>1, <2>3 DEF HostTypeOK, OpenPcs
  <2>7. HostTypeOK'
    BY <1>1, <2>4, <2>6 DEF HostTypeOK
  <2>8. HostFits'
    BY <1>1, <1>2, <2>5, <2>6 DEF HostFits, Undocked, Running, Adding
  <2>9. SamePlace /\ SameSeqs /\ Heard /\ Confirmed
    BY <1>1, <2>4, <2>5, RuntimeFits
       DEF SamePlace, SameSeqs, Heard, Confirmed, Leaving, Undocked, Running, Opening
  <2> QED BY <1>1, <2>4, <2>7, <2>8, <2>9, HostAlone DEF HostStep
<1>3. CASE ~(go.instance = open.instance /\ go.phase = "bootstrapping")
  <2>1. UNCHANGED <<go, news>> /\ open' = Answered(TRUE)
    BY <1>3 DEF OpenPublish
  <2>2. OpenRests
    BY <1>1, <2>1 DEF OpenRests, Answered, HostTypeOK, OpenPcs
  <2> QED BY <1>1, <2>1, <2>2, SilentStep, HostAlone
<1> QED BY <1>2, <1>3

\* It is added to the manager.
LEMMA OpenAddKeeps ==
  ASSUME WindowInv, OpenAdd
  PROVE  WindowInv' /\ SameText
<1>1. /\ go \in Runtimes /\ open.pc = "published" /\ HostFits /\ HostTypeOK
      /\ UNCHANGED <<go, seqs, news, posts, relayed, main, sat, typed, sent>>
      /\ open' = [open EXCEPT !.pc = "added"] /\ win' = [win EXCEPT !.shown = "added"]
  BY RuntimeFits DEF OpenAdd
<1>2. /\ open' \in [pc : OpenPcs, instance : Nat] /\ open'.pc = "added"
      /\ open'.instance = open.instance
  BY <1>1 DEF HostTypeOK, OpenPcs
<1>3. /\ win' \in [shown : {"none", "added", "run"}, closing : BOOLEAN]
      /\ win'.shown = "added" /\ win'.closing = win.closing
  BY <1>1 DEF HostTypeOK
<1>4. ~Running /\ ~Running'
  BY <1>1, <1>3 DEF HostFits, Adding, Running
<1>5. HostTypeOK' /\ news' \in [Windows -> SUBSET Snapshots]
  BY <1>1, <1>2, <1>3, RuntimeFits DEF HostTypeOK, WindowTypeOK, ChannelsTypeOK
<1>6. HostFits'
  BY <1>1, <1>2, <1>3, <1>4 DEF HostFits, Undocked, Adding
<1>7. SamePlace /\ SameSeqs /\ Heard /\ Confirmed
  BY <1>1, <1>4, RuntimeFits DEF SamePlace, SameSeqs, Heard, Confirmed, Leaving, Undocked
<1> QED BY <1>1, <1>5, <1>6, <1>7, HostAlone DEF HostStep

LEMMA FreshType ==
  /\ FreshSatellite \in Sats
  /\ \A d \in Drafts : [FreshSatellite EXCEPT !.draft = d] \in Sats
<1>1. FreshSatellite \in Sats
  BY ClosedSnapshot, NoMessageType, EmptyDraft DEF FreshSatellite, Sats
<1> QED BY <1>1 DEF Sats

LEMMA EmptyRelayType ==
  ASSUME ChannelsTypeOK, relayed' = [relayed EXCEPT !["satellite"] = <<>>]
  PROVE  relayed' \in [Windows -> Seq(Messages)]
BY EmptySeq DEF ChannelsTypeOK, Windows

\* The window is run, unless its instance is gone.
LEMMA OpenRunKeeps ==
  ASSUME WindowInv, OpenRun
  PROVE  WindowInv' /\ SameText
<1>1. /\ go \in Runtimes /\ open.pc = "added" /\ HostFits /\ HostTypeOK /\ WindowTypeOK
      /\ UNCHANGED <<go, seqs, news, posts, main, typed, sent>>
      /\ relayed' = [relayed EXCEPT !["satellite"] = <<>>]
  BY RuntimeFits DEF OpenRun
<1>2. relayed' \in [Windows -> Seq(Messages)]
  BY <1>1, EmptyRelayType DEF WindowTypeOK
<1>3. CASE go.instance = open.instance
  <2>1. /\ win' = [win EXCEPT !.shown = "run"] /\ sat' = FreshSatellite
        /\ open' = Answered(FALSE)
    BY <1>3 DEF OpenRun
  <2>2. /\ open' \in [pc : OpenPcs, instance : Nat] /\ open'.pc = "accepted"
        /\ open'.instance = open.instance
    BY <1>1, <2>1 DEF Answered, HostTypeOK, OpenPcs
  <2>3. /\ win' \in [shown : {"none", "added", "run"}, closing : BOOLEAN]
        /\ win'.shown = "run" /\ win'.closing = win.closing
    BY <1>1, <2>1 DEF HostTypeOK
  <2>4. WindowTypeOK'
    BY <1>1, <1>2, <2>1, <2>2, <2>3, FreshType DEF WindowTypeOK, HostTypeOK, ChannelsTypeOK
  <2>5. ~Running /\ ~Undocked /\ open.instance # 0 /\ ~win.closing /\ go.handle
    BY <1>1, <1>3 DEF HostFits, Adding
  <2>6. HostFits'
    BY <1>1, <1>3, <2>2, <2>3, <2>5 DEF HostFits, Adding, Undocked, Running
  <2>7. Runs
    BY <1>1, <1>3, <2>1, <2>3 DEF Runs, HostStill, MainStill, Running
  <2> QED BY <2>4, <2>6, <2>7, RunsKeeps
<1>4. CASE go.instance # open.instance
  <2>1. /\ win' = [win EXCEPT !.shown = "none"] /\ sat' = sat /\ open' = Answered(TRUE)
    BY <1>4 DEF OpenRun
  <2>2. /\ open' \in [pc : OpenPcs, instance : Nat] /\ open'.pc = "refused"
        /\ open'.instance = open.instance
    BY <1>1, <2>1 DEF Answered, HostTypeOK, OpenPcs
  <2>3. /\ win' \in [shown : {"none", "added", "run"}, closing : BOOLEAN]
        /\ win'.shown = "none" /\ win'.closing = win.closing
    BY <1>1, <2>1 DEF HostTypeOK
  <2>4. ~Running /\ ~Running'
    BY <1>1, <2>3 DEF HostFits, Adding, Running
  <2>5. HostTypeOK' /\ news' \in [Windows -> SUBSET Snapshots]
    BY <1>1, <2>2, <2>3 DEF HostTypeOK, WindowTypeOK, ChannelsTypeOK
  <2>6. HostFits'
    BY <1>1, <2>2, <2>3, <2>4 DEF HostFits, Undocked, Adding
  <2>7. SamePlace /\ SameSeqs /\ Heard /\ Confirmed
    BY <1>1, <2>4, RuntimeFits DEF SamePlace, SameSeqs, Heard, Confirmed, Leaving, Undocked
  <2>8. HostStep
    BY <2>5, <2>6, <2>7 DEF HostStep
  <2>9. Bystanders
    BY <1>1, <1>2, <2>1, QuietSelf DEF Bystanders, WindowTypeOK, ChannelsTypeOK
  <2>10. MessagesSame
    <3>1. Queued("main")' = Queued("main") /\ Queued("satellite")' = {}
      BY <1>1, EmptyRelay DEF WindowTypeOK
    <3> QED BY <1>1, <2>1, <3>1 DEF MessagesSame, MessageLike, ToMain, ToSatellite
  <2> QED BY <2>8, <2>9, <2>10, HostStepKeeps
<1> QED BY <1>3, <1>4

\* The manager destroys the window.
LEMMA WindowRemovedKeeps ==
  ASSUME WindowInv, WindowRemoved
  PROVE  WindowInv' /\ SameText
<1>1. /\ HostFits /\ HostTypeOK /\ WindowTypeOK
      /\ UNCHANGED <<go, seqs, open, posts, main, typed, sent>>
      /\ relayed' = [relayed EXCEPT !["satellite"] = <<>>]
      /\ news' = [news EXCEPT !["satellite"] = {}]
      /\ win' = [shown |-> "none", closing |-> FALSE] /\ win.closing
      /\ sat' = [FreshSatellite EXCEPT !.draft = sat.draft]
  BY RuntimeFits DEF WindowRemoved
<1>2. /\ news' \in [Windows -> SUBSET Snapshots]
      /\ news'["main"] = news["main"] /\ news'["satellite"] = {}
  BY <1>1 DEF WindowTypeOK, ChannelsTypeOK, Windows
<1>3. sat' \in Sats
  BY <1>1, FreshType, SatFields DEF WindowTypeOK
<1>4. WindowTypeOK'
  BY <1>1, <1>2, <1>3, EmptyRelayType DEF WindowTypeOK, HostTypeOK, ChannelsTypeOK
<1>5. go.authorized /\ Running /\ ~Running' /\ ~Adding /\ ~Adding'
  BY <1>1 DEF HostFits, Running, Adding
<1>6. HostFits'
  BY <1>1, <1>5 DEF HostFits, Undocked
<1>7. Removed
  BY <1>1, <1>2, <1>5 DEF Removed, HostStill, MainStill
<1> QED BY <1>4, <1>6, <1>7, RemovedKeeps

\* The observer sees the window gone.
LEMMA ObserveRetirementKeeps ==
  ASSUME WindowInv, ObserveRetirement
  PROVE  WindowInv' /\ SameText
<1>1. /\ go \in Runtimes /\ HostFits /\ HostTypeOK /\ Publish(Retired(go)) /\ go.observing
      /\ win.shown = "none" /\ UNCHANGED <<seqs, open, win, posts, relayed, main, sat, typed, sent>>
  BY RuntimeFits DEF ObserveRetirement
<1>2. go.authorized /\ go.phase # "closed" /\ ~Running
  BY <1>1 DEF HostFits, Running
<1>3. OpenRests
  BY <1>1 DEF OpenRests, HostTypeOK
<1> QED BY <1>1, <1>2, <1>3, RetireStep, HostAlone

\* It gives up.
LEMMA ObserverGivesUpKeeps ==
  ASSUME WindowInv, ObserverGivesUp
  PROVE  WindowInv' /\ SameText
<1>1. /\ go \in Runtimes /\ HostFits /\ HostTypeOK
      /\ UNCHANGED <<open, win, posts, relayed, main, sat, typed, sent>>
      /\ seqs' = [seqs EXCEPT !.stalls = @ + 1]
  BY RuntimeFits DEF ObserverGivesUp
<1> DEFINE g == [go EXCEPT !.observing = FALSE, !.failed = TRUE, !.reason = TRUE]
<1>2. g \in Runtimes
  BY <1>1 DEF Runtimes
<1>3. /\ g.rev = go.rev /\ g.phase = go.phase /\ g.mode = go.mode /\ g.instance = go.instance
      /\ g.handoff = go.handoff /\ g.handle = go.handle /\ g.authorized = go.authorized
      /\ g.acked = go.acked /\ ~g.observing
  BY <1>1 DEF Runtimes
<1>4. Publish(g)
  BY DEF ObserverGivesUp
<1> HIDE DEF g
<1>5. go' \in Runtimes /\ news' \in [Windows -> SUBSET Snapshots] /\ GoAs(g) /\ Told
  BY <1>2, <1>3, <1>4, PublishFields, RuntimeFits
<1>6. /\ go'.phase = go.phase /\ go'.mode = go.mode /\ go'.instance = go.instance
      /\ go'.handoff = go.handoff /\ go'.handle = go.handle /\ go'.authorized = go.authorized
      /\ go'.acked = go.acked /\ ~go'.observing
  BY <1>3, <1>5 DEF GoAs
<1>7. /\ seqs' \in [instance : Nat, handoff : Nat, stalls : Nat]
      /\ seqs'.instance = seqs.instance /\ seqs'.handoff = seqs.handoff
  <2>1. PICK n \in Nat : seqs' = [seqs EXCEPT !.stalls = n]
    BY <1>1 DEF HostTypeOK
  <2> QED BY <1>1, <2>1 DEF HostTypeOK
<1>8. HostTypeOK'
  BY <1>1, <1>5, <1>7 DEF HostTypeOK
<1>9. HostFits'
  BY <1>1, <1>6, <1>7 DEF HostFits, Undocked, Running, Adding
<1>10. SamePlace /\ SameSeqs /\ Heard /\ Confirmed
  BY <1>1, <1>5, <1>6, <1>7, RuntimeFits
     DEF SamePlace, SameSeqs, Heard, Confirmed, Leaving, Undocked, Running, Opening
<1> QED BY <1>1, <1>5, <1>8, <1>9, <1>10, HostAlone DEF HostStep

\* A step of the host the Golem window has asked for, and notices.
LEMMA HostAndSatellite ==
  ASSUME WindowInv, HostStep, UNCHANGED <<posts, relayed, main, typed, sent>>,
         sat' \in Sats, QuietSat, sat'.deferred = sat.deferred
  PROVE  WindowInv' /\ SameText
<1>1. Bystanders
  BY QuietSelf DEF Bystanders, WindowInv, WindowTypeOK, ChannelsTypeOK
<1>2. MessagesSame
  BY StillMessagesSame DEF StillMessages
<1> QED BY <1>1, <1>2, HostStepKeeps

LEMMA SatBarred == ASSUME WindowInv PROVE sat \in Sats /\ (sat.frozen \/ sat.st.phase = "ready")
BY DEF WindowInv, WindowTypeOK, SatFits

\* The close is confirmed, or refused.
LEMMA ConfirmCloseKeeps ==
  ASSUME WindowInv, ConfirmGolemWindowClose
  PROVE  WindowInv' /\ SameText
<1>1. /\ sat \in Sats /\ (sat.frozen \/ sat.st.phase = "ready") /\ go \in Runtimes
      /\ UNCHANGED <<seqs, open, posts, relayed, main, typed, sent>>
  BY SatBarred, RuntimeFits DEF ConfirmGolemWindowClose
<1>2. sat' = [sat EXCEPT !.confirm = 0] \/ sat' = [sat EXCEPT !.refused = TRUE]
  BY DEF ConfirmGolemWindowClose
<1>3. sat' \in Sats /\ SatSame(sat, sat')
  <2>1. CASE sat' = [sat EXCEPT !.confirm = 0]
    BY <1>1, <2>1 DEF Sats, SatSame, SatKept
  <2>2. CASE sat' = [sat EXCEPT !.refused = TRUE]
    <3>1. sat' \in Sats
      BY <1>1, <2>2 DEF Sats
    <3> QED BY <1>1, <2>2, <3>1 DEF Sats, SatSame, SatKept
  <2> QED BY <1>2, <2>1, <2>2
<1>4. HostStep
  <2>1. CASE /\ go.mode = "undocked" /\ go.phase = "closing" /\ go.acked
             /\ Authorize(go.reason)
    BY <1>1, <2>1, AuthorizeStep DEF Leaving, Undocked, Runtimes
  <2>2. CASE UNCHANGED <<go, win, news>>
    BY <1>1, <2>2, SilentStep, RuntimeFits DEF OpenRests, HostTypeOK
  <2> QED BY <2>1, <2>2 DEF ConfirmGolemWindowClose
<1> QED BY <1>1, <1>3, <1>4, HostAndSatellite DEF QuietSat, SatSame

\* The new window calls.
LEMMA BootstrapKeeps ==
  ASSUME WindowInv, BootstrapGolemWindow
  PROVE  WindowInv' /\ SameText
<1>1. /\ sat \in Sats /\ (sat.frozen \/ sat.st.phase = "ready") /\ go \in Runtimes
      /\ HostFits /\ HostTypeOK
      /\ UNCHANGED <<seqs, open, win, posts, relayed, main, typed, sent>>
      /\ sat' = [sat EXCEPT !.boot = "answering"] /\ win.shown = "run"
  BY SatBarred, RuntimeFits DEF BootstrapGolemWindow
<1>2. sat' \in Sats /\ SatSame(sat, sat')
  BY <1>1 DEF Sats, SatSame, SatKept
<1>3. CASE go.phase = "bootstrapping"
  <2> DEFINE g == [go EXCEPT !.phase = "bootstrapped"]
  <2>1. g \in Runtimes
    BY <1>1 DEF Runtimes, Phases
  <2>2. /\ g.rev = go.rev /\ g.phase = "bootstrapped" /\ g.mode = go.mode
        /\ g.instance = go.instance
        /\ g.handoff = go.handoff /\ g.handle = go.handle /\ g.authorized = go.authorized
        /\ g.acked = go.acked /\ g.observing = go.observing
    BY <1>1 DEF Runtimes
  <2>3. Publish(g)
    BY <1>3 DEF BootstrapGolemWindow
  <2> HIDE DEF g
  <2>4. go' \in Runtimes /\ news' \in [Windows -> SUBSET Snapshots] /\ GoAs(g) /\ Told
    BY <2>1, <2>2, <2>3, PublishFields, RuntimeFits
  <2>5. /\ go'.phase = "bootstrapped" /\ go'.mode = go.mode /\ go'.instance = go.instance
        /\ go'.handoff = go.handoff /\ go'.handle = go.handle /\ go'.authorized = go.authorized
        /\ go'.acked = go.acked /\ go'.observing = go.observing
    BY <2>2, <2>4 DEF GoAs
  <2>6. HostTypeOK'
    BY <1>1, <2>4 DEF HostTypeOK
  <2>7. HostFits'
    BY <1>1, <1>3, <2>5 DEF HostFits, Undocked, Running, Adding
  <2>8. SamePlace /\ SameSeqs /\ Heard /\ Confirmed
    BY <1>1, <1>3, <2>4, <2>5, RuntimeFits
       DEF SamePlace, SameSeqs, Heard, Confirmed, Leaving, Undocked, Running, Opening
  <2> QED BY <1>1, <1>2, <2>4, <2>6, <2>7, <2>8, HostAndSatellite
             DEF HostStep, QuietSat, SatSame
<1>4. CASE go.phase # "bootstrapping"
  <2>1. UNCHANGED <<go, news>>
    BY <1>4 DEF BootstrapGolemWindow
  <2>2. HostStep
    BY <1>1, <2>1, SilentStep DEF OpenRests, HostTypeOK
  <2> QED BY <1>1, <1>2, <2>2, HostAndSatellite DEF QuietSat, SatSame
<1> QED BY <1>3, <1>4

\* The host handles a message: it checks a map, accepts or refuses the message.
LEMMA CheckDraftsKeeps ==
  ASSUME WindowInv, NEW m \in posts, CheckDrafts(m)
  PROVE  WindowInv' /\ SameText
<1>1. /\ UNCHANGED <<go, seqs, open, win, news, relayed, main, sat, typed, sent>>
      /\ posts' = (posts \ {m}) \cup {[m EXCEPT !.checked = TRUE]}
  BY DEF CheckDrafts, hostVars
<1>2. HostStep
  BY <1>1, SilentStep, RuntimeFits DEF OpenRests, HostTypeOK
<1>3. m \in Messages
  BY RuntimeFits DEF WindowTypeOK, ChannelsTypeOK
<1>4. PICK c : c = [m EXCEPT !.checked = TRUE]
  OBVIOUS
<1>5. c \in Messages /\ MessageLike(m, c) /\ c.from = m.from
  BY <1>3, <1>4 DEF Messages, MessageLike
<1>6. Bystanders
  BY <1>1, <1>4, <1>5, QuietSelf, RuntimeFits DEF Bystanders, WindowTypeOK, ChannelsTypeOK
<1>7. MessagesSame
  <2>1. ASSUME NEW n \in ToMain' PROVE \E o \in ToMain : MessageLike(o, n)
    <3>1. CASE n = c
      BY <1>1, <1>4, <1>5, <2>1, <3>1 DEF ToMain, Queued, MessageLike
    <3>2. CASE n # c
      BY <1>1, <1>4, <2>1, <3>2 DEF ToMain, Queued, MessageLike
    <3> QED BY <3>1, <3>2
  <2>2. ASSUME NEW n \in ToSatellite' PROVE \E o \in ToSatellite : MessageLike(o, n)
    <3>1. CASE n = c
      BY <1>1, <1>4, <1>5, <2>2, <3>1 DEF ToSatellite, Queued, MessageLike
    <3>2. CASE n # c
      BY <1>1, <1>4, <2>2, <3>2 DEF ToSatellite, Queued, MessageLike
    <3> QED BY <3>1, <3>2
  <2> QED BY <2>1, <2>2 DEF MessagesSame
<1> QED BY <1>2, <1>6, <1>7, HostStepKeeps

\* The host relays a message it has accepted.
LEMMA RelayFacts ==
  ASSUME ChannelsTypeOK, NEW m \in Messages, Relay(m)
  PROVE  /\ relayed' \in [Windows -> Seq(Messages)]
         /\ \A n \in Queued("main")' :
              n \in Queued("main") \/ (m.from = "satellite" /\ MessageLike(m, n))
         /\ \A n \in Queued("satellite")' :
              n \in Queued("satellite") \/ (m.from = "main" /\ MessageLike(m, n))
<1>1. PICK c : c = [m EXCEPT !.checked = FALSE]
  OBVIOUS
<1>2. c \in Messages /\ MessageLike(m, c)
  BY <1>1 DEF Messages, MessageLike
<1>3. relayed["main"] \in Seq(Messages) /\ relayed["satellite"] \in Seq(Messages)
  BY DEF ChannelsTypeOK, Windows
<1>4. ASSUME NEW q \in Seq(Messages), NEW i \in DOMAIN Append(q, c)
      PROVE  Append(q, c)[i] = c \/ (i \in DOMAIN q /\ Append(q, c)[i] = q[i])
  BY <1>2, <1>4, AppendProperties
<1>5. \A q \in Seq(Messages) : Append(q, c) \in Seq(Messages)
  BY <1>2, AppendProperties
<1>6. CASE m.from = "satellite"
  <2>1. relayed' = [relayed EXCEPT !["main"] = Append(relayed["main"], c)]
    BY <1>1, <1>6 DEF Relay
  <2>2. /\ relayed' \in [Windows -> Seq(Messages)]
        /\ relayed'["main"] = Append(relayed["main"], c)
        /\ relayed'["satellite"] = relayed["satellite"]
    BY <1>3, <1>5, <2>1 DEF ChannelsTypeOK, Windows
  <2> QED BY <1>2, <1>3, <1>4, <1>6, <2>2 DEF Queued
<1>7. CASE m.from # "satellite" /\ win.shown = "run"
  <2>1. relayed' = [relayed EXCEPT !["satellite"] = Append(relayed["satellite"], c)]
    BY <1>1, <1>7 DEF Relay
  <2>2. /\ relayed' \in [Windows -> Seq(Messages)]
        /\ relayed'["satellite"] = Append(relayed["satellite"], c)
        /\ relayed'["main"] = relayed["main"]
    BY <1>3, <1>5, <2>1 DEF ChannelsTypeOK, Windows
  <2>3. m.from = "main"
    BY <1>7 DEF Messages, Windows
  <2> QED BY <1>2, <1>3, <1>4, <2>2, <2>3 DEF Queued
<1>8. CASE m.from # "satellite" /\ win.shown # "run"
  BY <1>8 DEF Relay, ChannelsTypeOK, Queued
<1> QED BY <1>6, <1>7, <1>8

LEMMA AcceptMessages ==
  ASSUME WindowInv, NEW m \in posts, Relay(m), posts' = posts \ {m},
         main'.claimed = main.claimed, sat'.deferred = sat.deferred
  PROVE  relayed' \in [Windows -> Seq(Messages)] /\ MessagesSame
<1>1. m \in Messages /\ ChannelsTypeOK
  BY RuntimeFits DEF WindowTypeOK, ChannelsTypeOK
<1>2. /\ relayed' \in [Windows -> Seq(Messages)]
      /\ \A n \in Queued("main")' :
           n \in Queued("main") \/ (m.from = "satellite" /\ MessageLike(m, n))
      /\ \A n \in Queued("satellite")' :
           n \in Queued("satellite") \/ (m.from = "main" /\ MessageLike(m, n))
  BY <1>1, RelayFacts
<1>3. ASSUME NEW n \in ToMain' PROVE \E o \in ToMain : MessageLike(o, n)
  BY <1>2, <1>3 DEF ToMain, MessageLike
<1>4. ASSUME NEW n \in ToSatellite' PROVE \E o \in ToSatellite : MessageLike(o, n)
  BY <1>2, <1>4 DEF ToSatellite, MessageLike
<1> QED BY <1>2, <1>3, <1>4 DEF MessagesSame

\* A step of the host that only notes what a message says.
LEMMA NoteStep ==
  ASSUME WindowInv, UNCHANGED <<seqs, open, win, news>>, go' \in Runtimes,
         go'.phase = go.phase, go'.mode = go.mode, go'.instance = go.instance,
         go'.handoff = go.handoff, go'.handle = go.handle, go'.authorized = go.authorized,
         go'.observing = go.observing, go'.rev = go.rev,
         Leaving /\ go'.acked => go.acked \/ (main.inHandoff = go.handoff /\ main.inAck = "ok")
  PROVE  HostStep
<1>1. HostTypeOK' /\ news' \in [Windows -> SUBSET Snapshots]
  BY RuntimeFits DEF HostTypeOK, WindowTypeOK, ChannelsTypeOK
<1>2. HostFits'
  BY RuntimeFits DEF HostFits, Undocked, Running, Adding
<1>3. SamePlace /\ SameSeqs /\ Heard /\ Confirmed
  BY RuntimeFits DEF SamePlace, SameSeqs, Heard, Confirmed, Leaving, Undocked, Running
<1> QED BY <1>1, <1>2, <1>3 DEF HostStep

\* The Golem window is ready when it has its map.
LEMMA ReadyStep ==
  ASSUME WindowInv, go.phase = "bootstrapped", sat.installed, UNCHANGED <<seqs, open, win>>,
         Publish([go EXCEPT !.phase = "ready", !.mode = "undocked"])
  PROVE  HostStep
<1>1. go \in Runtimes /\ HostFits /\ HostTypeOK
  BY RuntimeFits
<1> DEFINE g == [go EXCEPT !.phase = "ready", !.mode = "undocked"]
<1>2. g \in Runtimes
  BY <1>1 DEF Runtimes, Phases, Modes
<1>3. /\ g.rev = go.rev /\ g.phase = "ready" /\ g.mode = "undocked" /\ g.instance = go.instance
      /\ g.handoff = go.handoff /\ g.handle = go.handle /\ g.authorized = go.authorized
      /\ g.observing = go.observing
  BY <1>1 DEF Runtimes
<1>4. Publish(g)
  OBVIOUS
<1> HIDE DEF g
<1>5. go' \in Runtimes /\ news' \in [Windows -> SUBSET Snapshots] /\ GoAs(g) /\ Told
  BY <1>2, <1>3, <1>4, PublishFields, RuntimeFits
<1>6. /\ go'.phase = "ready" /\ go'.mode = "undocked" /\ go'.instance = go.instance
      /\ go'.handoff = go.handoff /\ go'.handle = go.handle /\ go'.authorized = go.authorized
      /\ go'.observing = go.observing
  BY <1>3, <1>5 DEF GoAs
<1>7. HostTypeOK'
  BY <1>1, <1>5 DEF HostTypeOK
<1>8. Running /\ Running' /\ Undocked'
  BY <1>1, <1>6 DEF HostFits, Running, Undocked
<1>9. HostFits'
  BY <1>1, <1>6, <1>8 DEF HostFits, Running, Adding, Undocked
<1>10. Readied
  BY <1>5, <1>6, <1>8 DEF Readied, SameSeqs
<1> QED BY <1>5, <1>7, <1>9, <1>10 DEF HostStep

LEMMA AcceptStep ==
  ASSUME WindowInv, NEW m \in posts, Acceptable(m), Accept(m), UNCHANGED <<seqs, open>>
  PROVE  HostStep
<1>1. m \in Messages /\ go \in Runtimes /\ HostTypeOK
  BY RuntimeFits DEF WindowTypeOK, ChannelsTypeOK
<1>2. /\ m.from \in {"main", "satellite"}
      /\ m.from = "satellite" => ForMain(m)
      /\ m.from = "main" => ForSatellite(m)
  BY <1>1 DEF Messages, Windows, WindowInv, MessagesFit, ToMain, ToSatellite
<1>3. m.id \in Nat /\ m.ok \in BOOLEAN /\ m.kind \in Kinds
  BY <1>1, MessageFields
<1>4. CASE m.kind = "drafts"
  <2>1. go' = [go EXCEPT !.transfer = m.id, !.acked = FALSE] /\ UNCHANGED <<win, news>>
    BY <1>4 DEF Accept
  <2>2. go' \in Runtimes
    BY <1>1, <1>3, <2>1 DEF Runtimes
  <2>3. /\ go'.phase = go.phase /\ go'.mode = go.mode /\ go'.instance = go.instance
        /\ go'.handoff = go.handoff /\ go'.handle = go.handle /\ go'.authorized = go.authorized
        /\ go'.observing = go.observing /\ go'.rev = go.rev /\ ~go'.acked
    BY <1>1, <2>1 DEF Runtimes
  <2> QED BY <2>1, <2>2, <2>3, NoteStep
<1>5. CASE m.kind = "view"
  <2>1. go' = [go EXCEPT !.view = TRUE] /\ UNCHANGED <<win, news>>
    BY <1>5 DEF Accept
  <2>2. go' \in Runtimes
    BY <1>1, <2>1 DEF Runtimes
  <2>3. /\ go'.phase = go.phase /\ go'.mode = go.mode /\ go'.instance = go.instance
        /\ go'.handoff = go.handoff /\ go'.handle = go.handle /\ go'.authorized = go.authorized
        /\ go'.observing = go.observing /\ go'.rev = go.rev /\ go'.acked = go.acked
    BY <1>1, <2>1 DEF Runtimes
  <2> QED BY <2>1, <2>2, <2>3, NoteStep
<1>6. CASE m.kind = "ack" /\ m.handoff # 0
  <2>1. go' = [go EXCEPT !.acked = m.ok] /\ UNCHANGED <<win, news>>
    BY <1>6 DEF Accept
  <2>2. go' \in Runtimes
    BY <1>1, <1>3, <2>1 DEF Runtimes
  <2>3. /\ go'.phase = go.phase /\ go'.mode = go.mode /\ go'.instance = go.instance
        /\ go'.handoff = go.handoff /\ go'.handle = go.handle /\ go'.authorized = go.authorized
        /\ go'.observing = go.observing /\ go'.rev = go.rev /\ (go'.acked => m.ok)
    BY <1>1, <2>1 DEF Runtimes
  <2>4. m.from = "main"
    BY <1>2, <1>6 DEF ForMain
  <2>5. m.instance = go.instance /\ m.handoff = go.handoff
    BY <1>6 DEF Acceptable, Fits, HandoffFits
  <2>6. Leaving /\ m.ok => main.inHandoff = go.handoff /\ main.inAck = "ok"
    BY <1>2, <1>6, <2>4, <2>5 DEF ForSatellite
  <2> QED BY <2>1, <2>2, <2>3, <2>6, NoteStep
<1>7. CASE m.kind = "ready" /\ go.phase = "bootstrapped"
  <2>1. Publish([go EXCEPT !.phase = "ready", !.mode = "undocked"]) /\ UNCHANGED win
    BY <1>7 DEF Accept
  <2>2. m.from = "satellite" /\ m.instance = go.instance
    BY <1>2, <1>7 DEF ForSatellite, Acceptable, Fits
  <2>3. sat.installed
    BY <1>2, <1>7, <2>2 DEF ForMain, Opening
  <2> QED BY <1>7, <2>1, <2>3, ReadyStep
<1>8. CASE m.kind = "abort"
  <2>1. AbortAttempt \/ RestoreReady
    BY <1>8 DEF Accept
  <2> QED BY <2>1, AbortStep, RestoreStep
<1>9. CASE m.kind \notin {"drafts", "view", "abort"} /\ ~(m.kind = "ack" /\ m.handoff # 0)
           /\ ~(m.kind = "ready" /\ go.phase = "bootstrapped")
  <2>1. UNCHANGED <<go, win, news>>
    BY <1>9 DEF Accept
  <2> QED BY <1>1, <2>1, SilentStep DEF OpenRests, HostTypeOK
<1> QED BY <1>4, <1>5, <1>6, <1>7, <1>8, <1>9

\* A message is accepted.
LEMMA AcceptPostKeeps ==
  ASSUME WindowInv, NEW m \in posts, AcceptPost(m)
  PROVE  WindowInv' /\ SameText
<1>1. /\ Acceptable(m) /\ Accept(m) /\ Relay(m) /\ posts' = posts \ {m}
      /\ UNCHANGED <<seqs, open, main, typed, sent>>
  BY DEF AcceptPost
<1>2. HostStep
  BY <1>1, AcceptStep
<1>3. sat \in Sats /\ (sat.frozen \/ sat.st.phase = "ready")
  BY SatBarred
<1>4. sat' = [sat EXCEPT !.armed = TRUE] \/ sat' = [sat EXCEPT !.due = TRUE] \/ sat' = sat
  BY DEF AcceptPost
<1>5. sat' \in Sats /\ SatSame(sat, sat')
  <2>1. CASE sat' = [sat EXCEPT !.armed = TRUE]
    <3>1. sat' \in Sats
      BY <1>3, <2>1 DEF Sats
    <3> QED BY <1>3, <2>1, <3>1 DEF Sats, SatSame, SatKept
  <2>2. CASE sat' = [sat EXCEPT !.due = TRUE]
    <3>1. sat' \in Sats
      BY <1>3, <2>2 DEF Sats
    <3> QED BY <1>3, <2>2, <3>1 DEF Sats, SatSame, SatKept
  <2>3. CASE sat' = sat
    BY <1>3, <2>3 DEF Sats, SatSame, SatKept
  <2> QED BY <1>4, <2>1, <2>2, <2>3
<1>6. relayed' \in [Windows -> Seq(Messages)] /\ MessagesSame
  BY <1>1, <1>5, AcceptMessages DEF SatSame
<1>7. Bystanders
  BY <1>1, <1>5, <1>6, QuietSelf, RuntimeFits
     DEF Bystanders, WindowTypeOK, ChannelsTypeOK, QuietSat, SatSame
<1> QED BY <1>2, <1>6, <1>7, HostStepKeeps

(***************************************************************************)
(* The actions of the windows.                                             *)
(***************************************************************************)
\* The types after a step of a window.
WindowStep ==
  /\ UNCHANGED hostVars
  /\ news' \in [Windows -> SUBSET Snapshots]
  /\ posts' \in SUBSET Messages /\ relayed' \in [Windows -> Seq(Messages)]
  /\ main' \in Mains /\ sat' \in Sats
  /\ typed' \in Drafts /\ sent' \in [Texts -> Nat]

LEMMA WindowStepTypes ==
  ASSUME WindowInv, WindowStep
  PROVE  /\ WindowTypeOK' /\ HostFits' /\ HostStill
         /\ go' = go /\ seqs' = seqs /\ open' = open /\ win' = win /\ (Running' <=> Running)
<1>1. go' = go /\ seqs' = seqs /\ open' = open /\ win' = win
  BY DEF WindowStep, hostVars
<1>2. WindowTypeOK'
  BY <1>1 DEF WindowStep, WindowTypeOK, WindowInv, HostTypeOK, ChannelsTypeOK
<1>3. HostFits'
  BY <1>1 DEF WindowInv, HostFits, Undocked, Running, Adding
<1> QED BY <1>1, <1>2, <1>3 DEF HostStill, Running

\* What the queues and the posts hold after a step was there before it, or is new.
Posted(ms) ==
  /\ posts' \subseteq posts \cup ms
  /\ Queued("main")' \subseteq Queued("main")
  /\ Queued("satellite")' \subseteq Queued("satellite")

LEMMA HoldNew ==
  ASSUME NEW ms, Posted(ms),
         main'.claimed \in ToMain \cup {NoMessage, main.claimed},
         sat'.deferred \in ToSatellite \cup {NoMessage, sat.deferred},
         \A n \in ms : /\ n.from = "satellite" => ForMain(n)'
                       /\ n.from = "main" => ForSatellite(n)'
  PROVE  MessagesHold
<1>1. ASSUME NEW m \in ToMain' PROVE ForMain(m)' \/ m \in ToMain
  BY <1>1 DEF ToMain, Posted
<1>2. ASSUME NEW m \in ToSatellite' PROVE ForSatellite(m)' \/ m \in ToSatellite
  BY <1>2 DEF ToSatellite, Posted
<1> QED BY <1>1, <1>2 DEF MessagesHold, MessageLike

\* A step of a window that moves nothing.
QuietStep ==
  /\ UNCHANGED <<hostVars, news, typed, sent>>
  /\ posts' \in SUBSET Messages /\ relayed' \in [Windows -> Seq(Messages)]
  /\ main' \in Mains /\ QuietMain
  /\ sat' \in Sats /\ QuietSat

LEMMA QuietTypes ==
  ASSUME WindowInv, QuietStep
  PROVE  /\ WindowTypeOK' /\ HostFits' /\ SamePlace /\ SameSeqs /\ Heard /\ HeardOnly
         /\ Confirmed
<1>1. WindowStep
  BY DEF QuietStep, WindowStep, WindowInv, WindowTypeOK, ChannelsTypeOK
<1>2. WindowTypeOK' /\ HostFits' /\ go' = go /\ seqs' = seqs /\ (Running' <=> Running)
  BY <1>1, WindowStepTypes
<1>3. SamePlace /\ SameSeqs /\ Confirmed
  BY <1>2 DEF SamePlace, SameSeqs, Confirmed, Leaving, Undocked, WindowInv, MovesFit
<1>4. Heard
  BY <1>2 DEF Heard, QuietStep
<1>5. HeardOnly
  BY <1>2, <1>4, HeardFacts DEF WindowInv, QuietStep, QuietMain, QuietSat, SatKept
<1> QED BY <1>2, <1>3, <1>4, <1>5

\* What fits before such a step fits after it.
LEMMA QuietFits ==
  ASSUME WindowInv, QuietStep, NEW m
  PROVE  (ForMain(m) => ForMain(m)') /\ (ForSatellite(m) => ForSatellite(m)')
<1>1. SamePlace /\ SameSeqs /\ HeardOnly /\ HostFits'
  BY QuietTypes
<1>2. \A k : Gone(k) => Gone(k)'
  BY <1>1 DEF Gone, HeardOnly, IsTold, SamePlace
<1>3. Leaving' => (Quiesced => Quiesced')
  BY <1>1, StayedQuiet DEF Quiesced, QuietSat, SatKept, QuietStep
<1>4. ForMain(m) => ForMain(m)'
  BY <1>1, <1>2, <1>3
     DEF ForMain, SamePlace, SameSeqs, QuietStep, QuietMain, QuietSat, SatKept, Undocked, Opening
<1>5. ForSatellite(m) => ForSatellite(m)'
  BY <1>1
     DEF ForSatellite, SamePlace, SameSeqs, QuietStep, QuietMain, QuietSat, SatKept, Undocked,
         Opening
<1> QED BY <1>4, <1>5

LEMMA QuietPosts ==
  ASSUME WindowInv, QuietStep, NEW ms, Posted(ms),
         sat'.deferred \in ToSatellite \cup {NoMessage, sat.deferred},
         \A n \in ms : /\ n.from = "satellite" => ForMain(n)
                       /\ n.from = "main" => ForSatellite(n)
  PROVE  WindowInv' /\ SameText
<1>1. \A n \in ms : /\ n.from = "satellite" => ForMain(n)'
                    /\ n.from = "main" => ForSatellite(n)'
  BY QuietFits
<1>2. main'.claimed = main.claimed
  BY DEF QuietStep, QuietMain
<1>3. MessagesHold
  BY <1>1, <1>2, HoldNew
<1> QED BY <1>3, QuietTypes, Stays DEF QuietStep

\* Aborts and views say nothing that could be wrong.
LEMMA AbortFits ==
  ASSUME NEW m
  PROVE  /\ m.kind = "abort" => ForMain(m) /\ ForSatellite(m) /\ ForMain(m)' /\ ForSatellite(m)'
         /\ m.kind = "view" => ForSatellite(m) /\ ForSatellite(m)'
BY DEF ForMain, ForSatellite

\* Messages that stay, and one that is dropped.
LEMMA PostedSame ==
  ASSUME relayed' = relayed, NEW ms, posts' \subseteq posts \cup ms
  PROVE  Posted(ms)
BY DEF Posted, Queued

\* The host refuses a message.
LEMMA RefusePostKeeps ==
  ASSUME WindowInv, NEW m \in posts, RefusePost(m)
  PROVE  WindowInv' /\ SameText
<1> DEFINE abort == AbortMessage("satellite", m.instance, m.handoff)
<1>1. /\ UNCHANGED <<hostVars, news, relayed, main, sat, typed, sent>>
      /\ posts' \subseteq posts \cup {abort}
  BY DEF RefusePost, PostFails
<1>2. m \in Messages
  BY DEF WindowInv, WindowTypeOK, ChannelsTypeOK
<1>3. abort \in Messages /\ abort.kind = "abort"
  <2>1. abort \in Messages
    BY <1>2, MessageFields, EmptyDraft, MessageType DEF AbortMessage, Windows, Kinds
  <2>2. abort.kind = "abort"
    BY DEF AbortMessage, Message
  <2> QED BY <2>1, <2>2
<1> HIDE DEF abort
<1>4. QuietStep
  BY <1>1, <1>3, QuietSelf DEF QuietStep, WindowInv, WindowTypeOK, ChannelsTypeOK
<1>5. Posted({abort})
  BY <1>1, PostedSame
<1>6. \A n \in {abort} : /\ n.from = "satellite" => ForMain(n)
                         /\ n.from = "main" => ForSatellite(n)
  BY <1>3, AbortFits
<1> QED BY <1>1, <1>4, <1>5, <1>6, QuietPosts

\* A step of the main window with the goroutine that opens a window.
LEMMA MainOpens ==
  ASSUME WindowInv, OpenRests,
         UNCHANGED <<go, seqs, win, news, posts, relayed, sat, typed, sent>>,
         main' \in Mains, QuietMain
  PROVE  WindowInv' /\ SameText
<1>1. HostStep
  BY SilentStep
<1>2. Bystanders
  BY QuietSelf DEF Bystanders, WindowInv, WindowTypeOK, ChannelsTypeOK
<1>3. MessagesSame
  BY StillMessagesSame DEF StillMessages, QuietMain
<1> QED BY <1>1, <1>2, <1>3, HostStepKeeps

LEMMA UndockGolemKeeps ==
  ASSUME WindowInv, UndockGolem
  PROVE  WindowInv' /\ SameText
<1>1. /\ main \in Mains /\ open \in [pc : OpenPcs, instance : Nat]
      /\ main' = [main EXCEPT !.frozen = TRUE, !.undock = "opening"]
      /\ open' = [open EXCEPT !.pc = "called"]
      /\ UNCHANGED <<go, seqs, win, news, posts, relayed, sat, typed, sent>>
  BY DEF UndockGolem, WindowInv, WindowTypeOK, HostTypeOK
<1>2. OpenRests
  BY <1>1 DEF OpenRests, OpenPcs
<1>3. main' \in Mains /\ QuietMain
  <2>1. main' \in Mains
    BY <1>1 DEF Mains
  <2> QED BY <1>1, <2>1 DEF Mains, QuietMain
<1> QED BY <1>1, <1>2, <1>3, MainOpens

LEMMA OpenAnsweredKeeps ==
  ASSUME WindowInv, OpenAnswered
  PROVE  WindowInv' /\ SameText
<1>1. /\ main \in Mains /\ open \in [pc : OpenPcs, instance : Nat]
      /\ open' = [open EXCEPT !.pc = "idle"]
      /\ UNCHANGED <<go, seqs, win, news, posts, relayed, sat, typed, sent>>
      /\ main.st.phase # "closed" => main.frozen
  BY DEF OpenAnswered, WindowInv, WindowTypeOK, HostTypeOK, MainFits
<1>2. OpenRests
  BY <1>1 DEF OpenRests, OpenPcs
<1>3. main' \in Mains /\ QuietMain
  <2>1. CASE main' = main
    BY <1>1, <2>1, QuietSelf
  <2>2. CASE \E u \in {"none", "opened"} : main' = [main EXCEPT !.undock = u, !.held = FALSE]
    <3>1. PICK u \in {"none", "opened"} : main' = [main EXCEPT !.undock = u, !.held = FALSE]
      BY <2>2
    <3>2. main' \in Mains
      BY <1>1, <3>1 DEF Mains
    <3> QED BY <1>1, <3>1, <3>2 DEF Mains, QuietMain
  <2>3. CASE \E f \in BOOLEAN : /\ main' = [main EXCEPT !.undock = "none", !.held = FALSE,
                                                        !.frozen = f]
                                /\ main.st.phase # "closed" => f
    <3>1. PICK f \in BOOLEAN : /\ main' = [main EXCEPT !.undock = "none", !.held = FALSE,
                                                       !.frozen = f]
                               /\ main.st.phase # "closed" => f
      BY <2>3
    <3>2. main' \in Mains
      BY <1>1, <3>1 DEF Mains
    <3> QED BY <1>1, <3>1, <3>2 DEF Mains, QuietMain
  <2>4. main.held \in BOOLEAN /\ main.frozen \in BOOLEAN
    BY <1>1 DEF Mains
  <2>5. CASE main.undock # "opening"
    <3>1. main' = main
      BY <2>5 DEF OpenAnswered
    <3> QED BY <2>1, <3>1
  <2>6. CASE main.undock = "opening" /\ open.pc = "accepted"
    <3>1. main' = [main EXCEPT !.undock = IF main.held THEN "none" ELSE "opened",
                               !.held = FALSE]
      BY <2>6 DEF OpenAnswered
    <3> QED BY <2>2, <3>1
  <2>7. CASE main.undock = "opening" /\ open.pc # "accepted"
    <3>1. main' = [main EXCEPT !.undock = "none", !.held = FALSE,
                     !.frozen = IF main.held THEN @ ELSE main.st.phase # "closed"]
      BY <2>7 DEF OpenAnswered
    <3>2. PICK f \in BOOLEAN :
            f = IF main.held THEN main.frozen ELSE main.st.phase # "closed"
      BY <2>4
    <3>3. main' = [main EXCEPT !.undock = "none", !.held = FALSE, !.frozen = f]
      BY <1>1, <3>1, <3>2 DEF Mains
    <3>4. main.st.phase # "closed" => f
      BY <1>1, <3>2
    <3> QED BY <2>3, <3>3, <3>4
  <2> QED BY <2>5, <2>6, <2>7
<1> QED BY <1>1, <1>2, <1>3, MainOpens

\* A map main sends is its text.
LEMMA SentMapFits ==
  ASSUME WindowInv, ~main.settled, NEW m, m = DraftsFromMain(main)
  PROVE  m \in Messages /\ m.from = "main" /\ ForSatellite(m)
<1>1. /\ m.from = "main" /\ m.kind = "drafts" /\ m.instance = main.core
      /\ m.handoff = main.transfer /\ m.text = main.payload
  BY DEF DraftsFromMain, Message
<1>2. main \in Mains /\ MainFits /\ HostFits /\ WindowTypeOK
  BY DEF WindowInv, WindowTypeOK
<1>3. m \in Messages
  BY <1>2, MainFields, MessageType DEF DraftsFromMain, Windows, Kinds
<1>4. main.core <= seqs.instance
  <2>1. SnapshotFits(main.st)
    BY SeenType DEF SeenTypeOK, SeenBy
  <2> QED BY <1>2, <2>1 DEF SnapshotFits, MainFits
<1>5. ForSatellite(m)
  BY <1>1, <1>2, <1>4 DEF ForSatellite, MainFits
<1> QED BY <1>1, <1>3, <1>5

\* An abort has the type of messages.
LEMMA AbortType ==
  ASSUME NEW from \in Windows, NEW instance \in Nat, NEW handoff \in Nat, NEW m,
         m = AbortMessage(from, instance, handoff)
  PROVE  m \in Messages /\ m.kind = "abort"
<1>1. m.kind = "abort"
  BY DEF AbortMessage, Message
<1>2. m \in Messages
  BY EmptyDraft, MessageType DEF AbortMessage, Kinds
<1> QED BY <1>1, <1>2

LEMMA TransferTimerKeeps ==
  ASSUME WindowInv, TransferTimer
  PROVE  WindowInv' /\ SameText
<1>1. /\ main \in Mains /\ ChannelsTypeOK /\ ~main.settled /\ sat' = sat
      /\ UNCHANGED <<hostVars, news, typed, sent, relayed>>
      /\ main.st.phase # "closed" => main.frozen
  BY DEF TransferTimer, MainUnchanged, WindowInv, WindowTypeOK, MainFits
<1>2. CASE main.attempts < MaxPosts
  <2>1. PICK m : m = DraftsFromMain(main)
    OBVIOUS
  <2>2. m \in Messages /\ m.from = "main" /\ ForSatellite(m)
    BY <1>1, <2>1, SentMapFits
  <2>3. Post({m}) /\ main' = [main EXCEPT !.attempts = @ + 1]
    BY <1>2, <2>1 DEF TransferTimer
  <2>4. PICK a \in Nat : a = main.attempts + 1
    BY <1>1, MainFields
  <2>5. main' = [main EXCEPT !.attempts = a]
    BY <1>1, <2>3, <2>4 DEF Mains
  <2>6. main' \in Mains
    BY <1>1, <2>5 DEF Mains
  <2>7. QuietMain
    BY <1>1, <2>5 DEF Mains, QuietMain
  <2>8. posts' \in SUBSET Messages /\ posts' = posts \cup {m}
    BY <1>1, <2>2, <2>3, PostType
  <2>9. QuietStep
    BY <1>1, <2>6, <2>7, <2>8, QuietSelf DEF QuietStep, ChannelsTypeOK
  <2>10. Posted({m})
    BY <1>1, <2>8, PostedSame
  <2> QED BY <1>1, <2>2, <2>9, <2>10, QuietPosts
<1>3. CASE ~(main.attempts < MaxPosts)
  <2>1. PICK m : m = AbortMessage("main", main.core, main.transfer)
    OBVIOUS
  <2>2. m \in Messages /\ m.kind = "abort"
    BY <1>1, <2>1, MainFields, AbortType DEF Windows
  <2>3. Post({m}) /\ main' = [main EXCEPT !.settled = TRUE]
    BY <1>3, <2>1 DEF TransferTimer
  <2>4. main' \in Mains
    BY <1>1, <2>3 DEF Mains
  <2>5. QuietMain
    BY <1>1, <2>3 DEF Mains, QuietMain
  <2>6. posts' \in SUBSET Messages /\ posts' = posts \cup {m}
    BY <1>1, <2>2, <2>3, PostType
  <2>7. QuietStep
    BY <1>1, <2>4, <2>5, <2>6, QuietSelf DEF QuietStep, ChannelsTypeOK
  <2>8. Posted({m})
    BY <1>1, <2>6, PostedSame
  <2> QED BY <1>1, <2>2, <2>7, <2>8, AbortFits, QuietPosts
<1> QED BY <1>2, <1>3

\* An ack of main fits if it speaks of an action, and says the outcome of the last.
LEMMA ActionAckFits ==
  ASSUME WindowInv, NEW id \in Nat, NEW ok \in BOOLEAN, NEW m, m = Ack(id, 0, ok),
         id # 0, id <= main.lastAction, id = main.lastAction => ok = main.lastOk
  PROVE  m \in Messages /\ m.from = "main" /\ ForSatellite(m)
<1>1. /\ m.from = "main" /\ m.kind = "ack" /\ m.instance = main.core /\ m.handoff = 0
      /\ m.id = id /\ m.ok = ok
  BY DEF Ack, Message
<1>2. main \in Mains /\ MainFits /\ WindowTypeOK
  BY DEF WindowInv, WindowTypeOK
<1>3. m \in Messages
  BY <1>2, MainFields, EmptyDraft, MessageType DEF Ack, Windows, Kinds
<1>4. main.core <= seqs.instance /\ 0 <= seqs.handoff
  <2>1. SnapshotFits(main.st)
    BY SeenType DEF SeenTypeOK, SeenBy
  <2> QED BY <1>2, <2>1 DEF SnapshotFits, MainFits, WindowTypeOK, HostTypeOK
<1>5. main.core # 0
  BY <1>2, MainFields DEF MainFits
<1>6. ForSatellite(m)
  BY <1>1, <1>4, <1>5 DEF ForSatellite
<1> QED BY <1>1, <1>3, <1>6

LEMMA MainAcksActionKeeps ==
  ASSUME WindowInv, MainAcksAction
  PROVE  WindowInv' /\ SameText
<1>1. /\ main \in Mains /\ ChannelsTypeOK /\ sat' = sat
      /\ UNCHANGED <<hostVars, news, typed, sent, relayed>>
      /\ main.st.phase # "closed" => main.frozen
      /\ main.settling # 0 /\ main.settling = main.lastAction
      /\ main' = [main EXCEPT !.settling = 0]
  BY DEF MainAcksAction, MainUnchanged, WindowInv, WindowTypeOK, MainFits
<1>2. PICK m : m = Ack(main.settling, 0, main.lastOk)
  OBVIOUS
<1>3. m \in Messages /\ m.from = "main" /\ ForSatellite(m)
  BY <1>1, <1>2, MainFields, ActionAckFits
<1>4. main' \in Mains
  BY <1>1 DEF Mains
<1>5. QuietMain
  BY <1>1 DEF Mains, QuietMain
<1>6. posts' \in SUBSET Messages /\ posts' = posts \cup {m}
  BY <1>1, <1>2, <1>3, PostType DEF MainAcksAction
<1>7. QuietStep
  BY <1>1, <1>4, <1>5, <1>6, QuietSelf DEF QuietStep, ChannelsTypeOK
<1>8. Posted({m})
  BY <1>1, <1>6, PostedSame
<1> QED BY <1>1, <1>3, <1>7, <1>8, QuietPosts

\* The map is installed in main after the Sends before it.
LEMMA MainInstallsDraftsKeeps ==
  ASSUME WindowInv, MainInstallsDrafts
  PROVE  WindowInv' /\ SameText
<1>1. /\ main \in Mains /\ ChannelsTypeOK /\ WindowTypeOK /\ MainFits /\ sat' = sat
      /\ UNCHANGED <<hostVars, news, typed, sent, relayed>>
      /\ main.claimed # NoMessage
  BY DEF MainInstallsDrafts, MainUnchanged, WindowInv, WindowTypeOK
<1>2. PICK owned \in BOOLEAN : owned = (main.st.mode = "undocked")
  OBVIOUS
<1>3. PICK m : m = Ack(main.claimed.id, main.claimed.handoff, owned)
  OBVIOUS
<1>4. /\ main' = [main EXCEPT !.claimed = NoMessage,
                    !.inAck = IF owned THEN "ok" ELSE "refused",
                    !.draft = IF owned THEN main.claimed.text ELSE @]
      /\ Post({m})
  BY <1>2, <1>3 DEF MainInstallsDrafts
<1>5. /\ main.claimed \in Messages /\ main.claimed.id \in Nat /\ main.claimed.handoff \in Nat
      /\ main.claimed.text \in Drafts /\ main.core \in Nat
  BY <1>1, MainFields, MessageFields
<1>6. main' \in Mains
  <2>1. CASE owned
    <3>1. main' = [main EXCEPT !.claimed = NoMessage, !.inAck = "ok",
                               !.draft = main.claimed.text]
      BY <1>4, <2>1
    <3> QED BY <1>1, <1>5, <3>1, NoMessageType DEF Mains
  <2>2. CASE ~owned
    <3>1. main' = [main EXCEPT !.claimed = NoMessage, !.inAck = "refused"]
      BY <1>1, <1>4, <2>2 DEF Mains
    <3> QED BY <1>1, <1>5, <3>1, NoMessageType DEF Mains
  <2> QED BY <2>1, <2>2
<1>7. /\ main'.st = main.st /\ main'.core = main.core /\ main'.frozen = main.frozen
      /\ main'.transfer = main.transfer /\ main'.payload = main.payload
      /\ main'.settled = main.settled
      /\ main'.lastAction = main.lastAction /\ main'.lastOk = main.lastOk
      /\ main'.settling = main.settling /\ main'.inHandoff = main.inHandoff
      /\ main'.claimed = NoMessage
      /\ IF owned THEN main'.inAck = "ok" /\ main'.draft = main.claimed.text
                  ELSE main'.inAck = "refused" /\ main'.draft = main.draft
  BY <1>1, <1>4 DEF Mains
<1>8. m \in Messages
  BY <1>3, <1>5, EmptyDraft, MessageType DEF Ack, Windows, Kinds
<1>9. /\ m.from = "main" /\ m.kind = "ack" /\ m.instance = main.core
      /\ m.handoff = main.claimed.handoff /\ m.ok = owned
  BY <1>3 DEF Ack, Message
<1>10. posts' \in SUBSET Messages /\ posts' = posts \cup {m}
  BY <1>1, <1>4, <1>8, PostType
<1>11. WindowStep
  BY <1>1, <1>6, <1>10 DEF WindowStep, WindowTypeOK, ChannelsTypeOK
<1>12. WindowTypeOK' /\ HostFits' /\ HostStill /\ (Running' <=> Running) /\ go' = go
       /\ seqs' = seqs
  BY <1>11, WindowStepTypes
<1>13. Takes
  BY <1>1, <1>7, <1>12 DEF Takes, SatStill, MainAlike
<1>14. ForSatellite(m)'
  <2>1. ForMain(main.claimed) /\ main.claimed.kind = "drafts"
        /\ main.claimed.instance = main.core /\ main.claimed.handoff = main.inHandoff
    BY <1>1 DEF WindowInv, MessagesFit, ToMain, MainFits
  <2>2. m.instance <= seqs'.instance /\ m.handoff <= seqs'.handoff /\ m.handoff # 0
    BY <1>9, <1>12, <2>1 DEF ForMain
  <2> QED BY <1>7, <1>9, <1>12, <2>1, <2>2 DEF ForSatellite
<1>15. MessagesHold
  <2>1. Posted({m})
    BY <1>1, <1>10, PostedSame
  <2> QED BY <1>1, <1>7, <1>9, <1>14, <2>1, HoldNew
<1> QED BY <1>12, <1>13, <1>15, TakesKeeps

\* The user types in the main window, or sends from it.
LEMMA MainTypesKeeps ==
  ASSUME WindowInv, MainTypes
  PROVE  /\ WindowInv' /\ typed' = typed + 1 /\ ComposerText' = typed + 1
<1>1. PICK n \in Drafts : n = typed + 1
  BY BoundsAssumption DEF MainTypes, WindowInv, WindowTypeOK, Drafts
<1>2. /\ main \in Mains /\ main' = [main EXCEPT !.draft = n] /\ ~main.frozen /\ typed' = n
      /\ UNCHANGED <<hostVars, news, posts, relayed, sat, sent>>
      /\ ChannelsTypeOK /\ WindowTypeOK
  BY <1>1 DEF MainTypes, WindowInv, WindowTypeOK
<1>3. main' \in Mains
  BY <1>2 DEF Mains
<1>4. WindowStep
  BY <1>2, <1>3 DEF WindowStep, WindowTypeOK, ChannelsTypeOK
<1>5. WindowTypeOK' /\ HostFits' /\ HostStill /\ (Running' <=> Running)
  BY <1>4, WindowStepTypes
<1>6. MainEdits /\ main'.draft = n
  BY <1>2, <1>5 DEF MainEdits, SatStill, MainAlike, StillMessages, Mains
<1> QED BY <1>1, <1>2, <1>5, <1>6, MainEditsKeeps

LEMMA MainSendsKeeps ==
  ASSUME WindowInv, MainSends
  PROVE  /\ WindowInv' /\ ComposerText = main.draft /\ ComposerText # 0 /\ ComposerText' = 0
<1>1. /\ main \in Mains /\ main' = [main EXCEPT !.draft = 0] /\ ~main.frozen
      /\ main.draft # 0
      /\ UNCHANGED <<hostVars, news, posts, relayed, sat, typed>>
      /\ ChannelsTypeOK /\ WindowTypeOK
      /\ sent' = [sent EXCEPT ![main.draft] = @ + 1]
  BY DEF MainSends, WindowInv, WindowTypeOK
<1>2. main' \in Mains
  BY <1>1, EmptyDraft DEF Mains
<1>3. sent' \in [Texts -> Nat]
  <2>1. main.draft \in Texts /\ sent \in [Texts -> Nat]
    BY <1>1, MainFields, BoundsAssumption DEF WindowTypeOK, Drafts, Texts
  <2> QED BY <1>1, <2>1
<1>4. WindowStep
  BY <1>1, <1>2, <1>3 DEF WindowStep, WindowTypeOK, ChannelsTypeOK
<1>5. WindowTypeOK' /\ HostFits' /\ HostStill /\ (Running' <=> Running)
  BY <1>4, WindowStepTypes
<1>6. MainEdits /\ main'.draft = 0
  BY <1>1, <1>5 DEF MainEdits, SatStill, MainAlike, StillMessages, Mains
<1> QED BY <1>1, <1>5, <1>6, MainEditsKeeps

\* Main installs a state; for a new instance it sends the projection, and for a
\* window that has started the map.
LEMMA MainInstallsStateKeeps ==
  ASSUME WindowInv, MainInstallsState
  PROVE  WindowInv' /\ SameText
<1>1. PICK s \in news["main"] :
        /\ news' = [news EXCEPT !["main"] = {other \in @ : other.rev > s.rev}]
        /\ LET next == MainInstalled(main, s) IN
           /\ main' = next
           /\ Post((IF next.core \notin {0, main.core} THEN {ViewMessage(next.core)} ELSE {})
                    \cup (IF StartsTransfer(main, s) THEN {DraftsFromMain(next)} ELSE {}))
        /\ UNCHANGED <<hostVars, relayed, sat, typed, sent>>
  BY DEF MainInstallsState
<1>2. /\ main \in Mains /\ ChannelsTypeOK /\ WindowTypeOK /\ sat \in Sats /\ s \in Snapshots
      /\ news \in [Windows -> SUBSET Snapshots]
  BY <1>1 DEF WindowInv, WindowTypeOK, ChannelsTypeOK, Windows
<1>3. main' \in Mains /\ MainMoved(main, s, main')
  BY <1>1, <1>2, MainInstalledFields
<1>4. PICK view : view = ViewMessage(main'.core)
  OBVIOUS
<1>5. PICK map : map = DraftsFromMain(main')
  OBVIOUS
<1>6. PICK ms : ms = (IF main'.core \notin {0, main.core} THEN {view} ELSE {})
                      \cup (IF StartsTransfer(main, s) THEN {map} ELSE {})
  OBVIOUS
<1>7. Post(ms)
  BY <1>1, <1>4, <1>5, <1>6
<1>8. view \in Messages /\ view.kind = "view" /\ view.from = "main"
  <2>1. view \in Messages
    BY <1>3, <1>4, MainFields, EmptyDraft, MessageType DEF ViewMessage, Windows, Kinds
  <2>2. view.kind = "view" /\ view.from = "main"
    BY <1>4 DEF ViewMessage, Message
  <2> QED BY <2>1, <2>2
<1>9. /\ map \in Messages /\ map.from = "main" /\ map.kind = "drafts"
      /\ map.instance = main'.core /\ map.handoff = main'.transfer /\ map.text = main'.payload
  <2>1. map \in Messages
    BY <1>3, <1>5, MainFields, MessageType DEF DraftsFromMain, Windows, Kinds
  <2>2. /\ map.from = "main" /\ map.kind = "drafts" /\ map.instance = main'.core
        /\ map.handoff = main'.transfer /\ map.text = main'.payload
    BY <1>5 DEF DraftsFromMain, Message
  <2> QED BY <2>1, <2>2
<1>10. ms \in SUBSET Messages
  BY <1>6, <1>8, <1>9
<1>11. posts' \in SUBSET Messages /\ posts' = posts \cup ms
  BY <1>2, <1>7, <1>10, PostType
<1>12. news' \in [Windows -> SUBSET Snapshots]
       /\ news'["main"] = {other \in news["main"] : other.rev > s.rev}
       /\ news'["satellite"] = news["satellite"]
  BY <1>1, <1>2 DEF Windows
<1>13. WindowStep
  BY <1>1, <1>2, <1>3, <1>11, <1>12 DEF WindowStep, WindowTypeOK, ChannelsTypeOK
<1>14. WindowTypeOK' /\ HostFits' /\ HostStill /\ (Running' <=> Running)
       /\ go' = go /\ seqs' = seqs
  BY <1>13, WindowStepTypes
<1>15. MainInstalls(s)
  BY <1>1, <1>3, <1>12, <1>14 DEF MainInstalls, SatStill
<1>16. ASSUME StartsTransfer(main, s) PROVE ForSatellite(map)'
  <2>1. MainFits'
    BY <1>14, <1>15, InstallsMainFits
  <2>2. ~main'.settled
    BY <1>3, <1>16 DEF MainMoved
  <2>3. main'.core = s.instance /\ SnapshotFits(s)
    BY <1>14, <1>15, InstallFacts
  <2>4. main'.core <= seqs'.instance
    BY <1>14, <2>3 DEF SnapshotFits
  <2> QED BY <1>9, <1>14, <2>1, <2>2, <2>4 DEF MainFits, ForSatellite
<1>17. MessagesHold
  <2>1. Posted(ms)
    BY <1>1, <1>11, PostedSame
  <2>2. main'.claimed \in {NoMessage, main.claimed}
    BY <1>3 DEF MainMoved
  <2>3. \A n \in ms : n.from = "main" /\ ForSatellite(n)'
    BY <1>6, <1>8, <1>9, <1>16, AbortFits
  <2> QED BY <1>1, <2>1, <2>2, <2>3, HoldNew
<1> QED BY <1>14, <1>15, <1>17, InstallsKeeps

\* What is left of a queue.
LEMMA RemovedFrom ==
  ASSUME NEW S, NEW q \in Seq(S), NEW i \in DOMAIN q
  PROVE  /\ RemoveAt(q, i) \in Seq(S)
         /\ \A j \in DOMAIN RemoveAt(q, i) : \E k \in DOMAIN q : RemoveAt(q, i)[j] = q[k]
<1>1. Len(q) \in Nat /\ DOMAIN q = 1 .. Len(q) /\ i \in 1 .. Len(q)
  BY LenProperties
<1>2. PICK a : a = SubSeq(q, 1, i - 1)
  OBVIOUS
<1>3. PICK b : b = SubSeq(q, i + 1, Len(q))
  OBVIOUS
<1>4. RemoveAt(q, i) = a \o b
  BY <1>2, <1>3 DEF RemoveAt
<1>5. /\ a \in Seq(S) /\ Len(a) = i - 1 /\ \A j \in 1 .. Len(a) : a[j] = q[j]
  <2>1. \A j \in 1 .. (i - 1) : j \in 1 .. Len(q)
    BY <1>1
  <2> QED BY <1>1, <1>2, <2>1, SubSeqProperties, ElementOfSeq
<1>6. /\ b \in Seq(S) /\ \A j \in 1 .. Len(b) : j + i \in 1 .. Len(q) /\ b[j] = q[j + i]
  BY <1>1, <1>3, SubSeqProperties, ElementOfSeq
<1>7. /\ a \o b \in Seq(S) /\ DOMAIN (a \o b) = 1 .. Len(a) + Len(b)
      /\ \A j \in 1 .. Len(a) + Len(b) :
           (a \o b)[j] = IF j <= Len(a) THEN a[j] ELSE b[j - Len(a)]
  BY <1>5, <1>6, ConcatProperties, LenProperties
<1>8. Len(a) \in Nat /\ Len(b) \in Nat
  BY <1>5, <1>6, LenProperties
<1>9. ASSUME NEW j \in 1 .. Len(a) + Len(b) PROVE \E k \in DOMAIN q : (a \o b)[j] = q[k]
  <2>1. CASE j <= Len(a)
    <3>1. j \in 1 .. Len(a) /\ j \in 1 .. Len(q)
      BY <1>1, <1>5, <1>8, <2>1
    <3>2. (a \o b)[j] = q[j]
      BY <1>5, <1>7, <2>1, <3>1
    <3> QED BY <1>1, <3>1, <3>2
  <2>2. CASE ~(j <= Len(a))
    <3>1. j - Len(a) \in 1 .. Len(b)
      BY <1>8, <2>2
    <3> QED BY <1>1, <1>6, <1>7, <2>2, <3>1
  <2> QED BY <2>1, <2>2
<1> QED BY <1>4, <1>7, <1>9

LEMMA TakenFrom ==
  ASSUME ChannelsTypeOK, NEW i \in DOMAIN relayed["main"],
         relayed' = [relayed EXCEPT !["main"] = RemoveAt(@, i)]
  PROVE  /\ relayed' \in [Windows -> Seq(Messages)]
         /\ Queued("main")' \subseteq Queued("main")
         /\ Queued("satellite")' \subseteq Queued("satellite")
         /\ relayed["main"][i] \in Queued("main") /\ relayed["main"][i] \in Messages
<1>1. relayed \in [Windows -> Seq(Messages)] /\ relayed["main"] \in Seq(Messages)
  BY DEF ChannelsTypeOK, Windows
<1>2. /\ RemoveAt(relayed["main"], i) \in Seq(Messages)
      /\ \A j \in DOMAIN RemoveAt(relayed["main"], i) :
           \E k \in DOMAIN relayed["main"] : RemoveAt(relayed["main"], i)[j] = relayed["main"][k]
  BY <1>1, RemovedFrom
<1>3. PICK r \in Seq(Messages) : r = RemoveAt(relayed["main"], i)
  BY <1>2
<1>4. relayed' = [relayed EXCEPT !["main"] = r]
  BY <1>1, <1>3
<1>5. relayed'["main"] = r /\ relayed'["satellite"] = relayed["satellite"]
      /\ relayed' \in [Windows -> Seq(Messages)]
  BY <1>1, <1>4 DEF Windows
<1>6. Queued("main")' \subseteq Queued("main")
  BY <1>2, <1>3, <1>5 DEF Queued
<1>7. Queued("satellite")' \subseteq Queued("satellite")
  BY <1>5 DEF Queued
<1>8. relayed["main"][i] \in Queued("main")
  BY DEF Queued
<1>9. relayed["main"][i] \in Messages
  BY <1>8, QueuedType DEF Windows
<1> QED BY <1>5, <1>6, <1>7, <1>8, <1>9

\* The composer keeps its text, or it is submitted.
Keeps == SameText /\ typed' = typed /\ sent' = sent

Submits ==
  /\ ComposerText # 0 /\ ComposerText' = 0
  /\ typed' = typed /\ sent' = [sent EXCEPT ![ComposerText] = @ + 1]

\* What main has taken from its queue.
Received(m) ==
  /\ m \in ToMain /\ m \in Messages
  /\ relayed' \in [Windows -> Seq(Messages)]
  /\ Queued("main")' \subseteq Queued("main")
  /\ Queued("satellite")' \subseteq Queued("satellite")
  /\ UNCHANGED <<hostVars, news, sat, typed>>

\* Main takes notice of a message, and may answer it.
LEMMA ReceivedQuiet ==
  ASSUME WindowInv, NEW m, Received(m), sent' = sent, main' \in Mains, QuietMain,
         NEW ms \in SUBSET Messages, posts' \subseteq posts \cup ms,
         \A n \in ms : n.from = "main" /\ ForSatellite(n)
  PROVE  WindowInv' /\ Keeps
<1>1. QuietStep
  BY QuietSelf DEF QuietStep, Received, WindowInv, WindowTypeOK, ChannelsTypeOK
<1>2. Posted(ms) /\ sat'.deferred = sat.deferred
  BY DEF Posted, Received
<1>3. \A n \in ms : /\ n.from = "satellite" => ForMain(n)
                    /\ n.from = "main" => ForSatellite(n)
  OBVIOUS
<1>4. WindowInv' /\ SameText
  BY <1>1, <1>2, <1>3, QuietPosts
<1> QED BY <1>4 DEF Keeps, Received

LEMMA ReceivedNothing ==
  ASSUME WindowInv, NEW m, Received(m), UNCHANGED <<main, posts, sent>>
  PROVE  WindowInv' /\ Keeps
<1>1. main' \in Mains /\ QuietMain
  BY QuietSelf
<1>2. posts' \subseteq posts \cup {} /\ {} \in SUBSET Messages
  OBVIOUS
<1> QED BY <1>1, <1>2, ReceivedQuiet

\* The transfer to the Golem window is over.
LEMMA ReceivedSettles ==
  ASSUME WindowInv, NEW m, Received(m), UNCHANGED <<posts, sent>>,
         main' = [main EXCEPT !.settled = TRUE]
  PROVE  WindowInv' /\ Keeps
<1>1. main \in Mains /\ (main.st.phase # "closed" => main.frozen)
  BY DEF WindowInv, WindowTypeOK, MainFits
<1>2. main' \in Mains
  BY <1>1 DEF Mains
<1>3. QuietMain
  BY <1>1 DEF Mains, QuietMain
<1>4. posts' \subseteq posts \cup {} /\ {} \in SUBSET Messages
  OBVIOUS
<1> QED BY <1>2, <1>3, <1>4, ReceivedQuiet

\* An answer of main.
LEMMA ReceivedAck ==
  ASSUME WindowInv, NEW m, Received(m), UNCHANGED <<main, sent>>,
         NEW ack \in Messages, ack.from = "main", ForSatellite(ack), Post({ack})
  PROVE  WindowInv' /\ Keeps
<1>1. main' \in Mains /\ QuietMain
  BY QuietSelf
<1>2. posts' \subseteq posts \cup {ack} /\ {ack} \in SUBSET Messages
  BY PostType DEF WindowInv, WindowTypeOK
<1> QED BY <1>1, <1>2, ReceivedQuiet

\* A Send is executed once.
LEMMA MainReceivesActionKeeps ==
  ASSUME WindowInv, NEW m, Received(m), MainReceivesAction(m)
  PROVE  WindowInv' /\ (Keeps \/ Submits)
<1> USE DEF WindowInv
<1>1. /\ main \in Mains /\ WindowTypeOK /\ ChannelsTypeOK /\ ForMain(m) /\ m \in Messages
      /\ m.id \in Nat /\ m.id # 0 /\ main.lastAction \in Nat /\ main.lastOk \in BOOLEAN
      /\ m.kind = "action" /\ main.core = m.instance /\ m.text \in Drafts
      /\ FALSE \in BOOLEAN
  BY MessageFields, MainFields
     DEF Received, WindowTypeOK, MessagesFit, ForMain, MainReceivesAction
<1>2. CASE m.id > main.lastAction
  <2> /\ ~(m.id = main.lastAction /\ main.settling # m.id) /\ ~(m.id < main.lastAction)
      /\ m.id # main.lastAction
    BY <1>1, <1>2
  <2>1. PICK ok \in BOOLEAN :
          /\ main' = [main EXCEPT !.lastAction = m.id, !.lastOk = ok, !.settling = m.id]
          /\ sent' = IF ok THEN [sent EXCEPT ![m.text] = @ + 1] ELSE sent
          /\ UNCHANGED posts
    BY <1>1, <1>2 DEF MainReceivesAction
  <2>2. m.text # 0
    BY <1>1, <1>2 DEF ForMain, SatFits
  <2>3. main' \in Mains
    BY <1>1, <2>1 DEF Mains
  <2>4. sent' \in [Texts -> Nat]
    <3>1. m.text \in Texts
      BY <1>1, <2>2, BoundsAssumption DEF Drafts, Texts
    <3> QED BY <1>1, <2>1, <3>1 DEF WindowTypeOK
  <2>5. /\ main'.st = main.st /\ main'.core = main.core /\ main'.frozen = main.frozen
        /\ main'.transfer = main.transfer /\ main'.payload = main.payload
        /\ main'.settled = main.settled /\ main'.draft = main.draft
        /\ main'.inHandoff = main.inHandoff /\ main'.inAck = main.inAck
        /\ main'.claimed = main.claimed
        /\ main'.lastAction = m.id /\ main'.settling = m.id
        /\ main'.lastOk <=> ok
    BY <1>1, <2>1 DEF Mains
  <2>6. WindowStep
    BY <1>1, <2>1, <2>3, <2>4 DEF WindowStep, WindowTypeOK, ChannelsTypeOK, Received
  <2>7. WindowTypeOK' /\ HostFits' /\ HostStill /\ (Running' <=> Running)
    BY <2>6, WindowStepTypes
  <2>8. Executes(m)
    BY <1>1, <1>2, <2>5, <2>7 DEF Executes, SatStill, MainAlike, Received
  <2>9. MessagesHold
    <3>1. Posted({})
      BY <2>1 DEF Posted, Received
    <3> QED BY <2>5, <3>1, HoldNew DEF Received
  <2>10. WindowInv' /\ ComposerText = m.text /\ ComposerText' = IF ok THEN 0 ELSE m.text
    BY <2>5, <2>7, <2>8, <2>9, ExecutesKeeps
  <2>11. typed' = typed
    BY DEF Received
  <2>12. CASE ok
    BY <2>1, <2>2, <2>10, <2>11, <2>12 DEF Submits
  <2>13. CASE ~ok
    BY <2>1, <2>10, <2>11, <2>13 DEF Keeps, SameText
  <2> QED BY <2>10, <2>12, <2>13
<1>3. CASE m.id = main.lastAction /\ main.settling # m.id
  <2>1. PICK ack : ack = Ack(m.id, 0, main.lastOk)
    OBVIOUS
  <2>2. ack \in Messages /\ ack.from = "main" /\ ForSatellite(ack)
    BY <1>1, <1>3, <2>1, ActionAckFits
  <2>3. Post({ack}) /\ UNCHANGED <<main, sent>>
    BY <1>1, <1>3, <2>1 DEF MainReceivesAction
  <2> QED BY <2>2, <2>3, ReceivedAck
<1>4. CASE m.id < main.lastAction
  <2> /\ ~(m.id = main.lastAction) /\ ~(m.id > main.lastAction) /\ m.id <= main.lastAction
    BY <1>1, <1>4
  <2>1. PICK no \in BOOLEAN : no = FALSE
    OBVIOUS
  <2>2. PICK ack : ack = Ack(m.id, 0, no)
    OBVIOUS
  <2>3. ack \in Messages /\ ack.from = "main" /\ ForSatellite(ack)
    BY <1>1, <2>2, ActionAckFits
  <2>4. Post({ack}) /\ UNCHANGED <<main, sent>>
    BY <1>1, <1>4, <2>1, <2>2 DEF MainReceivesAction
  <2> QED BY <2>3, <2>4, ReceivedAck
<1>5. CASE m.id = main.lastAction /\ main.settling = m.id
  <2> ~(m.id < main.lastAction) /\ ~(m.id > main.lastAction)
    BY <1>1, <1>5
  <2>1. UNCHANGED <<posts, main, sent>>
    BY <1>1, <1>5 DEF MainReceivesAction
  <2> QED BY <2>1, ReceivedNothing
<1> QED BY <1>1, <1>2, <1>3, <1>4, <1>5

\* A map is claimed once, and its copies share the answer.
LEMMA MainReceivesDraftsKeeps ==
  ASSUME WindowInv, NEW m, Received(m), MainReceivesDrafts(m)
  PROVE  WindowInv' /\ Keeps
<1> USE DEF WindowInv
<1>1. /\ main \in Mains /\ WindowTypeOK /\ ChannelsTypeOK /\ ForMain(m) /\ m \in Messages
      /\ m.id \in Nat /\ m.handoff \in Nat /\ main.inHandoff \in Nat
      /\ m.kind = "drafts" /\ main.core = m.instance /\ sent' = sent /\ Gate(m) = "accept"
  BY MessageFields, MainFields
     DEF Received, WindowTypeOK, MessagesFit, MainReceivesDrafts
<1>2. main.st.phase = "closing" /\ m.handoff = main.st.handoff
  BY <1>1 DEF Gate
<1>3. CASE m.handoff = main.inHandoff /\ main.inAck # "none"
  <2>1. PICK ok \in BOOLEAN : ok = (main.inAck = "ok")
    OBVIOUS
  <2>2. PICK ack : ack = Ack(m.id, m.handoff, ok)
    OBVIOUS
  <2>3. Post({ack}) /\ UNCHANGED main
    BY <1>3, <2>1, <2>2 DEF MainReceivesDrafts
  <2>4. ack \in Messages
    BY <1>1, <2>2, MainFields, EmptyDraft, MessageType DEF Ack, Windows, Kinds
  <2>5. /\ ack.from = "main" /\ ack.kind = "ack" /\ ack.instance = m.instance
        /\ ack.handoff = m.handoff /\ ack.ok = ok
    BY <1>1, <2>2 DEF Ack, Message
  <2>6. ForSatellite(ack)
    BY <1>1, <1>3, <2>1, <2>5 DEF ForSatellite, ForMain
  <2> QED BY <1>1, <2>3, <2>4, <2>5, <2>6, ReceivedAck
<1>4. CASE ~(m.handoff = main.inHandoff /\ main.inAck # "none") /\ m.handoff <= main.inHandoff
  <2>1. UNCHANGED <<main, posts>>
    BY <1>4 DEF MainReceivesDrafts
  <2> QED BY <1>1, <2>1, ReceivedNothing
<1>5. CASE ~(m.handoff <= main.inHandoff)
  <2>1. /\ UNCHANGED posts
        /\ main' = [main EXCEPT !.inHandoff = m.handoff, !.inAck = "none", !.claimed = m]
    BY <1>1, <1>5 DEF MainReceivesDrafts
  <2>2. main' \in Mains
    BY <1>1, <2>1 DEF Mains
  <2>3. /\ main'.st = main.st /\ main'.core = main.core /\ main'.frozen = main.frozen
        /\ main'.transfer = main.transfer /\ main'.payload = main.payload
        /\ main'.settled = main.settled /\ main'.draft = main.draft
        /\ main'.lastAction = main.lastAction /\ main'.settling = main.settling
        /\ main'.lastOk = main.lastOk
        /\ main'.inHandoff = m.handoff /\ main'.inAck = "none"
        /\ main'.claimed = m
    BY <1>1, <2>1 DEF Mains
  <2>4. WindowStep
    BY <1>1, <2>1, <2>2 DEF WindowStep, WindowTypeOK, ChannelsTypeOK, Received
  <2>5. WindowTypeOK' /\ HostFits' /\ HostStill /\ (Running' <=> Running)
    BY <2>4, WindowStepTypes
  <2>6. Claims(m)
    BY <1>1, <1>2, <1>5, <2>3, <2>5 DEF Claims, SatStill, MainAlike, Received
  <2>7. MessagesHold
    <3>1. Posted({})
      BY <2>1 DEF Posted, Received
    <3> QED BY <2>3, <3>1, HoldNew DEF Received
  <2>8. WindowInv' /\ SameText
    BY <2>5, <2>6, <2>7, ClaimsKeeps
  <2> QED BY <1>1, <2>8 DEF Keeps, Received
<1> QED BY <1>3, <1>4, <1>5

LEMMA MainReceivesKeeps ==
  ASSUME WindowInv, MainReceives
  PROVE  WindowInv' /\ (Keeps \/ Submits)
<1>1. PICK i \in DOMAIN relayed["main"] :
        /\ relayed' = [relayed EXCEPT !["main"] = RemoveAt(@, i)]
        /\ LET m == relayed["main"][i] IN
           \/ MainDrops(m) \/ MainReceivesAbort(m) \/ MainReceivesAction(m)
           \/ MainReceivesDrafts(m) \/ MainReceivesReady(m)
        /\ MainUnchanged
  BY DEF MainReceives
<1>2. PICK m : m = relayed["main"][i]
  OBVIOUS
<1>3. Received(m)
  BY <1>1, <1>2, TakenFrom DEF Received, MainUnchanged, ToMain, WindowInv, WindowTypeOK
<1>4. CASE MainDrops(m)
  BY <1>3, <1>4, ReceivedNothing DEF MainDrops
<1>5. CASE MainReceivesAbort(m)
  BY <1>3, <1>5, ReceivedSettles DEF MainReceivesAbort
<1>6. CASE MainReceivesAction(m)
  BY <1>3, <1>6, MainReceivesActionKeeps
<1>7. CASE MainReceivesDrafts(m)
  BY <1>3, <1>7, MainReceivesDraftsKeeps
<1>8. CASE MainReceivesReady(m)
  BY <1>3, <1>8, ReceivedSettles, ReceivedNothing DEF MainReceivesReady
<1> QED BY <1>1, <1>2, <1>4, <1>5, <1>6, <1>7, <1>8

\* A state leaves what the Golem window has not seen.
LEMMA SeenNews ==
  ASSUME ChannelsTypeOK, NEW s \in news["satellite"],
         news' = [news EXCEPT !["satellite"] = @ \ {s}]
  PROVE  /\ news' \in [Windows -> SUBSET Snapshots] /\ news'["main"] = news["main"]
         /\ \A t \in news'["satellite"] : t \in news["satellite"]
         /\ s \in Snapshots
BY DEF ChannelsTypeOK, Windows

\* The Golem window installs a state, with an instance or without one yet.
LEMMA HearsStep ==
  ASSUME WindowInv, Running, NEW s \in SeenBy("satellite"), s \in Snapshots,
         \A t \in news["satellite"] : s.rev <= t.rev,
         \A t \in news'["satellite"] : t \in news["satellite"],
         news' \in [Windows -> SUBSET Snapshots], news'["main"] = news["main"],
         UNCHANGED <<hostVars, posts, relayed, main, typed, sent>>,
         NEW w \in Sats,
         /\ w.draft = sat.draft /\ w.installed = sat.installed /\ w.deferred = sat.deferred
         /\ w.action = sat.action /\ w.text = sat.text /\ w.nextId = sat.nextId
         /\ w.handoff = sat.handoff /\ w.stage = sat.stage /\ w.payload = sat.payload,
         w.instance \in {sat.instance, go.instance}, w.boot = "up" => w.instance = go.instance,
         sat' = SatelliteInstalled(w, s)
  PROVE  WindowInv' /\ SameText
<1>1. sat' \in Sats /\ SatMoved(w, s, sat')
  BY InstalledFields
<1>2. WindowStep
  BY <1>1 DEF WindowStep, WindowInv, WindowTypeOK, ChannelsTypeOK
<1>3. /\ WindowTypeOK' /\ HostFits' /\ HostStill /\ (Running' <=> Running)
  BY <1>2, WindowStepTypes
<1> DEFINE v == [sat EXCEPT !.boot = sat'.boot, !.instance = sat'.instance]
<1>4. /\ v.draft = sat.draft /\ v.installed = sat.installed /\ v.deferred = sat.deferred
      /\ v.action = sat.action /\ v.text = sat.text /\ v.nextId = sat.nextId
      /\ v.handoff = sat.handoff /\ v.stage = sat.stage /\ v.payload = sat.payload
      /\ v.boot = sat'.boot /\ v.instance = sat'.instance
  BY DEF WindowInv, WindowTypeOK, Sats
<1> HIDE DEF v
<1>5. SatMoved(v, s, sat')
  BY <1>1, <1>4 DEF SatMoved
<1>6. sat'.boot = w.boot /\ sat'.instance = w.instance
  BY <1>1 DEF SatMoved
<1>7. SatHears(s)
  BY <1>3, <1>5, <1>6 DEF SatHears, Rests, MainStill, v
<1>8. MessagesHold
  <2>1. sat'.deferred = sat.deferred
    BY <1>1 DEF SatMoved
  <2> QED BY <2>1, StillMessagesSame, SameHold DEF StillMessages
<1> QED BY <1>3, <1>7, <1>8, HearsKeeps

LEMMA SatelliteInstallsStateKeeps ==
  ASSUME WindowInv, SatelliteInstallsState
  PROVE  WindowInv' /\ SameText
<1>1. PICK s \in news["satellite"] :
        /\ Running /\ Oldest(s)
        /\ news' = [news EXCEPT !["satellite"] = @ \ {s}]
        /\ sat' = SatelliteInstalled(sat, s)
        /\ UNCHANGED <<hostVars, posts, relayed, main, typed, sent>>
  BY DEF SatelliteInstallsState, Running
<1>2. s \in SeenBy("satellite") /\ sat \in Sats /\ \A t \in news["satellite"] : s.rev <= t.rev
  BY <1>1 DEF SeenBy, WindowInv, WindowTypeOK, Oldest
<1>3. /\ news' \in [Windows -> SUBSET Snapshots] /\ news'["main"] = news["main"]
      /\ \A t \in news'["satellite"] : t \in news["satellite"]
      /\ s \in Snapshots
  BY <1>1, SeenNews DEF WindowInv, WindowTypeOK
<1>4. sat.boot = "up" => sat.instance = go.instance
  BY <1>1 DEF WindowInv, SatFits
<1> QED BY <1>1, <1>2, <1>3, <1>4, HearsStep

LEMMA BootstrapAnsweredKeeps ==
  ASSUME WindowInv, BootstrapAnswered
  PROVE  WindowInv' /\ SameText
<1> DEFINE w == [sat EXCEPT !.boot = "up", !.instance = open.instance, !.view = go.view]
<1>1. /\ Running /\ UNCHANGED <<hostVars, posts, relayed, main, typed, sent>>
      /\ \/ /\ news["satellite"] = {}
            /\ sat' = SatelliteInstalled(w, sat.st)
            /\ UNCHANGED news
         \/ \E s \in news["satellite"] :
              /\ Oldest(s)
              /\ news' = [news EXCEPT !["satellite"] = @ \ {s}]
              /\ sat' = SatelliteInstalled(w, s)
  BY DEF BootstrapAnswered, Running
<1>2. /\ sat \in Sats /\ go.instance = open.instance /\ open.instance \in Nat
      /\ go.view \in BOOLEAN /\ ChannelsTypeOK
  BY <1>1, GoFields DEF WindowInv, WindowTypeOK, HostTypeOK, HostFits
<1>3. w \in Sats
  BY <1>2 DEF Sats
<1>4. /\ w.draft = sat.draft /\ w.installed = sat.installed /\ w.deferred = sat.deferred
      /\ w.action = sat.action /\ w.text = sat.text /\ w.nextId = sat.nextId
      /\ w.handoff = sat.handoff /\ w.stage = sat.stage /\ w.payload = sat.payload
      /\ w.instance = go.instance
  BY <1>2 DEF Sats
<1> HIDE DEF w
<1>5. CASE news["satellite"] = {} /\ sat' = SatelliteInstalled(w, sat.st) /\ news' = news
  <2>1. sat.st \in SeenBy("satellite") /\ sat.st \in Snapshots
    BY <1>2, SatFields DEF SeenBy
  <2>2. /\ \A t \in news["satellite"] : sat.st.rev <= t.rev
        /\ \A t \in news'["satellite"] : t \in news["satellite"]
        /\ news' \in [Windows -> SUBSET Snapshots] /\ news'["main"] = news["main"]
    BY <1>2, <1>5 DEF ChannelsTypeOK
  <2> QED BY <1>1, <1>3, <1>4, <1>5, <2>1, <2>2, HearsStep
<1>6. ASSUME NEW s \in news["satellite"], Oldest(s),
             news' = [news EXCEPT !["satellite"] = @ \ {s}],
             sat' = SatelliteInstalled(w, s)
      PROVE  WindowInv' /\ SameText
  <2>1. s \in SeenBy("satellite") /\ \A t \in news["satellite"] : s.rev <= t.rev
    BY <1>6 DEF SeenBy, Oldest
  <2>2. /\ news' \in [Windows -> SUBSET Snapshots] /\ news'["main"] = news["main"]
        /\ \A t \in news'["satellite"] : t \in news["satellite"]
        /\ s \in Snapshots
    BY <1>2, <1>6, SeenNews
  <2> QED BY <1>1, <1>3, <1>4, <1>6, <2>1, <2>2, HearsStep
<1> QED BY <1>1, <1>5, <1>6

LEMMA RetryStartupKeeps ==
  ASSUME WindowInv, RetryStartup
  PROVE  WindowInv' /\ SameText
<1>1. /\ sat \in Sats /\ (sat.frozen \/ sat.st.phase = "ready") /\ ChannelsTypeOK
      /\ sat' = [sat EXCEPT !.boot = "calling"]
      /\ UNCHANGED <<hostVars, news, posts, relayed, main, typed, sent>>
  BY SatBarred DEF RetryStartup, WindowInv, WindowTypeOK
<1>2. sat' \in Sats
  BY <1>1 DEF Sats
<1>3. SatKept(sat, sat') /\ sat'.deferred = sat.deferred
  BY <1>1, <1>2 DEF SatKept, Sats
<1>4. QuietStep
  BY <1>1, <1>2, <1>3, QuietSelf DEF QuietStep, ChannelsTypeOK, QuietSat
<1>5. Posted({})
  BY <1>1, PostedSame
<1> QED BY <1>3, <1>4, <1>5, QuietPosts

\* The window does not come up; what has been sent to it is gone.
LEMMA StartupFailsKeeps ==
  ASSUME WindowInv, StartupFails
  PROVE  WindowInv' /\ SameText
<1>1. /\ sat \in Sats /\ ChannelsTypeOK
      /\ sat' = [sat EXCEPT !.boot = "failed", !.frozen = TRUE]
      /\ UNCHANGED <<hostVars, news, main, typed, sent>>
      /\ relayed' = [relayed EXCEPT !["satellite"] = <<>>]
  BY SatBarred DEF StartupFails, WindowInv, WindowTypeOK
<1>2. sat' \in Sats
  BY <1>1 DEF Sats
<1>3. SatKept(sat, sat') /\ sat'.deferred = sat.deferred
  BY <1>1, <1>2 DEF SatKept, Sats
<1>4. PICK abort : abort = AbortMessage("satellite", sat.st.instance, sat.st.handoff)
  OBVIOUS
<1>5. abort \in Messages /\ abort.kind = "abort"
  BY <1>1, <1>4, SatFields, SnapshotFields, AbortType DEF Windows
<1>6. PICK ms : ms = IF sat.st.handoff = 0 THEN {} ELSE {abort}
  OBVIOUS
<1>7. Post(ms)
  BY <1>4, <1>6 DEF StartupFails
<1>8. posts' \in SUBSET Messages /\ posts' = posts \cup ms
  BY <1>1, <1>5, <1>6, <1>7, PostType
<1>9. relayed' \in [Windows -> Seq(Messages)]
  BY <1>1, EmptyRelayType
<1>10. QuietStep
  BY <1>1, <1>2, <1>3, <1>8, <1>9, QuietSelf DEF QuietStep, QuietSat
<1>11. Posted(ms)
  <2>1. relayed'["main"] = relayed["main"] /\ relayed'["satellite"] = <<>>
    BY <1>1 DEF ChannelsTypeOK, Windows
  <2> QED BY <1>8, <2>1 DEF Posted, Queued
<1>12. \A n \in ms : ForMain(n) /\ ForSatellite(n)
  BY <1>5, <1>6, AbortFits
<1> QED BY <1>3, <1>10, <1>11, <1>12, QuietPosts

\* The Send the Golem window waits for fits, however often it is posted.
LEMMA ActionFits ==
  ASSUME WindowInv, sat.action # 0, NEW m, m = ActionMessage
  PROVE  m \in Messages /\ ForMain(m)
<1>1. /\ sat \in Sats /\ WindowTypeOK /\ HostFits /\ SatFits /\ MainFits /\ StatesFit
  BY DEF WindowInv, WindowTypeOK
<1>2. /\ m.kind = "action" /\ m.instance = sat.instance /\ m.handoff = 0
      /\ m.id = sat.action /\ m.text = sat.text
  BY DEF ActionMessage, Message
<1>3. m \in Messages
  BY <1>1, SatFields, MessageType DEF ActionMessage, Windows, Kinds
<1>4. Undocked /\ sat.instance = go.instance
  BY <1>1 DEF SatFits
<1>5. go.instance # 0 /\ go.instance = seqs.instance /\ main.core = go.instance
  BY <1>1, <1>4 DEF HostFits, MainFits, StatesFit, MainFollows
<1>6. go.instance <= seqs.instance /\ 0 <= seqs.handoff /\ go.phase \notin Opening
  BY <1>1, <1>4, <1>5 DEF WindowTypeOK, HostTypeOK, HostFits, Opening
<1>7. ForMain(m)
  BY <1>1, <1>2, <1>4, <1>5, <1>6 DEF ForMain
<1> QED BY <1>3, <1>7

\* A window posts a message that fits, and changes no more than a counter.
LEMMA SatPosts ==
  ASSUME WindowInv, UNCHANGED <<hostVars, news, main, typed, sent, relayed>>,
         sat' \in Sats, SatKept(sat, sat'), sat'.deferred = sat.deferred,
         NEW ms \in SUBSET Messages, Post(ms), \A n \in ms : ForMain(n),
         \A n \in ms : n.from = "satellite"
  PROVE  WindowInv' /\ SameText
<1>1. posts' \in SUBSET Messages /\ posts' = posts \cup ms
  BY PostType DEF WindowInv, WindowTypeOK
<1>2. QuietStep
  BY <1>1, QuietSelf DEF QuietStep, WindowInv, WindowTypeOK, ChannelsTypeOK, QuietSat
<1>3. Posted(ms)
  BY <1>1, PostedSame
<1> QED BY <1>2, <1>3, QuietPosts

LEMMA ActionTimerKeeps ==
  ASSUME WindowInv, ActionTimer
  PROVE  WindowInv' /\ SameText
<1>1. /\ sat \in Sats /\ (sat.frozen \/ sat.st.phase = "ready") /\ sat.action # 0
      /\ UNCHANGED <<hostVars, news, main, typed, sent, relayed>>
      /\ sat' = [sat EXCEPT !.attempts = @ + 1, !.armed = FALSE]
  BY SatBarred DEF ActionTimer, SatelliteUnchanged
<1>2. PICK m : m = ActionMessage
  OBVIOUS
<1>3. m \in Messages /\ ForMain(m) /\ m.from = "satellite"
  <2>1. m.from = "satellite"
    BY <1>2 DEF ActionMessage, Message
  <2> QED BY <1>1, <1>2, <2>1, ActionFits
<1>4. PICK n \in Nat : n = sat.attempts + 1
  BY <1>1, SatFields
<1>5. sat' = [sat EXCEPT !.attempts = n, !.armed = FALSE]
  BY <1>1, <1>4 DEF Sats
<1>6. sat' \in Sats
  BY <1>1, <1>5 DEF Sats
<1>7. SatKept(sat, sat') /\ sat'.deferred = sat.deferred
  BY <1>1, <1>5, <1>6 DEF SatKept, Sats
<1>8. Post({m})
  BY <1>2 DEF ActionTimer
<1> QED BY <1>1, <1>3, <1>6, <1>7, <1>8, SatPosts

LEMMA RetryPendingKeeps ==
  ASSUME WindowInv, RetryPending
  PROVE  WindowInv' /\ SameText
<1>1. /\ sat \in Sats /\ (sat.frozen \/ sat.st.phase = "ready") /\ sat.action # 0
      /\ UNCHANGED <<hostVars, news, main, typed, sent, relayed>>
      /\ sat' = [sat EXCEPT !.attempts = 1, !.armed = FALSE]
  BY SatBarred DEF RetryPending, SatelliteUnchanged
<1>2. PICK m : m = ActionMessage
  OBVIOUS
<1>3. m \in Messages /\ ForMain(m) /\ m.from = "satellite"
  <2>1. m.from = "satellite"
    BY <1>2 DEF ActionMessage, Message
  <2> QED BY <1>1, <1>2, <2>1, ActionFits
<1>4. sat' \in Sats
  BY <1>1 DEF Sats
<1>5. SatKept(sat, sat') /\ sat'.deferred = sat.deferred
  BY <1>1, <1>4 DEF SatKept, Sats
<1>6. Post({m})
  BY <1>2 DEF RetryPending
<1> QED BY <1>1, <1>3, <1>4, <1>5, <1>6, SatPosts

\* The map of the move back is posted again.
LEMMA HandoffTimerKeeps ==
  ASSUME WindowInv, HandoffTimer
  PROVE  WindowInv' /\ SameText
<1>1. /\ sat \in Sats /\ (sat.frozen \/ sat.st.phase = "ready")
      /\ Running /\ sat.boot = "up" /\ sat.stage = "posted"
      /\ UNCHANGED <<hostVars, news, main, typed, sent, relayed>>
      /\ sat' = [sat EXCEPT !.posted = @ + 1, !.due = FALSE]
  BY SatBarred DEF HandoffTimer, SatelliteUnchanged, Up, Running
<1>2. PICK m : m = DraftsFromSatellite(sat)
  OBVIOUS
<1>3. /\ m.from = "satellite" /\ m.kind = "drafts" /\ m.instance = sat.instance
      /\ m.handoff = sat.handoff /\ m.text = sat.payload
  BY <1>2 DEF DraftsFromSatellite, Message
<1>4. m \in Messages
  BY <1>1, <1>2, SatFields, MessageType DEF DraftsFromSatellite, Windows, Kinds
<1>5. ForMain(m)
  <2>1. /\ Undocked /\ sat.handoff # 0 /\ sat.handoff <= seqs.handoff
        /\ sat.instance = go.instance
    BY <1>1 DEF SatFits, WindowInv
  <2>2. go.instance # 0 /\ go.instance <= seqs.instance /\ main.core = go.instance
    BY <2>1
       DEF WindowInv, HostFits, MainFits, StatesFit, MainFollows, WindowTypeOK, HostTypeOK
  <2>3. Leaving /\ sat.handoff = go.handoff => Quiesced /\ sat.payload = sat.draft
    BY <1>1 DEF MovesFit, Quiesced, WindowInv
  <2> QED BY <1>3, <2>1, <2>2, <2>3 DEF ForMain
<1>6. PICK n \in Nat : n = sat.posted + 1
  BY <1>1, SatFields
<1>7. sat' = [sat EXCEPT !.posted = n, !.due = FALSE]
  BY <1>1, <1>6 DEF Sats
<1>8. sat' \in Sats
  <2>1. sat \in Sats
    BY <1>1
  <2> QED BY <1>7, <2>1 DEF Sats
<1>9. SatKept(sat, sat') /\ sat'.deferred = sat.deferred
  BY <1>1, <1>7, <1>8 DEF SatKept, Sats
<1>10. Post({m})
  BY <1>2 DEF HandoffTimer
<1> QED BY <1>1, <1>3, <1>4, <1>5, <1>8, <1>9, <1>10, SatPosts

\* What a window says of a transition that has failed.
LEMMA FailureType ==
  ASSUME WindowInv, NEW h \in Nat, NEW ms, ms = FailurePosts(sat, h)
  PROVE  /\ ms \in SUBSET Messages
         /\ \A n \in ms : n.from = "satellite" /\ ForMain(n) /\ ForSatellite(n)
<1>1. sat \in Sats
  BY DEF WindowInv, WindowTypeOK
<1>2. PICK abort : abort = AbortMessage("satellite", sat.instance, h)
  OBVIOUS
<1>3. abort \in Messages /\ abort.kind = "abort"
  BY <1>1, <1>2, SatFields, AbortType DEF Windows
<1>4. abort.from = "satellite"
  BY <1>2 DEF AbortMessage, Message
<1>5. ms \subseteq {abort}
  BY <1>2 DEF FailurePosts
<1> QED BY <1>3, <1>4, <1>5, AbortFits

LEMMA ConfirmRefusedKeeps ==
  ASSUME WindowInv, ConfirmRefused
  PROVE  WindowInv' /\ SameText
<1>1. /\ sat \in Sats /\ (sat.frozen \/ sat.st.phase = "ready") /\ sat.confirm \in Nat
      /\ UNCHANGED <<hostVars, news, main, typed, sent, relayed>>
      /\ sat' = [Failed(sat, sat.confirm) EXCEPT !.confirm = 0, !.refused = FALSE]
  BY SatBarred, SatFields DEF ConfirmRefused, SatelliteUnchanged
<1>2. PICK w : w = Failed(sat, sat.confirm)
  OBVIOUS
<1>3. w \in Sats /\ SatSame(sat, w)
  BY <1>1, <1>2, FailedFields
<1>4. sat' = [w EXCEPT !.confirm = 0, !.refused = FALSE]
  BY <1>1, <1>2
<1>5. sat' \in Sats
  BY <1>3, <1>4 DEF Sats
<1>6. SatKept(sat, sat') /\ sat'.deferred = sat.deferred
  BY <1>3, <1>4, <1>5 DEF SatKept, SatSame, Sats
<1>7. PICK ms : ms = FailurePosts(sat, sat.confirm)
  OBVIOUS
<1>8. ms \in SUBSET Messages /\ \A n \in ms : n.from = "satellite" /\ ForMain(n)
  BY <1>1, <1>7, FailureType
<1>9. Post(ms)
  BY <1>7 DEF ConfirmRefused
<1> QED BY <1>1, <1>5, <1>6, <1>8, <1>9, SatPosts

\* The types after a step of the Golem window.
LEMMA SatStepTypes ==
  ASSUME WindowInv, UNCHANGED <<hostVars, news, main, sent>>,
         sat' \in Sats, posts' \in SUBSET Messages, relayed' \in [Windows -> Seq(Messages)],
         typed' \in Drafts
  PROVE  WindowTypeOK' /\ HostFits' /\ Rests /\ news'["satellite"] = news["satellite"]
<1>1. WindowStep
  BY DEF WindowStep, WindowInv, WindowTypeOK, ChannelsTypeOK
<1> QED BY <1>1, WindowStepTypes DEF Rests, MainStill

LEMMA HandoffDrainedKeeps ==
  ASSUME WindowInv, HandoffDrained
  PROVE  WindowInv' /\ SameText
<1>1. /\ sat \in Sats /\ (sat.frozen \/ sat.st.phase = "ready") /\ sat.draft \in Drafts
      /\ Running /\ sat.boot = "up" /\ sat.stage = "draining" /\ sat.action = 0
      /\ UNCHANGED <<hostVars, news, main, typed, sent, relayed>> /\ typed \in Drafts
      /\ sat' = [sat EXCEPT !.stage = "posted", !.payload = sat.draft, !.posted = 1,
                            !.due = FALSE]
      /\ Post({DraftsFromSatellite(sat')}) /\ ChannelsTypeOK
  BY SatBarred, SatFields
     DEF HandoffDrained, SatelliteUnchanged, Up, Running, WindowInv, WindowTypeOK
<1>2. sat' \in Sats
  BY <1>1 DEF Sats
<1>3. /\ sat'.stage = "posted" /\ sat'.payload = sat.draft
      /\ sat'.action = sat.action /\ sat'.text = sat.text /\ sat'.draft = sat.draft
      /\ sat'.nextId = sat.nextId
      /\ sat'.installed = sat.installed /\ sat'.deferred = sat.deferred
      /\ sat'.st = sat.st /\ sat'.instance = sat.instance /\ sat'.handoff = sat.handoff
      /\ sat'.boot = sat.boot /\ sat'.frozen = sat.frozen
  BY <1>1 DEF Sats
<1>4. PICK m : m = DraftsFromSatellite(sat')
  OBVIOUS
<1>5. /\ m.from = "satellite" /\ m.kind = "drafts" /\ m.instance = sat.instance
      /\ m.handoff = sat.handoff /\ m.text = sat.draft
  BY <1>3, <1>4 DEF DraftsFromSatellite, Message
<1>6. m \in Messages
  BY <1>2, <1>4, SatFields, MessageType DEF DraftsFromSatellite, Windows, Kinds
<1>7. posts' \in SUBSET Messages /\ posts' = posts \cup {m}
  BY <1>1, <1>4, <1>6, PostType
<1>8. WindowTypeOK' /\ HostFits' /\ Rests /\ news'["satellite"] = news["satellite"]
  BY <1>1, <1>2, <1>7, SatStepTypes DEF ChannelsTypeOK
<1>9. SatAlike
  BY <1>1, <1>3, <1>8 DEF SatAlike
<1>10. Drains
  BY <1>1, <1>3, <1>5, <1>6, <1>7, <1>9 DEF Drains
<1> QED BY <1>8, <1>10, DrainsKeeps

LEMMA SatelliteSendsKeeps ==
  ASSUME WindowInv, SatelliteSends
  PROVE  WindowInv' /\ SameText
<1>1. /\ sat \in Sats /\ (sat.frozen \/ sat.st.phase = "ready") /\ sat.draft \in Drafts
      /\ Running /\ sat.boot = "up" /\ ~sat.frozen /\ sat.action = 0 /\ sat.draft # 0
      /\ UNCHANGED <<hostVars, news, main, typed, sent, relayed>> /\ typed \in Drafts
      /\ sat.nextId \in Nat /\ sat.sends \in Nat /\ sat.instance \in Nat
      /\ ChannelsTypeOK
  BY SatBarred, SatFields
     DEF SatelliteSends, SatelliteUnchanged, Up, Running, WindowInv, WindowTypeOK
<1>2. PICK id \in Nat : id = sat.nextId + 1
  BY <1>1
<1>3. PICK sends \in Nat : sends = sat.sends + 1
  BY <1>1
<1>4. sat' = [sat EXCEPT !.sends = sends, !.nextId = id, !.action = id,
                        !.text = sat.draft, !.attempts = 1, !.armed = FALSE]
  BY <1>1, <1>2, <1>3 DEF SatelliteSends, Sats
<1>5. sat' \in Sats
  BY <1>1, <1>4 DEF Sats
<1>6. /\ sat'.action = id /\ sat'.nextId = id
      /\ sat'.text = sat.draft /\ sat'.draft = sat.draft
      /\ sat'.installed = sat.installed /\ sat'.deferred = sat.deferred
      /\ sat'.stage = sat.stage /\ sat'.payload = sat.payload
      /\ sat'.st = sat.st /\ sat'.instance = sat.instance /\ sat'.handoff = sat.handoff
      /\ sat'.boot = sat.boot /\ sat'.frozen = sat.frozen
  BY <1>1, <1>4 DEF Sats
<1>7. PICK m : m = Message("satellite", "action", sat.instance, 0, sat.nextId + 1, sat.draft, FALSE)
  OBVIOUS
<1>8. m \in Messages
  <2>1. m = Message("satellite", "action", sat.instance, 0, id, sat.draft, FALSE)
    BY <1>2, <1>7
  <2>2. sat.instance \in Nat /\ sat.draft \in Drafts
    BY <1>1
  <2> QED BY <2>1, <2>2, MessageType DEF Windows, Kinds
<1>9. Post({m})
  BY <1>7 DEF SatelliteSends
<1>10. posts' \in SUBSET Messages /\ posts' = posts \cup {m}
  BY <1>1, <1>8, <1>9, PostType
<1>11. WindowTypeOK' /\ HostFits' /\ Rests /\ news'["satellite"] = news["satellite"]
  BY <1>1, <1>5, <1>10, SatStepTypes DEF ChannelsTypeOK
<1>12. SatAlike
  BY <1>1, <1>6, <1>11 DEF SatAlike
<1>13. SatSends
  BY <1>1, <1>2, <1>6, <1>7, <1>10, <1>12 DEF SatSends
<1> QED BY <1>11, <1>13, SatSendsKeeps

LEMMA SatelliteTypesKeeps ==
  ASSUME WindowInv, SatelliteTypes
  PROVE  /\ WindowInv' /\ typed' = typed + 1 /\ ComposerText' = typed + 1
<1>1. PICK n \in Drafts : n = typed + 1
  BY BoundsAssumption DEF SatelliteTypes, WindowInv, WindowTypeOK, Drafts
<1>2. /\ sat \in Sats /\ (sat.frozen \/ sat.st.phase = "ready")
      /\ Running /\ ~sat.frozen /\ sat.action = 0
      /\ sat' = [sat EXCEPT !.draft = n] /\ typed' = n
      /\ UNCHANGED <<hostVars, news, posts, relayed, main, sent>> /\ ChannelsTypeOK
  BY <1>1, SatBarred DEF SatelliteTypes, Up, Running, WindowInv, WindowTypeOK
<1>3. sat' \in Sats
  BY <1>2 DEF Sats
<1>4. /\ sat'.action = 0 /\ sat'.draft = n /\ sat'.nextId = sat.nextId
      /\ sat'.installed = sat.installed /\ sat'.deferred = sat.deferred
      /\ sat'.stage = sat.stage /\ sat'.payload = sat.payload
      /\ sat'.st = sat.st /\ sat'.instance = sat.instance /\ sat'.handoff = sat.handoff
      /\ sat'.boot = sat.boot /\ sat'.frozen = sat.frozen
  BY <1>2 DEF Sats
<1>5. WindowTypeOK' /\ HostFits' /\ Rests /\ news'["satellite"] = news["satellite"]
  BY <1>2, <1>3, SatStepTypes DEF ChannelsTypeOK
<1>6. SatEdits
  BY <1>2, <1>4, <1>5 DEF SatEdits, SatAlike, StillMessages
<1> QED BY <1>1, <1>2, <1>4, <1>5, <1>6, SatEditsKeeps

LEMMA HeadFrom ==
  ASSUME ChannelsTypeOK, relayed["satellite"] # <<>>,
         relayed' = [relayed EXCEPT !["satellite"] = Tail(@)]
  PROVE  /\ relayed' \in [Windows -> Seq(Messages)]
         /\ Queued("main")' \subseteq Queued("main")
         /\ Queued("satellite")' \subseteq Queued("satellite")
         /\ Head(relayed["satellite"]) \in Queued("satellite")
         /\ Head(relayed["satellite"]) \in Messages
<1>1. relayed \in [Windows -> Seq(Messages)] /\ relayed["satellite"] \in Seq(Messages)
  BY DEF ChannelsTypeOK, Windows
<1>2. PICK q \in Seq(Messages) : q = relayed["satellite"]
  BY <1>1
<1>3. /\ Tail(q) \in Seq(Messages) /\ Len(Tail(q)) = Len(q) - 1 /\ Len(q) \in Nat
      /\ \A i \in 1 .. Len(Tail(q)) : Tail(q)[i] = q[i + 1]
      /\ DOMAIN q = 1 .. Len(q) /\ DOMAIN Tail(q) = 1 .. Len(Tail(q))
      /\ Len(q) # 0 /\ Head(q) = q[1]
  <2>1. q # <<>>
    BY <1>2
  <2>2. /\ Tail(q) \in Seq(Messages) /\ Len(Tail(q)) = Len(q) - 1
        /\ \A i \in 1 .. Len(Tail(q)) : Tail(q)[i] = q[i + 1]
    BY <2>1, HeadTailProperties
  <2>3. Len(q) \in Nat /\ DOMAIN q = 1 .. Len(q) /\ DOMAIN Tail(q) = 1 .. Len(Tail(q))
    BY <2>2, LenProperties
  <2>4. Len(q) # 0
    BY <2>1, EmptySeq
  <2>5. Head(q) = q[1]
    OBVIOUS
  <2> QED BY <2>2, <2>3, <2>4, <2>5
<1>4. PICK r \in Seq(Messages) : r = Tail(q)
  BY <1>3
<1>5. relayed' = [relayed EXCEPT !["satellite"] = r]
  BY <1>1, <1>2, <1>4
<1>6. relayed'["satellite"] = r /\ relayed'["main"] = relayed["main"]
      /\ relayed' \in [Windows -> Seq(Messages)]
  BY <1>1, <1>5 DEF Windows
<1>7. Queued("satellite")' \subseteq Queued("satellite")
  <2>1. ASSUME NEW i \in DOMAIN r PROVE \E k \in DOMAIN q : r[i] = q[k]
    <3>1. i + 1 \in DOMAIN q /\ r[i] = q[i + 1]
      BY <1>3, <1>4
    <3> QED BY <3>1
  <2> QED BY <1>2, <1>6, <2>1 DEF Queued
<1>8. Queued("main")' \subseteq Queued("main")
  BY <1>6 DEF Queued
<1>9. Head(q) \in Queued("satellite")
  BY <1>2, <1>3 DEF Queued
<1>10. Head(q) \in Messages
  BY <1>2, <1>9, QueuedType DEF Windows
<1> QED BY <1>2, <1>6, <1>7, <1>8, <1>9, <1>10

\* What the Golem window has taken from its queue.
Delivered(m) ==
  /\ m \in ToSatellite /\ m \in Messages
  /\ relayed' \in [Windows -> Seq(Messages)]
  /\ Queued("main")' \subseteq Queued("main")
  /\ Queued("satellite")' \subseteq Queued("satellite")
  /\ UNCHANGED <<hostVars, news, main, typed, sent>>
  /\ Running /\ sat.boot = "up" /\ sat.instance = go.instance

\* The Golem window takes notice of a message, and may post another.
LEMMA DeliveredQuiet ==
  ASSUME WindowInv, NEW m, Delivered(m), sat' \in Sats, SatKept(sat, sat'),
         sat'.deferred \in {NoMessage, sat.deferred}
           \/ (Awaited(sat'.deferred) /\ sat'.deferred \in ToSatellite),
         NEW ms \in SUBSET Messages, posts' \subseteq posts \cup ms,
         \A n \in ms : n.from = "satellite" /\ ForMain(n)
  PROVE  WindowInv' /\ SameText
<1>1. QuietStep
  BY QuietSelf DEF QuietStep, Delivered, WindowInv, WindowTypeOK, ChannelsTypeOK, QuietSat
<1>2. Posted(ms) /\ sat'.deferred \in ToSatellite \cup {NoMessage, sat.deferred}
  BY DEF Posted, Delivered
<1>3. \A n \in ms : /\ n.from = "satellite" => ForMain(n)
                    /\ n.from = "main" => ForSatellite(n)
  OBVIOUS
<1> QED BY <1>1, <1>2, <1>3, QuietPosts

LEMMA DeliveredSilent ==
  ASSUME WindowInv, NEW m, Delivered(m), posts' = posts,
         sat' \in Sats, SatKept(sat, sat'), sat'.deferred \in {NoMessage, sat.deferred}
  PROVE  WindowInv' /\ SameText
<1>1. posts' \subseteq posts \cup {} /\ {} \in SUBSET Messages
  OBVIOUS
<1> QED BY <1>1, DeliveredQuiet

LEMMA DeliveredNothing ==
  ASSUME WindowInv, NEW m, Delivered(m), UNCHANGED <<sat, posts>>
  PROVE  WindowInv' /\ SameText
<1>1. sat' \in Sats /\ SatKept(sat, sat')
  BY QuietSelf DEF QuietSat
<1> QED BY <1>1, DeliveredSilent

\* An aborted transition.
LEMMA DeliveredAbortKeeps ==
  ASSUME WindowInv, NEW m, Delivered(m), SatelliteReceivesAbort(m)
  PROVE  WindowInv' /\ SameText
<1>1. sat \in Sats /\ (sat.frozen \/ sat.st.phase = "ready") /\ m.handoff \in Nat
  BY SatBarred, MessageFields DEF Delivered
<1>2. PICK w : w = Lifted(sat, m.handoff)
  OBVIOUS
<1>3. w \in Sats /\ SatSame(sat, w)
  BY <1>1, <1>2, LiftedFields
<1>4. sat' = Barrier(w) /\ posts' = posts
  BY <1>2 DEF SatelliteReceivesAbort
<1>5. sat' \in Sats /\ SatSame(w, sat')
  BY <1>3, <1>4, BarrierFields
<1>6. SatSame(sat, sat')
  BY <1>1, <1>3, <1>5, SameTransitive
<1> QED BY <1>4, <1>5, <1>6, DeliveredSilent DEF SatSame

\* The outcome of a Send.
LEMMA DeliveredAckKeeps ==
  ASSUME WindowInv, NEW m, Delivered(m), m.instance = sat.instance, SatelliteReceivesAck(m)
  PROVE  WindowInv' /\ SameText
<1>1. /\ sat \in Sats /\ (sat.frozen \/ sat.st.phase = "ready") /\ m.kind = "ack"
      /\ m.handoff = 0 /\ posts' = posts /\ posts' \in SUBSET Messages /\ typed' \in Drafts
  BY SatBarred DEF SatelliteReceivesAck, WindowInv, WindowTypeOK, ChannelsTypeOK, Delivered
<1>2. CASE sat.action # m.id
  <2>1. sat' = sat
    BY <1>2 DEF SatelliteReceivesAck
  <2> QED BY <1>1, <2>1, DeliveredNothing
<1>3. CASE sat.action = m.id
  <2>1. PICK d \in Drafts : d = IF m.ok THEN 0 ELSE sat.draft
    BY <1>1, SatFields, EmptyDraft
  <2>2. sat' = [sat EXCEPT !.action = 0, !.text = 0, !.attempts = 0, !.armed = FALSE,
                           !.draft = d]
    BY <1>1, <1>3, <2>1 DEF SatelliteReceivesAck, Sats
  <2>3. sat' \in Sats
    BY <1>1, <2>2, EmptyDraft DEF Sats
  <2>4. /\ sat'.action = 0 /\ sat'.draft = d
        /\ sat'.stage = sat.stage /\ sat'.payload = sat.payload /\ sat'.nextId = sat.nextId
        /\ sat'.installed = sat.installed /\ sat'.deferred = sat.deferred
        /\ sat'.st = sat.st /\ sat'.instance = sat.instance /\ sat'.handoff = sat.handoff
        /\ sat'.boot = sat.boot /\ sat'.frozen = sat.frozen
    BY <1>1, <2>2 DEF Sats
  <2>5. WindowTypeOK' /\ HostFits' /\ Rests /\ news'["satellite"] = news["satellite"]
    BY <1>1, <2>3, SatStepTypes DEF Delivered
  <2>6. SatAlike
    BY <1>1, <2>4, <2>5 DEF SatAlike, Delivered
  <2>7. Clears(m)
    BY <1>1, <1>3, <2>1, <2>4, <2>6 DEF Clears, Delivered
  <2>8. MessagesHold
    <3>1. Posted({})
      BY <1>1 DEF Posted, Delivered
    <3>2. main'.claimed = main.claimed
      BY DEF Delivered
    <3> QED BY <2>4, <3>1, <3>2, HoldNew
  <2> QED BY <2>5, <2>7, <2>8, ClearsKeeps
<1> QED BY <1>2, <1>3

\* The answer to the map of the move back.
LEMMA DeliveredTransferAckKeeps ==
  ASSUME WindowInv, NEW m, Delivered(m), SatelliteReceivesTransferAck(m)
  PROVE  WindowInv' /\ SameText
<1>1. sat \in Sats /\ (sat.frozen \/ sat.st.phase = "ready") /\ m.handoff \in Nat
      /\ sat.confirm \in Nat
  BY SatBarred, MessageFields, SatFields DEF Delivered
<1>2. CASE ~(sat.handoff = m.handoff /\ sat.transfer = m.id /\ sat.stage = "posted")
  <2>1. UNCHANGED <<sat, posts>>
    BY <1>2 DEF SatelliteReceivesTransferAck
  <2> QED BY <2>1, DeliveredNothing
<1>3. CASE /\ sat.handoff = m.handoff /\ sat.transfer = m.id /\ sat.stage = "posted"
           /\ m.ok
  <2>1. PICK c \in Nat : c = IF sat.st.handoff = m.handoff THEN m.handoff ELSE sat.confirm
    BY <1>1
  <2>2. sat' = [sat EXCEPT !.stage = "settled", !.payload = 0, !.posted = 0, !.due = FALSE,
                           !.confirm = c]
        /\ posts' = posts
    BY <1>1, <1>3, <2>1 DEF SatelliteReceivesTransferAck, Sats
  <2>3. sat \in Sats
    BY <1>1
  <2>4. sat' \in Sats
    BY <2>2, <2>3, EmptyDraft DEF Sats
  <2>5. SatKept(sat, sat') /\ sat'.deferred = sat.deferred
    BY <1>1, <2>2, <2>4 DEF SatKept, Sats
  <2> QED BY <2>2, <2>4, <2>5, DeliveredSilent
<1>4. CASE /\ sat.handoff = m.handoff /\ sat.transfer = m.id /\ sat.stage = "posted"
           /\ ~m.ok
  <2>1. PICK ms : ms = FailurePosts(sat, m.handoff)
    OBVIOUS
  <2>2. sat' = Failed(sat, m.handoff) /\ Post(ms)
    BY <1>4, <2>1 DEF SatelliteReceivesTransferAck
  <2>3. sat' \in Sats /\ SatSame(sat, sat')
    BY <1>1, <2>2, FailedFields
  <2>4. ms \in SUBSET Messages /\ \A n \in ms : n.from = "satellite" /\ ForMain(n)
    BY <1>1, <2>1, FailureType
  <2>5. posts' = posts \cup ms
    BY <2>2 DEF Post
  <2> QED BY <2>3, <2>4, <2>5, DeliveredQuiet DEF SatSame
<1> QED BY <1>2, <1>3, <1>4

\* The Golem window as far as the map it is given can tell.
SatNear(w) ==
  /\ w \in Sats /\ SatKept(sat, w) /\ w.deferred \in {NoMessage, sat.deferred}
  /\ w.stage = sat.stage /\ w.payload = sat.payload
  /\ w.boot = sat.boot /\ w.nextId = sat.nextId

\* The Golem window is given a map, installs it, or sets it aside.
LEMMA DeliveredMapKeeps ==
  ASSUME WindowInv, NEW m0, Delivered(m0), NEW w, SatNear(w),
         NEW m \in ToSatellite, Awaited(m), SatelliteTakesDrafts(w, m)
  PROVE  WindowInv' /\ SameText
<1>1. /\ m \in Messages /\ m.kind = "drafts" /\ m.instance = go.instance
      /\ go.phase \in Opening => m.handoff = go.handoff
      /\ ForSatellite(m) /\ w \in Sats /\ SatKept(sat, w)
      /\ sat \in Sats /\ typed \in Drafts /\ ChannelsTypeOK
  BY ToSatelliteType DEF Awaited, SatNear, WindowInv, WindowTypeOK, MessagesFit
<1>2. PICK ready : ready = ReadyMessage(m)
  OBVIOUS
<1>3. /\ ready.from = "satellite" /\ ready.kind = "ready" /\ ready.instance = m.instance
      /\ ready.handoff = m.handoff
  BY <1>2 DEF ReadyMessage, Message
<1>4. ready \in Messages
  <2>1. m.instance \in Nat /\ m.handoff \in Nat /\ m.id \in Nat
    BY <1>1, MessageFields
  <2> QED BY <1>2, <2>1, EmptyDraft, MessageType DEF ReadyMessage, Windows, Kinds
<1>5. m.instance <= seqs.instance /\ m.handoff <= seqs.handoff
  BY <1>1 DEF ForSatellite
<1>6. w.installed = sat.installed
  BY <1>1 DEF SatKept
<1>7. CASE w.installed
  <2>1. sat' = w /\ Post({ready})
    BY <1>2, <1>7 DEF SatelliteTakesDrafts
  <2>2. posts' = posts \cup {ready}
    BY <2>1 DEF Post
  <2>3. ForMain(ready)
    BY <1>3, <1>5, <1>6, <1>7 DEF ForMain
  <2> QED BY <1>1, <1>3, <1>4, <2>1, <2>2, <2>3, DeliveredQuiet DEF SatNear
<1>8. CASE ~w.installed /\ ~w.view
  <2>1. sat' = [w EXCEPT !.deferred = m] /\ posts' = posts
    BY <1>8 DEF SatelliteTakesDrafts
  <2>2. w \in Sats /\ m \in Messages
    BY <1>1
  <2>3. sat' \in Sats
    BY <2>1, <2>2 DEF Sats
  <2>4. SatKept(sat, sat') /\ sat'.deferred = m
    BY <1>1, <2>1, <2>2 DEF SatKept, Sats
  <2>5. posts' \subseteq posts \cup {} /\ {} \in SUBSET Messages
    BY <2>1
  <2> QED BY <2>3, <2>4, <2>5, DeliveredQuiet
<1>9. CASE ~w.installed /\ w.view
  <2>1. sat' = Barrier([w EXCEPT !.draft = m.text, !.installed = TRUE]) /\ Post({ready})
    BY <1>2, <1>9 DEF SatelliteTakesDrafts
  <2>2. PICK v : v = [w EXCEPT !.draft = m.text, !.installed = TRUE]
    OBVIOUS
  <2>3. m.text \in Drafts
    BY <1>1, MessageFields
  <2>4. v \in Sats
    <3>1. w \in Sats
      BY <1>1
    <3> QED BY <2>2, <2>3, <3>1 DEF Sats
  <2>5. /\ v.draft = m.text /\ v.installed /\ v.deferred = w.deferred
        /\ v.action = w.action /\ v.text = w.text /\ v.nextId = w.nextId
        /\ v.stage = w.stage /\ v.payload = w.payload
        /\ v.st = w.st /\ v.instance = w.instance /\ v.handoff = w.handoff /\ v.boot = w.boot
    BY <1>1, <2>2 DEF Sats
  <2>6. /\ sat' \in Sats /\ SatSame(v, sat')
        /\ sat'.stage = v.stage /\ sat'.payload = v.payload
        /\ sat'.boot = v.boot /\ sat'.nextId = v.nextId
    BY <2>1, <2>2, <2>4, BarrierFields
  <2>7. posts' \in SUBSET Messages /\ posts' = posts \cup {ready}
    BY <1>1, <1>4, <2>1, PostType
  <2>8. WindowTypeOK' /\ HostFits' /\ Rests /\ news'["satellite"] = news["satellite"]
    BY <1>1, <2>6, <2>7, SatStepTypes DEF Delivered
  <2>9. SatAlike
    BY <1>1, <2>5, <2>6, <2>8 DEF SatAlike, Delivered, SatNear, SatSame, SatKept
  <2>10. Gets(m)
    BY <1>1, <1>6, <1>9, <2>5, <2>6, <2>9 DEF Gets, SatNear, SatSame, SatKept
  <2>11. MessagesHold
    <3>1. Posted({ready})
      BY <2>7 DEF Posted, Delivered
    <3>2. main'.claimed = main.claimed /\ seqs' = seqs
      BY DEF Delivered, hostVars
    <3>3. sat'.deferred \in ToSatellite \cup {NoMessage, sat.deferred} /\ sat'.installed
      BY <2>10 DEF Gets
    <3>4. ForMain(ready)'
      BY <1>3, <1>5, <3>2, <3>3 DEF ForMain
    <3> QED BY <1>3, <3>1, <3>2, <3>3, <3>4, HoldNew
  <2> QED BY <1>1, <2>8, <2>10, <2>11, GetsKeeps
<1> QED BY <1>7, <1>8, <1>9

LEMMA DeliveredDraftsKeeps ==
  ASSUME WindowInv, NEW m, Delivered(m), m.instance = sat.instance, SatelliteReceivesDrafts(m)
  PROVE  WindowInv' /\ SameText
<1>1. CASE ~(sat.st.phase \in Opening \cup {"ready"} /\ m.handoff = sat.st.handoff)
  <2>1. UNCHANGED <<sat, posts>>
    BY <1>1 DEF SatelliteReceivesDrafts
  <2> QED BY <2>1, DeliveredNothing
<1>2. CASE sat.st.phase \in Opening \cup {"ready"} /\ m.handoff = sat.st.handoff
  <2>1. SatelliteTakesDrafts(sat, m) /\ m.kind = "drafts"
    BY <1>2 DEF SatelliteReceivesDrafts
  <2>2. ForSatellite(m) /\ m.handoff # 0
    BY <2>1 DEF Delivered, WindowInv, MessagesFit, ForSatellite
  <2>3. go.phase \in Opening => m.handoff = go.handoff
    <3>1. sat.st \in SeenBy("satellite")
      BY DEF SeenBy
    <3> QED BY <1>2, <2>2, <3>1 DEF WindowInv, StatesFit, SatFollows, Delivered
  <2>4. Awaited(m)
    BY <2>1, <2>3 DEF Awaited, Delivered
  <2>5. SatNear(sat)
    BY SatBarred, SatFields DEF SatNear, SatKept
  <2>6. m \in ToSatellite
    BY DEF Delivered
  <2> QED BY <2>1, <2>4, <2>5, <2>6, DeliveredMapKeeps
<1> QED BY <1>1, <1>2

\* A projection makes the window install the map it has set aside.
LEMMA DeliveredViewKeeps ==
  ASSUME WindowInv, NEW m, Delivered(m), SatelliteReceivesView(m)
  PROVE  WindowInv' /\ SameText
<1>1. sat \in Sats /\ (sat.frozen \/ sat.st.phase = "ready") /\ sat.nextId \in Nat
  BY SatBarred, SatFields
<1>2. PICK v : v = [sat EXCEPT !.view = TRUE, !.deferred = NoMessage]
  OBVIOUS
<1>3. v \in Sats
  BY <1>1, <1>2, NoMessageType DEF Sats
<1>4. /\ v.deferred = NoMessage /\ SatKept(sat, v)
      /\ v.stage = sat.stage /\ v.payload = sat.payload
      /\ v.boot = sat.boot /\ v.nextId = sat.nextId
  BY <1>1, <1>2 DEF Sats, SatKept
<1>5. PICK w : w = Barrier(v)
  OBVIOUS
<1>6. /\ w \in Sats /\ SatSame(v, w)
      /\ w.stage = v.stage /\ w.payload = v.payload /\ w.boot = v.boot /\ w.nextId = v.nextId
  BY <1>3, <1>5, BarrierFields
<1>7. SatNear(w)
  BY <1>4, <1>6 DEF SatNear, SatKept, SatSame
<1>8. CASE sat.deferred = NoMessage
  <2>1. sat' = w /\ posts' = posts
    BY <1>2, <1>5, <1>8 DEF SatelliteReceivesView
  <2> QED BY <1>7, <2>1, DeliveredSilent DEF SatNear
<1>9. CASE sat.deferred # NoMessage
  <2>1. SatelliteTakesDrafts(w, sat.deferred)
    BY <1>2, <1>5, <1>9 DEF SatelliteReceivesView
  <2>2. sat.deferred \in ToSatellite
    BY <1>9 DEF ToSatellite
  <2>3. Awaited(sat.deferred)
    BY <1>9 DEF Awaited, WindowInv, SatFits
  <2> QED BY <1>7, <2>1, <2>2, <2>3, DeliveredMapKeeps
<1> QED BY <1>8, <1>9

LEMMA SatelliteReceivesKeeps ==
  ASSUME WindowInv, SatelliteReceives
  PROVE  WindowInv' /\ Keeps
<1> DEFINE m == Head(relayed["satellite"])
<1>1. /\ ChannelsTypeOK /\ relayed["satellite"] # <<>> /\ Running /\ sat.boot = "up"
      /\ relayed' = [relayed EXCEPT !["satellite"] = Tail(@)]
      /\ UNCHANGED <<hostVars, news, main, typed, sent>>
      /\ IF m.instance # sat.instance THEN UNCHANGED <<sat, posts>>
         ELSE \/ SatelliteReceivesDrafts(m) \/ SatelliteReceivesView(m)
              \/ SatelliteReceivesAbort(m) \/ SatelliteReceivesAck(m)
              \/ SatelliteReceivesTransferAck(m)
  BY DEF SatelliteReceives, SatelliteUnchanged, Up, Running, WindowInv, WindowTypeOK
<1>2. Delivered(m)
  <2>1. sat.instance = go.instance
    BY <1>1 DEF WindowInv, SatFits
  <2>2. /\ relayed' \in [Windows -> Seq(Messages)]
        /\ Queued("main")' \subseteq Queued("main")
        /\ Queued("satellite")' \subseteq Queued("satellite")
        /\ m \in Queued("satellite") /\ m \in Messages
    BY <1>1, HeadFrom
  <2>3. m \in ToSatellite
    BY <2>2 DEF ToSatellite
  <2> QED BY <1>1, <2>1, <2>2, <2>3 DEF Delivered
<1> HIDE DEF m
<1>3. WindowInv' /\ SameText
  <2>1. CASE m.instance # sat.instance
    BY <1>1, <1>2, <2>1, DeliveredNothing
  <2>2. CASE m.instance = sat.instance
    <3>1. CASE SatelliteReceivesDrafts(m)
      BY <1>2, <2>2, <3>1, DeliveredDraftsKeeps
    <3>2. CASE SatelliteReceivesView(m)
      BY <1>2, <3>2, DeliveredViewKeeps
    <3>3. CASE SatelliteReceivesAbort(m)
      BY <1>2, <3>3, DeliveredAbortKeeps
    <3>4. CASE SatelliteReceivesAck(m)
      BY <1>2, <2>2, <3>4, DeliveredAckKeeps
    <3>5. CASE SatelliteReceivesTransferAck(m)
      BY <1>2, <3>5, DeliveredTransferAckKeeps
    <3> QED BY <1>1, <2>2, <3>1, <3>2, <3>3, <3>4, <3>5
  <2> QED BY <2>1, <2>2
<1> QED BY <1>1, <1>3 DEF Keeps

(***************************************************************************)
(* What a step does to the text and to the window that accepts typing.     *)
(***************************************************************************)
MainLive == ~main.frozen
SatLive == Running /\ ~sat.frozen

LEMMA OneLive == ASSUME WindowInv PROVE ~(MainLive /\ SatLive)
BY MainOpen, SatOpen DEF MainLive, SatLive

HostFollows ==
  /\ MainLive => Host = "main"
  /\ SatLive => Host = "satellite"
  /\ ~MainLive /\ ~SatLive => Host = "none"

LEMMA HostOf == WindowInv => HostFollows
<1> SUFFICES ASSUME WindowInv PROVE HostFollows
  OBVIOUS
<1>1. Live("main") <=> MainLive
  BY DEF Live, MainLive
<1>2. Live("satellite") <=> SatLive
  BY DEF Live, SatLive, Running
<1>3. ~(MainLive /\ SatLive)
  BY OneLive
<1>4. CASE MainLive
  BY <1>1, <1>2, <1>3, <1>4 DEF Host, HostFollows
<1>5. CASE SatLive
  BY <1>1, <1>2, <1>3, <1>5 DEF Host, HostFollows
<1>6. CASE ~MainLive /\ ~SatLive
  BY <1>1, <1>2, <1>6 DEF Host, HostFollows
<1> QED BY <1>4, <1>5, <1>6

LEMMA HostOfNext == WindowInv' => HostFollows'
BY HostOf, PTL

\* The host that accepts typing stays, or there is none before or after.
OneWindow == main' = main \/ (sat' = sat /\ (Running' <=> Running))

LEMMA HostPasses ==
  ASSUME WindowInv, WindowInv', OneWindow
  PROVE  Host' = Host \/ Host = "none" \/ Host' = "none"
<1>1. HostFollows /\ HostFollows'
  BY HostOf, HostOfNext
<1>2. (MainLive' <=> MainLive) \/ (SatLive' <=> SatLive)
  BY DEF OneWindow, MainLive, SatLive
<1>3. ~(MainLive /\ SatLive)
  BY OneLive
<1> QED BY <1>1, <1>2, <1>3 DEF HostFollows

\* A step moves the text unchanged, types another one, or submits it.
Moves == Keeps /\ OneWindow

Types ==
  /\ Host # "none" /\ Host' = Host
  /\ typed < MaxEdits /\ typed' = typed + 1 /\ ComposerText' = typed + 1 /\ sent' = sent

StepOutcome == WindowInv' /\ (Moves \/ Types \/ (Submits /\ Host' = Host))

LEMMA RequestShown ==
  ASSUME WindowInv, RequestReDock
  PROVE  Running' <=> Running
<1>1. win \in [shown : {"none", "added", "run"}, closing : BOOLEAN]
  BY DEF WindowInv, WindowTypeOK, HostTypeOK
<1>2. win' = win \/ \E b \in BOOLEAN : win' = [win EXCEPT !.closing = b]
  BY DEF RequestReDock, AbortAttempt, Authorize
<1> QED BY <1>1, <1>2 DEF Running

LEMMA UserOutcome ==
  ASSUME WindowInv, User
  PROVE  StepOutcome
<1>1. CASE MainTypes
  <2>1. WindowInv' /\ typed' = typed + 1 /\ ComposerText' = typed + 1
    BY <1>1, MainTypesKeeps
  <2>2. /\ typed < MaxEdits /\ ~main.frozen /\ main \in Mains /\ typed \in Drafts
        /\ main' = [main EXCEPT !.draft = typed + 1] /\ sent' = sent
    BY <1>1 DEF MainTypes, WindowInv, WindowTypeOK
  <2>3. MainLive /\ MainLive'
    BY <2>2 DEF MainLive, Mains
  <2>4. Host = "main" /\ Host' = "main"
    BY <2>1, <2>3, HostOf, HostOfNext DEF HostFollows
  <2> QED BY <2>1, <2>2, <2>4 DEF StepOutcome, Types
<1>2. CASE MainSends
  <2>1. WindowInv' /\ ComposerText = main.draft /\ main.draft # 0 /\ ComposerText' = 0
    BY <1>2, MainSendsKeeps
  <2>2. /\ ~main.frozen /\ main \in Mains /\ typed' = typed
        /\ main' = [main EXCEPT !.draft = 0] /\ sent' = [sent EXCEPT ![main.draft] = @ + 1]
    BY <1>2 DEF MainSends, WindowInv, WindowTypeOK
  <2>3. MainLive /\ MainLive'
    BY <2>2 DEF MainLive, Mains
  <2>4. Host = "main" /\ Host' = "main"
    BY <2>1, <2>3, HostOf, HostOfNext DEF HostFollows
  <2> QED BY <2>1, <2>2, <2>4 DEF StepOutcome, Submits
<1>3. CASE UndockGolem
  <2>1. sat' = sat /\ win' = win /\ typed' = typed /\ sent' = sent
    BY <1>3 DEF UndockGolem
  <2> QED BY <1>3, <2>1, UndockGolemKeeps DEF StepOutcome, Moves, Keeps, OneWindow, Running
<1>4. CASE DockGolem
  <2>1. sat' = sat /\ typed' = typed /\ sent' = sent /\ RequestReDock
    BY <1>4 DEF DockGolem
  <2> QED BY <1>4, <2>1, DockGolemKeeps, RequestShown DEF StepOutcome, Moves, Keeps, OneWindow
<1>5. CASE SatelliteTypes
  <2>1. WindowInv' /\ typed' = typed + 1 /\ ComposerText' = typed + 1
    BY <1>5, SatelliteTypesKeeps
  <2>2. /\ typed < MaxEdits /\ ~sat.frozen /\ sat \in Sats /\ Running /\ win' = win
        /\ sat' = [sat EXCEPT !.draft = typed + 1] /\ sent' = sent
    BY <1>5 DEF SatelliteTypes, WindowInv, WindowTypeOK, Up, Running, hostVars
  <2>3. SatLive /\ SatLive'
    BY <2>2 DEF SatLive, Sats, Running
  <2>4. Host = "satellite" /\ Host' = "satellite"
    BY <2>1, <2>3, HostOf, HostOfNext DEF HostFollows
  <2> QED BY <2>1, <2>2, <2>4 DEF StepOutcome, Types
<1>6. CASE SatelliteSends
  <2>1. main' = main /\ typed' = typed /\ sent' = sent
    BY <1>6 DEF SatelliteSends, SatelliteUnchanged
  <2> QED BY <1>6, <2>1, SatelliteSendsKeeps DEF StepOutcome, Moves, Keeps, OneWindow
<1>7. CASE SatelliteCloses
  <2>1. main' = main /\ typed' = typed /\ sent' = sent
    BY <1>7 DEF SatelliteCloses
  <2> QED BY <1>7, <2>1, SatelliteClosesKeeps DEF StepOutcome, Moves, Keeps, OneWindow
<1>8. CASE AuthorizedNativeClose
  <2>1. main' = main /\ typed' = typed /\ sent' = sent
    BY <1>8 DEF AuthorizedNativeClose
  <2> QED BY <1>8, <2>1, NativeCloseKeeps DEF StepOutcome, Moves, Keeps, OneWindow
<1>9. CASE RetryStartup
  <2>1. main' = main /\ typed' = typed /\ sent' = sent
    BY <1>9 DEF RetryStartup
  <2> QED BY <1>9, <2>1, RetryStartupKeeps DEF StepOutcome, Moves, Keeps, OneWindow
<1>10. CASE RetryPending
  <2>1. main' = main /\ typed' = typed /\ sent' = sent
    BY <1>10 DEF RetryPending, SatelliteUnchanged
  <2> QED BY <1>10, <2>1, RetryPendingKeeps DEF StepOutcome, Moves, Keeps, OneWindow
<1> QED BY <1>1, <1>2, <1>3, <1>4, <1>5, <1>6, <1>7, <1>8, <1>9, <1>10 DEF User

LEMMA OpensOutcome ==
  ASSUME WindowInv, Opens \/ AbandonOpen
  PROVE  StepOutcome
<1>1. CASE OpenAnswered
  <2>1. sat' = sat /\ win' = win /\ typed' = typed /\ sent' = sent
    BY <1>1 DEF OpenAnswered
  <2> QED BY <1>1, <2>1, OpenAnsweredKeeps DEF StepOutcome, Moves, Keeps, OneWindow, Running
<1>2. CASE OpenReserve
  <2>1. main' = main /\ typed' = typed /\ sent' = sent
    BY <1>2 DEF OpenReserve
  <2> QED BY <1>2, <2>1, OpenReserveKeeps DEF StepOutcome, Moves, Keeps, OneWindow
<1>3. CASE OpenPublish
  <2>1. main' = main /\ typed' = typed /\ sent' = sent
    BY <1>3 DEF OpenPublish
  <2> QED BY <1>3, <2>1, OpenPublishKeeps DEF StepOutcome, Moves, Keeps, OneWindow
<1>4. CASE OpenAdd
  <2>1. main' = main /\ typed' = typed /\ sent' = sent
    BY <1>4 DEF OpenAdd
  <2> QED BY <1>4, <2>1, OpenAddKeeps DEF StepOutcome, Moves, Keeps, OneWindow
<1>5. CASE OpenRun
  <2>1. main' = main /\ typed' = typed /\ sent' = sent
    BY <1>5 DEF OpenRun
  <2> QED BY <1>5, <2>1, OpenRunKeeps DEF StepOutcome, Moves, Keeps, OneWindow
<1>6. CASE AbandonOpen
  <2>1. main' = main /\ typed' = typed /\ sent' = sent
    BY <1>6 DEF AbandonOpen
  <2> QED BY <1>6, <2>1, AbandonOpenKeeps DEF StepOutcome, Moves, Keeps, OneWindow
<1> QED BY <1>1, <1>2, <1>3, <1>4, <1>5, <1>6 DEF Opens

LEMMA HostOutcome ==
  ASSUME WindowInv,
         Posts \/ TransitionTimeout \/ ConfirmGolemWindowClose \/ WindowRemoved
           \/ ObserveRetirement \/ ObserverGivesUp
  PROVE  StepOutcome
<1>1. CASE \E m \in posts : CheckDrafts(m)
  <2>1. PICK m \in posts : CheckDrafts(m)
    BY <1>1
  <2>2. main' = main /\ typed' = typed /\ sent' = sent
    BY <2>1 DEF CheckDrafts
  <2> QED BY <2>1, <2>2, CheckDraftsKeeps DEF StepOutcome, Moves, Keeps, OneWindow
<1>2. CASE \E m \in posts : AcceptPost(m)
  <2>1. PICK m \in posts : AcceptPost(m)
    BY <1>2
  <2>2. main' = main /\ typed' = typed /\ sent' = sent
    BY <2>1 DEF AcceptPost
  <2> QED BY <2>1, <2>2, AcceptPostKeeps DEF StepOutcome, Moves, Keeps, OneWindow
<1>3. CASE \E m \in posts : RefusePost(m)
  <2>1. PICK m \in posts : RefusePost(m)
    BY <1>3
  <2>2. main' = main /\ typed' = typed /\ sent' = sent
    BY <2>1 DEF RefusePost
  <2> QED BY <2>1, <2>2, RefusePostKeeps DEF StepOutcome, Moves, Keeps, OneWindow
<1>4. CASE TransitionTimeout
  <2>1. main' = main /\ typed' = typed /\ sent' = sent
    BY <1>4 DEF TransitionTimeout
  <2> QED BY <1>4, <2>1, TransitionTimeoutKeeps DEF StepOutcome, Moves, Keeps, OneWindow
<1>5. CASE ConfirmGolemWindowClose
  <2>1. main' = main /\ typed' = typed /\ sent' = sent
    BY <1>5 DEF ConfirmGolemWindowClose
  <2> QED BY <1>5, <2>1, ConfirmCloseKeeps DEF StepOutcome, Moves, Keeps, OneWindow
<1>6. CASE WindowRemoved
  <2>1. main' = main /\ typed' = typed /\ sent' = sent
    BY <1>6 DEF WindowRemoved
  <2> QED BY <1>6, <2>1, WindowRemovedKeeps DEF StepOutcome, Moves, Keeps, OneWindow
<1>7. CASE ObserveRetirement
  <2>1. main' = main /\ typed' = typed /\ sent' = sent
    BY <1>7 DEF ObserveRetirement
  <2> QED BY <1>7, <2>1, ObserveRetirementKeeps DEF StepOutcome, Moves, Keeps, OneWindow
<1>8. CASE ObserverGivesUp
  <2>1. main' = main /\ typed' = typed /\ sent' = sent
    BY <1>8 DEF ObserverGivesUp
  <2> QED BY <1>8, <2>1, ObserverGivesUpKeeps DEF StepOutcome, Moves, Keeps, OneWindow
<1> QED BY <1>1, <1>2, <1>3, <1>4, <1>5, <1>6, <1>7, <1>8 DEF Posts

\* No message makes main open or close its composer.
LEMMA ReceivedOpen ==
  ASSUME WindowInv, MainReceives
  PROVE  main'.frozen = main.frozen
<1>1. main \in Mains
  BY DEF WindowInv, WindowTypeOK
<1>2. PICK i \in DOMAIN relayed["main"] :
        LET m == relayed["main"][i] IN
          \/ MainDrops(m) \/ MainReceivesAbort(m) \/ MainReceivesAction(m)
          \/ MainReceivesDrafts(m) \/ MainReceivesReady(m)
  BY DEF MainReceives
<1>3. PICK m : m = relayed["main"][i]
  OBVIOUS
<1>4. CASE MainDrops(m)
  BY <1>4 DEF MainDrops
<1>5. CASE MainReceivesAbort(m)
  BY <1>1, <1>5 DEF MainReceivesAbort, Mains
<1>6. CASE MainReceivesAction(m)
  <2>1. \/ main' = main
        \/ \E ok \in BOOLEAN :
             main' = [main EXCEPT !.lastAction = m.id, !.lastOk = ok, !.settling = m.id]
    <3>1. CASE m.id > main.lastAction
      BY <1>6, <3>1 DEF MainReceivesAction
    <3>2. CASE ~(m.id > main.lastAction)
      BY <1>6, <3>2 DEF MainReceivesAction
    <3> QED BY <3>1, <3>2
  <2> QED BY <1>1, <2>1 DEF Mains
<1>7. CASE MainReceivesDrafts(m)
  BY <1>1, <1>7 DEF MainReceivesDrafts, Mains
<1>8. CASE MainReceivesReady(m)
  BY <1>1, <1>8 DEF MainReceivesReady, Mains
<1> QED BY <1>2, <1>3, <1>4, <1>5, <1>6, <1>7, <1>8

LEMMA MainOutcome ==
  ASSUME WindowInv,
         MainInstallsState \/ MainReceives \/ MainAcksAction \/ MainInstallsDrafts
           \/ TransferTimer
  PROVE  StepOutcome
<1>1. CASE MainInstallsState
  <2>1. sat' = sat /\ win' = win /\ typed' = typed /\ sent' = sent
    BY <1>1 DEF MainInstallsState, hostVars
  <2> QED BY <1>1, <2>1, MainInstallsStateKeeps DEF StepOutcome, Moves, Keeps, OneWindow, Running
<1>2. CASE MainReceives
  <2>1. sat' = sat /\ win' = win
    BY <1>2 DEF MainReceives, MainUnchanged, hostVars
  <2>2. WindowInv' /\ (Keeps \/ Submits)
    BY <1>2, MainReceivesKeeps
  <2>3. main'.frozen = main.frozen
    BY <1>2, ReceivedOpen
  <2>4. (MainLive' <=> MainLive) /\ (SatLive' <=> SatLive)
    BY <2>1, <2>3 DEF MainLive, SatLive, Running
  <2>5. Host' = Host
    BY <2>2, <2>4, HostOf, HostOfNext DEF HostFollows
  <2> QED BY <2>1, <2>2, <2>5 DEF StepOutcome, Moves, OneWindow, Running
<1>3. CASE MainAcksAction
  <2>1. sat' = sat /\ win' = win /\ typed' = typed /\ sent' = sent
    BY <1>3 DEF MainAcksAction, MainUnchanged, hostVars
  <2> QED BY <1>3, <2>1, MainAcksActionKeeps DEF StepOutcome, Moves, Keeps, OneWindow, Running
<1>4. CASE MainInstallsDrafts
  <2>1. sat' = sat /\ win' = win /\ typed' = typed /\ sent' = sent
    BY <1>4 DEF MainInstallsDrafts, MainUnchanged, hostVars
  <2> QED BY <1>4, <2>1, MainInstallsDraftsKeeps
          DEF StepOutcome, Moves, Keeps, OneWindow, Running
<1>5. CASE TransferTimer
  <2>1. sat' = sat /\ win' = win /\ typed' = typed /\ sent' = sent
    BY <1>5 DEF TransferTimer, MainUnchanged, hostVars
  <2> QED BY <1>5, <2>1, TransferTimerKeeps DEF StepOutcome, Moves, Keeps, OneWindow, Running
<1> QED BY <1>1, <1>2, <1>3, <1>4, <1>5

LEMMA SatelliteOutcome ==
  ASSUME WindowInv,
         ActionTimer \/ HandoffTimer \/ ConfirmRefused
           \/ SatelliteInstallsState \/ SatelliteReceives \/ HandoffDrained
           \/ BootstrapGolemWindow \/ BootstrapAnswered \/ StartupFails
  PROVE  StepOutcome
<1>1. main' = main /\ typed' = typed /\ sent' = sent
  BY DEF ActionTimer, HandoffTimer, ConfirmRefused, SatelliteInstallsState, SatelliteReceives,
         HandoffDrained, BootstrapGolemWindow, BootstrapAnswered, StartupFails,
         SatelliteUnchanged
<1>2. WindowInv' /\ SameText
  <2>1. CASE ActionTimer \/ HandoffTimer \/ ConfirmRefused
    BY <2>1, ActionTimerKeeps, HandoffTimerKeeps, ConfirmRefusedKeeps
  <2>2. CASE SatelliteInstallsState \/ SatelliteReceives \/ HandoffDrained
    BY <2>2, SatelliteInstallsStateKeeps, SatelliteReceivesKeeps, HandoffDrainedKeeps DEF Keeps
  <2>3. CASE BootstrapGolemWindow \/ BootstrapAnswered \/ StartupFails
    BY <2>3, BootstrapKeeps, BootstrapAnsweredKeeps, StartupFailsKeeps
  <2> QED BY <2>1, <2>2, <2>3
<1> QED BY <1>1, <1>2 DEF StepOutcome, Moves, Keeps, OneWindow

\* A step that changes nothing.
LEMMA StutterOutcome ==
  ASSUME WindowInv, UNCHANGED vars
  PROVE  StepOutcome
<1>1. /\ UNCHANGED <<hostVars, news, posts, relayed, main, sat, typed, sent>>
      /\ relayed' = relayed
  BY DEF vars
<1>2. sat \in Sats /\ sat' \in Sats /\ SatKept(sat, sat') /\ sat'.deferred = sat.deferred
  BY <1>1, SatBarred, QuietSelf DEF QuietSat
<1>3. QuietStep
  BY <1>1, <1>2, QuietSelf DEF QuietStep, WindowInv, WindowTypeOK, ChannelsTypeOK
<1>4. Posted({})
  <2>1. posts' \subseteq posts \cup {}
    BY <1>1
  <2> QED BY <1>1, <2>1, PostedSame
<1>5. WindowInv' /\ SameText
  BY <1>2, <1>3, <1>4, QuietPosts
<1> QED BY <1>1, <1>5 DEF StepOutcome, Moves, Keeps, OneWindow

LEMMA NextOutcome ==
  ASSUME WindowInv, [Next]_vars
  PROVE  StepOutcome
<1>1. CASE Next
  BY <1>1, UserOutcome, OpensOutcome, HostOutcome, MainOutcome, SatelliteOutcome
     DEF Next, Timers
<1>2. CASE UNCHANGED vars
  BY <1>2, StutterOutcome
<1> QED BY <1>1, <1>2

\* The composer never holds a text that is not typed, or is submitted.
LEMMA TextStep ==
  ASSUME WindowInv, TextFits, StepOutcome
  PROVE  TextFits'
<1>1. /\ typed \in Drafts /\ typed' \in Drafts /\ sent \in [Texts -> Nat]
      /\ ComposerText \in Drafts /\ MaxEdits \in Nat
  BY BoundsAssumption, TextOf, MainFields, SatFields, EmptyDraft
     DEF StepOutcome, WindowInv, WindowTypeOK
<1>2. Texts' = Texts
  BY DEF Texts
<1>3. CASE Moves
  BY <1>2, <1>3 DEF Moves, Keeps, SameText, TextFits
<1>4. CASE Types
  <2>1. typed \in Nat /\ typed + 1 \in Texts
    BY <1>1, <1>4 DEF Types, Texts, Drafts
  <2>2. \A t \in Texts : t > typed' => sent'[t] = 0
    BY <1>1, <1>4, <2>1 DEF Types, TextFits, Texts
  <2>3. ComposerText' <= typed' /\ sent'[ComposerText'] = 0
    BY <1>1, <1>4, <2>1 DEF Types, TextFits, Texts
  <2> QED BY <1>2, <2>2, <2>3 DEF TextFits
<1>5. CASE Submits
  <2>1. ComposerText <= typed
    BY <1>5 DEF Submits, TextFits
  <2>2. ASSUME NEW t \in Texts, t > typed PROVE sent'[t] = 0
    <3>1. t # ComposerText /\ sent[t] = 0
      BY <1>1, <2>1, <2>2 DEF TextFits, Texts, Drafts
    <3> QED BY <1>1, <1>5, <3>1 DEF Submits
  <2> QED BY <1>2, <1>5, <2>2 DEF Submits, TextFits
<1> QED BY <1>3, <1>4, <1>5 DEF StepOutcome

\* Every step is one of the abstract move, or leaves what it sees unchanged.
LEMMA OwnerStep ==
  ASSUME WindowInv, TextFits, StepOutcome
  PROVE  [Owner!Next]_(Owner!dvars)
<1>1. /\ typed \in Drafts /\ sent \in [Texts -> Nat]
      /\ ComposerText \in Drafts /\ MaxEdits \in Nat
  BY BoundsAssumption, TextOf, MainFields, SatFields, EmptyDraft
     DEF StepOutcome, WindowInv, WindowTypeOK
<1>2. HostFollows /\ HostFollows' /\ Host' \in {"main", "satellite", "none"}
  BY HostOf, HostOfNext DEF StepOutcome, HostFollows
<1>3. CASE Moves
  <2>1. ComposerText' = ComposerText /\ sent' = sent
    BY <1>3 DEF Moves, Keeps, SameText
  <2>2. Host' = Host \/ Host = "none" \/ Host' = "none"
    BY <1>3, HostPasses DEF StepOutcome, Moves
  <2>3. CASE Host' = Host
    BY <2>1, <2>3 DEF Owner!dvars
  <2>4. CASE Host' # Host /\ Host' = "none"
    BY <2>1, <2>4 DEF Owner!Next, Owner!Freeze
  <2>5. CASE Host' # Host /\ Host = "none"
    BY <1>2, <2>1, <2>5 DEF Owner!Next, Owner!Thaw
  <2> QED BY <2>2, <2>3, <2>4, <2>5
<1>4. CASE Types
  <2>1. typed + 1 \in Texts
    BY <1>1, <1>4 DEF Types, Texts, Drafts
  <2>2. Owner!Type(typed + 1)
    BY <1>4 DEF Types, Owner!Type
  <2> QED BY <2>1, <2>2 DEF Owner!Next
<1>5. CASE Submits /\ Host' = Host
  <2>1. ComposerText \in Texts /\ sent[ComposerText] = 0
    BY <1>1, <1>5 DEF Submits, TextFits, Texts, Drafts
  <2>2. sent' = [sent EXCEPT ![ComposerText] = 1]
    BY <1>1, <1>5, <2>1 DEF Submits
  <2>3. Owner!Send
    BY <1>5, <2>1, <2>2 DEF Submits, Owner!Send
  <2> QED BY <2>3 DEF Owner!Next
<1> QED BY <1>3, <1>4, <1>5 DEF StepOutcome

LEMMA WindowInit == Init => WindowInv /\ TextFits /\ Owner!Init
<1> SUFFICES ASSUME Init PROVE WindowInv /\ TextFits /\ Owner!Init
  OBVIOUS
<1>1. /\ go = ClosedRuntime /\ open = [pc |-> "idle", instance |-> 0]
      /\ seqs = [instance |-> 0, handoff |-> 0, stalls |-> 0]
      /\ win = [shown |-> "none", closing |-> FALSE]
      /\ news = [w \in Windows |-> {}] /\ posts = {} /\ relayed = [w \in Windows |-> <<>>]
      /\ main = MainInit /\ sat = FreshSatellite
      /\ typed = 0 /\ sent = [t \in Texts |-> 0]
  BY DEF Init
<1>2. /\ go \in Runtimes /\ go.phase = "closed" /\ go.mode = "docked" /\ go.instance = 0
      /\ go.handoff = 0 /\ ~go.authorized /\ ~go.observing /\ go.rev = 0
  BY <1>1 DEF ClosedRuntime, Runtimes, Phases, Modes
<1>3. PICK no \in BOOLEAN : no = FALSE
  OBVIOUS
<1>4. PICK s : s = Snapshot(ClosedRuntime)
  OBVIOUS
<1>5. /\ s \in Snapshots /\ s.phase = "closed" /\ s.instance = 0 /\ s.handoff = 0
      /\ s.rev = 0 /\ s.mode = "docked"
  BY <1>4 DEF Snapshot, ClosedRuntime, Snapshots, Phases, Modes
<1>6. main \in Mains
  BY <1>1, <1>4, <1>5, EmptyDraft, NoMessageType DEF MainInit, Mains
<1>7. /\ main.st = s /\ ~main.frozen /\ main.draft = 0 /\ main.core = 0 /\ main.lastAction = 0
      /\ main.settling = 0 /\ main.inHandoff = 0 /\ main.inAck = "none"
      /\ main.claimed = NoMessage /\ main.transfer = 0 /\ main.settled
  BY <1>1, <1>4 DEF MainInit
<1>8. sat \in Sats
  BY <1>1, FreshType
<1>9. /\ sat.st = s /\ sat.frozen /\ sat.boot = "calling" /\ sat.action = 0
      /\ sat.stage = "none" /\ sat.deferred = NoMessage /\ ~sat.installed /\ sat.handoff = 0
      /\ sat.draft = 0 /\ sat.nextId = 0
  BY <1>1, <1>4 DEF FreshSatellite
<1>10. /\ open.pc = "idle" /\ open.instance = 0 /\ win.shown = "none" /\ ~win.closing
       /\ seqs.instance = 0 /\ seqs.handoff = 0
  BY <1>1
<1>11. HostTypeOK
  <2>1. seqs \in [instance : Nat, handoff : Nat, stalls : Nat]
    BY <1>1
  <2>2. open \in [pc : OpenPcs, instance : Nat]
    BY <1>1 DEF OpenPcs
  <2>3. win \in [shown : {"none", "added", "run"}, closing : BOOLEAN]
    BY <1>1, <1>3
  <2> QED BY <1>2, <2>1, <2>2, <2>3 DEF HostTypeOK
<1>12. ChannelsTypeOK
  <2>1. news \in [Windows -> SUBSET Snapshots]
    BY <1>1
  <2>2. <<>> \in Seq(Messages)
    OBVIOUS
  <2>3. relayed \in [Windows -> Seq(Messages)]
    BY <1>1, <2>2
  <2> QED BY <1>1, <2>1, <2>3 DEF ChannelsTypeOK
<1>13. typed \in Drafts /\ sent \in [Texts -> Nat]
  BY <1>1, EmptyDraft
<1>14. WindowTypeOK
  BY <1>6, <1>8, <1>11, <1>12, <1>13 DEF WindowTypeOK
<1>15. news["main"] = {} /\ news["satellite"] = {}
       /\ Queued("main") = {} /\ Queued("satellite") = {}
  BY <1>1 DEF Windows, Queued
<1>16. /\ \A w \in Windows : SeenBy(w) = {s}
       /\ SeenBy("main") = {s} /\ SeenBy("satellite") = {s}
  BY <1>7, <1>9, <1>15 DEF Windows, SeenBy
<1>17. ~Running /\ ~Undocked /\ ~Leaving /\ ~Adding /\ go.phase \notin Opening
  BY <1>2, <1>10 DEF Running, Undocked, Leaving, Adding, Opening
<1>18. HostFits /\ SatFresh
  BY <1>2, <1>9, <1>10, <1>15, <1>17 DEF HostFits, SatFresh
<1>19. StatesFit
  <2>1. SnapshotFits(s)
    BY <1>2, <1>5, <1>10 DEF SnapshotFits
  <2> QED BY <1>2, <1>5, <1>15, <1>16, <1>17, <2>1
          DEF StatesFit, SnapshotsFit, MainInOrder, CurrentLast, Contiguous, NoWayBack,
              MainFollows, SatFollows
<1>20. MainFits
  BY <1>2, <1>5, <1>7, <1>10, <1>17 DEF MainFits
<1>21. SatFits
  BY <1>2, <1>5, <1>9, <1>10, <1>17 DEF SatFits
<1>22. MessagesFit
  <2>1. ToMain = {} /\ ToSatellite = {}
    BY <1>1, <1>7, <1>9, <1>15 DEF ToMain, ToSatellite
  <2> QED BY <2>1 DEF MessagesFit
<1>23. MovesFit
  BY <1>17 DEF MovesFit
<1>24. WindowInv
  BY <1>14, <1>18, <1>19, <1>20, <1>21, <1>22, <1>23 DEF WindowInv
<1>25. ComposerText = 0
  BY <1>2, <1>7 DEF ComposerText
<1>26. TextFits
  BY <1>1, <1>25 DEF TextFits
<1>27. Host = "main"
  BY <1>7, <1>24, HostOf DEF HostFollows, MainLive
<1> QED BY <1>1, <1>24, <1>25, <1>26, <1>27 DEF Owner!Init

(***************************************************************************)
(* The theorems.                                                           *)
(***************************************************************************)
\* The host and the two windows stay in step through every undock, dock, refusal,
\* timeout and repeated post: the facts the move of the text rests on.
THEOREM WindowInvariance == Spec => [](WindowInv /\ TextFits)
<1>1. Init => WindowInv /\ TextFits
  BY WindowInit
<1>2. (WindowInv /\ TextFits) /\ [Next]_vars => (WindowInv /\ TextFits)'
  BY NextOutcome, TextStep DEF StepOutcome
<1> QED BY <1>1, <1>2, PTL DEF Spec

\* No text of the Golem chat (app_golem_window.go, windowRelay.ts,
\* windowSatellite.ts) is dropped, shown again after its submission or submitted
\* twice, and its two composers are never open together, whatever the host, the
\* timers and the two channels do.
THEOREM TextIsMoved == Spec => MovesDraft
<1>1. Init => Owner!Init
  BY WindowInit
<1>2. WindowInv /\ TextFits /\ [Next]_vars => [Owner!Next]_(Owner!dvars)
  BY NextOutcome, OwnerStep
<1> QED BY <1>1, <1>2, WindowInvariance, PTL DEF Spec, MovesDraft, Owner!Spec
=============================================================================
