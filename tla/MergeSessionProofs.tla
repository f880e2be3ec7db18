------------------------ MODULE MergeSessionProofs ------------------------
(***************************************************************************)
(* Proofs about MergeSession: a merge writes over nothing that was not     *)
(* looked at, one session is the newest request, and no check replaces     *)
(* what the user decided.                                                  *)
(***************************************************************************)
EXTENDS MergeSession, TLAPS

-----------------------------------------------------------------------------
\* What the operators of the model build.

LEMMA Empty ==
  /\ NoSession \in Sessions /\ NoSession.path = NoPath
  /\ ~NoSession.dirty /\ ~NoSession.reload /\ ~NoSession.applied
  /\ NoFin \in Finalizes /\ NoFin.pc = "idle" /\ NoFin.epoch = 0 /\ ~NoFin.ahead
  /\ NoOver \in OverCalls /\ NoOver.pc = "idle"
  /\ NoPath \notin Paths /\ Failure \in States /\ ~Failure.read
<1>1. <<0, 0>> \in Versions
  BY DEF Versions
<1>2. NoPath \notin Paths
  BY PathsAssumption DEF Paths
<1>3. Failure \in States /\ ~Failure.read /\ [read |-> FALSE] = Failure
  BY DEF States, Failure
<1>4. /\ NoSession \in Sessions /\ NoSession.path = NoPath
      /\ ~NoSession.dirty /\ ~NoSession.reload /\ ~NoSession.applied
  BY <1>1 DEF NoSession, Sessions
<1>5. NoFin \in Finalizes /\ NoFin.pc = "idle" /\ NoFin.epoch = 0 /\ ~NoFin.ahead
  BY <1>1 DEF NoFin, Finalizes
<1>6. NoOver \in OverCalls /\ NoOver.pc = "idle"
  BY <1>3 DEF NoOver, OverCalls
<1> QED BY <1>2, <1>3, <1>4, <1>5, <1>6

LEMMA StatesAre ==
  \A state \in States : /\ state.read \in BOOLEAN
                        /\ state.read => state.src \in Versions /\ state.conflict \in Nat
<1> TAKE state \in States
<1>1. CASE state = [read |-> FALSE]
  BY <1>1
<1>2. CASE state \in [read : {TRUE}, src : Versions, conflict : Nat, markers : BOOLEAN]
  BY <1>2
<1> QED BY <1>1, <1>2 DEF States, Failure

LEMMA StateIs ==
  ASSUME MergeTypeOK, NEW p \in Paths
  PROVE  State(p) \in States /\ Version(p) \in Versions /\ State(p).src = Version(p)
BY DEF MergeTypeOK, State, Version, States, Worlds, Versions

LEMMA ChangedIs ==
  ASSUME MergeTypeOK, NEW p \in Paths, NEW by \in {"git", "outside", "editor", "merge"},
         NEW markers \in BOOLEAN, NEW conflict \in Nat, Changed(p, by, markers, conflict)
  PROVE  /\ world' \in [Paths -> Worlds]
         /\ \A q \in Paths \ {p} : world'[q] = world[q]
         /\ world'[p].ver = world[p].ver + 1 /\ world'[p].by = by /\ world'[p].conflict = conflict
<1>1. [ver |-> world[p].ver + 1, by |-> by, markers |-> markers, conflict |-> conflict] \in Worlds
  BY DEF MergeTypeOK, Worlds
<1>2. world' = [world EXCEPT ![p] = [ver |-> world[p].ver + 1, by |-> by, markers |-> markers,
                                     conflict |-> conflict]]
  BY DEF Changed
<1> QED BY <1>1, <1>2 DEF MergeTypeOK

LEMMA SessionOfIs ==
  ASSUME MergeTypeOK, NEW p \in Paths, NEW req \in Nat, NEW state \in States, state.read,
         NEW queue \in SUBSET Paths
  PROVE  LET s == SessionOf(p, req, state, queue)
         IN /\ s \in Sessions /\ s.path = p /\ s.req = req /\ s.src = state.src
            /\ ~s.dirty /\ ~s.reload /\ ~s.applied
<1>1. state.src \in Versions
  BY StatesAre
<1> QED BY <1>1, Empty DEF SessionOf, Sessions, MergeTypeOK

\* A session whose report changes is the same session.
Reported(s, old) ==
  /\ s \in Sessions
  /\ s.path = old.path /\ s.req = old.req /\ s.src = old.src
  /\ s.dirty = old.dirty /\ s.reload = old.reload /\ s.applied = old.applied

LEMMA OutdatedIs ==
  ASSUME NEW s \in Sessions, NEW why \in {"none", "failed", "resolved", "worktree", "conflict"}
  PROVE  Reported(Outdated(s, why), s) /\ Outdated(s, why).external \in {why, "resolved"}
BY DEF Outdated, Sessions, Reported

LEMMA VerdictIs ==
  ASSUME session \in Sessions, NEW c \in CheckCalls
  PROVE  /\ Reported(Verdict(c), session)
         /\ Verdict(c).external = "worktree" => c.state.read
<1>1. \A why \in {"failed", "resolved", "worktree", "conflict"} :
        Reported(Outdated(session, why), session) /\ Outdated(session, why).external \in {why, "resolved"}
  BY OutdatedIs
<1>2. Reported([session EXCEPT !.external = "none"], session)
  BY DEF Reported, Sessions
<1>3. c.state.read \in BOOLEAN
  <2>1. c.state \in States
    BY DEF CheckCalls
  <2> QED BY <2>1, StatesAre
<1>4. CASE ~c.state.read
  BY <1>1, <1>4 DEF Verdict
<1>5. CASE c.state.read
  <2>1. \/ Verdict(c) = [session EXCEPT !.external = "none"]
        \/ \E why \in {"failed", "resolved", "worktree", "conflict"} : Verdict(c) = Outdated(session, why)
    BY <1>5 DEF Verdict
  <2> QED BY <1>1, <1>2, <1>5, <2>1
<1> QED BY <1>3, <1>4, <1>5

\* Only the newest check may still be applied.
LEMMA WithCheckIs ==
  ASSUME MergeTypeOK, NEW cs \in SUBSET CheckCalls, NEW s \in Sessions, s.path # NoPath,
         NEW force \in BOOLEAN
  PROVE  /\ WithCheck(cs, s, force) \in SUBSET CheckCalls
         /\ CheckOf(s, force) \in WithCheck(cs, s, force)
         /\ CheckOf(s, force).req = s.req /\ CheckOf(s, force).force = force
         /\ \A d \in WithCheck(cs, s, force) :
              d # CheckOf(s, force) => d.stale /\ \E c \in cs : d.req = c.req
<1>1. CheckOf(s, force) \in CheckCalls /\ CheckOf(s, force).req = s.req /\ CheckOf(s, force).force = force
  BY Empty DEF CheckOf, CheckCalls, Sessions, MergeTypeOK
<1>2. \A c \in cs : /\ [c EXCEPT !.stale = TRUE] \in CheckCalls
                    /\ [c EXCEPT !.stale = TRUE].stale /\ [c EXCEPT !.stale = TRUE].req = c.req
  BY DEF CheckCalls
<1> HIDE DEF CheckOf
<1> QED BY <1>1, <1>2 DEF WithCheck

-----------------------------------------------------------------------------
\* What a step does to the session, when it opens none.

Keeps ==
  /\ session' \in Sessions /\ request' = request
  /\ session'.path = session.path /\ session'.req = session.req /\ session'.src = session.src
  /\ session'.applied => session.applied
  /\ session.dirty => session'.dirty
  /\ session'.dirty => session'.path # NoPath

Drops == session' = NoSession /\ request' \in Nat /\ request' >= request

LEMMA SameKeeps ==
  ASSUME MergeTypeOK, ChecksFit, UNCHANGED <<session, request>>
  PROVE  Keeps
BY DEF Keeps, MergeTypeOK, ChecksFit, IsSession

LEMMA ReportKeeps ==
  ASSUME MergeTypeOK, ChecksFit, UNCHANGED request, Reported(session', session)
  PROVE  Keeps
BY DEF Keeps, MergeTypeOK, ChecksFit, IsSession, Reported

LEMMA ClearsIs ==
  ASSUME MergeTypeOK, ChecksFit, ClearsCaptured
  PROVE  (Keeps /\ session' = session) \/ Drops
BY SameKeeps DEF ClearsCaptured, Drops, MergeTypeOK

LEMMA BegunIs ==
  ASSUME MergeTypeOK, IsSession, NEW expected \in Versions
  PROVE  /\ Begun(expected) \in Finalizes /\ Begun(expected).pc = "flush"
         /\ Begun(expected).path = session.path /\ Begun(expected).epoch = epoch
         /\ Begun(expected).expected = expected
         /\ Begun(expected).applied => session.applied /\ expected = session.src
<1>1. session.path \in Paths
  BY DEF MergeTypeOK, IsSession, Sessions
<1> QED BY <1>1, Empty DEF Begun, MergeTypeOK, Finalizes, Sessions

LEMMA FinalizeIs ==
  ASSUME MergeTypeOK, ChecksFit, IsSession, NEW expected \in Versions, Finalize(expected)
  PROVE  \/ fin' = fin /\ ((Keeps /\ session' = session) \/ Drops)
         \/ fin' = Begun(expected) /\ Keeps /\ session' = session /\ op.held = "none"
BY SameKeeps DEF Finalize, Drops, MergeTypeOK

-----------------------------------------------------------------------------
\* Every value keeps its type.

Counters == [disturbs : Nat, opens : Nat, reloads : Nat, tries : Nat]

LEMMA Counted ==
  ASSUME MergeTypeOK
  PROVE  /\ Disturbs => spent' \in Counters
         /\ [spent EXCEPT !.opens = @ + 1] \in Counters
         /\ [spent EXCEPT !.reloads = @ + 1] \in Counters
         /\ [spent EXCEPT !.tries = @ + 1] \in Counters
BY DEF Disturbs, MergeTypeOK, Counters

LEMMA WorldIs ==
  ASSUME MergeTypeOK, NEW p \in Paths
  PROVE  /\ world[p].ver \in Nat /\ world[p].markers \in BOOLEAN /\ world[p].conflict \in Nat
         /\ saves[p] \in BOOLEAN /\ writes[p] \in Nat /\ tab[p] \in {"closed", "clean", "dirty"}
BY DEF MergeTypeOK, Worlds

LEMMA OutsideTypes ==
  ASSUME MergeTypeOK, NEW p \in Paths, Outside(p)
  PROVE  MergeTypeOK'
<1>1. PICK markers \in BOOLEAN, conflict \in Nat : Changed(p, "outside", markers, conflict)
  <2>1. world[p].markers \in BOOLEAN /\ world[p].conflict \in Nat /\ world[p].conflict + 1 \in Nat /\ 0 \in Nat
    BY WorldIs
  <2> QED BY <2>1 DEF Outside
<1>2. world' \in [Paths -> Worlds]
  BY <1>1, ChangedIs
<1>3. spent' \in Counters
  BY Counted DEF Outside
<1> QED BY <1>2, <1>3 DEF Outside, MergeTypeOK, Counters

LEMMA TabTypesAre ==
  ASSUME MergeTypeOK, NEW p \in Paths, TabOpens(p) \/ TabTypes(p) \/ TabSaves(p)
  PROVE  MergeTypeOK'
<1>1. tab' \in [Paths -> {"closed", "clean", "dirty"}]
  BY DEF TabOpens, TabTypes, TabSaves, MergeTypeOK
<1>2. CASE TabOpens(p)
  BY <1>1, <1>2 DEF TabOpens, MergeTypeOK
<1>3. CASE TabTypes(p)
  BY <1>1, <1>3, Counted DEF TabTypes, MergeTypeOK, Counters
<1>4. CASE TabSaves(p)
  <2>1. saves' \in [Paths -> BOOLEAN]
    BY <1>4 DEF TabSaves, MergeTypeOK
  <2> QED BY <1>1, <1>4, <2>1 DEF TabSaves, MergeTypeOK
<1> QED BY <1>2, <1>3, <1>4

LEMMA SaveTypes ==
  ASSUME MergeTypeOK, NEW p \in Paths, SaveRuns(p)
  PROVE  MergeTypeOK'
<1>1. world' \in [Paths -> Worlds]
  <2>1. CASE Changed(p, "editor", world[p].markers, world[p].conflict)
    <3>1. world[p].markers \in BOOLEAN /\ world[p].conflict \in Nat
      BY DEF MergeTypeOK, Worlds
    <3> QED BY <2>1, <3>1, ChangedIs
  <2>2. CASE UNCHANGED world
    BY <2>2 DEF MergeTypeOK
  <2> QED BY <2>1, <2>2 DEF SaveRuns
<1>2. fin' \in Finalizes /\ (fin'.pc # "idle" => fin'.path # NoPath)
  <2>1. fin \in Finalizes /\ (fin.pc # "idle" => fin.path # NoPath)
    BY DEF MergeTypeOK
  <2>2. /\ [fin EXCEPT !.ahead = FALSE] \in Finalizes
        /\ [fin EXCEPT !.ahead = FALSE].pc = fin.pc /\ [fin EXCEPT !.ahead = FALSE].path = fin.path
    BY <2>1 DEF Finalizes
  <2>3. [fin EXCEPT !.pc = "rejected"] \in Finalizes /\ [fin EXCEPT !.pc = "rejected"].path = fin.path
    BY <2>1 DEF Finalizes
  <2>4. fin' \in {fin, [fin EXCEPT !.ahead = FALSE]} \/ (fin' = [fin EXCEPT !.pc = "rejected"] /\ fin.path = p)
    BY DEF SaveRuns
  <2> QED BY <2>1, <2>2, <2>3, <2>4, Empty
<1>3. saves' \in [Paths -> BOOLEAN]
  BY DEF SaveRuns, MergeTypeOK
<1>4. writes' \in [Paths -> Nat]
  BY DEF SaveRuns, MergeTypeOK
<1> QED BY <1>1, <1>2, <1>3, <1>4 DEF SaveRuns, MergeTypeOK

LEMMA OtherTypes ==
  ASSUME MergeTypeOK, OtherOpStarts \/ OtherOpEnds \/ Switch
  PROVE  MergeTypeOK'
<1>1. CASE OtherOpStarts
  BY <1>1, Counted DEF OtherOpStarts, MergeTypeOK, Counters
<1>2. CASE OtherOpEnds
  BY <1>2 DEF OtherOpEnds, MergeTypeOK
<1>3. CASE Switch
  <2>1. saves' \in [Paths -> BOOLEAN] /\ tab' \in [Paths -> {"closed", "clean", "dirty"}]
    BY <1>3, WorldIs DEF Switch
  <2>2. epoch' \in Nat /\ op' \in [held : {"none", "other", "merge"}, epoch : Nat]
    BY <1>3 DEF Switch, MergeTypeOK
  <2> QED BY <1>3, <2>1, <2>2, Empty, Counted DEF Switch, MergeTypeOK, Counters
<1> QED BY <1>1, <1>2, <1>3

LEMMA AskedIs ==
  ASSUME MergeTypeOK, NEW p \in Paths, NEW queue \in SUBSET Paths, NEW advance \in BOOLEAN
  PROVE  /\ Asked(p, queue, advance) \in OpenCalls
         /\ Asked(p, queue, advance).req = request + 1 /\ Asked(p, queue, advance).epoch = epoch
         /\ Asked(p, queue, advance).advance = advance
BY Empty DEF Asked, OpenCalls, MergeTypeOK

LEMMA OpenStartTypes ==
  ASSUME MergeTypeOK, NEW p \in Paths, OpenStarts(p)
  PROVE  MergeTypeOK'
<1>1. Asked(p, Paths, FALSE) \in OpenCalls
  BY AskedIs
<1>2. spent' \in Counters
  BY Counted DEF OpenStarts
<1>3. opens' \in SUBSET OpenCalls /\ request' \in Nat
  <2>1. opens' = opens \cup {Asked(p, Paths, FALSE)} /\ request' = request + 1
    BY DEF OpenStarts
  <2>2. opens \in SUBSET OpenCalls /\ request \in Nat
    BY DEF MergeTypeOK
  <2>3. \A o \in opens' : o \in OpenCalls
    BY <1>1, <2>1, <2>2
  <2>4. request' \in Nat
    BY <2>1, <2>2
  <2> QED BY <2>3, <2>4
<1> QED BY <1>2, <1>3 DEF OpenStarts, MergeTypeOK, Counters

\* A call of openMergeResolution goes on, or returns.
LEMMA OpenGoesOn ==
  ASSUME MergeTypeOK, NEW o \in opens, OpenSaved(o) \/ OpenReads(o) \/ OpenSaveFails(o)
  PROVE  \/ OpenReturns(o)
         \/ \E next \in OpenCalls : /\ OpenMoves(o, next)
                                    /\ next.req = o.req /\ next.epoch = o.epoch /\ next.advance = o.advance
<1>1. o \in OpenCalls /\ o.path \in Paths
  BY DEF MergeTypeOK, OpenCalls
<1>2. CASE OpenSaved(o)
  <2>1. writes'[o.path] \in Nat
    BY <1>1, <1>2 DEF OpenSaved, MergeTypeOK
  <2>2. [o EXCEPT !.pc = "asking", !.wrev = writes'[o.path]] \in OpenCalls
    BY <1>1, <2>1 DEF OpenCalls
  <2> QED BY <1>1, <1>2, <2>2 DEF OpenSaved, OpenCalls
<1>3. CASE OpenReads(o)
  <2>1. \A state \in {State(o.path), Failure} : [o EXCEPT !.pc = "read", !.state = state] \in OpenCalls
    BY <1>1, StateIs, Empty DEF OpenCalls
  <2>2. \A state : LET next == [o EXCEPT !.pc = "read", !.state = state]
                   IN next.req = o.req /\ next.epoch = o.epoch /\ next.advance = o.advance
    BY <1>1 DEF OpenCalls
  <2>3. PICK state \in {State(o.path), Failure} : OpenMoves(o, [o EXCEPT !.pc = "read", !.state = state])
    BY <1>3 DEF OpenReads
  <2> QED BY <2>1, <2>2, <2>3
<1> QED BY <1>2, <1>3 DEF OpenSaveFails

LEMMA OpenTypes ==
  ASSUME MergeTypeOK, NEW o \in opens, OpenSaved(o) \/ OpenReads(o) \/ OpenSaveFails(o)
  PROVE  MergeTypeOK'
<1>1. o \in OpenCalls /\ o.path \in Paths
  BY DEF MergeTypeOK, OpenCalls
<1>2. opens' \in SUBSET OpenCalls /\ advancing' \in BOOLEAN
  <2>1. opens \in SUBSET OpenCalls /\ advancing \in BOOLEAN
    BY DEF MergeTypeOK
  <2>2. CASE OpenReturns(o)
    BY <2>1, <2>2 DEF OpenReturns
  <2>3. ASSUME NEW next \in OpenCalls, OpenMoves(o, next)
        PROVE  opens' \in SUBSET OpenCalls /\ advancing' \in BOOLEAN
    BY <2>1, <2>3 DEF OpenMoves
  <2> QED BY <2>2, <2>3, OpenGoesOn
<1>3. CASE OpenSaved(o)
  <2>1. world' \in [Paths -> Worlds]
    <3>1. CASE Changed(o.path, "editor", world[o.path].markers, world[o.path].conflict)
      <4>1. world[o.path].markers \in BOOLEAN /\ world[o.path].conflict \in Nat
        BY <1>1 DEF MergeTypeOK, Worlds
      <4> QED BY <1>1, <3>1, <4>1, ChangedIs
    <3>2. CASE UNCHANGED world
      BY <3>2 DEF MergeTypeOK
    <3> QED BY <1>3, <3>1, <3>2 DEF OpenSaved
  <2> QED BY <1>1, <1>2, <1>3, <2>1 DEF OpenSaved, MergeTypeOK
<1>4. CASE OpenReads(o) \/ OpenSaveFails(o)
  BY <1>2, <1>4 DEF OpenReads, OpenSaveFails, MergeTypeOK
<1> QED BY <1>3, <1>4

LEMMA InstallsIs ==
  ASSUME MergeTypeOK, NEW o \in opens, OpenInstalls(o)
  PROVE  \/ UNCHANGED <<session, reviewed>>
         \/ /\ Current(o) /\ session' \in Sessions /\ session'.path = o.path /\ session'.req = o.req
            /\ session'.src = o.state.src /\ ~session'.dirty /\ ~session'.reload /\ ~session'.applied
            /\ session'.src \in Versions /\ o.path \in Paths /\ Shows(o.path, session'.src)
<1>1. o \in OpenCalls /\ o.path \in Paths /\ o.req \in Nat /\ o.state \in States /\ o.queue \in SUBSET Paths
  BY DEF MergeTypeOK, OpenCalls
<1>2. CASE Current(o) /\ o.state.read /\ writes[o.path] = o.wrev /\ Resolvable(o.path, o.state)
  BY <1>1, <1>2, SessionOfIs, StatesAre DEF OpenInstalls
<1>3. CASE ~(Current(o) /\ o.state.read /\ writes[o.path] = o.wrev /\ Resolvable(o.path, o.state))
  BY <1>3 DEF OpenInstalls
<1> QED BY <1>2, <1>3

LEMMA ShowsTypes ==
  ASSUME MergeTypeOK, NEW p \in Paths, NEW src \in Versions, Shows(p, src)
  PROVE  /\ reviewed' \in [Paths -> SUBSET Versions] /\ src \in reviewed'[p]
         /\ \A q \in Paths : reviewed[q] \subseteq reviewed'[q]
BY DEF Shows, MergeTypeOK

LEMMA InstallTypes ==
  ASSUME MergeTypeOK, NEW o \in opens, OpenInstalls(o)
  PROVE  MergeTypeOK'
<1>1. session' \in Sessions /\ reviewed' \in [Paths -> SUBSET Versions]
  BY InstallsIs, ShowsTypes DEF MergeTypeOK
<1>2. opens' \in SUBSET OpenCalls /\ advancing' \in BOOLEAN
  BY DEF OpenInstalls, OpenReturns, MergeTypeOK, OpenCalls
<1> QED BY <1>1, <1>2 DEF OpenInstalls, MergeTypeOK

LEMMA DecidesIs ==
  ASSUME MergeTypeOK, ChecksFit, NEW chosen \in BOOLEAN, NEW keeps \in BOOLEAN, Decides(chosen, keeps)
  PROVE  Keeps /\ session'.reload = session.reload
BY DEF Decides, Keeps, MergeTypeOK, ChecksFit, IsSession, Sessions

LEMMA UserTypes ==
  ASSUME MergeTypeOK, ChecksFit,
         (\E chosen, keeps \in BOOLEAN : Decides(chosen, keeps)) \/ Closes \/ Notices \/ Reloads
  PROVE  MergeTypeOK'
<1>1. CASE \E chosen, keeps \in BOOLEAN : Decides(chosen, keeps)
  <2>1. session' \in Sessions
    BY <1>1, DecidesIs DEF Keeps
  <2> QED BY <1>1, <2>1 DEF Decides, sessionOnly, MergeTypeOK
<1>2. CASE Closes
  <2>1. session' \in Sessions /\ request' \in Nat /\ advancing' \in BOOLEAN
    <3>1. session' = NoSession /\ request' = request + 1 /\ advancing' = FALSE
      BY <1>2 DEF Closes
    <3>2. request \in Nat
      BY DEF MergeTypeOK
    <3>3. session' \in Sessions
      BY <3>1, Empty
    <3>4. request' \in Nat
      BY <3>1, <3>2
    <3> QED BY <3>1, <3>3, <3>4
  <2> QED BY <1>2, <2>1 DEF Closes, sessionOnly, MergeTypeOK
<1>3. CASE Notices
  <2>1. checks' \in SUBSET CheckCalls
    BY <1>3, WithCheckIs DEF Notices, MayCheck, MergeTypeOK
  <2> QED BY <1>3, <2>1 DEF Notices, sessionOnly, MergeTypeOK
<1>4. CASE Reloads
  <2>1. checks' \in SUBSET CheckCalls
    BY <1>4, WithCheckIs DEF Reloads, IsSession, MergeTypeOK
  <2>2. session' \in Sessions
    BY <1>4 DEF Reloads, MergeTypeOK, Sessions
  <2> QED BY <1>4, <2>1, <2>2, Counted DEF Reloads, sessionOnly, MergeTypeOK, Counters
<1> QED BY <1>1, <1>2, <1>3, <1>4

\* What a check that ends makes of the session: nothing, a new one read from
\* the disk, or the same one with another report.
LEMMA CheckEndsIs ==
  ASSUME MergeTypeOK, ChecksFit, NEW c \in checks, CheckEnds(c)
  PROVE  \/ /\ ~Live(c) /\ checks' = checks \ {c} /\ UNCHANGED <<request, session, reviewed>>
         \/ /\ Live(c) /\ Replaces(c) /\ session' \in Sessions /\ session'.path = c.path
            /\ session'.req = request + 1 /\ request' = request + 1 /\ session'.src = c.state.src
            /\ ~session'.dirty /\ ~session'.reload /\ ~session'.applied
            /\ session'.src \in Versions /\ c.path \in Paths /\ Shows(c.path, session'.src)
            /\ checks' \in {checks \ {c}, WithCheck(checks \ {c}, session', FALSE)}
         \/ /\ Live(c) /\ ~Replaces(c) /\ Keeps /\ (session.reload /\ ~c.force => session'.reload)
            /\ checks' = checks \ {c}
            /\ \/ UNCHANGED reviewed
               \/ (c.state.read /\ c.path \in Paths /\ Shows(c.path, c.state.src))
<1>1. c \in CheckCalls /\ c.path \in Paths /\ c.state \in States /\ c.force \in BOOLEAN
  BY DEF MergeTypeOK, CheckCalls
<1>2. CASE ~Live(c)
  BY <1>2 DEF CheckEnds
<1>3. CASE Live(c) /\ Replaces(c)
  <2>1. /\ request' = request + 1
        /\ session' = SessionOf(c.path, request + 1, c.state, session.queue)
        /\ Shows(c.path, c.state.src)
        /\ checks' \in {checks \ {c}, WithCheck(checks \ {c}, session', FALSE)}
    BY <1>3 DEF CheckEnds
  <2>2. c.state.read /\ session.queue \in SUBSET Paths /\ request + 1 \in Nat
    BY <1>3 DEF Replaces, MergeTypeOK, Sessions
  <2>3. /\ session' \in Sessions /\ session'.path = c.path /\ session'.req = request + 1
        /\ session'.src = c.state.src /\ ~session'.dirty /\ ~session'.reload /\ ~session'.applied
    BY <1>1, <2>1, <2>2, SessionOfIs
  <2>4. session'.src \in Versions
    BY <1>1, <2>2, <2>3, StatesAre
  <2> QED BY <1>1, <1>3, <2>1, <2>3, <2>4
<1>4. CASE Live(c) /\ ~Replaces(c)
  <2>1. /\ session' = [Verdict(c) EXCEPT !.reload = @ /\ ~c.force]
        /\ checks' = checks \ {c} /\ UNCHANGED request
        /\ IF session'.external = "worktree" THEN Shows(c.path, c.state.src) ELSE UNCHANGED reviewed
    BY <1>4 DEF CheckEnds
  <2>2. Reported(Verdict(c), session) /\ (Verdict(c).external = "worktree" => c.state.read)
    BY <1>1, VerdictIs DEF MergeTypeOK
  <2>3. /\ session' \in Sessions /\ session'.external = Verdict(c).external
        /\ session'.path = session.path /\ session'.req = session.req /\ session'.src = session.src
        /\ session'.dirty = session.dirty /\ session'.applied = session.applied
        /\ session.reload /\ ~c.force => session'.reload
    BY <1>1, <2>1, <2>2 DEF Reported, Sessions
  <2>4. Keeps
    BY <2>1, <2>3 DEF Keeps, MergeTypeOK, ChecksFit, IsSession
  <2> QED BY <1>1, <1>4, <2>1, <2>2, <2>3, <2>4
<1> QED BY <1>2, <1>3, <1>4

LEMMA CheckTypes ==
  ASSUME MergeTypeOK, ChecksFit, NEW c \in checks, CheckReads(c) \/ CheckEnds(c)
  PROVE  MergeTypeOK'
<1>1. c \in CheckCalls /\ c.path \in Paths /\ checks \in SUBSET CheckCalls
  BY DEF MergeTypeOK, CheckCalls
<1>2. CASE CheckReads(c)
  <2>1. \A state \in {State(c.path), Failure} : [c EXCEPT !.pc = "read", !.state = state] \in CheckCalls
    BY <1>1, StateIs, Empty DEF CheckCalls
  <2>2. checks' \in SUBSET CheckCalls
    BY <1>1, <1>2, <2>1 DEF CheckReads
  <2> QED BY <1>2, <2>2 DEF CheckReads, sessionOnly, MergeTypeOK
<1>3. CASE CheckEnds(c)
  <2>1. session' \in Sessions /\ request' \in Nat
    <3>1. request' \in {request, request + 1} /\ session' \in Sessions \cup {session}
      BY <1>3, CheckEndsIs DEF Keeps
    <3>2. request \in Nat /\ request + 1 \in Nat /\ session \in Sessions
      BY DEF MergeTypeOK
    <3> QED BY <3>1, <3>2
  <2>2. checks' \in SUBSET CheckCalls
    <3>1. \/ checks' = checks \ {c}
          \/ checks' = WithCheck(checks \ {c}, session', FALSE) /\ session'.path = c.path
      BY <1>3, CheckEndsIs
    <3>2. c.path # NoPath /\ checks \ {c} \in SUBSET CheckCalls
      BY <1>1, Empty
    <3>3. CASE checks' = checks \ {c}
      BY <3>2, <3>3
    <3>4. CASE checks' = WithCheck(checks \ {c}, session', FALSE) /\ session'.path = c.path
      BY <2>1, <3>2, <3>4, WithCheckIs
    <3> QED BY <3>1, <3>3, <3>4
  <2>3. reviewed' \in [Paths -> SUBSET Versions]
    <3>1. \/ UNCHANGED reviewed
          \/ \E src \in Versions : Shows(c.path, src)
      <4>1. c.state.read => c.state.src \in Versions
        BY <1>1, StatesAre DEF CheckCalls
      <4> QED BY <1>3, <4>1, CheckEndsIs
    <3> QED BY <1>1, <3>1, ShowsTypes DEF MergeTypeOK
  <2> QED BY <1>3, <2>1, <2>2, <2>3 DEF CheckEnds, sessionOnly, MergeTypeOK
<1> QED BY <1>2, <1>3

\* Where a finalize is, and what it holds.
LEMMA FinIs ==
  ASSUME MergeTypeOK
  PROVE  /\ fin \in Finalizes /\ fin.expected \in Versions /\ fin.queue \in SUBSET Paths
         /\ fin.pc # "idle" => fin.path \in Paths
         /\ \A pc \in {"lock", "write", "wrote", "refused", "rejected", "stage", "staged", "unstaged", "failed"} :
              /\ [fin EXCEPT !.pc = pc] \in Finalizes
              /\ [fin EXCEPT !.pc = pc].pc = pc /\ [fin EXCEPT !.pc = pc].path = fin.path
              /\ [fin EXCEPT !.pc = pc].expected = fin.expected /\ [fin EXCEPT !.pc = pc].ahead = fin.ahead
              /\ [fin EXCEPT !.pc = pc].epoch = fin.epoch /\ [fin EXCEPT !.pc = pc].applied = fin.applied
BY DEF MergeTypeOK, Finalizes

\* The finalize is started, from the view or from the confirmation.
LEMMA BeginTypes ==
  ASSUME MergeTypeOK, ChecksFit, IsSession, NEW expected \in Versions, Finalize(expected)
  PROVE  /\ session' \in Sessions /\ request' \in Nat /\ fin' \in Finalizes
         /\ fin'.pc # "idle" => fin'.path # NoPath
<1>1. session \in Sessions /\ request \in Nat /\ fin \in Finalizes /\ (fin.pc # "idle" => fin.path # NoPath)
  BY DEF MergeTypeOK
<1>2. CASE fin' = fin /\ ((Keeps /\ session' = session) \/ Drops)
  BY <1>1, <1>2, Empty DEF Keeps, Drops
<1>3. CASE fin' = Begun(expected) /\ Keeps
  BY <1>1, <1>3, BegunIs DEF Keeps, IsSession
<1> QED BY <1>2, <1>3, FinalizeIs

LEMMA StartTypes ==
  ASSUME MergeTypeOK, ChecksFit, FinStarts \/ OverStarts \/ OverReads
  PROVE  MergeTypeOK'
<1>1. CASE FinStarts
  <2>1. IsSession /\ Finalize(session.src) /\ session.src \in Versions
    BY <1>1 DEF FinStarts, MergeTypeOK, Sessions
  <2> QED BY <1>1, <2>1, BeginTypes, Counted DEF FinStarts, MergeTypeOK, Counters
<1>2. CASE OverStarts
  <2>1. over' \in OverCalls /\ over'.path # NoPath
    BY <1>2, Empty DEF OverStarts, IsSession, MergeTypeOK, Sessions, OverCalls
  <2> QED BY <1>2, <2>1, Counted DEF OverStarts, MergeTypeOK, Counters
<1>3. CASE OverReads
  <2>1. over.path \in Paths /\ over \in OverCalls
    BY <1>3 DEF OverReads, MergeTypeOK, OverCalls
  <2>2. \A state \in {State(over.path), Failure} :
          [over EXCEPT !.pc = "read", !.state = state] \in OverCalls /\ [over EXCEPT !.pc = "read", !.state = state].path # NoPath
    BY <2>1, StateIs, Empty DEF OverCalls
  <2>3. over' \in OverCalls /\ over'.path # NoPath
    BY <1>3, <2>2 DEF OverReads
  <2> QED BY <1>3, <2>3 DEF OverReads, MergeTypeOK
<1> QED BY <1>1, <1>2, <1>3

\* The confirmation goes on with the session it was asked for, or with none.
LEMMA ContinuesIs ==
  ASSUME MergeTypeOK, ChecksFit, OverContinues
  PROVE  \/ UNCHANGED <<request, session, fin, reread>>
         \/ Keeps /\ session'.reload = session.reload /\ UNCHANGED <<fin, reread>>
         \/ /\ IsSession /\ over.state.src \in Versions /\ Finalize(over.state.src)
            /\ reread' = [reread EXCEPT ![session.path] = @ \cup {over.state.src}]
<1> DEFINE state == over.state
           gone  == state.conflict = 0 \/ ~Resolvable(session.path, state)
           lost  == session.path # over.path \/ session.req # over.req \/ ~state.read
           moved == session.path = over.path /\ session.req = over.req /\ state.read
                    /\ (state.conflict # session.src[2] \/ gone)
<1>1. over.path # NoPath /\ state \in States /\ session \in Sessions
  BY DEF OverContinues, MergeTypeOK, OverCalls
<1>2. CASE lost
  BY <1>2 DEF OverContinues
<1>3. CASE ~lost /\ moved
  <2>1. PICK why \in {"conflict", "resolved"} : session' = Outdated(session, why)
    BY <1>3 DEF OverContinues
  <2>2. UNCHANGED <<request, fin, reread>>
    BY <1>3 DEF OverContinues
  <2> QED BY <1>1, <2>1, <2>2, OutdatedIs, ReportKeeps DEF Reported
<1>4. CASE ~lost /\ ~moved
  <2>1. IsSession /\ state.src \in Versions
    BY <1>1, <1>4, StatesAre DEF IsSession
  <2> QED BY <1>4, <2>1 DEF OverContinues
<1> QED BY <1>2, <1>3, <1>4

LEMMA ContinueTypes ==
  ASSUME MergeTypeOK, ChecksFit, OverContinues
  PROVE  MergeTypeOK'
<1>1. /\ session' \in Sessions /\ request' \in Nat /\ fin' \in Finalizes
      /\ fin'.pc # "idle" => fin'.path # NoPath
  BY ContinuesIs, BeginTypes DEF MergeTypeOK, Keeps
<1>2. reread' \in [Paths -> SUBSET Versions]
  <2>1. CASE UNCHANGED reread
    BY <2>1 DEF MergeTypeOK
  <2>2. CASE over.state.src \in Versions /\ reread' = [reread EXCEPT ![session.path] = @ \cup {over.state.src}]
    BY <2>2 DEF MergeTypeOK
  <2> QED BY <2>1, <2>2, ContinuesIs
<1> QED BY <1>1, <1>2, Empty DEF OverContinues, MergeTypeOK

LEMMA ClearTypes ==
  ASSUME MergeTypeOK, ChecksFit, ClearsCaptured \/ UNCHANGED <<session, request>>
  PROVE  session' \in Sessions /\ request' \in Nat
<1>1. session \in Sessions /\ request \in Nat
  BY DEF MergeTypeOK
<1>2. CASE Drops
  BY <1>2, Empty DEF Drops
<1>3. CASE UNCHANGED <<session, request>>
  BY <1>1, <1>3
<1> QED BY <1>2, <1>3, ClearsIs DEF Keeps

LEMMA OpTypes ==
  ASSUME MergeTypeOK, NEW held \in {"none", "other", "merge"}
  PROVE  /\ [held |-> held, epoch |-> epoch] \in [held : {"none", "other", "merge"}, epoch : Nat]
         /\ [op EXCEPT !.held = "none"] \in [held : {"none", "other", "merge"}, epoch : Nat]
BY DEF MergeTypeOK

LEMMA ChecksAfterTypes ==
  ASSUME MergeTypeOK, NEW s \in Sessions, NEW refused
  PROVE  ChecksAfter(s, refused) \in SUBSET CheckCalls
<1>1. CASE refused /\ MayCheck(s)
  BY <1>1, WithCheckIs DEF ChecksAfter, MayCheck, MergeTypeOK
<1>2. CASE ~(refused /\ MayCheck(s))
  BY <1>2 DEF ChecksAfter, MergeTypeOK
<1> QED BY <1>1, <1>2

FinFits(f) == f \in Finalizes /\ (f.pc # "idle" => f.path # NoPath)

LEMMA FinFitsIs ==
  ASSUME MergeTypeOK
  PROVE  /\ FinFits(fin) /\ FinFits(NoFin)
         /\ fin.path # NoPath =>
              \A pc \in {"lock", "write", "wrote", "refused", "rejected", "stage", "staged", "unstaged", "failed"} :
                FinFits([fin EXCEPT !.pc = pc])
BY FinIs, Empty DEF FinFits, MergeTypeOK

LEMMA FinLockTypes ==
  ASSUME MergeTypeOK, ChecksFit, FinFlushes \/ FinRejected \/ FinLocks
  PROVE  MergeTypeOK'
<1>1. CASE FinFlushes
  <2>1. [fin EXCEPT !.pc = "lock", !.ahead = saves[fin.path]] \in Finalizes
    <3>1. fin.path \in Paths
      BY <1>1, FinIs DEF FinFlushes
    <3> QED BY <3>1, FinIs, WorldIs DEF Finalizes
  <2>2. fin' \in Finalizes /\ (fin'.pc # "idle" => fin'.path # NoPath)
    <3>1. [fin EXCEPT !.pc = "lock", !.ahead = saves[fin.path]].path # NoPath
      BY <1>1, FinIs, Empty DEF FinFlushes, Finalizes
    <3>2. fin' \in {[fin EXCEPT !.pc = "lock", !.ahead = saves[fin.path]], NoFin}
      BY <1>1 DEF FinFlushes, FinEnds
    <3> QED BY <2>1, <3>1, <3>2, Empty
  <2> QED BY <1>1, <2>2 DEF FinFlushes, MergeTypeOK
<1>2. CASE FinRejected
  <2>1. session' \in Sessions /\ request' \in Nat
    BY <1>2, ClearTypes DEF FinRejected
  <2> QED BY <1>2, <2>1, Empty DEF FinRejected, FinEnds, MergeTypeOK
<1>3. CASE FinLocks
  <2>1. session' \in Sessions /\ request' \in Nat
    BY <1>3, ClearTypes DEF FinLocks
  <2>2. op' \in [held : {"none", "other", "merge"}, epoch : Nat]
    BY <1>3, OpTypes DEF FinLocks, MergeTypeOK
  <2>3. fin' = NoFin \/ (fin.path \in Paths /\ \E pc \in {"stage", "write"} : fin' = [fin EXCEPT !.pc = pc])
    BY <1>3, FinIs DEF FinLocks, FinEnds
  <2>4. fin' \in Finalizes /\ (fin'.pc # "idle" => fin'.path # NoPath)
    BY <2>3, FinFitsIs, Empty DEF FinFits
  <2> QED BY <1>3, <2>1, <2>2, <2>4 DEF FinLocks, MergeTypeOK
<1> QED BY <1>1, <1>2, <1>3

LEMMA FinWriteTypes ==
  ASSUME MergeTypeOK, FinWrites
  PROVE  MergeTypeOK'
<1>1. /\ fin.path \in Paths /\ fin.path # NoPath /\ world[fin.path].ver + 1 \in Nat
      /\ fin \in Finalizes /\ world \in [Paths -> Worlds] /\ fin.expected[2] \in Nat
  BY FinIs, WorldIs, Empty DEF FinWrites, MergeTypeOK, Versions
<1>2. CASE Changed(fin.path, "merge", FALSE, world[fin.path].conflict)
           /\ fin' = [fin EXCEPT !.pc = "wrote", !.expected = <<world[fin.path].ver + 1, @[2]>>]
  <2>1. <<world[fin.path].ver + 1, fin.expected[2]>> \in Versions
    BY <1>1 DEF Versions
  <2>2. fin' \in Finalizes /\ fin'.path = fin.path
    BY <1>1, <1>2, <2>1 DEF Finalizes
  <2>3. world' \in [Paths -> Worlds]
    BY <1>1, <1>2, ChangedIs, WorldIs
  <2> QED BY <1>1, <2>2, <2>3 DEF FinWrites, MergeTypeOK
<1>3. CASE UNCHANGED world /\ \E pc \in {"refused", "rejected"} : fin' = [fin EXCEPT !.pc = pc]
  BY <1>1, <1>3, FinIs DEF FinWrites, MergeTypeOK
<1> QED BY <1>2, <1>3 DEF FinWrites

\* A retry starts from what was written.
LEMMA WroteIs ==
  ASSUME MergeTypeOK, ChecksFit, FinWrote
  PROVE  \/ fin' = NoFin /\ op' = op /\ ((Keeps /\ session' = session) \/ Drops)
         \/ /\ Stays /\ \/ fin' = NoFin /\ op' = op
                        \/ /\ fin' = [fin EXCEPT !.pc = "stage"]
                           /\ op' = [held |-> "merge", epoch |-> epoch]
            /\ request' = request
            /\ \/ session' = session
               \/ /\ Ours /\ session.path = fin.path /\ session' \in Sessions
                  /\ session'.path = session.path /\ session'.req = session.req
                  /\ session'.src = fin.expected /\ session'.dirty = session.dirty
                  /\ session'.reload = session.reload
<1>1. /\ fin.path \in Paths /\ fin.expected \in Versions /\ session \in Sessions
      /\ writes[fin.path] + 1 \in Nat
  BY FinIs, WorldIs DEF FinWrote, MergeTypeOK
<1> DEFINE mixed == saves[fin.path] \/ tab[fin.path] = "dirty"
           whole == fin.path \in Sides
           retry == [session EXCEPT !.src = fin.expected, !.wrev = writes[fin.path] + 1,
                                    !.applied = whole]
<1> whole \in BOOLEAN
  OBVIOUS
<1> HIDE DEF whole
<1>2. /\ retry \in Sessions /\ retry.path = session.path /\ retry.req = session.req
      /\ retry.src = fin.expected /\ retry.dirty = session.dirty /\ retry.reload = session.reload
  BY <1>1 DEF Sessions
<1> HIDE DEF retry, mixed
<1>3. \/ fin' = NoFin /\ op' = op /\ (UNCHANGED <<request, session>> \/ ClearsCaptured)
      \/ /\ Stays /\ UNCHANGED request /\ session' = IF Ours THEN retry ELSE session
         /\ \/ fin' = NoFin /\ op' = op
            \/ /\ fin' = [fin EXCEPT !.pc = "stage"]
               /\ op' = [held |-> "merge", epoch |-> epoch]
  BY DEF FinWrote, FinEnds, retry, mixed, whole
<1>4. CASE fin' = NoFin /\ op' = op /\ (UNCHANGED <<request, session>> \/ ClearsCaptured)
  BY <1>4, ClearsIs, SameKeeps
<1>5. CASE /\ Stays /\ UNCHANGED request /\ session' = IF Ours THEN retry ELSE session
           /\ \/ fin' = NoFin /\ op' = op
              \/ /\ fin' = [fin EXCEPT !.pc = "stage"]
                 /\ op' = [held |-> "merge", epoch |-> epoch]
  BY <1>2, <1>5 DEF Ours
<1> QED BY <1>3, <1>4, <1>5

LEMMA FinWroteTypes ==
  ASSUME MergeTypeOK, ChecksFit, FinWrote
  PROVE  MergeTypeOK'
<1>1. fin.path \in Paths /\ session \in Sessions /\ request \in Nat
  BY FinIs DEF FinWrote, MergeTypeOK
<1>2. session' \in Sessions
  BY <1>1, WroteIs, Empty DEF Drops
<1>3. request' \in Nat
  BY <1>1, WroteIs DEF Drops, Keeps
<1>4. fin' \in Finalizes /\ (fin'.pc # "idle" => fin'.path # NoPath)
  <2>1. fin' \in {NoFin, [fin EXCEPT !.pc = "stage"]}
    BY WroteIs
  <2> QED BY <1>1, <2>1, FinFitsIs, Empty DEF FinFits
<1>5. op' \in [held : {"none", "other", "merge"}, epoch : Nat]
  BY WroteIs, OpTypes DEF MergeTypeOK
<1>6. writes' \in [Paths -> Nat]
  BY <1>1 DEF FinWrote, MergeTypeOK
<1> QED BY <1>2, <1>3, <1>4, <1>5, <1>6 DEF FinWrote, MergeTypeOK

LEMMA FinStageTypes ==
  ASSUME MergeTypeOK, FinStages
  PROVE  MergeTypeOK'
<1>1. fin.path \in Paths /\ fin.path # NoPath
  BY FinIs, Empty DEF FinStages
<1>2. fin' \in Finalizes /\ fin'.path = fin.path
  BY FinIs DEF FinStages
<1>3. world' \in [Paths -> Worlds]
  <2>1. [world EXCEPT ![fin.path].conflict = 0] \in [Paths -> Worlds]
    <3>1. [world[fin.path] EXCEPT !.conflict = 0] \in Worlds
      <4>1. world[fin.path] \in Worlds
        BY <1>1 DEF MergeTypeOK
      <4> QED BY <4>1 DEF Worlds
    <3> QED BY <3>1 DEF MergeTypeOK
  <2> QED BY <2>1 DEF FinStages, MergeTypeOK
<1> QED BY <1>1, <1>2, <1>3 DEF FinStages, MergeTypeOK

LEMMA FinEndTypes ==
  ASSUME MergeTypeOK, ChecksFit, FinRefused \/ FinUnstaged
  PROVE  MergeTypeOK'
<1>1. fin' = NoFin /\ op' \in [held : {"none", "other", "merge"}, epoch : Nat]
  BY OpTypes DEF FinRefused, FinUnstaged, FinEnds, ReleasesOp, MergeTypeOK
<1>2. session' \in Sessions /\ request' \in Nat
  BY ClearTypes DEF FinRefused, FinUnstaged
<1>3. checks' \in SUBSET CheckCalls
  <2>1. session \in Sessions
    BY DEF MergeTypeOK
  <2>2. CASE FinRefused
    BY <2>1, <2>2, ChecksAfterTypes DEF FinRefused
  <2>3. CASE FinUnstaged
    BY <1>2, <2>3, ChecksAfterTypes DEF FinUnstaged
  <2> QED BY <2>2, <2>3
<1> QED BY <1>1, <1>2, <1>3, Empty DEF FinRefused, FinUnstaged, MergeTypeOK

LEMMA StagedIs ==
  ASSUME MergeTypeOK, FinStaged
  PROVE  \/ UNCHANGED <<session, request, opens, advancing>>
         \/ FinCurrent /\ session' = NoSession /\ advancing' = FALSE /\ UNCHANGED <<request, opens>>
         \/ /\ FinCurrent /\ session' = NoSession /\ advancing' = TRUE /\ request' = request + 1
            /\ \E n \in OpenCalls : /\ n.req = request + 1 /\ n.epoch = epoch /\ n.advance
                                    /\ opens' = opens \cup {n}
<1> DEFINE remaining == fin.queue \ {fin.path}
<1>1. CASE ~FinCurrent
  BY <1>1 DEF FinStaged
<1>2. CASE FinCurrent /\ remaining = {}
  BY <1>2 DEF FinStaged
<1>3. CASE FinCurrent /\ remaining # {}
  <2>1. /\ session' = NoSession /\ advancing' = TRUE /\ request' = request + 1
        /\ \E next \in remaining : opens' = opens \cup {Asked(next, remaining, TRUE)}
    BY <1>3 DEF FinStaged
  <2>2. remaining \in SUBSET Paths
    BY FinIs
  <2> QED BY <1>3, <2>1, <2>2, AskedIs
<1> QED BY <1>1, <1>2, <1>3

LEMMA FinStagedTypes ==
  ASSUME MergeTypeOK, FinStaged
  PROVE  MergeTypeOK'
<1>1. fin' = NoFin /\ op' \in [held : {"none", "other", "merge"}, epoch : Nat]
  BY OpTypes DEF FinStaged, FinEnds, ReleasesOp, MergeTypeOK
<1>2. request \in Nat /\ session \in Sessions /\ opens \in SUBSET OpenCalls /\ advancing \in BOOLEAN
  BY DEF MergeTypeOK
<1>3. session' \in Sessions
  BY <1>2, StagedIs, Empty
<1>4. request' \in Nat
  <2>1. request' \in {request, request + 1}
    BY StagedIs
  <2> QED BY <1>2, <2>1
<1>5. opens' \in SUBSET OpenCalls
  BY <1>2, StagedIs
<1>6. advancing' \in BOOLEAN
  BY <1>2, StagedIs
<1>7. tab' \in [Paths -> {"closed", "clean", "dirty"}]
  BY DEF FinStaged, MergeTypeOK
<1> QED BY <1>1, <1>3, <1>4, <1>5, <1>6, <1>7, Empty DEF FinStaged, MergeTypeOK

LEMMA TypesAreKept ==
  ASSUME MergeTypeOK, ChecksFit, [Next]_vars
  PROVE  MergeTypeOK'
<1>1. ASSUME NEW p \in Paths, Outside(p) \/ TabOpens(p) \/ TabTypes(p) \/ TabSaves(p) \/ OpenStarts(p) \/ SaveRuns(p)
      PROVE  MergeTypeOK'
  BY <1>1, OutsideTypes, TabTypesAre, OpenStartTypes, SaveTypes
<1>2. ASSUME NEW o \in opens, OpenSaveFails(o) \/ OpenSaved(o) \/ OpenReads(o) \/ OpenInstalls(o)
      PROVE  MergeTypeOK'
  BY <1>2, OpenTypes, InstallTypes
<1>3. CASE OtherOpStarts \/ OtherOpEnds \/ Switch
  BY <1>3, OtherTypes
<1>4. CASE (\E chosen, keeps \in BOOLEAN : Decides(chosen, keeps)) \/ Closes \/ Notices \/ Reloads
  BY <1>4, UserTypes
<1>5. ASSUME NEW c \in checks, CheckReads(c) \/ CheckEnds(c)
      PROVE  MergeTypeOK'
  BY <1>5, CheckTypes
<1>6. CASE FinStarts \/ OverStarts \/ OverReads \/ OverContinues
  BY <1>6, StartTypes, ContinueTypes
<1>7. CASE FinFlushes \/ FinRejected \/ FinLocks \/ FinWrites
  BY <1>7, FinLockTypes, FinWriteTypes
<1>8. CASE FinRefused \/ FinWrote \/ FinStages \/ FinUnstaged \/ FinStaged
  BY <1>8, FinEndTypes, FinWroteTypes, FinStageTypes, FinStagedTypes
<1>9. CASE UNCHANGED vars
  BY <1>9 DEF vars, MergeTypeOK
<1> QED BY <1>1, <1>2, <1>3, <1>4, <1>5, <1>6, <1>7, <1>8, <1>9 DEF Next, Continues

-----------------------------------------------------------------------------
\* Requests.

OpensGoOn ==
  /\ \A n \in opens' : \E o \in opens : n.req = o.req /\ n.epoch = o.epoch
  /\ \A n, m \in opens' : n.req = m.req => n = m
ChecksGoOn == \A c \in checks' : (\E d \in checks : c.req = d.req) \/ (IsSession /\ c.req = session.req)

LEMMA RequestsStep ==
  ASSUME MergeTypeOK, RequestsFit, Keeps \/ Drops, fin'.epoch = 0, epoch' = epoch \/ session' = NoSession,
         OpensGoOn, ChecksGoOn
  PROVE  RequestsFit'
<1>1. request \in Nat /\ request' \in Nat /\ request' >= request
  BY DEF MergeTypeOK, Keeps, Drops
<1>2. \A o \in opens' : o.epoch = 0 /\ o.req <= request'
  <2> TAKE n \in opens'
  <2>1. PICK o \in opens : n.req = o.req /\ n.epoch = o.epoch
    BY DEF OpensGoOn
  <2>2. o.req \in Nat /\ o.req <= request /\ o.epoch = 0
    BY DEF MergeTypeOK, OpenCalls, RequestsFit
  <2> QED BY <1>1, <2>1, <2>2
<1>3. \A c \in checks' : c.req <= request' /\ \A o \in opens' : c.req # o.req
  <2> TAKE c \in checks'
  <2>1. CASE \E d \in checks : c.req = d.req
    <3>1. PICK d \in checks : c.req = d.req
      BY <2>1
    <3>2. d.req \in Nat /\ d.req <= request /\ \A o \in opens : d.req # o.req
      BY DEF MergeTypeOK, CheckCalls, RequestsFit
    <3> QED BY <1>1, <3>1, <3>2 DEF OpensGoOn
  <2>2. CASE IsSession /\ c.req = session.req
    <3>1. c.req = request /\ \A o \in opens : o.req # c.req
      BY <2>2 DEF RequestsFit
    <3> QED BY <1>1, <3>1 DEF OpensGoOn
  <2> QED BY <2>1, <2>2 DEF ChecksGoOn
<1>4. IsSession' => session'.req = request' /\ epoch' = 0 /\ \A o \in opens' : o.req # request'
  <2>1. CASE session' = NoSession
    BY <2>1, Empty DEF IsSession
  <2>2. CASE Keeps /\ epoch' = epoch
    BY <2>2 DEF Keeps, IsSession, RequestsFit, OpensGoOn
  <2> QED BY <2>1, <2>2 DEF Drops
<1> QED BY <1>2, <1>3, <1>4 DEF RequestsFit, OpensGoOn

LEMMA SameGoesOn ==
  ASSUME RequestsFit
  PROVE  /\ opens' \subseteq opens => OpensGoOn
         /\ checks' \subseteq checks => ChecksGoOn
BY DEF OpensGoOn, ChecksGoOn, RequestsFit

LEMMA CheckGoesOn ==
  ASSUME MergeTypeOK, NEW cs, cs \subseteq checks, NEW s \in Sessions, NEW force \in BOOLEAN, s.path # NoPath,
         IsSession, s.req = session.req, checks' = WithCheck(cs, s, force)
  PROVE  ChecksGoOn
<1>1. cs \in SUBSET CheckCalls
  BY DEF MergeTypeOK
<1> QED BY <1>1, WithCheckIs DEF ChecksGoOn

LEMMA ChecksAfterGoesOn ==
  ASSUME MergeTypeOK, NEW refused, NEW s \in Sessions, (s.path # NoPath) => s.path = session.path /\ s.req = session.req,
         checks' = ChecksAfter(s, refused)
  PROVE  ChecksGoOn
<1>1. CASE refused /\ MayCheck(s)
  BY <1>1, CheckGoesOn DEF ChecksAfter, MayCheck, IsSession
<1>2. CASE ~(refused /\ MayCheck(s))
  BY <1>2 DEF ChecksAfter, ChecksGoOn
<1> QED BY <1>1, <1>2

LEMMA OpenMovesOn ==
  ASSUME RequestsFit, NEW o \in opens,
         \/ OpenReturns(o)
         \/ \E next \in OpenCalls : /\ OpenMoves(o, next)
                                    /\ next.req = o.req /\ next.epoch = o.epoch /\ next.advance = o.advance
  PROVE  OpensGoOn
<1>1. CASE OpenReturns(o)
  BY <1>1, SameGoesOn DEF OpenReturns
<1>2. ASSUME NEW next \in OpenCalls, OpenMoves(o, next), next.req = o.req, next.epoch = o.epoch
      PROVE  OpensGoOn
  BY <1>2 DEF OpenMoves, OpensGoOn, RequestsFit
<1> QED BY <1>1, <1>2

\* The steps of the world, the tabs, the saves and the other operations.
LEMMA WorldRequests ==
  ASSUME MergeTypeOK, RequestsFit, ChecksFit, NEW p \in Paths,
         Outside(p) \/ TabOpens(p) \/ TabTypes(p) \/ TabSaves(p) \/ SaveRuns(p)
  PROVE  RequestsFit'
<1>1. UNCHANGED <<epoch, request, session, opens, checks>>
  BY DEF Outside, TabOpens, TabTypes, TabSaves, SaveRuns
<1>2. fin'.epoch = 0
  <2>1. fin' \in {fin, [fin EXCEPT !.ahead = FALSE], [fin EXCEPT !.pc = "rejected"]}
    BY DEF Outside, TabOpens, TabTypes, TabSaves, SaveRuns
  <2>2. fin.epoch = 0 /\ fin \in Finalizes
    BY DEF RequestsFit, MergeTypeOK
  <2> QED BY <2>1, <2>2 DEF Finalizes
<1> QED BY <1>1, <1>2, SameKeeps, SameGoesOn, RequestsStep

LEMMA OtherRequests ==
  ASSUME MergeTypeOK, RequestsFit, ChecksFit, OtherOpStarts \/ OtherOpEnds \/ Switch \/ OverStarts \/ OverReads
  PROVE  RequestsFit'
<1>1. UNCHANGED <<request, opens, checks, fin>> /\ fin.epoch = 0
  BY DEF OtherOpStarts, OtherOpEnds, Switch, OverStarts, OverReads, RequestsFit
<1>2. UNCHANGED <<session, epoch>> \/ session' = NoSession
  BY DEF OtherOpStarts, OtherOpEnds, Switch, OverStarts, OverReads
<1>3. Keeps \/ Drops
  BY <1>1, <1>2, SameKeeps DEF Drops, MergeTypeOK
<1> QED BY <1>1, <1>2, <1>3, SameGoesOn, RequestsStep

LEMMA OpenRequests ==
  ASSUME MergeTypeOK, RequestsFit, ChecksFit, NEW o \in opens, OpenSaveFails(o) \/ OpenSaved(o) \/ OpenReads(o)
  PROVE  RequestsFit'
<1>1. UNCHANGED <<epoch, request, session, checks, fin>> /\ fin.epoch = 0
  BY DEF OpenSaveFails, OpenSaved, OpenReads, RequestsFit
<1>2. OpensGoOn
  BY OpenGoesOn, OpenMovesOn
<1> QED BY <1>1, <1>2, SameKeeps, SameGoesOn, RequestsStep

\* A new request has a number no call in flight has.
LEMMA AskRequests ==
  ASSUME MergeTypeOK, RequestsFit, epoch = 0, session' = NoSession, UNCHANGED <<epoch, checks>>, fin'.epoch = 0,
         NEW n \in OpenCalls, n.req = request + 1, n.epoch = epoch, opens' = opens \cup {n}, request' = request + 1
  PROVE  RequestsFit'
<1>1. request \in Nat /\ (\A o \in opens : o.req \in Nat) /\ (\A c \in checks : c.req \in Nat)
  BY DEF MergeTypeOK, OpenCalls, CheckCalls
<1>2. ~IsSession'
  BY Empty DEF IsSession
<1> QED BY <1>1, <1>2 DEF RequestsFit

LEMMA OpenStartRequests ==
  ASSUME MergeTypeOK, RequestsFit, ChecksFit, NEW p \in Paths, OpenStarts(p)
  PROVE  RequestsFit'
<1> DEFINE n == Asked(p, Paths, FALSE)
<1>1. n \in OpenCalls /\ n.req = request + 1 /\ n.epoch = epoch
  BY AskedIs
<1> HIDE DEF n
<1>2. /\ epoch = 0 /\ UNCHANGED <<epoch, checks, fin, session>> /\ request' = request + 1
      /\ opens' = opens \cup {n} /\ ~IsSession
  BY DEF OpenStarts, n
<1>3. request \in Nat /\ (\A o \in opens : o.req \in Nat) /\ (\A c \in checks : c.req \in Nat)
  BY DEF MergeTypeOK, OpenCalls, CheckCalls
<1> QED BY <1>1, <1>2, <1>3 DEF RequestsFit, IsSession

LEMMA InstallRequests ==
  ASSUME MergeTypeOK, RequestsFit, ChecksFit, NEW o \in opens, OpenInstalls(o)
  PROVE  RequestsFit'
<1>1. opens' = opens \ {o} /\ UNCHANGED <<epoch, request, checks, fin>>
  BY DEF OpenInstalls, OpenReturns
<1>2. CASE UNCHANGED session
  BY <1>1, <1>2, SameKeeps, SameGoesOn, RequestsStep DEF RequestsFit
<1>3. CASE Current(o) /\ session'.req = o.req
  BY <1>1, <1>3 DEF RequestsFit, Current
<1> QED BY <1>2, <1>3, InstallsIs

LEMMA ReloadsIs ==
  ASSUME MergeTypeOK, ChecksFit, Reloads
  PROVE  /\ Keeps /\ session'.reload /\ session' \in Sessions
         /\ checks' = WithCheck(checks, session, TRUE) /\ session.path # NoPath
BY DEF Reloads, Keeps, IsSession, MergeTypeOK, Sessions, ChecksFit

LEMMA UserRequests ==
  ASSUME MergeTypeOK, RequestsFit, ChecksFit,
         (\E chosen, keeps \in BOOLEAN : Decides(chosen, keeps)) \/ Closes \/ Notices \/ Reloads
  PROVE  RequestsFit'
<1>1. UNCHANGED <<epoch, opens, fin>> /\ fin.epoch = 0 /\ session \in Sessions
  BY DEF Decides, Closes, Notices, Reloads, sessionOnly, RequestsFit, MergeTypeOK
<1>2. CASE \E chosen, keeps \in BOOLEAN : Decides(chosen, keeps)
  <2>1. Keeps /\ UNCHANGED checks
    BY <1>2, DecidesIs DEF Decides
  <2> QED BY <1>1, <2>1, SameGoesOn, RequestsStep
<1>3. CASE Closes
  <2>1. Drops /\ UNCHANGED checks
    BY <1>3 DEF Closes, Drops, MergeTypeOK
  <2> QED BY <1>1, <2>1, SameGoesOn, RequestsStep
<1>4. CASE Notices
  <2>1. /\ checks' = WithCheck(checks, session, FALSE) /\ session.path # NoPath
        /\ UNCHANGED <<session, request>>
    BY <1>4 DEF Notices, MayCheck
  <2>2. ChecksGoOn
    BY <1>1, <2>1, CheckGoesOn DEF IsSession
  <2> QED BY <1>1, <2>1, <2>2, SameKeeps, SameGoesOn, RequestsStep
<1>5. CASE Reloads
  <2>1. ChecksGoOn
    BY <1>1, <1>5, ReloadsIs, CheckGoesOn DEF IsSession
  <2> QED BY <1>1, <1>5, <2>1, ReloadsIs, SameGoesOn, RequestsStep
<1> QED BY <1>2, <1>3, <1>4, <1>5

LEMMA CheckRequests ==
  ASSUME MergeTypeOK, RequestsFit, ChecksFit, NEW c \in checks, CheckReads(c) \/ CheckEnds(c)
  PROVE  RequestsFit'
<1>1. UNCHANGED <<epoch, opens, fin>> /\ fin.epoch = 0
  BY DEF CheckReads, CheckEnds, sessionOnly, RequestsFit
<1>2. CASE CheckReads(c)
  <2>1. UNCHANGED <<session, request>>
    BY <1>2 DEF CheckReads, sessionOnly
  <2>2. ChecksGoOn
    BY <1>2 DEF CheckReads, ChecksGoOn, MergeTypeOK, CheckCalls
  <2> QED BY <1>1, <2>1, <2>2, SameKeeps, SameGoesOn, RequestsStep
<1>3. CASE CheckEnds(c) /\ checks' = checks \ {c} /\ (Keeps \/ UNCHANGED <<session, request>>)
  BY <1>1, <1>3, SameKeeps, SameGoesOn, RequestsStep
<1>4. CASE /\ CheckEnds(c) /\ Live(c) /\ session' \in Sessions /\ session'.path = c.path /\ c.path \in Paths
           /\ session'.req = request + 1 /\ request' = request + 1
           /\ checks' \in {checks \ {c}, WithCheck(checks \ {c}, session', FALSE)}
  <2>1. IsSession /\ epoch = 0 /\ request \in Nat /\ session'.path # NoPath /\ checks \ {c} \in SUBSET CheckCalls
    BY <1>4, Empty DEF Live, IsSession, RequestsFit, MergeTypeOK
  <2>2. \A o \in opens : o.req \in Nat /\ o.req <= request
    BY DEF RequestsFit, MergeTypeOK, OpenCalls
  <2>3. \A d \in checks' : d.req = request' \/ \E e \in checks : d.req = e.req
    <3>1. CASE checks' = checks \ {c}
      BY <3>1
    <3>2. CASE checks' = WithCheck(checks \ {c}, session', FALSE)
      <4>1. \A d \in WithCheck(checks \ {c}, session', FALSE) :
              d.req = session'.req \/ \E e \in checks \ {c} : d.req = e.req
        <5> DEFINE cs == checks \ {c}
                   s  == session'
        <5>1. cs \in SUBSET CheckCalls /\ s \in Sessions /\ s.path # NoPath
          BY <1>4, <2>1
        <5> HIDE DEF cs, s
        <5>2. \A force \in BOOLEAN : \A d \in WithCheck(cs, s, force) :
                d.req = s.req \/ \E e \in cs : d.req = e.req
          BY <5>1, WithCheckIs
        <5>3. \A d \in WithCheck(cs, s, FALSE) : d.req = s.req \/ \E e \in cs : d.req = e.req
          BY <5>2
        <5> QED BY <5>3 DEF cs, s
      <4> QED BY <1>4, <3>2, <4>1
    <3> QED BY <1>4, <3>1, <3>2
  <2>4. \A e \in checks : e.req \in Nat /\ e.req <= request /\ \A o \in opens : e.req # o.req
    BY DEF RequestsFit, MergeTypeOK, CheckCalls
  <2>5. \A d \in checks' : d.req <= request' /\ \A o \in opens' : d.req # o.req
    <3> TAKE d \in checks'
    <3>1. CASE d.req = request'
      BY <1>1, <1>4, <2>1, <2>2, <3>1
    <3>2. ASSUME NEW e \in checks, d.req = e.req
          PROVE  d.req <= request' /\ \A o \in opens' : d.req # o.req
      BY <1>1, <1>4, <2>1, <2>4, <3>2
    <3> QED BY <2>3, <3>1, <3>2
  <2>6. \A o \in opens' : o.epoch = 0 /\ o.req <= request' /\ o.req # request'
    BY <1>1, <1>4, <2>1, <2>2 DEF RequestsFit
  <2> QED BY <1>1, <1>4, <2>1, <2>5, <2>6 DEF RequestsFit
<1> QED BY <1>2, <1>3, <1>4, CheckEndsIs

LEMMA BeginRequests ==
  ASSUME MergeTypeOK, RequestsFit, ChecksFit, FinStarts \/ OverContinues
  PROVE  RequestsFit'
<1>1. UNCHANGED <<epoch, opens, checks>> /\ fin.epoch = 0
  BY DEF FinStarts, OverContinues, RequestsFit
<1>2. ASSUME IsSession, NEW expected \in Versions, Finalize(expected)
      PROVE  (Keeps \/ Drops) /\ fin'.epoch = 0
  BY <1>1, <1>2, FinalizeIs, BegunIs DEF RequestsFit
<1>3. (Keeps \/ Drops) /\ fin'.epoch = 0
  <2>1. CASE FinStarts
    BY <1>2, <2>1 DEF FinStarts, MergeTypeOK, Sessions
  <2>2. CASE OverContinues
    BY <1>1, <1>2, <2>2, ContinuesIs, SameKeeps
  <2> QED BY <2>1, <2>2
<1> QED BY <1>1, <1>3, SameGoesOn, RequestsStep

LEMMA FinRequests ==
  ASSUME MergeTypeOK, RequestsFit, ChecksFit, FinFlushes \/ FinRejected \/ FinLocks \/ FinWrites \/ FinWrote \/ FinStages
  PROVE  RequestsFit'
<1>1. UNCHANGED <<epoch, opens, checks>> /\ fin.epoch = 0 /\ fin \in Finalizes
  BY DEF FinFlushes, FinRejected, FinLocks, FinWrites, FinWrote, FinStages, RequestsFit, MergeTypeOK
<1>2. fin'.epoch = 0
  <2>1. CASE FinFlushes
    BY <1>1, <2>1, Empty DEF FinFlushes, FinEnds, Finalizes
  <2>2. CASE FinWrites
    BY <1>1, <2>2 DEF FinWrites, Finalizes
  <2>3. CASE FinRejected \/ FinLocks \/ FinWrote \/ FinStages
    <3>1. \/ fin' = NoFin
          \/ \E pc \in {"write", "stage", "staged", "unstaged", "failed"} : fin' = [fin EXCEPT !.pc = pc]
      BY <2>3 DEF FinRejected, FinLocks, FinWrote, FinStages, FinEnds
    <3>2. ASSUME NEW pc \in {"write", "stage", "staged", "unstaged", "failed"}, fin' = [fin EXCEPT !.pc = pc]
          PROVE  fin'.epoch = 0
      BY <1>1, <3>2 DEF Finalizes
    <3>3. CASE fin' = NoFin
      BY <3>3, Empty
    <3> QED BY <3>1, <3>2, <3>3
  <2> QED BY <2>1, <2>2, <2>3
<1>3. CASE FinFlushes \/ FinRejected \/ FinLocks \/ FinWrites \/ FinStages
  <2>1. ClearsCaptured \/ UNCHANGED <<session, request>>
    BY <1>3 DEF FinFlushes, FinRejected, FinLocks, FinWrites, FinStages
  <2>2. Keeps \/ Drops
    BY <2>1, ClearsIs, SameKeeps
  <2> QED BY <1>1, <1>2, <2>2, SameGoesOn, RequestsStep
<1>4. CASE FinWrote
  <2>1. CASE Keeps \/ Drops
    BY <1>1, <1>2, <2>1, SameGoesOn, RequestsStep
  <2>2. CASE UNCHANGED request /\ session'.path = session.path /\ session'.req = session.req
    BY <1>1, <1>2, <2>2 DEF RequestsFit, IsSession
  <2> QED BY <1>4, <2>1, <2>2, WroteIs
<1> QED BY <1>3, <1>4

LEMMA FinEndRequests ==
  ASSUME MergeTypeOK, RequestsFit, ChecksFit, FinRefused \/ FinUnstaged \/ FinStaged
  PROVE  RequestsFit'
<1>1. UNCHANGED epoch /\ fin'.epoch = 0
  BY Empty DEF FinRefused, FinUnstaged, FinStaged, FinEnds
<1>2. CASE FinRefused
  <2>1. UNCHANGED <<session, request, opens>> /\ checks' = ChecksAfter(session, TRUE) /\ session \in Sessions
    BY <1>2 DEF FinRefused, MergeTypeOK
  <2>2. ChecksGoOn
    BY <2>1, ChecksAfterGoesOn
  <2> QED BY <1>1, <2>1, <2>2, SameKeeps, SameGoesOn, RequestsStep
<1>3. CASE FinUnstaged
  <2>1. UNCHANGED opens /\ checks' = ChecksAfter(session', fin.pc = "unstaged" /\ Stays)
    BY <1>3 DEF FinUnstaged
  <2>2. Keeps \/ Drops
    BY <1>3, ClearsIs, SameKeeps DEF FinUnstaged
  <2>3. session' \in Sessions /\ (session'.path # NoPath => session'.path = session.path /\ session'.req = session.req)
    BY <2>2, Empty DEF Keeps, Drops
  <2>4. ChecksGoOn
    BY <2>1, <2>3, ChecksAfterGoesOn
  <2> QED BY <1>1, <2>1, <2>2, <2>4, SameGoesOn, RequestsStep
<1>4. CASE FinStaged
  <2>1. UNCHANGED checks /\ (FinCurrent => epoch = 0)
    BY <1>4 DEF FinStaged, FinCurrent, Stays, RequestsFit
  <2>2. CASE UNCHANGED <<session, request, opens>>
    BY <1>1, <2>1, <2>2, SameKeeps, SameGoesOn, RequestsStep
  <2>3. CASE session' = NoSession /\ UNCHANGED <<request, opens>>
    <3>1. Drops
      BY <2>3 DEF Drops, MergeTypeOK
    <3> QED BY <1>1, <2>1, <2>3, <3>1, SameGoesOn, RequestsStep
  <2>4. ASSUME FinCurrent, session' = NoSession, request' = request + 1,
               NEW n \in OpenCalls, n.req = request + 1, n.epoch = epoch, opens' = opens \cup {n}
        PROVE  RequestsFit'
    BY <1>1, <2>1, <2>4, AskRequests
  <2> QED BY <1>4, <2>2, <2>3, <2>4, StagedIs
<1> QED BY <1>2, <1>3, <1>4

LEMMA RequestsAreKept ==
  ASSUME MergeTypeOK, RequestsFit, ChecksFit, [Next]_vars
  PROVE  RequestsFit'
<1>1. ASSUME NEW p \in Paths, Outside(p) \/ TabOpens(p) \/ TabTypes(p) \/ TabSaves(p) \/ OpenStarts(p) \/ SaveRuns(p)
      PROVE  RequestsFit'
  BY <1>1, WorldRequests, OpenStartRequests
<1>2. ASSUME NEW o \in opens, OpenSaveFails(o) \/ OpenSaved(o) \/ OpenReads(o) \/ OpenInstalls(o)
      PROVE  RequestsFit'
  BY <1>2, OpenRequests, InstallRequests
<1>3. CASE OtherOpStarts \/ OtherOpEnds \/ Switch \/ OverStarts \/ OverReads
  BY <1>3, OtherRequests
<1>4. CASE (\E chosen, keeps \in BOOLEAN : Decides(chosen, keeps)) \/ Closes \/ Notices \/ Reloads
  BY <1>4, UserRequests
<1>5. ASSUME NEW c \in checks, CheckReads(c) \/ CheckEnds(c)
      PROVE  RequestsFit'
  BY <1>5, CheckRequests
<1>6. CASE FinStarts \/ OverContinues
  BY <1>6, BeginRequests
<1>7. CASE FinFlushes \/ FinRejected \/ FinLocks \/ FinWrites \/ FinWrote \/ FinStages
  BY <1>7, FinRequests
<1>8. CASE FinRefused \/ FinUnstaged \/ FinStaged
  BY <1>8, FinEndRequests
<1>9. CASE UNCHANGED vars
  BY <1>9 DEF vars, RequestsFit, IsSession
<1> QED BY <1>1, <1>2, <1>3, <1>4, <1>5, <1>6, <1>7, <1>8, <1>9 DEF Next, Continues

-----------------------------------------------------------------------------
\* The operation a finalize holds.

LEMMA OpIsKept ==
  ASSUME MergeTypeOK, RequestsFit, OpFits, ChecksFit, [Next]_vars
  PROVE  OpFits'
<1>1. /\ fin \in Finalizes /\ fin.ahead \in BOOLEAN /\ op \in [held : {"none", "other", "merge"}, epoch : Nat]
      /\ \A p \in Paths : saves[p] \in BOOLEAN
  BY DEF MergeTypeOK, Finalizes
<1>2. CASE UNCHANGED <<op, fin, epoch>>
  BY <1>2 DEF OpFits
<1>3. ASSUME NEW p \in Paths, SaveRuns(p)
      PROVE  OpFits'
  <2>1. UNCHANGED <<op, epoch>> /\ (fin.pc \in {"stage", "staged"} => fin.path # p)
    BY <1>3 DEF SaveRuns, Locked
  <2>2. CASE fin' = fin
    BY <2>1, <2>2 DEF OpFits
  <2>3. CASE fin.path = p /\ fin' = [fin EXCEPT !.ahead = FALSE]
    BY <1>1, <2>1, <2>3 DEF OpFits, Finalizes
  <2>4. CASE fin.path = p /\ fin.ahead /\ fin' = [fin EXCEPT !.pc = "rejected"]
    BY <1>1, <2>1, <2>4 DEF OpFits, Finalizes
  <2> QED BY <1>3, <2>2, <2>3, <2>4 DEF SaveRuns
<1>4. CASE OtherOpStarts \/ OtherOpEnds \/ Switch
  <2>1. op'.held # "merge" /\ fin' = fin
    BY <1>1, <1>4 DEF OtherOpStarts, OtherOpEnds, Switch
  <2> QED BY <2>1 DEF OpFits
<1>5. CASE FinStarts \/ OverContinues
  <2>1. UNCHANGED <<op, epoch>>
    BY <1>5 DEF FinStarts, OverContinues
  <2>2. fin' = fin \/ (op.held = "none" /\ fin'.pc = "flush")
    <3>1. ASSUME IsSession, NEW expected \in Versions, Finalize(expected)
          PROVE  fin' = fin \/ (op.held = "none" /\ fin'.pc = "flush")
      BY <3>1, FinalizeIs, BegunIs
    <3> QED BY <1>5, <3>1, ContinuesIs DEF FinStarts, MergeTypeOK, Sessions
  <2> QED BY <2>1, <2>2 DEF OpFits
<1>6. CASE FinFlushes
  <2>1. UNCHANGED <<op, epoch>> /\ op.held # "merge"
    BY <1>6 DEF FinFlushes, OpFits
  <2>2. fin' = NoFin \/ (fin'.pc = "lock")
    BY <1>1, <1>6 DEF FinFlushes, FinEnds, Finalizes
  <2> QED BY <2>1, <2>2, Empty DEF OpFits
<1>7. CASE FinRejected \/ FinRefused
  <2>1. fin' = NoFin /\ UNCHANGED op /\ op.held # "merge"
    BY <1>7 DEF FinRejected, FinRefused, FinEnds, OpFits
  <2> QED BY <2>1, Empty DEF OpFits
<1>8. CASE FinLocks
  <2>1. ~fin.ahead /\ op.held # "merge" /\ epoch' = epoch
    BY <1>8 DEF FinLocks, OpFits
  <2>2. CASE fin' = NoFin /\ op' = op
    BY <2>1, <2>2, Empty DEF OpFits
  <2>3. CASE fin' = [fin EXCEPT !.pc = "stage"] /\ fin.epoch = epoch
    <3>1. fin'.pc = "stage" /\ fin'.epoch = epoch /\ ~fin'.ahead
      BY <1>1, <2>1, <2>3 DEF Finalizes
    <3> QED BY <2>1, <3>1 DEF OpFits
  <2>4. CASE fin' = [fin EXCEPT !.pc = "write"] /\ op' = op
    <3>1. ~fin'.ahead
      BY <1>1, <2>1, <2>4 DEF Finalizes
    <3> QED BY <2>1, <2>4, <3>1 DEF OpFits
  <2>5. \/ fin' = NoFin /\ op' = op
        \/ fin' = [fin EXCEPT !.pc = "stage"] /\ FinCurrent
        \/ fin' = [fin EXCEPT !.pc = "write"] /\ op' = op
    BY <1>8 DEF FinLocks, FinEnds
  <2> QED BY <2>2, <2>3, <2>4, <2>5 DEF FinCurrent, Stays
<1>9. CASE FinWrites
  <2>1. ~fin.ahead /\ op.held # "merge" /\ op' = op
    BY <1>9 DEF FinWrites, OpFits
  <2>2. ~fin'.ahead
    BY <1>1, <1>9, <2>1 DEF FinWrites, Finalizes
  <2> QED BY <2>1, <2>2 DEF OpFits
<1>10. CASE FinWrote
  <2>1. ~fin.ahead /\ op.held # "merge" /\ epoch' = epoch
    BY <1>10 DEF FinWrote, OpFits
  <2>2. CASE fin' = NoFin /\ op' = op
    BY <2>1, <2>2, Empty DEF OpFits
  <2>3. CASE fin' = [fin EXCEPT !.pc = "stage"] /\ Stays
    <3>1. fin'.pc = "stage" /\ fin'.epoch = epoch /\ ~fin'.ahead
      BY <1>1, <2>1, <2>3 DEF Finalizes, Stays
    <3> QED BY <2>1, <3>1 DEF OpFits
  <2> QED BY <1>10, <2>2, <2>3, WroteIs
<1>11. CASE FinStages
  <2>1. UNCHANGED <<op, epoch>> /\ ~fin.ahead
    BY <1>11 DEF FinStages, OpFits
  <2>2. fin'.pc \in {"staged", "unstaged", "failed"} /\ fin'.epoch = fin.epoch /\ fin'.ahead = fin.ahead
    BY <1>11, FinIs DEF FinStages
  <2> QED BY <2>1, <2>2 DEF OpFits
<1>12. CASE FinUnstaged \/ FinStaged
  <2>1. fin' = NoFin /\ ReleasesOp
    BY <1>12 DEF FinUnstaged, FinStaged, FinEnds
  <2>2. op'.held # "merge"
    BY <1>1, <2>1 DEF ReleasesOp, OpFits, Stays
  <2> QED BY <2>1, <2>2, Empty DEF OpFits
<1>13. ASSUME NEW p \in Paths, Outside(p) \/ TabOpens(p) \/ TabTypes(p) \/ TabSaves(p) \/ OpenStarts(p)
       PROVE  UNCHANGED <<op, fin, epoch>>
  BY <1>13 DEF Outside, TabOpens, TabTypes, TabSaves, OpenStarts
<1>14. ASSUME NEW o \in opens, OpenSaveFails(o) \/ OpenSaved(o) \/ OpenReads(o) \/ OpenInstalls(o)
       PROVE  UNCHANGED <<op, fin, epoch>>
  BY <1>14 DEF OpenSaveFails, OpenSaved, OpenReads, OpenInstalls
<1>15. ASSUME NEW c \in checks, CheckReads(c) \/ CheckEnds(c)
       PROVE  UNCHANGED <<op, fin, epoch>>
  BY <1>15 DEF CheckReads, CheckEnds, sessionOnly
<1>16. CASE (\E chosen, keeps \in BOOLEAN : Decides(chosen, keeps)) \/ Closes \/ Notices \/ Reloads \/ OverStarts \/ OverReads
  <2>1. UNCHANGED <<op, fin, epoch>>
    BY <1>16 DEF Decides, Closes, Notices, Reloads, OverStarts, OverReads, sessionOnly
  <2> QED BY <1>2, <2>1
<1>17. CASE UNCHANGED vars
  BY <1>2, <1>17 DEF vars
<1> QED BY <1>2, <1>3, <1>4, <1>5, <1>6, <1>7, <1>8, <1>9, <1>10, <1>11, <1>12, <1>13, <1>14, <1>15, <1>16, <1>17
        DEF Next, Continues

-----------------------------------------------------------------------------
\* The advance to the next path is a call in flight.

LEMMA AdvanceIsKept ==
  ASSUME MergeTypeOK, Advances, [Next]_vars
  PROVE  Advances'
<1>1. CASE UNCHANGED <<advancing, opens>>
  BY <1>1 DEF Advances
<1>2. ASSUME NEW o \in opens, OpenReturns(o)
      PROVE  Advances'
  BY <1>2 DEF OpenReturns, Advances
<1>3. ASSUME NEW o \in opens, NEW next, OpenMoves(o, next), next.advance = o.advance
      PROVE  Advances'
  BY <1>3 DEF OpenMoves, Advances
<1>4. ASSUME NEW o \in opens, OpenSaveFails(o) \/ OpenSaved(o) \/ OpenReads(o) \/ OpenInstalls(o)
      PROVE  Advances'
  <2>1. CASE OpenInstalls(o)
    BY <1>2, <2>1 DEF OpenInstalls
  <2> QED BY <1>2, <1>3, <1>4, <2>1, OpenGoesOn
<1>5. CASE Closes \/ Switch
  BY <1>5 DEF Closes, Switch, Advances
<1>6. ASSUME NEW p \in Paths, OpenStarts(p)
      PROVE  Advances'
  BY <1>6 DEF OpenStarts, Advances
<1>7. CASE FinStaged
  BY <1>1, <1>7, StagedIs DEF Advances
<1>8. ASSUME NEW p \in Paths, Outside(p) \/ TabOpens(p) \/ TabTypes(p) \/ TabSaves(p) \/ SaveRuns(p)
      PROVE  UNCHANGED <<advancing, opens>>
  BY <1>8 DEF Outside, TabOpens, TabTypes, TabSaves, SaveRuns
<1>9. ASSUME NEW c \in checks, CheckReads(c) \/ CheckEnds(c)
      PROVE  UNCHANGED <<advancing, opens>>
  BY <1>9 DEF CheckReads, CheckEnds, sessionOnly
<1>10. CASE (\E chosen, keeps \in BOOLEAN : Decides(chosen, keeps)) \/ Notices \/ Reloads \/ OverStarts \/ OverReads
  <2>1. UNCHANGED <<advancing, opens>>
    BY <1>10 DEF Decides, Notices, Reloads, OverStarts, OverReads, sessionOnly
  <2> QED BY <1>1, <2>1
<1>11. CASE OtherOpStarts \/ OtherOpEnds \/ FinStarts \/ OverContinues \/ FinFlushes \/ FinRejected \/ FinLocks
  <2>1. UNCHANGED <<advancing, opens>>
    BY <1>11 DEF OtherOpStarts, OtherOpEnds, FinStarts, OverContinues, FinFlushes, FinRejected, FinLocks
  <2> QED BY <1>1, <2>1
<1>12. CASE FinWrites \/ FinRefused \/ FinWrote \/ FinStages \/ FinUnstaged \/ UNCHANGED vars
  <2>1. UNCHANGED <<advancing, opens>>
    BY <1>12 DEF FinWrites, FinRefused, FinWrote, FinStages, FinUnstaged, vars
  <2> QED BY <1>1, <2>1
<1> QED BY <1>1, <1>4, <1>5, <1>6, <1>7, <1>8, <1>9, <1>10, <1>11, <1>12 DEF Next, Continues

-----------------------------------------------------------------------------
\* Only one check may still be applied.

LEMMA ChecksStep ==
  ASSUME MergeTypeOK, ChecksFit, checks' \subseteq checks, epoch' = epoch,
         session'.path = session.path, session'.req = session.req,
         session.reload => session'.reload, session'.dirty => session'.path # NoPath
  PROVE  ChecksFit'
<1>1. \A c \in checks' : Live(c)' => Live(c)
  BY DEF Live
<1> QED BY <1>1 DEF ChecksFit, IsSession

LEMMA ChecksSame ==
  ASSUME MergeTypeOK, ChecksFit, UNCHANGED <<checks, epoch, session>>
  PROVE  ChecksFit'
BY DEF ChecksFit, IsSession, Live

LEMMA NoneLives ==
  ASSUME checks' \subseteq checks, ChecksFit, \A c \in checks' : ~Live(c)', ~session'.dirty
  PROVE  ChecksFit'
BY DEF ChecksFit

LEMMA ChecksDrop ==
  ASSUME MergeTypeOK, ChecksFit, checks' \subseteq checks, session' = NoSession
  PROVE  ChecksFit'
<1>1. \A c \in checks' : c.path # NoPath
  BY Empty DEF MergeTypeOK, CheckCalls
<1>2. \A c \in checks' : ~Live(c)'
  BY <1>1, Empty DEF Live
<1> QED BY <1>2, Empty, NoneLives

LEMMA ChecksAgain ==
  ASSUME MergeTypeOK, NEW cs \in SUBSET CheckCalls, session' \in Sessions, session'.path # NoPath,
         NEW force \in BOOLEAN, force => session'.reload, checks' = WithCheck(cs, session', force)
  PROVE  ChecksFit'
<1> DEFINE s == session'
           new == CheckOf(s, force)
<1>1. s \in Sessions /\ s.path # NoPath
  OBVIOUS
<1> HIDE DEF s
<1>2. /\ new \in WithCheck(cs, s, force) /\ new.force = force
      /\ \A d \in WithCheck(cs, s, force) : d # new => d.stale
  BY <1>1, WithCheckIs
<1> HIDE DEF new
<1>3. checks' = WithCheck(cs, s, force)
  BY DEF s
<1>4. \A d \in checks' : d # new => d.stale /\ ~Live(d)'
  BY <1>2, <1>3 DEF Live
<1> QED BY <1>2, <1>3, <1>4 DEF ChecksFit, IsSession

LEMMA ChecksAfterFit ==
  ASSUME MergeTypeOK, ChecksFit, NEW refused, checks' = ChecksAfter(session', refused), epoch' = epoch,
         (session' = session) \/ session' = NoSession
  PROVE  ChecksFit'
<1>1. session' \in Sessions /\ checks \in SUBSET CheckCalls
  BY Empty DEF MergeTypeOK
<1>2. CASE refused /\ MayCheck(session')
  <2>1. \A force \in BOOLEAN : ~force /\ checks' = WithCheck(checks, session', force) => ChecksFit'
    BY <1>1, <1>2, ChecksAgain DEF MayCheck
  <2>2. checks' = WithCheck(checks, session', FALSE)
    BY <1>2 DEF ChecksAfter
  <2> QED BY <2>1, <2>2
<1>3. CASE ~(refused /\ MayCheck(session')) /\ session' = session
  <2>1. checks' = checks
    BY <1>3 DEF ChecksAfter
  <2> QED BY <1>3, <2>1, ChecksSame
<1>4. CASE ~(refused /\ MayCheck(session')) /\ session' = NoSession
  <2>1. checks' = checks
    BY <1>4 DEF ChecksAfter
  <2> QED BY <1>4, <2>1, ChecksDrop
<1> QED BY <1>2, <1>3, <1>4

LEMMA InstallChecks ==
  ASSUME MergeTypeOK, RequestsFit, ChecksFit, NEW o \in opens, OpenInstalls(o)
  PROVE  ChecksFit'
<1>1. UNCHANGED <<checks, epoch>>
  BY DEF OpenInstalls
<1>2. CASE UNCHANGED session
  BY <1>1, <1>2, ChecksSame
<1>3. CASE session'.req = o.req /\ ~session'.dirty
  <2>1. \A c \in checks' : ~Live(c)'
    BY <1>1, <1>3 DEF Live, RequestsFit
  <2> QED BY <1>1, <1>3, <2>1, NoneLives
<1> QED BY <1>2, <1>3, InstallsIs

LEMMA CheckChecks ==
  ASSUME MergeTypeOK, RequestsFit, ChecksFit, NEW c \in checks, CheckReads(c) \/ CheckEnds(c)
  PROVE  ChecksFit'
<1>1. epoch' = epoch /\ c \in CheckCalls /\ c.path # NoPath /\ checks \ {c} \in SUBSET CheckCalls
  BY Empty DEF CheckReads, CheckEnds, sessionOnly, MergeTypeOK, CheckCalls
<1>2. CASE CheckReads(c)
  <2>1. PICK n : /\ checks' = (checks \ {c}) \cup {n}
                 /\ n.stale = c.stale /\ n.force = c.force /\ n.path = c.path /\ n.req = c.req /\ n.epoch = c.epoch
    <3>1. PICK state \in {State(c.path), Failure} :
             checks' = (checks \ {c}) \cup {[c EXCEPT !.pc = "read", !.state = state]}
      BY <1>2 DEF CheckReads
    <3> DEFINE n == [c EXCEPT !.pc = "read", !.state = state]
    <3>2. n.stale = c.stale /\ n.force = c.force /\ n.path = c.path /\ n.req = c.req /\ n.epoch = c.epoch
      BY <1>1 DEF CheckCalls
    <3> HIDE DEF n
    <3> QED BY <3>1, <3>2 DEF n
  <2>2. UNCHANGED session
    BY <1>2 DEF CheckReads, sessionOnly
  <2>3. Live(n)' <=> Live(c)
    BY <1>1, <2>1, <2>2 DEF Live
  <2>4. \A d \in checks' : d # n => (d \in checks \ {c} /\ (Live(d)' <=> Live(d)))
    BY <1>1, <2>1, <2>2 DEF Live
  <2> QED BY <1>1, <2>1, <2>2, <2>3, <2>4 DEF ChecksFit, IsSession
<1>3. CASE checks' = checks \ {c} /\ UNCHANGED session
  BY <1>1, <1>3, ChecksStep DEF ChecksFit, IsSession
<1>4. CASE /\ Live(c) /\ Keeps /\ (session.reload /\ ~c.force => session'.reload) /\ checks' = checks \ {c}
  <2>1. CASE ~c.force
    BY <1>1, <1>4, <2>1, ChecksStep DEF Keeps
  <2>2. CASE c.force
    <3>1. \A d \in checks' : d.stale
      BY <1>4 DEF Live, ChecksFit
    <3>2. \A d \in checks' : ~Live(d)'
      BY <3>1 DEF Live
    <3> QED BY <1>4, <3>1, <3>2 DEF ChecksFit, IsSession, Keeps
  <2> QED BY <2>1, <2>2
<1>5. CASE /\ session'.req = request + 1 /\ ~session'.dirty /\ session' \in Sessions /\ session'.path = c.path
           /\ checks' \in {checks \ {c}, WithCheck(checks \ {c}, session', FALSE)}
  <2>1. CASE checks' = checks \ {c}
    <3>1. \A d \in checks' : d.req \in Nat /\ d.req <= request /\ request \in Nat
      BY <2>1 DEF RequestsFit, MergeTypeOK, CheckCalls
    <3>2. \A d \in checks' : ~Live(d)'
      BY <1>5, <3>1 DEF Live
    <3> QED BY <1>5, <2>1, <3>2, NoneLives
  <2>2. CASE checks' = WithCheck(checks \ {c}, session', FALSE)
    <3>1. \A force \in BOOLEAN : ~force /\ checks' = WithCheck(checks \ {c}, session', force) => ChecksFit'
      BY <1>1, <1>5, ChecksAgain
    <3> QED BY <2>2, <3>1
  <2> QED BY <1>5, <2>1, <2>2
<1> QED BY <1>2, <1>3, <1>4, <1>5, CheckEndsIs

LEMMA ChecksAreKept ==
  ASSUME MergeTypeOK, RequestsFit, ChecksFit, [Next]_vars
  PROVE  ChecksFit'
<1>0. ASSUME (Keeps /\ session' = session) \/ Drops, UNCHANGED <<checks, epoch>>
      PROVE  ChecksFit'
  BY <1>0, ChecksSame, ChecksDrop DEF Drops
<1>1. ASSUME NEW p \in Paths, Outside(p) \/ TabOpens(p) \/ TabTypes(p) \/ TabSaves(p) \/ SaveRuns(p) \/ OpenStarts(p)
      PROVE  ChecksFit'
  BY <1>1, ChecksSame DEF Outside, TabOpens, TabTypes, TabSaves, SaveRuns, OpenStarts
<1>2. ASSUME NEW o \in opens, OpenSaveFails(o) \/ OpenSaved(o) \/ OpenReads(o) \/ OpenInstalls(o)
      PROVE  ChecksFit'
  BY <1>2, ChecksSame, InstallChecks DEF OpenSaveFails, OpenSaved, OpenReads
<1>3. CASE OtherOpStarts \/ OtherOpEnds \/ OverStarts \/ OverReads \/ FinFlushes
  <2>1. UNCHANGED <<checks, epoch, session>>
    BY <1>3 DEF OtherOpStarts, OtherOpEnds, OverStarts, OverReads, FinFlushes
  <2> QED BY <2>1, ChecksSame
<1>4. CASE Switch \/ Closes
  <2>1. session' = NoSession /\ UNCHANGED checks
    BY <1>4 DEF Switch, Closes
  <2> QED BY <2>1, ChecksDrop
<1>5. ASSUME NEW chosen \in BOOLEAN, NEW keeps \in BOOLEAN, Decides(chosen, keeps)
      PROVE  ChecksFit'
  <2>1. UNCHANGED <<checks, epoch>>
    BY <1>5 DEF Decides, sessionOnly
  <2> QED BY <1>5, <2>1, DecidesIs, ChecksStep DEF Keeps
<1>6. CASE Notices
  <2>1. /\ session' = session /\ session \in Sessions /\ session.path # NoPath /\ checks \in SUBSET CheckCalls
        /\ checks' = WithCheck(checks, session', FALSE)
    BY <1>6 DEF Notices, MayCheck, MergeTypeOK
  <2>2. \A force \in BOOLEAN : ~force /\ checks' = WithCheck(checks, session', force) => ChecksFit'
    BY <2>1, ChecksAgain
  <2> QED BY <2>1, <2>2
<1>7. CASE Reloads
  <2>1. /\ session' \in Sessions /\ session'.path = session.path /\ session.path # NoPath /\ session'.reload
        /\ session'.req = session.req
        /\ checks \in SUBSET CheckCalls /\ checks' = WithCheck(checks, session, TRUE) /\ epoch' = epoch
    BY <1>7, ReloadsIs DEF MergeTypeOK, Keeps, Reloads, sessionOnly
  <2>2. WithCheck(checks, session, TRUE) = WithCheck(checks, session', TRUE)
    BY <2>1 DEF WithCheck, CheckOf
  <2>3. \A force \in BOOLEAN : force /\ checks' = WithCheck(checks, session', force) => ChecksFit'
    BY <2>1, ChecksAgain
  <2> QED BY <2>1, <2>2, <2>3
<1>8. ASSUME NEW c \in checks, CheckReads(c) \/ CheckEnds(c)
      PROVE  ChecksFit'
  BY <1>8, CheckChecks
<1>9. CASE FinStarts
  <2>1. IsSession /\ session.src \in Versions /\ Finalize(session.src) /\ UNCHANGED <<checks, epoch>>
    BY <1>9 DEF FinStarts, MergeTypeOK, Sessions
  <2> QED BY <1>0, <2>1, FinalizeIs
<1>10. CASE OverContinues
  <2>1. UNCHANGED <<checks, epoch>>
    BY <1>10 DEF OverContinues
  <2>2. CASE UNCHANGED <<request, session>>
    BY <2>1, <2>2, ChecksSame
  <2>3. CASE Keeps /\ session'.reload = session.reload
    BY <2>1, <2>3, ChecksStep DEF Keeps
  <2>4. CASE IsSession /\ over.state.src \in Versions /\ Finalize(over.state.src)
    BY <1>0, <2>1, <2>4, FinalizeIs
  <2> QED BY <1>10, <2>2, <2>3, <2>4, ContinuesIs
<1>11. CASE FinRejected \/ FinLocks \/ FinWrites \/ FinStages
  <2>1. UNCHANGED <<checks, epoch>> /\ (ClearsCaptured \/ UNCHANGED <<session, request>>)
    BY <1>11 DEF FinRejected, FinLocks, FinWrites, FinStages
  <2> QED BY <1>0, <2>1, ClearsIs, ChecksSame
<1>12. CASE FinRefused
  <2>1. session' = session /\ epoch' = epoch /\ checks' = ChecksAfter(session', TRUE)
    BY <1>12 DEF FinRefused
  <2> QED BY <2>1, ChecksAfterFit
<1>13. CASE FinWrote
  <2>1. UNCHANGED <<checks, epoch>>
    BY <1>13 DEF FinWrote
  <2>2. CASE (Keeps /\ session' = session) \/ Drops
    BY <1>0, <2>1, <2>2
  <2>3. CASE session' = session
    BY <2>1, <2>3, ChecksSame
  <2>4. CASE /\ Ours /\ session.path = fin.path /\ session'.path = session.path /\ session'.req = session.req
             /\ session'.dirty = session.dirty /\ session'.reload = session.reload
    BY <2>1, <2>4, ChecksStep DEF ChecksFit, IsSession
  <2> QED BY <1>13, <2>2, <2>3, <2>4, WroteIs
<1>14. CASE FinUnstaged
  <2>1. epoch' = epoch /\ checks' = ChecksAfter(session', fin.pc = "unstaged" /\ Stays)
    BY <1>14 DEF FinUnstaged
  <2>2. session' = session \/ session' = NoSession
    BY <1>14, ClearsIs DEF FinUnstaged, Drops
  <2> QED BY <2>1, <2>2, ChecksAfterFit
<1>15. CASE FinStaged
  <2>1. UNCHANGED <<checks, epoch>> /\ (session' = session \/ session' = NoSession)
    BY <1>15, StagedIs DEF FinStaged
  <2> QED BY <2>1, ChecksSame, ChecksDrop
<1>16. CASE UNCHANGED vars
  BY <1>16, ChecksSame DEF vars
<1> QED BY <1>1, <1>2, <1>3, <1>4, <1>5, <1>6, <1>7, <1>8, <1>9, <1>10, <1>11, <1>12, <1>13, <1>14, <1>15, <1>16
        DEF Next, Continues

-----------------------------------------------------------------------------
\* What a session and a finalize know of the file.

\* The versions of a file grow, and the history of what was looked at.
Grows ==
  \A p \in Paths :
    /\ world'[p].ver >= world[p].ver /\ world'[p].ver \in Nat
    /\ world'[p].ver = world[p].ver => world'[p].by = world[p].by
    /\ reviewed[p] \subseteq reviewed'[p] /\ reread[p] \subseteq reread'[p]

LEMMA SameGrows ==
  ASSUME MergeTypeOK, UNCHANGED <<world, reviewed, reread>>
  PROVE  Grows
BY WorldIs DEF Grows

LEMMA ChangeGrows ==
  ASSUME MergeTypeOK, NEW p \in Paths, NEW by \in {"git", "outside", "editor", "merge"},
         NEW markers \in BOOLEAN, NEW conflict \in Nat, Changed(p, by, markers, conflict),
         UNCHANGED <<reviewed, reread>>
  PROVE  Grows
<1>1. \A q \in Paths : world[q].ver \in Nat
  BY WorldIs
<1> QED BY <1>1, ChangedIs DEF Grows

LEMMA StageGrows ==
  ASSUME MergeTypeOK, NEW p \in Paths, world' = [world EXCEPT ![p].conflict = 0], UNCHANGED <<reviewed, reread>>
  PROVE  /\ Grows
         /\ \A q \in Paths : world'[q].ver = world[q].ver /\ (q # p => world'[q] = world[q])
<1>1. \A q \in Paths : world'[q].ver = world[q].ver /\ world'[q].by = world[q].by /\ (q # p => world'[q] = world[q])
  BY DEF MergeTypeOK, Worlds
<1>2. \A q \in Paths : world[q].ver \in Nat
  BY WorldIs
<1> QED BY <1>1, <1>2 DEF Grows

LEMMA StaysKnown ==
  ASSUME MergeTypeOK, Grows, NEW p \in Paths, NEW v \in Versions
  PROVE  /\ Written(p, v) => Written(p, v)'
         /\ Known(p, v) => Known(p, v)'
<1>1. v[1] \in Nat /\ world[p].ver \in Nat /\ world'[p].ver \in Nat
  BY WorldIs DEF Versions, Grows
<1>2. Written(p, v) => Written(p, v)'
  BY <1>1 DEF Written, Grows
<1> QED BY <1>2 DEF Known, Grows

\* What the session and the finalize hold, and where.
SessionFits(s) ==
  s.path # NoPath => Known(s.path, s.src) /\ (s.applied => Written(s.path, s.src))
FinKnows(f) ==
  /\ f.pc \in {"flush", "lock", "write"} => Known(f.path, f.expected)
  /\ f.pc \in {"flush", "lock"} /\ f.applied => Written(f.path, f.expected)
  /\ f.pc \in {"wrote", "stage"} => Written(f.path, f.expected)

LEMMA FitsAre == VersionsFit <=> SessionFits(session) /\ FinKnows(fin)
BY DEF VersionsFit, SessionFits, FinKnows, IsSession

LEMMA FitsNext == VersionsFit' <=> SessionFits(session)' /\ FinKnows(fin)'
BY DEF VersionsFit, SessionFits, FinKnows, IsSession

LEMMA SessionStays ==
  ASSUME MergeTypeOK, Grows, SessionFits(session), Keeps \/ Drops \/ session' = session
  PROVE  SessionFits(session)'
<1>1. CASE session' = NoSession
  BY <1>1, Empty DEF SessionFits
<1>2. CASE Keeps \/ session' = session
  <2>1. /\ session'.path = session.path /\ session'.src = session.src /\ (session'.applied => session.applied)
        /\ session.src \in Versions /\ (session.path # NoPath => session.path \in Paths)
    BY <1>2 DEF Keeps, MergeTypeOK, Sessions
  <2> QED BY <2>1, StaysKnown DEF SessionFits
<1> QED BY <1>1, <1>2 DEF Drops

LEMMA FinStays ==
  ASSUME MergeTypeOK, Grows, FinKnows(fin),
         fin'.path = fin.path /\ fin'.expected = fin.expected /\ (fin'.applied => fin.applied),
         \/ fin'.pc = fin.pc \/ fin'.pc \in {"idle", "refused", "rejected", "staged", "unstaged", "failed"}
         \/ fin.pc = "flush" /\ fin'.pc = "lock"
  PROVE  FinKnows(fin)'
<1>1. fin.expected \in Versions /\ (fin.pc # "idle" => fin.path \in Paths)
  BY FinIs
<1> QED BY <1>1, StaysKnown DEF FinKnows

LEMMA FinOver ==
  ASSUME fin'.pc \in {"idle", "refused", "rejected", "staged", "unstaged", "failed"}
  PROVE  FinKnows(fin)'
BY DEF FinKnows

LEMMA VersionsStep ==
  ASSUME MergeTypeOK, VersionsFit, Grows, Keeps \/ Drops \/ session' = session, fin' = fin \/ fin' = NoFin
  PROVE  VersionsFit'
<1>1. SessionFits(session)'
  BY FitsAre, SessionStays
<1>2. CASE fin' = fin
  BY <1>1, <1>2, FitsAre, FitsNext, FinStays
<1>3. CASE fin' = NoFin
  BY <1>1, <1>3, FitsNext, FinOver, Empty
<1> QED BY <1>2, <1>3

LEMMA WorldVersions ==
  ASSUME MergeTypeOK, VersionsFit, NEW p \in Paths,
         Outside(p) \/ TabOpens(p) \/ TabTypes(p) \/ TabSaves(p) \/ SaveRuns(p) \/ OpenStarts(p)
  PROVE  VersionsFit'
<1>1. session' = session /\ UNCHANGED <<reviewed, reread>>
  BY DEF Outside, TabOpens, TabTypes, TabSaves, SaveRuns, OpenStarts
<1>2. Grows
  <2>1. \/ UNCHANGED world
        \/ \E by \in {"outside", "editor"}, markers \in BOOLEAN, conflict \in Nat : Changed(p, by, markers, conflict)
    <3>1. world[p].markers \in BOOLEAN /\ world[p].conflict \in Nat /\ world[p].conflict + 1 \in Nat /\ 0 \in Nat
      BY WorldIs
    <3> QED BY <3>1 DEF Outside, TabOpens, TabTypes, TabSaves, SaveRuns, OpenStarts
  <2> QED BY <1>1, <2>1, SameGrows, ChangeGrows
<1>3. CASE fin' = fin
  BY <1>1, <1>2, <1>3, VersionsStep
<1>4. CASE SaveRuns(p) /\ fin' # fin
  <2>1. fin \in Finalizes
    BY DEF MergeTypeOK
  <2>2. fin' = [fin EXCEPT !.ahead = FALSE] \/ fin' = [fin EXCEPT !.pc = "rejected"]
    BY <1>4 DEF SaveRuns
  <2>3. /\ fin'.path = fin.path /\ fin'.expected = fin.expected /\ (fin'.applied => fin.applied)
        /\ fin'.pc = fin.pc \/ fin'.pc = "rejected"
    BY <2>1, <2>2 DEF Finalizes
  <2> QED BY <1>1, <1>2, <2>3, FitsAre, FitsNext, SessionStays, FinStays
<1> QED BY <1>3, <1>4 DEF Outside, TabOpens, TabTypes, TabSaves, OpenStarts

LEMMA OpenVersions ==
  ASSUME MergeTypeOK, VersionsFit, NEW o \in opens,
         OpenSaveFails(o) \/ OpenSaved(o) \/ OpenReads(o) \/ OpenInstalls(o)
  PROVE  VersionsFit'
<1>1. fin' = fin /\ reread' = reread /\ o.path \in Paths
  BY DEF OpenSaveFails, OpenSaved, OpenReads, OpenInstalls, MergeTypeOK, OpenCalls
<1>2. CASE OpenSaveFails(o) \/ OpenReads(o)
  <2>1. UNCHANGED <<session, world, reviewed, reread>>
    BY <1>2 DEF OpenSaveFails, OpenReads
  <2> QED BY <1>1, <2>1, SameGrows, VersionsStep
<1>3. CASE OpenSaved(o)
  <2>1. /\ UNCHANGED <<session, reviewed, reread>>
        /\ UNCHANGED world \/ Changed(o.path, "editor", world[o.path].markers, world[o.path].conflict)
    BY <1>3 DEF OpenSaved
  <2>2. world[o.path].markers \in BOOLEAN /\ world[o.path].conflict \in Nat
    BY <1>1, WorldIs
  <2>3. Grows
    BY <1>1, <2>1, <2>2, SameGrows, ChangeGrows
  <2> QED BY <1>1, <2>1, <2>3, VersionsStep
<1>4. CASE OpenInstalls(o)
  <2>1. UNCHANGED <<world, reread>>
    BY <1>4 DEF OpenInstalls
  <2>2. CASE UNCHANGED <<session, reviewed>>
    BY <1>1, <2>1, <2>2, SameGrows, VersionsStep
  <2>3. CASE /\ session'.path = o.path /\ ~session'.applied
             /\ session'.src \in Versions /\ Shows(o.path, session'.src)
    <3>1. session'.src \in reviewed'[o.path] /\ \A q \in Paths : reviewed[q] \subseteq reviewed'[q]
      BY <1>1, <2>3, ShowsTypes
    <3>2. Grows
      BY <2>1, <3>1, WorldIs DEF Grows
    <3>3. SessionFits(session)'
      BY <2>3, <3>1 DEF SessionFits, Known
    <3> QED BY <1>1, <3>2, <3>3, FitsAre, FitsNext, FinStays
  <2> QED BY <1>4, <2>2, <2>3, InstallsIs
<1> QED BY <1>2, <1>3, <1>4

LEMMA CheckVersions ==
  ASSUME MergeTypeOK, ChecksFit, VersionsFit, NEW c \in checks, CheckReads(c) \/ CheckEnds(c)
  PROVE  VersionsFit'
<1>1. UNCHANGED <<fin, reread, world>> /\ c.path \in Paths /\ c.state \in States
  BY DEF CheckReads, CheckEnds, sessionOnly, MergeTypeOK, CheckCalls
<1>2. CASE UNCHANGED <<session, reviewed>>
  BY <1>1, <1>2, SameGrows, VersionsStep
<1>3. ASSUME NEW src \in Versions, Shows(c.path, src)
      PROVE  Grows /\ src \in reviewed'[c.path]
  BY <1>1, <1>3, ShowsTypes, WorldIs DEF Grows
<1>4. CASE Keeps /\ (UNCHANGED reviewed \/ (c.state.read /\ Shows(c.path, c.state.src)))
  <2>1. Grows
    BY <1>1, <1>3, <1>4, SameGrows, StatesAre
  <2> QED BY <1>1, <1>4, <2>1, VersionsStep
<1>5. CASE /\ session'.path = c.path /\ ~session'.applied
           /\ session'.src \in Versions /\ Shows(c.path, session'.src)
  <2>1. Grows /\ session'.src \in reviewed'[c.path]
    BY <1>3, <1>5
  <2>2. SessionFits(session)'
    BY <1>5, <2>1 DEF SessionFits, Known
  <2> QED BY <1>1, <2>1, <2>2, FitsAre, FitsNext, FinStays
<1>6. CASE CheckReads(c)
  BY <1>2, <1>6 DEF CheckReads, sessionOnly
<1> QED BY <1>2, <1>4, <1>5, <1>6, CheckEndsIs

\* A finalize begins with the version of its session, or with the one that
\* was read to overwrite it.
LEMMA BeginVersions ==
  ASSUME MergeTypeOK, ChecksFit, VersionsFit, FinStarts \/ OverContinues
  PROVE  VersionsFit'
<1>1. UNCHANGED <<world, reviewed>> /\ session \in Sessions
  BY DEF FinStarts, OverContinues, MergeTypeOK
<1>2. ASSUME NEW p \in Paths, IsSession, session.path = p, NEW expected \in Versions, Finalize(expected),
             Grows, Known(p, expected)'
      PROVE  VersionsFit'
  <2>1. CASE fin' = fin /\ ((Keeps /\ session' = session) \/ Drops)
    BY <1>2, <2>1, VersionsStep
  <2>2. CASE fin' = Begun(expected) /\ session' = session
    <3>1. /\ fin'.pc = "flush" /\ fin'.path = p /\ fin'.expected = expected
          /\ fin'.applied => session.applied /\ expected = session.src
      BY <1>2, <2>2, BegunIs
    <3>2. fin'.applied => Written(p, expected)'
      <4>1. session.applied /\ expected = session.src => Written(p, expected)
        BY <1>2 DEF VersionsFit
      <4> QED BY <1>2, <3>1, <4>1, StaysKnown
    <3>3. FinKnows(fin)'
      BY <1>2, <3>1, <3>2 DEF FinKnows
    <3> QED BY <1>2, <2>2, <3>3, FitsAre, FitsNext, SessionStays
  <2> QED BY <1>2, <2>1, <2>2, FinalizeIs
<1>3. CASE FinStarts
  <2>1. PICK p \in Paths, v \in Versions : session.path = p /\ session.src = v
    BY <1>1, <1>3 DEF FinStarts, IsSession, Sessions
  <2>2. IsSession /\ Finalize(v) /\ UNCHANGED reread
    BY <1>3, <2>1 DEF FinStarts
  <2>3. Grows
    BY <1>1, <2>2, SameGrows
  <2>4. Known(p, v)'
    <3>1. Known(p, v)
      BY <2>1, <2>2 DEF VersionsFit
    <3> QED BY <2>3, <3>1, StaysKnown
  <2> QED BY <1>2, <2>1, <2>2, <2>3, <2>4
<1>4. CASE OverContinues
  <2>1. CASE UNCHANGED <<request, session, fin, reread>>
    BY <1>1, <2>1, SameGrows, VersionsStep
  <2>2. CASE Keeps /\ UNCHANGED <<fin, reread>>
    BY <1>1, <2>2, SameGrows, VersionsStep
  <2>3. CASE /\ IsSession /\ over.state.src \in Versions /\ Finalize(over.state.src)
             /\ reread' = [reread EXCEPT ![session.path] = @ \cup {over.state.src}]
    <3>1. PICK p \in Paths, v \in Versions : session.path = p /\ over.state.src = v
      BY <1>1, <2>3 DEF IsSession, Sessions
    <3>2. reread \in [Paths -> SUBSET Versions]
      BY DEF MergeTypeOK
    <3>3. v \in reread'[p] /\ \A q \in Paths : reread[q] \subseteq reread'[q]
      BY <2>3, <3>1, <3>2
    <3>4. Grows
      BY <1>1, <3>3, WorldIs DEF Grows
    <3>5. Known(p, v)'
      BY <3>3 DEF Known
    <3> QED BY <1>2, <2>3, <3>1, <3>4, <3>5
  <2> QED BY <1>4, <2>1, <2>2, <2>3, ContinuesIs
<1> QED BY <1>3, <1>4

LEMMA FinVersions ==
  ASSUME MergeTypeOK, ChecksFit, VersionsFit, FinFlushes \/ FinRejected \/ FinLocks \/ FinRefused \/ FinUnstaged \/ FinStaged
  PROVE  VersionsFit'
<1>1. Grows /\ fin \in Finalizes
  <2>1. UNCHANGED <<world, reviewed, reread>>
    BY DEF FinFlushes, FinRejected, FinLocks, FinRefused, FinUnstaged, FinStaged
  <2> QED BY <2>1, SameGrows DEF MergeTypeOK
<1>2. Keeps \/ Drops \/ session' = session
  <2>1. CASE FinStaged
    <3>1. request \in Nat
      BY DEF MergeTypeOK
    <3>2. request' \in {request, request + 1} /\ (session' = session \/ session' = NoSession)
      BY <2>1, StagedIs
    <3>3. request' \in Nat /\ request' >= request
      BY <3>1, <3>2
    <3> QED BY <3>2, <3>3 DEF Drops
  <2>2. CASE FinFlushes \/ FinRejected \/ FinLocks \/ FinRefused \/ FinUnstaged
    BY <2>2, ClearsIs DEF FinFlushes, FinRejected, FinLocks, FinRefused, FinUnstaged
  <2> QED BY <2>1, <2>2
<1>3. CASE fin' = NoFin
  BY <1>1, <1>2, <1>3, VersionsStep
<1>4. CASE FinFlushes /\ fin' # NoFin
  <2>1. /\ fin'.path = fin.path /\ fin'.expected = fin.expected /\ fin'.applied = fin.applied
        /\ fin.pc = "flush" /\ fin'.pc = "lock"
    BY <1>1, <1>4 DEF FinFlushes, FinEnds, Finalizes
  <2> QED BY <1>1, <1>2, <2>1, FitsAre, FitsNext, SessionStays, FinStays
<1>5. CASE FinLocks /\ fin' # NoFin
  <2>1. PICK p \in Paths, v \in Versions : fin.path = p /\ fin.expected = v
    BY <1>5, FinIs DEF FinLocks
  <2>2. /\ fin.pc = "lock" /\ fin'.path = p /\ fin'.expected = v /\ fin'.applied = fin.applied
        /\ fin'.pc = (IF fin.applied THEN "stage" ELSE "write")
    BY <1>1, <1>5, <2>1 DEF FinLocks, FinEnds, Finalizes
  <2>3. Known(p, v)' /\ (fin.applied => Written(p, v)')
    BY <1>1, <2>1, <2>2, StaysKnown DEF VersionsFit
  <2>4. FinKnows(fin)'
    BY <2>2, <2>3 DEF FinKnows
  <2> QED BY <1>1, <1>2, <2>4, FitsAre, FitsNext, SessionStays
<1> QED BY <1>3, <1>4, <1>5 DEF FinFlushes, FinRejected, FinLocks, FinRefused, FinUnstaged, FinStaged, FinEnds

\* What a merge writes is the version it stages.
LEMMA FinWriteVersions ==
  ASSUME MergeTypeOK, ChecksFit, VersionsFit, FinWrites
  PROVE  VersionsFit'
<1>1. UNCHANGED <<session, reviewed, reread>> /\ fin \in Finalizes /\ fin.path \in Paths /\ fin.expected[2] \in Nat
  BY FinIs DEF FinWrites, MergeTypeOK, Versions
<1>2. CASE Changed(fin.path, "merge", FALSE, world[fin.path].conflict)
           /\ fin' = [fin EXCEPT !.pc = "wrote", !.expected = <<world[fin.path].ver + 1, @[2]>>]
  <2>1. PICK p \in Paths : fin.path = p
    BY <1>1
  <2>2. world[p].conflict \in Nat /\ world[p].ver \in Nat
    BY WorldIs
  <2>3. Grows /\ world'[p].ver = world[p].ver + 1 /\ world'[p].by = "merge"
    <3>1. \A markers \in BOOLEAN : Changed(p, "merge", markers, world[p].conflict) =>
            Grows /\ world'[p].ver = world[p].ver + 1 /\ world'[p].by = "merge"
      BY <1>1, <2>2, ChangeGrows, ChangedIs
    <3> QED BY <1>2, <2>1, <3>1
  <2>4. fin'.pc = "wrote" /\ fin'.path = p /\ fin'.expected[1] = world[p].ver + 1
    BY <1>1, <1>2, <2>1 DEF Finalizes
  <2>5. FinKnows(fin)'
    BY <2>2, <2>3, <2>4 DEF FinKnows, Written
  <2> QED BY <1>1, <2>3, <2>5, FitsAre, FitsNext, SessionStays
<1>3. CASE UNCHANGED world /\ \E pc \in {"refused", "rejected"} : fin' = [fin EXCEPT !.pc = pc]
  <2>1. Grows
    BY <1>1, <1>3, SameGrows
  <2>2. fin'.pc \in {"refused", "rejected"}
    BY <1>1, <1>3, FinIs
  <2> QED BY <1>1, <2>1, <2>2, FitsAre, FitsNext, SessionStays, FinOver
<1> QED BY <1>2, <1>3 DEF FinWrites

LEMMA FinWroteVersions ==
  ASSUME MergeTypeOK, ChecksFit, VersionsFit, FinWrote
  PROVE  VersionsFit'
<1>1. Grows /\ fin \in Finalizes
  <2>1. UNCHANGED <<world, reviewed, reread>>
    BY DEF FinWrote
  <2> QED BY <2>1, SameGrows DEF MergeTypeOK
<1>2. PICK p \in Paths, v \in Versions : fin.path = p /\ fin.expected = v
  BY FinIs DEF FinWrote
<1>3. Written(p, v)'
  <2>1. Written(p, v)
    BY <1>2 DEF FinWrote, VersionsFit
  <2> QED BY <1>1, <2>1, StaysKnown
<1>4. CASE fin' = NoFin /\ ((Keeps /\ session' = session) \/ Drops)
  BY <1>1, <1>4, VersionsStep
<1>5. CASE /\ fin' = NoFin \/ fin' = [fin EXCEPT !.pc = "stage"]
           /\ session' = session \/ (session.path = fin.path /\ session'.path = session.path /\ session'.src = fin.expected)
  <2>1. SessionFits(session)'
    <3>1. CASE session' = session
      BY <1>1, <3>1, FitsAre, SessionStays
    <3>2. CASE session'.path = p /\ session'.src = v
      BY <1>3, <3>2 DEF SessionFits, Known
    <3> QED BY <1>2, <1>5, <3>1, <3>2
  <2>2. FinKnows(fin)'
    <3>1. CASE fin' = NoFin
      BY <3>1, FinOver, Empty
    <3>2. CASE fin' = [fin EXCEPT !.pc = "stage"]
      <4>1. fin'.pc = "stage" /\ fin'.path = p /\ fin'.expected = v
        BY <1>1, <1>2, <3>2 DEF Finalizes
      <4> QED BY <1>3, <4>1 DEF FinKnows
    <3> QED BY <1>5, <3>1, <3>2
  <2> QED BY <2>1, <2>2, FitsNext
<1> QED BY <1>4, <1>5, WroteIs

LEMMA FinStageVersions ==
  ASSUME MergeTypeOK, ChecksFit, VersionsFit, FinStages
  PROVE  VersionsFit'
<1>1. UNCHANGED <<session, reviewed, reread>> /\ fin.path \in Paths
  BY FinIs DEF FinStages
<1>2. Grows
  <2>1. world' = [world EXCEPT ![fin.path].conflict = 0] \/ UNCHANGED world
    BY DEF FinStages
  <2> QED BY <1>1, <2>1, StageGrows, SameGrows
<1>3. fin'.pc \in {"staged", "unstaged", "failed"}
  BY FinIs DEF FinStages
<1> QED BY <1>1, <1>2, <1>3, FitsAre, FitsNext, SessionStays, FinOver

LEMMA VersionsAreKept ==
  ASSUME MergeTypeOK, ChecksFit, VersionsFit, [Next]_vars
  PROVE  VersionsFit'
<1>1. ASSUME NEW p \in Paths, Outside(p) \/ TabOpens(p) \/ TabTypes(p) \/ TabSaves(p) \/ SaveRuns(p) \/ OpenStarts(p)
      PROVE  VersionsFit'
  BY <1>1, WorldVersions
<1>2. ASSUME NEW o \in opens, OpenSaveFails(o) \/ OpenSaved(o) \/ OpenReads(o) \/ OpenInstalls(o)
      PROVE  VersionsFit'
  BY <1>2, OpenVersions
<1>3. CASE OtherOpStarts \/ OtherOpEnds \/ OverStarts \/ OverReads \/ Notices \/ UNCHANGED vars
  <2>1. UNCHANGED <<session, fin, world, reviewed, reread>>
    BY <1>3 DEF OtherOpStarts, OtherOpEnds, OverStarts, OverReads, Notices, sessionOnly, vars
  <2> QED BY <2>1, SameGrows, VersionsStep
<1>4. CASE Switch \/ Closes \/ Reloads \/ \E chosen, keeps \in BOOLEAN : Decides(chosen, keeps)
  <2>1. UNCHANGED <<fin, world, reviewed, reread>>
    BY <1>4 DEF Switch, Closes, Reloads, Decides, sessionOnly
  <2>2. Keeps \/ Drops
    <3>1. CASE Switch \/ Closes
      BY <3>1 DEF Switch, Closes, Drops, MergeTypeOK
    <3> QED BY <1>4, <3>1, ReloadsIs, DecidesIs
  <2> QED BY <2>1, <2>2, SameGrows, VersionsStep
<1>5. ASSUME NEW c \in checks, CheckReads(c) \/ CheckEnds(c)
      PROVE  VersionsFit'
  BY <1>5, CheckVersions
<1>6. CASE FinStarts \/ OverContinues
  BY <1>6, BeginVersions
<1>7. CASE FinFlushes \/ FinRejected \/ FinLocks \/ FinRefused \/ FinUnstaged \/ FinStaged
  BY <1>7, FinVersions
<1>8. CASE FinWrites \/ FinWrote \/ FinStages
  BY <1>8, FinWriteVersions, FinWroteVersions, FinStageVersions
<1> QED BY <1>1, <1>2, <1>3, <1>4, <1>5, <1>6, <1>7, <1>8 DEF Next, Continues

-----------------------------------------------------------------------------
\* The theorems.

LEMMA InitialSession == Init => MergeInv
<1> SUFFICES ASSUME Init PROVE MergeInv
  OBVIOUS
<1>1. [ver |-> 1, by |-> "git", markers |-> TRUE, conflict |-> 1] \in Worlds
      /\ [ver |-> 1, by |-> "git", markers |-> FALSE, conflict |-> 1] \in Worlds
  BY DEF Worlds
<1>2. world \in [Paths -> Worlds]
  BY <1>1 DEF Init, Worlds
<1>3. MergeTypeOK
  BY <1>2, Empty DEF Init, MergeTypeOK
<1>4. RequestsFit /\ OpFits /\ VersionsFit /\ ChecksFit /\ Advances
  BY Empty DEF Init, RequestsFit, OpFits, VersionsFit, ChecksFit, Advances, IsSession
<1> QED BY <1>3, <1>4 DEF MergeInv

LEMMA NextSession == MergeInv /\ [Next]_vars => MergeInv'
BY TypesAreKept, RequestsAreKept, OpIsKept, VersionsAreKept, ChecksAreKept, AdvanceIsKept DEF MergeInv

\* The requests in flight, the version a finalize goes by, the operation it
\* holds and the check that may still be applied fit the session.
THEOREM SessionInvariance == Spec => []MergeInv
<1> QED BY InitialSession, NextSession, PTL DEF Spec

\* The session on screen is of the newest request of its workspace, the advance
\* to the next path is never left pending, and only a finalize that stages
\* holds the operation of a merge (gitStore.ts, mergeRequestRevision).
THEOREM OneSessionIsOpen == Spec => []OneSession
<1>1. MergeInv => OneSession
  BY DEF MergeInv, RequestsFit, OpFits, Advances, OneSession
<1> QED BY <1>1, SessionInvariance, PTL

\* The world changes by one file at a time.
LEMMA OneFileChanges ==
  ASSUME MergeTypeOK, [Next]_vars
  PROVE  \/ UNCHANGED world
         \/ \E p \in Paths, by \in {"outside", "editor"}, markers \in BOOLEAN, conflict \in Nat :
              Changed(p, by, markers, conflict)
         \/ FinWrites \/ FinStages
<1>0. \A p \in Paths : world[p].markers \in BOOLEAN /\ world[p].conflict \in Nat /\ world[p].conflict + 1 \in Nat
  BY WorldIs
<1>1. ASSUME NEW p \in Paths, Outside(p) \/ SaveRuns(p)
      PROVE  \/ UNCHANGED world
             \/ \E by \in {"outside", "editor"}, markers \in BOOLEAN, conflict \in Nat : Changed(p, by, markers, conflict)
  BY <1>0, <1>1 DEF Outside, SaveRuns
<1>2. ASSUME NEW p \in Paths, TabOpens(p) \/ TabTypes(p) \/ TabSaves(p) \/ OpenStarts(p)
      PROVE  UNCHANGED world
  BY <1>2 DEF TabOpens, TabTypes, TabSaves, OpenStarts
<1>3. ASSUME NEW o \in opens, OpenSaveFails(o) \/ OpenReads(o) \/ OpenInstalls(o)
      PROVE  UNCHANGED world
  BY <1>3 DEF OpenSaveFails, OpenReads, OpenInstalls
<1>4. ASSUME NEW o \in opens, OpenSaved(o)
      PROVE  \/ UNCHANGED world
             \/ \E p \in Paths, by \in {"outside", "editor"}, markers \in BOOLEAN, conflict \in Nat :
                  Changed(p, by, markers, conflict)
  <2>1. o.path \in Paths
    BY DEF MergeTypeOK, OpenCalls
  <2> QED BY <1>0, <1>4, <2>1 DEF OpenSaved
<1>5. ASSUME NEW c \in checks, CheckReads(c) \/ CheckEnds(c)
      PROVE  UNCHANGED world
  BY <1>5 DEF CheckReads, CheckEnds, sessionOnly
<1>6. CASE OtherOpStarts \/ OtherOpEnds \/ OverStarts \/ OverReads \/ Notices \/ Switch \/ Closes \/ Reloads
           \/ \E chosen, keeps \in BOOLEAN : Decides(chosen, keeps)
  BY <1>6 DEF OtherOpStarts, OtherOpEnds, OverStarts, OverReads, Notices, Switch, Closes, Reloads, Decides, sessionOnly
<1>7. CASE FinStarts \/ OverContinues \/ FinFlushes \/ FinRejected \/ FinLocks \/ FinRefused \/ FinWrote
           \/ FinUnstaged \/ FinStaged \/ UNCHANGED vars
  BY <1>7 DEF FinStarts, OverContinues, FinFlushes, FinRejected, FinLocks, FinRefused, FinWrote, FinUnstaged, FinStaged, vars
<1> QED BY <1>1, <1>2, <1>3, <1>4, <1>5, <1>6, <1>7 DEF Next, Continues

LEMMA WriteIsGuarded ==
  ASSUME MergeInv, [Next]_vars, NEW p \in Paths
  PROVE  /\ Writes(p) => Version(p) \in reviewed[p] \cup reread[p]
         /\ world'[p].ver = world[p].ver /\ world'[p].conflict # world[p].conflict
              => world[p].by = "merge"
<1>1. MergeTypeOK /\ VersionsFit
  BY DEF MergeInv
<1>2. CASE UNCHANGED world
  BY <1>2 DEF Writes
<1>3. ASSUME NEW q \in Paths, NEW by \in {"outside", "editor"}, NEW markers \in BOOLEAN, NEW conflict \in Nat,
             Changed(q, by, markers, conflict)
      PROVE  ~Writes(p) /\ (p = q => world'[p].ver # world[p].ver) /\ (p # q => world'[p] = world[p])
  <2>1. /\ p # q => world'[p] = world[p]
        /\ world'[q].ver = world[q].ver + 1 /\ world'[q].by = by
    BY <1>1, <1>3, ChangedIs
  <2>2. world[q].ver \in Nat
    BY <1>1, WorldIs
  <2> QED BY <2>1, <2>2 DEF Writes
<1>4. CASE FinWrites /\ world' # world
  <2>1. /\ fin.pc = "write" /\ fin.path \in Paths /\ Version(fin.path) = fin.expected
        /\ Changed(fin.path, "merge", FALSE, world[fin.path].conflict)
    BY <1>1, <1>4, FinIs DEF FinWrites
  <2>2. PICK q \in Paths : fin.path = q
    BY <2>1
  <2>3. \A r \in Paths : world[r].ver \in Nat /\ world[r].conflict \in Nat
    BY <1>1, WorldIs
  <2>4. (p # q => world'[p] = world[p]) /\ world'[q].conflict = world[q].conflict
    <3>1. \A markers \in BOOLEAN : Changed(q, "merge", markers, world[q].conflict) =>
            (p # q => world'[p] = world[p]) /\ world'[q].conflict = world[q].conflict
      BY <1>1, <2>3, ChangedIs
    <3> QED BY <2>1, <2>2, <3>1
  <2>5. Known(q, Version(q))
    BY <1>1, <2>1, <2>2 DEF VersionsFit
  <2>6. world[q].by # "merge" => Version(q) \in reviewed[q] \cup reread[q]
    BY <2>5 DEF Known, Written, Version
  <2> QED BY <2>4, <2>6 DEF Writes
<1>5. CASE FinStages /\ world' # world
  <2>1. /\ fin.pc = "stage" /\ fin.path \in Paths /\ Version(fin.path) = fin.expected
        /\ world' = [world EXCEPT ![fin.path].conflict = 0] /\ UNCHANGED <<reviewed, reread>>
    BY <1>1, <1>5, FinIs DEF FinStages
  <2>2. PICK q \in Paths : fin.path = q
    BY <2>1
  <2>3. \A r \in Paths : world'[r].ver = world[r].ver /\ (r # q => world'[r] = world[r])
    BY <1>1, <2>1, <2>2, StageGrows
  <2>4. Written(q, Version(q))
    BY <1>1, <2>1, <2>2 DEF VersionsFit
  <2>5. world[q].by = "merge"
    BY <2>4 DEF Written, Version
  <2> QED BY <2>3, <2>5 DEF Writes
<1> QED BY <1>1, <1>2, <1>3, <1>4, <1>5, OneFileChanges

\* A merge writes only over a version that a session, a notice or the
\* confirmation to overwrite showed, and stages only what a merge wrote last
\* (conflicts.go, WriteConflictResult and StageConflictResolution).
THEOREM MergesAreGuarded == Spec => Guarded
<1>1. MergeInv /\ [Next]_vars =>
        [\A p \in Paths :
           /\ Writes(p) => Version(p) \in reviewed[p] \cup reread[p]
           /\ world'[p].ver = world[p].ver /\ world'[p].conflict # world[p].conflict
                => world[p].by = "merge"]_vars
  BY WriteIsGuarded
<1> QED BY <1>1, SessionInvariance, PTL DEF Spec, Guarded

\* No step but a new session, or a check, forgets what was decided.
LEMMA DecisionsStay ==
  ASSUME MergeTypeOK, ChecksFit, [Next]_vars
  PROVE  \/ session.dirty => session'.dirty
         \/ session' = NoSession
         \/ \E o \in opens : OpenInstalls(o) /\ Current(o)
         \/ \E c \in checks : c.state.read /\ Live(c) /\ Replaces(c)
<1> DEFINE Stay == (session.dirty => session'.dirty) \/ session' = NoSession
<1>0. Keeps \/ Drops \/ session' = session => Stay
  BY DEF Keeps, Drops
<1>1. ASSUME NEW p \in Paths, Outside(p) \/ TabOpens(p) \/ TabTypes(p) \/ TabSaves(p) \/ SaveRuns(p) \/ OpenStarts(p)
      PROVE  Stay
  BY <1>1 DEF Outside, TabOpens, TabTypes, TabSaves, SaveRuns, OpenStarts
<1>2. ASSUME NEW o \in opens, OpenSaveFails(o) \/ OpenSaved(o) \/ OpenReads(o)
      PROVE  Stay
  BY <1>2 DEF OpenSaveFails, OpenSaved, OpenReads
<1>3. ASSUME NEW o \in opens, OpenInstalls(o)
      PROVE  Stay \/ Current(o)
  BY <1>3, InstallsIs
<1>4. CASE OtherOpStarts \/ OtherOpEnds \/ OverStarts \/ OverReads \/ Notices \/ Switch \/ Closes \/ UNCHANGED vars
  <2>1. session' = session \/ session' = NoSession
    BY <1>4 DEF OtherOpStarts, OtherOpEnds, OverStarts, OverReads, Notices, Switch, Closes, sessionOnly, vars
  <2> QED BY <2>1
<1>5. CASE Reloads \/ \E chosen, keeps \in BOOLEAN : Decides(chosen, keeps)
  BY <1>0, <1>5, ReloadsIs, DecidesIs
<1>6. ASSUME NEW c \in checks, CheckReads(c) \/ CheckEnds(c)
      PROVE  Stay \/ (c.state.read /\ Live(c) /\ Replaces(c))
  BY <1>0, <1>6, CheckEndsIs DEF CheckReads, sessionOnly, Replaces
<1>7. CASE FinStarts
  <2>1. IsSession /\ session.src \in Versions /\ Finalize(session.src)
    BY <1>7 DEF FinStarts, MergeTypeOK, Sessions
  <2> QED BY <1>0, <2>1, FinalizeIs
<1>8. CASE OverContinues
  BY <1>0, <1>8, ContinuesIs, FinalizeIs
<1>9. CASE FinFlushes \/ FinRejected \/ FinLocks \/ FinWrites \/ FinRefused \/ FinStages \/ FinUnstaged
  <2>1. ClearsCaptured \/ session' = session
    BY <1>9 DEF FinFlushes, FinRejected, FinLocks, FinWrites, FinRefused, FinStages, FinUnstaged
  <2> QED BY <1>0, <2>1, ClearsIs
<1>10. CASE FinWrote
  BY <1>0, <1>10, WroteIs
<1>11. CASE FinStaged
  BY <1>11, StagedIs
<1> QED BY <1>1, <1>2, <1>3, <1>4, <1>5, <1>6, <1>7, <1>8, <1>9, <1>10, <1>11 DEF Next, Continues

\* What was decided is forgotten only by the reload that was asked for, never
\* by what a check found on disk (gitStore.ts, revalidateMergeSession).
THEOREM DecisionsAreKept == Spec => KeepsDecisions
<1> DEFINE Kept == session.dirty /\ session'.path = session.path /\ ~session'.dirty => session.reload
<1>1. ASSUME MergeInv, [Next]_vars
      PROVE  Kept
  <2>1. MergeTypeOK /\ ChecksFit /\ RequestsFit
    BY <1>1 DEF MergeInv
  <2>2. CASE session' = NoSession
    BY <2>1, <2>2, Empty DEF ChecksFit, IsSession
  <2>3. CASE \E o \in opens : Current(o)
    BY <2>1, <2>3 DEF RequestsFit, ChecksFit, Current
  <2>4. CASE \E c \in checks : Live(c) /\ Replaces(c)
    BY <2>1, <2>4 DEF ChecksFit, Replaces
  <2> QED BY <1>1, <2>1, <2>2, <2>3, <2>4, DecisionsStay
<1>2. MergeInv /\ [Next]_vars => [Kept]_vars
  BY <1>1
<1> QED BY <1>2, SessionInvariance, PTL DEF Spec, KeepsDecisions
-----------------------------------------------------------------------------
=============================================================================
