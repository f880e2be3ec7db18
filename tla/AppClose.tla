------------------------------ MODULE AppClose ------------------------------
(***************************************************************************)
(* The close of the app (app.go): quit requests, the handshake with the    *)
(* front end and its backstop timer, the teardown, and the quit that ends  *)
(* it.  One action is one critical section of closeMu, or one step outside *)
(* it.                                                                     *)
(*                                                                         *)
(* A handshake is numbered by the request that opened it; so is its timer. *)
(***************************************************************************)
EXTENDS Naturals

CONSTANTS
  Requests,       \* goroutines of the host that ask whether the app may quit
  MaxHandshakes,  \* bound on the handshakes opened
  Tasks           \* runner, language servers, Golem service

ASSUME HandshakeAssumption == MaxHandshakes \in Nat

Handshakes == 1..MaxHandshakes

VARIABLES
  closePhase,
  asked,          \* number of the latest handshake
  backstop,       \* closeBackstopTimer: its handshake, 0 for nil
  timer,          \* handshake -> state of its backstop
  answered,       \* handshake -> the front end has answered it
  request,        \* goroutine -> its shouldQuit call is about to force the drain
  starts,         \* history: calls of startCloseDrain
  opener,         \* history: the handshake the drain was begun for
  drainPc,        \* the drain goroutine
  task,           \* teardown task -> its state
  exited

handshakeVars == <<asked, backstop, timer, answered>>
drainVars == <<starts, opener, drainPc, task>>
vars == <<closePhase, handshakeVars, request, drainVars, exited>>

ClosePhases == {"idle", "awaiting", "draining", "permitted"}
TimerStates == {"none", "armed", "fired", "stopped", "done"}
DrainPcs == {"none", "start", "wait", "permit", "quit", "done"}

TypeOK ==
  /\ closePhase \in ClosePhases
  /\ asked \in 0..MaxHandshakes
  /\ backstop \in 0..MaxHandshakes
  /\ timer \in [Handshakes -> TimerStates]
  /\ answered \in [Handshakes -> BOOLEAN]
  /\ request \in [Requests -> BOOLEAN]
  /\ starts \in 0..1
  /\ opener \in 0..MaxHandshakes
  /\ drainPc \in DrainPcs
  /\ task \in [Tasks -> {"none", "running", "done"}]
  /\ exited \in BOOLEAN

Init ==
  /\ closePhase = "idle"
  /\ asked = 0 /\ backstop = 0
  /\ timer = [h \in Handshakes |-> "none"]
  /\ answered = [h \in Handshakes |-> FALSE]
  /\ request = [q \in Requests |-> FALSE]
  /\ starts = 0 /\ opener = 0 /\ drainPc = "none"
  /\ task = [t \in Tasks |-> "none"]
  /\ exited = FALSE

-----------------------------------------------------------------------------

\* stopCloseBackstopLocked: a timer that has fired cannot be stopped.
Disarmed == [h \in Handshakes |->
               IF h = backstop /\ timer[h] = "armed" THEN "stopped" ELSE timer[h]]

\* Fault: the phase is not looked at again under the lock.
EnterCloseDrain_Unchecked(h, timers) ==
  /\ closePhase' = "draining"
  /\ timer' = timers
  /\ backstop' = 0
  /\ starts' = starts + 1 /\ opener' = h
  /\ drainPc' = "start"
  /\ UNCHANGED <<asked, task, exited>>

\* enterCloseDrain on behalf of handshake h: the first caller that finds the
\* handshake open starts the drain, the others do nothing.
EnterCloseDrain(h, timers) ==
  /\ IF closePhase = "awaiting"
     THEN /\ closePhase' = "draining"
          /\ timer' = [g \in Handshakes |->
                         IF g = backstop /\ timers[g] = "armed" THEN "stopped" ELSE timers[g]]
          /\ backstop' = 0
          /\ starts' = starts + 1 /\ opener' = h
          /\ drainPc' = "start"
     ELSE /\ timer' = timers
          /\ UNCHANGED <<closePhase, backstop, starts, opener, drainPc>>
  /\ UNCHANGED <<asked, task, exited>>

\* Fault: a handshake opens without its backstop.
OpenHandshake_NoBackstop ==
  /\ asked < MaxHandshakes
  /\ closePhase' = "awaiting"
  /\ asked' = asked + 1
  /\ UNCHANGED <<backstop, timer>>

\* The first request: the event goes out and the backstop is armed.
OpenHandshake ==
  /\ asked < MaxHandshakes
  /\ closePhase' = "awaiting"
  /\ asked' = asked + 1
  /\ backstop' = asked + 1
  /\ timer' = [timer EXCEPT ![asked + 1] = "armed"]

\* shouldQuit: open a handshake, go on to force the drain, or let the app go;
\* while the drain runs it refuses and changes nothing.
ShouldQuit(q) ==
  /\ ~exited /\ ~request[q]
  /\ \/ /\ closePhase = "idle"
        /\ OpenHandshake
        /\ UNCHANGED <<request, exited>>
     \/ /\ closePhase = "awaiting"
        /\ request' = [request EXCEPT ![q] = TRUE]
        /\ UNCHANGED <<closePhase, asked, backstop, timer, exited>>
     \/ /\ closePhase = "permitted"
        /\ exited' = TRUE
        /\ UNCHANGED <<closePhase, asked, backstop, timer, request>>
  /\ UNCHANGED <<answered, drainVars>>

\* A repeated request forces the drain of the handshake that is open once
\* shouldQuit has released the lock and taken it again.
ForceDrain(q) ==
  /\ ~exited /\ request[q]
  /\ EnterCloseDrain(asked, timer)
  /\ request' = [request EXCEPT ![q] = FALSE]
  /\ UNCHANGED answered

\* The backstop of a handshake fires, and later its callback takes the lock.
BackstopFires(h) ==
  /\ ~exited /\ timer[h] = "armed"
  /\ timer' = [timer EXCEPT ![h] = "fired"]
  /\ UNCHANGED <<closePhase, asked, backstop, answered, request, drainVars, exited>>

BackstopCallback(h) ==
  /\ ~exited /\ timer[h] = "fired"
  /\ EnterCloseDrain(h, [timer EXCEPT ![h] = "done"])
  /\ UNCHANGED <<answered, request>>

\* The front end answers each handshake at most once (handleBeforeClose).
Unanswered(h) == ~exited /\ h <= asked /\ ~answered[h]

ConfirmBeforeCloseReady(h) ==
  /\ Unanswered(h)
  /\ answered' = [answered EXCEPT ![h] = TRUE]
  /\ EnterCloseDrain(h, timer)
  /\ UNCHANGED request

\* Fault: a cancel takes back a drain that already runs.
CancelBeforeClose_AnyPhase(h) ==
  /\ Unanswered(h)
  /\ answered' = [answered EXCEPT ![h] = TRUE]
  /\ closePhase' = "idle" /\ backstop' = 0 /\ timer' = Disarmed
  /\ UNCHANGED <<asked, request, drainVars, exited>>

CancelBeforeClose(h) ==
  /\ Unanswered(h)
  /\ answered' = [answered EXCEPT ![h] = TRUE]
  /\ IF closePhase = "awaiting"
     THEN closePhase' = "idle" /\ backstop' = 0 /\ timer' = Disarmed
     ELSE UNCHANGED <<closePhase, backstop, timer>>
  /\ UNCHANGED <<asked, request, drainVars, exited>>

-----------------------------------------------------------------------------
\* The drain.

\* startCloseDrain: admission closes, searches are cancelled, and the three
\* tasks run, each for as long as it likes.
StartCloseDrain ==
  /\ ~exited /\ drainPc = "start"
  /\ drainPc' = "wait"
  /\ task' = [t \in Tasks |-> "running"]
  /\ UNCHANGED <<closePhase, handshakeVars, request, starts, opener, exited>>

TaskEnds(t) ==
  /\ ~exited /\ task[t] = "running"
  /\ task' = [task EXCEPT ![t] = "done"]
  /\ UNCHANGED <<closePhase, handshakeVars, request, starts, opener, drainPc, exited>>

\* Fault: the drain has no deadline of its own.
DrainWaitEnds_NoDeadline ==
  /\ ~exited /\ drainPc = "wait"
  /\ \A t \in Tasks : task[t] = "done"
  /\ drainPc' = "permit"
  /\ UNCHANGED <<closePhase, handshakeVars, request, starts, opener, task, exited>>

\* All tasks are done, or the two seconds are over.
DrainWaitEnds ==
  /\ ~exited /\ drainPc = "wait"
  /\ drainPc' = "permit"
  /\ UNCHANGED <<closePhase, handshakeVars, request, starts, opener, task, exited>>

\* permitAndQuit: the phase first, then the quit, which the host answers by
\* asking shouldQuit.
Permit ==
  /\ ~exited /\ drainPc = "permit"
  /\ closePhase' = "permitted"
  /\ drainPc' = "quit"
  /\ UNCHANGED <<handshakeVars, request, starts, opener, task, exited>>

Quit ==
  /\ ~exited /\ drainPc = "quit"
  /\ drainPc' = "done"
  /\ exited' = (closePhase = "permitted")
  /\ UNCHANGED <<closePhase, handshakeVars, request, starts, opener, task>>

-----------------------------------------------------------------------------

DrainStep == StartCloseDrain \/ DrainWaitEnds \/ Permit \/ Quit

Next ==
  \/ \E q \in Requests : ShouldQuit(q) \/ ForceDrain(q)
  \/ \E h \in Handshakes :
       \/ BackstopFires(h) \/ BackstopCallback(h)
       \/ ConfirmBeforeCloseReady(h) \/ CancelBeforeClose(h)
  \/ \E t \in Tasks : TaskEnds(t)
  \/ DrainStep

Spec == Init /\ [][Next]_vars

\* Timers fire and goroutines run; nobody has to ask, to answer, or to finish
\* a teardown task.
Fairness ==
  /\ \A h \in Handshakes : WF_vars(BackstopFires(h)) /\ WF_vars(BackstopCallback(h))
  /\ \A q \in Requests : WF_vars(ForceDrain(q))
  /\ WF_vars(DrainStep)

FairSpec == Spec /\ Fairness

-----------------------------------------------------------------------------

\* However second requests, backstops and a confirmation race, the teardown
\* starts once, and not before the machine left its cancellable phases
\* (enterCloseDrain, app.go:351-372).
TeardownOnce ==
  /\ starts <= 1
  /\ starts = 1 <=> closePhase \in {"draining", "permitted"}

\* An abandoned close leaves nothing behind: nothing torn down, no timer
\* armed, nothing that could still disarm (CancelBeforeClose, app.go:336-349).
CancelRestores ==
  closePhase = "idle" =>
    /\ drainPc = "none" /\ backstop = 0
    /\ \A h \in Handshakes : timer[h] # "armed"
    /\ \A t \in Tasks : task[t] = "none"

\* A drain ends the app, whatever the teardown tasks do.
DrainEndsApp == closePhase = "draining" ~> exited

\* No handshake stays open: the front end answers, the user asks again, or the
\* backstop forces the drain.
HandshakeEnds == closePhase = "awaiting" ~> closePhase # "awaiting"

\* A close comes to an end, answered or not.
CloseEnds == DrainEndsApp /\ HandshakeEnds

\* Only the timer of the handshake that is open forces its drain: the user has
\* the whole of the backstop to answer (app.go:128-132).
OwnHandshake == starts > 0 => opener = asked

-----------------------------------------------------------------------------
\* The inductive strengthening behind the proved properties.

\* Phase, drain and tasks move together, and only the open handshake has an
\* armed timer.
CloseShape ==
  /\ closePhase \in {"idle", "awaiting"} <=> drainPc = "none"
  /\ closePhase = "draining" <=> drainPc \in {"start", "wait", "permit"}
  /\ starts = 0 <=> drainPc = "none"
  /\ drainPc = "none" => \A t \in Tasks : task[t] = "none"
  /\ \A h \in Handshakes : timer[h] = "armed" => h = backstop
  /\ backstop # 0 => closePhase = "awaiting"

CloseInv == TypeOK /\ CloseShape

=============================================================================
