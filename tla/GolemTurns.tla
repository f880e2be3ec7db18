----------------------------- MODULE GolemTurns -----------------------------
(***************************************************************************)
(* One Golem conversation: the turns the user submits, their consent and   *)
(* their queue in the main window (stores/golemStore.ts), the binding of   *)
(* the repository and the status requests (hooks/useGolemBridge.ts), and   *)
(* the conversation at the service (internal/ai/service.go).  Events of    *)
(* the service arrive in order; answers of calls arrive in any order, also *)
(* with respect to events.                                                 *)
(***************************************************************************)
EXTENDS Naturals, Sequences, FiniteSets, SequencesExt, FiniteSetsExt

CONSTANTS
  MaxActs         \* bound on the messages, and on what may disturb them: a closed repository,
                  \* retries, cancels, clears, refusals, deadlines and changed settings

Runs == 1 .. MaxActs

ASSUME TurnBounds == MaxActs \in Nat

VARIABLES
  win,            \* the conversation in the window, and the state of the bridge
  made,           \* runs made so far: message and repository epoch of each
  turns,          \* RunGolemTurn calls in flight
  cancels,        \* CancelGolemRun calls in flight
  status,         \* the last GetGolemStatus call, while it is in flight
  repo,           \* the repository is open in the window
  rebinds,        \* bind and unbind calls not served yet
  svc,            \* the conversation at the service
  events,         \* events on their way to the window
  expired,        \* runs whose consent challenge is past its deadline
  count,          \* counters of the bounds
  launches,       \* history: how often each message was run
  wanted,         \* history: how often the user asked for each message
  over,           \* history: runs whose end the window has seen
  gaps            \* history: known crossings, see the properties

turnVars == <<win, made, turns, cancels, status, repo, rebinds, svc, events, expired, count,
              launches, wanted, over, gaps>>

NoRun == [phase |-> "none", own |-> FALSE]
NoStatus == [pc |-> "none", epoch |-> 0, found |-> 0, available |-> FALSE, run |-> 0, state |-> "none"]
Terminal == {"done", "failed", "canceled"}

Has(how, when) == gaps' = IF when THEN gaps \cup {how} ELSE gaps
Acts(what) == count.messages + count.others < MaxActs /\ count' = [count EXCEPT ![what] = @ + 1]
Disturbs == Acts("others")

(***************************************************************************)
(* The window: operations on the conversation v.                           *)
(***************************************************************************)
Free(v, r) == IF v.active = r THEN 0 ELSE v.active
Ended(v, r) == v.runs[r].phase \in Terminal

(* releasePendingConsent: the prompt of the challenge becomes retryable. *)
Released(v) ==
  LET r == v.pending
  IN [v EXCEPT !.pending = 0, !.failed = made[r].message, !.active = Free(v, r),
               !.runs[r].phase = IF Ended(v, r) THEN @ ELSE "failed"]

(* dropExpiredConsent *)
Lapsed(v) == v.pending # 0 /\ v.pending \in expired
Fresh(v) == IF Lapsed(v) THEN Released(v) ELSE v

(* sendRefusal *)
MaySend(v) == v.phase = "ready" /\ v.hydrated = v.epoch /\ v.available
Busy(v) == v.active # 0 \/ v.pending # 0

(* A run of a message under a new id, and its call. *)
Starts(v, message, others) ==
  LET r == Len(made) + 1
  IN /\ win' = [v EXCEPT !.active = r, !.runs[r] = [phase |-> "admitting", own |-> TRUE]]
     /\ made' = Append(made, [message |-> message, epoch |-> v.epoch])
     /\ turns' = others \cup {[run |-> r, consent |-> FALSE, pc |-> "sent"]}

Stays(v, others) == win' = v /\ turns' = others /\ UNCHANGED made

(* A defect: the turn that is started stays in the queue. *)
DispatchQueued_Kept(v, others) ==
  LET ready == {i \in DOMAIN v.queue : v.queue[i].state = "queued"}
      i     == Min(ready)
  IN IF Busy(v) \/ ready = {} THEN Stays(v, others)
     ELSE IF ~MaySend(v) THEN Stays([v EXCEPT !.queue[i].state = "reopen-required"], others)
     ELSE Starts(v, v.queue[i].message, others)

(* dispatchQueued: the first staged turn, unless the conversation is busy.  *)
DispatchQueued(v, others) ==
  LET ready == {i \in DOMAIN v.queue : v.queue[i].state = "queued"}
      i     == Min(ready)
  IN IF Busy(v) \/ ready = {} THEN Stays(v, others)
     ELSE IF ~MaySend(v) THEN Stays([v EXCEPT !.queue[i].state = "reopen-required"], others)
     ELSE Starts([v EXCEPT !.queue = RemoveAt(@, i)], v.queue[i].message, others)

(* finishRun: a terminal is applied once, and the next turn is dispatched.  *)
FinishRun(v, r, phase, answered) ==
  LET failed == phase = "failed" \/ (phase = "done" /\ ~answered)
      kept   == IF v.pending = r THEN made[r].message
                ELSE IF failed /\ v.runs[r].own THEN made[r].message ELSE v.failed
  IN IF Ended(v, r) THEN Stays(v, turns)
     ELSE DispatchQueued([v EXCEPT !.runs[r].phase = phase, !.active = Free(v, r), !.failed = kept,
                                   !.pending = IF @ = r THEN 0 ELSE @], turns)

(***************************************************************************)
(* The window: what the user does.                                         *)
(***************************************************************************)
Submit ==
  /\ MaySend(win) /\ Acts("messages")
  /\ LET v == Fresh(win)
         m == count.messages + 1
     IN IF Busy(v)
        THEN Stays([v EXCEPT !.queue = Append(@, [message |-> m, state |-> "queued"])], turns)
        ELSE Starts(v, m, turns)
  /\ wanted' = [wanted EXCEPT ![count.messages + 1] = 1]
  /\ UNCHANGED <<cancels, status, repo, rebinds, svc, events, expired, launches, over, gaps>>

AllowAndSend ==
  /\ MaySend(win) /\ win.pending # 0
  /\ IF Lapsed(win) THEN Stays(Released(win), turns)
     ELSE /\ win.runs[win.pending].phase = "needs-consent"
          /\ Stays([win EXCEPT !.runs[win.pending].phase = "admitting"],
                   turns \cup {[run |-> win.pending, consent |-> TRUE, pc |-> "sent"]})
  /\ UNCHANGED <<cancels, status, repo, rebinds, svc, events, expired, count, launches, wanted, over,
                 gaps>>

RetryLastFailed ==
  /\ MaySend(win) /\ Disturbs
  /\ LET v == Fresh(win)
     IN /\ v.failed # 0 /\ ~Busy(v)
        /\ Starts([v EXCEPT !.failed = 0], v.failed, turns)
        /\ wanted' = [wanted EXCEPT ![v.failed] = @ + 1]
  /\ UNCHANGED <<cancels, status, repo, rebinds, svc, events, expired, launches, over, gaps>>

CancelRun(r) ==
  /\ win.runs[r].phase \in {"running", "needs-consent"} /\ Disturbs
  /\ IF win.pending = r /\ Lapsed(win)
     THEN win' = Released(win) /\ UNCHANGED cancels
     ELSE /\ win' = [win EXCEPT !.runs[r].phase = "canceling"]
          /\ cancels' = cancels \cup {[run |-> r, before |-> win.runs[r].phase, pc |-> "sent"]}
  /\ UNCHANGED <<made, turns, status, repo, rebinds, svc, events, expired, launches, wanted, over, gaps>>

(* Only an idle conversation is cleared: then no run of it is live. *)
ClearConversation ==
  /\ ~Busy(win) /\ Disturbs
  /\ win' = [win EXCEPT !.runs = [r \in Runs |-> NoRun], !.queue = << >>, !.failed = 0]
  /\ Has("revived", status.pc = "answered" /\ status.run # 0)
  /\ UNCHANGED <<made, turns, cancels, status, repo, rebinds, svc, events, expired, launches, wanted,
                 over>>

(***************************************************************************)
(* The window: binding.                                                    *)
(***************************************************************************)
(* invalidateBinding: the prompt of a pending consent goes back on the queue,*)
(* which waits for the repository to be opened again.                       *)
Shelved(v) ==
  LET r == v.pending
      w == IF r = 0 THEN v
           ELSE [v EXCEPT !.pending = 0, !.active = Free(v, r),
                          !.runs[r].phase = IF Ended(v, r) THEN @ ELSE "canceled",
                          !.queue = Append(@, [message |-> made[r].message, state |-> "queued"])]
  IN [w EXCEPT !.queue = [i \in DOMAIN @ |-> [@[i] EXCEPT !.state = "reopen-required"]],
               !.hydrated = 0, !.phase = "unbound"]

Leave ==
  /\ repo /\ Disturbs
  /\ repo' = FALSE /\ win' = Shelved(win) /\ status' = NoStatus
  /\ rebinds' = Append(rebinds, "unbind")
  /\ Has("shelved", win.pending # 0 /\ win.runs[win.pending].phase # "needs-consent")
  /\ UNCHANGED <<made, turns, cancels, svc, events, expired, launches, wanted, over>>

Enter ==
  /\ ~repo /\ repo' = TRUE
  /\ win' = [win EXCEPT !.phase = "binding"] /\ rebinds' = Append(rebinds, "bind")
  /\ UNCHANGED <<made, turns, cancels, status, svc, events, expired, count, launches, wanted, over,
                 gaps>>

Asks(epoch) == [NoStatus EXCEPT !.pc = "sent", !.epoch = epoch]

(* GetWorkspaceInfo, one after the other.  A bind the window has left again *)
(* is not followed by a status request.                                     *)
Rebinds ==
  /\ rebinds # << >> /\ rebinds' = Tail(rebinds)
  /\ IF Head(rebinds) = "unbind"
     THEN /\ svc' = [svc EXCEPT !.epoch = 0, !.challenge = 0,
                                !.state = IF @ = "pending" THEN "idle" ELSE @]
          /\ UNCHANGED status
     ELSE /\ svc' = [svc EXCEPT !.epoch = svc.binds + 1, !.binds = @ + 1]
          /\ status' = IF repo THEN Asks(svc.binds + 1) ELSE status
  /\ UNCHANGED <<win, made, turns, cancels, repo, events, expired, count, launches, wanted, over,
                 gaps>>

(* A defect: a run the status lists is taken for live although it has ended. *)
Adopted_Revived(v) ==
  IF status.run = 0 THEN v
  ELSE [v EXCEPT !.runs[status.run].phase = status.state,
                 !.active = IF @ = 0 THEN status.run ELSE @]

(* A run the status lists, unless the window knows that it has ended. *)
Adopted(v) ==
  IF status.run = 0 \/ (status.run \in Runs /\ Ended(v, status.run)) THEN v
  ELSE [v EXCEPT !.runs[status.run].phase = status.state,
                 !.active = IF @ = 0 THEN status.run ELSE @]

(* hydrateStatus: turns that waited for the repository are staged again, and *)
(* the first is dispatched.  A status of no repository is an error.         *)
HydrateStatus ==
  /\ status.pc = "answered" /\ status' = NoStatus
  /\ IF status.found = 0
     THEN Stays([win EXCEPT !.phase = "error", !.hydrated = 0], turns)
     ELSE IF status.found < win.floor THEN Stays(win, turns)
     ELSE LET waiting == \E i \in DOMAIN win.queue : win.queue[i].state = "reopen-required"
              v == Adopted([win EXCEPT
                     !.floor = status.found, !.epoch = status.found, !.hydrated = status.found,
                     !.available = status.available, !.phase = "ready",
                     !.queue = [i \in DOMAIN @ |-> [@[i] EXCEPT !.state = "queued"]]])
          IN IF waiting THEN DispatchQueued(v, turns) ELSE Stays(v, turns)
  /\ UNCHANGED <<cancels, repo, rebinds, svc, events, expired, count, launches, wanted, over, gaps>>

(***************************************************************************)
(* The window: answers and events.                                         *)
(***************************************************************************)
(* applyAdmission, applyTurnFailure: only a run that is being admitted is    *)
(* changed, and a failure does not dispatch the queue.                      *)
TurnReturns(c) ==
  /\ c.pc # "sent" /\ turns' = turns \ {c}
  /\ LET r     == c.run
         own   == win.runs[r].own
         fails == [win EXCEPT !.runs[r].phase = "failed", !.active = Free(win, r),
                              !.failed = IF own THEN made[r].message ELSE @]
     IN win' = IF win.runs[r].phase # "admitting" THEN win
               ELSE IF c.pc = "accepted"
               THEN [win EXCEPT !.runs[r].phase = "running",
                                !.active = IF @ = 0 THEN r ELSE @,
                                !.pending = IF @ = r THEN 0 ELSE @]
               ELSE IF c.pc = "needs-consent" /\ made[r].epoch >= win.floor /\ own
               THEN [win EXCEPT !.runs[r].phase = "needs-consent", !.active = r, !.pending = r]
               ELSE IF c.pc = "rejected" /\ c.consent
               THEN [win EXCEPT !.runs[r].phase = "needs-consent"]
               ELSE fails
  /\ UNCHANGED <<made, cancels, status, repo, rebinds, svc, events, expired, count, launches, wanted,
                 over, gaps>>

(* requestCancel: a rejection takes the run back, or gives its consent up.   *)
CancelReturns(c) ==
  /\ c.pc # "sent" /\ cancels' = cancels \ {c}
  /\ win' = IF c.pc = "done" \/ win.runs[c.run].phase # "canceling" THEN win
            ELSE IF win.pending = c.run THEN Released(win)
            ELSE [win EXCEPT !.runs[c.run].phase = c.before]
  /\ UNCHANGED <<made, turns, status, repo, rebinds, svc, events, expired, count, launches, wanted,
                 over, gaps>>

(* reduceEvent and ingestRunStatus.  A golem:run-status of a binding the     *)
(* window has replaced is dropped.                                          *)
Ingest ==
  /\ events # << >> /\ events' = Tail(events)
  /\ LET e  == Head(events)
         r  == e.run
         v  == IF win.runs[r].phase = "none" THEN [win EXCEPT !.runs[r].phase = "running"] ELSE win
         old == e.via = "status" /\ win.epoch # made[r].epoch
     IN IF e.kind = "changed"
        THEN /\ Stays(win, turns) /\ UNCHANGED <<over, gaps>>
             /\ status' = IF repo /\ rebinds = << >> THEN Asks(svc.epoch) ELSE status
        ELSE IF e.kind = "started"
        THEN /\ Stays(IF Ended(v, r) \/ v.runs[r].phase = "canceling" THEN v
                      ELSE [v EXCEPT !.runs[r].phase = "running",
                                     !.pending = IF @ = r THEN 0 ELSE @], turns)
             /\ UNCHANGED <<status, over, gaps>>
        ELSE /\ IF old THEN Stays(win, turns) ELSE FinishRun(v, r, e.kind, e.answered)
             /\ over' = IF old THEN over ELSE over \cup {r}
             /\ Has("ignored", old)
             /\ UNCHANGED status
  /\ UNCHANGED <<cancels, repo, rebinds, svc, expired, count, launches, wanted>>

(***************************************************************************)
(* The service.                                                            *)
(***************************************************************************)
Event(r, kind, via, answered) == [run |-> r, kind |-> kind, via |-> via, answered |-> answered]

(* dropExpiredChallengeLocked *)
Swept == IF svc.challenge # 0 /\ svc.challenge \in expired
         THEN [svc EXCEPT !.challenge = 0, !.state = IF @ = "pending" THEN "idle" ELSE @]
         ELSE svc

Answers(c, how) == turns' = (turns \ {c}) \cup {[c EXCEPT !.pc = how]}
Refuses(c, s) == Answers(c, "rejected") /\ svc' = s /\ UNCHANGED launches

(* Registered and launched; the construction of the runner may fail.        *)
Launches(c, s) ==
  \/ /\ Answers(c, "accepted")
     /\ svc' = [s EXCEPT !.state = "running", !.run = c.run, !.started = FALSE]
     /\ launches' = [launches EXCEPT ![made[c.run].message] = @ + 1]
     /\ UNCHANGED count
  \/ /\ Disturbs
     /\ Refuses(c, [s EXCEPT !.state = "idle"])

(* StartTurn and admit, which hold the binding and the conversation: stale    *)
(* bindings and used run ids are refused, one run at a time, consent first. *)
StartTurn(c) ==
  /\ c.pc = "sent"
  /\ LET r == c.run
         s == Swept
         claimed == [s EXCEPT !.claims = @ \cup {r}]
     IN IF made[r].epoch # s.epoch \/ (r \in s.claims /\ ~c.consent)
        THEN Refuses(c, svc) /\ UNCHANGED count
        ELSE IF ~s.usable \/ s.state \in {"running", "canceling"}
        THEN Refuses(c, s) /\ UNCHANGED count
        ELSE IF s.state = "pending"
        THEN IF ~c.consent \/ s.challenge # r THEN Refuses(c, s) /\ UNCHANGED count
             ELSE \/ Launches(c, [s EXCEPT !.challenge = 0, !.granted = TRUE])
                  \/ Disturbs /\ Refuses(c, s)
        ELSE IF c.consent THEN Refuses(c, s) /\ UNCHANGED count
        ELSE IF ~s.granted
        THEN /\ Answers(c, "needs-consent")
             /\ svc' = [claimed EXCEPT !.state = "pending", !.challenge = r]
             /\ UNCHANGED <<launches, count>>
        ELSE Launches(c, claimed)
  /\ UNCHANGED <<win, made, cancels, status, repo, rebinds, events, expired, wanted, over, gaps>>

RunStarted ==
  /\ svc.run # 0 /\ ~svc.started
  /\ svc' = [svc EXCEPT !.started = TRUE]
  /\ events' = Append(events, Event(svc.run, "started", "event", FALSE))
  /\ UNCHANGED <<win, made, turns, cancels, status, repo, rebinds, expired, count, launches, wanted,
                 over, gaps>>

(* runTurn: the conversation is released before the terminal is emitted.    *)
RunEnds ==
  /\ svc.run # 0 /\ svc.last.run = 0
  /\ \E kind \in IF svc.state = "canceling" THEN {"canceled", "done"} ELSE {"done", "failed"} :
       \E via \in IF kind = "done" THEN {"event"} ELSE {"event", "status"} :
         \E answered \in IF kind = "done" THEN BOOLEAN ELSE {FALSE} :
           svc' = [svc EXCEPT !.run = 0, !.state = "idle",
                              !.last = Event(svc.run, kind, via, answered)]
  /\ UNCHANGED <<win, made, turns, cancels, status, repo, rebinds, events, expired, count, launches,
                 wanted, over, gaps>>

EmitsEnd ==
  /\ svc.last.run # 0
  /\ events' = Append(events, svc.last)
  /\ svc' = [svc EXCEPT !.last = Event(0, "none", "event", FALSE)]
  /\ UNCHANGED <<win, made, turns, cancels, status, repo, rebinds, expired, count, launches, wanted,
                 over, gaps>>

(* Cancel: the active run, whatever its binding, or the exact challenge.    *)
CancelServed(c) ==
  /\ c.pc = "sent"
  /\ LET answer(how) == cancels' = (cancels \ {c}) \cup {[c EXCEPT !.pc = how]}
     IN IF svc.run = c.run
        THEN answer("done") /\ svc' = [svc EXCEPT !.state = "canceling"] /\ UNCHANGED events
        ELSE IF svc.state = "pending" /\ svc.challenge = c.run
        THEN /\ answer("done") /\ svc' = [svc EXCEPT !.challenge = 0, !.state = "idle"]
             /\ events' = Append(events, Event(c.run, "canceled", "status", FALSE))
        ELSE answer("rejected") /\ UNCHANGED <<svc, events>>
  /\ UNCHANGED <<win, made, turns, status, repo, rebinds, expired, count, launches, wanted, over, gaps>>

(* Status lists the active run, of any binding.                             *)
StatusServed ==
  /\ status.pc = "sent"
  /\ status' = [status EXCEPT !.pc = "answered",
                  !.found = IF status.epoch = svc.epoch THEN svc.epoch ELSE 0,
                  !.available = svc.usable, !.run = svc.run,
                  !.state = IF svc.state = "canceling" THEN "canceling" ELSE "running"]
  /\ svc' = IF status.epoch = svc.epoch THEN Swept ELSE svc
  /\ UNCHANGED <<win, made, turns, cancels, repo, rebinds, events, expired, count, launches, wanted,
                 over, gaps>>

(* The settings, or a grant that could not be stored; then the window asks.  *)
Change ==
  /\ Disturbs
  /\ \E usable \in BOOLEAN : svc' = [svc EXCEPT !.usable = usable]
  /\ events' = Append(events, Event(0, "changed", "event", FALSE))
  /\ UNCHANGED <<win, made, turns, cancels, status, repo, rebinds, expired, launches, wanted, over,
                 gaps>>

(* The deadline of a challenge, on the clock both sides read. *)
Expire ==
  /\ Disturbs
  /\ \E r \in {svc.challenge, win.pending} \ ({0} \cup expired) : expired' = expired \cup {r}
  /\ UNCHANGED <<win, made, turns, cancels, status, repo, rebinds, svc, events, launches, wanted,
                 over, gaps>>

(***************************************************************************)
(* The specification: a bound and hydrated repository, no turn yet.         *)
(***************************************************************************)
TurnInit ==
  /\ win = [phase |-> "ready", hydrated |-> 1, floor |-> 1, epoch |-> 1, available |-> TRUE,
            active |-> 0, pending |-> 0, failed |-> 0, queue |-> << >>,
            runs |-> [r \in Runs |-> NoRun]]
  /\ made = << >> /\ turns = {} /\ cancels = {} /\ status = NoStatus
  /\ repo = TRUE /\ rebinds = << >>
  /\ svc = [epoch |-> 1, binds |-> 1, state |-> "idle", run |-> 0, started |-> FALSE,
            challenge |-> 0, claims |-> {}, granted |-> FALSE, usable |-> TRUE,
            last |-> Event(0, "none", "event", FALSE)]
  /\ events = << >> /\ expired = {}
  /\ count = [messages |-> 0, others |-> 0]
  /\ launches = [m \in Runs |-> 0] /\ wanted = launches
  /\ over = {} /\ gaps = {}

(* Calls are served and answered, events arrive, and runs end. *)
TurnContinues ==
  \/ Rebinds \/ HydrateStatus \/ Ingest \/ RunStarted \/ RunEnds \/ EmitsEnd \/ StatusServed
  \/ \E c \in turns : StartTurn(c) \/ TurnReturns(c)
  \/ \E c \in cancels : CancelServed(c) \/ CancelReturns(c)

TurnNext ==
  \/ Submit \/ AllowAndSend \/ RetryLastFailed \/ ClearConversation \/ \E r \in Runs : CancelRun(r)
  \/ Leave \/ Enter \/ Change \/ Expire \/ TurnContinues

TurnSpec == TurnInit /\ [][TurnNext]_turnVars
TurnFairSpec == TurnSpec /\ WF_turnVars(TurnContinues)

(***************************************************************************)
(* Properties.                                                             *)
(***************************************************************************)
(* No message is run more often than the user asked for it, over retries,    *)
(* queue, consent and rebinding; but for a grant still on its way when the  *)
(* repository is closed, whose prompt is staged again while it may run.     *)
OncePerAsking == "shelved" \in gaps \/ \A m \in DOMAIN wanted : launches[m] <= wanted[m]

(* The active run is over or will be: it only waits for the user's consent. *)
Occupied == win.active # 0 /\ win.runs[win.active].phase # "needs-consent"

(* service.go:990 emits its fallback so that no run is left that never       *)
(* completes and blocks the queue.                                          *)
RunsComplete == Occupied ~> ~Occupied

(* A run that has ended does not take the conversation again; but for a     *)
(* status that was read before the end and is applied after a clear.        *)
EndsOnce == win.active \notin over \/ "revived" \in gaps

(* A message is run as often as it was asked for, and each of its runs ends *)
(* once, however answers, events and rebinding interleave.                  *)
TurnsOnce == OncePerAsking /\ EndsOnce

(* Every run ends; but for such a status, and for a golem:run-status of a   *)
(* binding that was replaced.                                               *)
RunsCompleteApart == Occupied ~> ~Occupied \/ gaps \cap {"revived", "ignored"} # {}
=============================================================================
