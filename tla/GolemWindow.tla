---------------------------- MODULE GolemWindow ----------------------------
(***************************************************************************)
(* Moving the Golem chat between the main window and a window of its own:  *)
(* the host (app_golem_window.go), the relay of the main window            *)
(* (golem/windowRelay.ts over the main half of golem/relayCore.ts) and the *)
(* relay of the Golem window (golem/windowSatellite.ts over the satellite  *)
(* half).  The host publishes its state to both windows, and relays the    *)
(* messages of one window to the other; the two channels do not wait for   *)
(* each other.                                                             *)
(*                                                                         *)
(* One conversation is modelled; its composer text is a number, 0 for      *)
(* empty.  Of the actions a Golem window relays, Send is modelled, the one *)
(* that consumes text.  A projection is only told apart from none.         *)
(***************************************************************************)
EXTENDS Naturals, FiniteSets, Sequences, SequencesExt

CONSTANTS
  MaxInstances,   \* bound on the windows opened
  MaxHandoffs,    \* bound on the transitions begun
  MaxEdits,       \* bound on the texts typed
  MaxSends,       \* bound on the Sends of one Golem window
  MaxPosts,       \* posts of one action or transfer before it is uncertain
  MaxInFlight,    \* bound on the posts on their way to the host
  MaxStalls       \* bound on the retirements the observer gives up on

ASSUME BoundsAssumption ==
  /\ MaxInstances \in Nat /\ MaxHandoffs \in Nat /\ MaxEdits \in Nat
  /\ MaxSends \in Nat /\ MaxPosts \in Nat \ {0} /\ MaxInFlight \in Nat \ {0}
  /\ MaxStalls \in Nat

VARIABLES
  go,             \* golemWindowRuntime
  seqs,           \* instanceSeq, handoffSeq, and the stalls so far
  open,           \* the goroutine of OpenGolemWindow
  win,            \* the native window: shown, and whether a Close reached it
  news,           \* window -> published states it has not seen
  posts,          \* messages posted to the host and not handled yet
  relayed,        \* window -> messages relayed, in order, and not delivered
  main,           \* the Owner of windowRelay.ts with its core
  sat,            \* the Owner of windowSatellite.ts with its core
  typed,          \* history: number of texts typed
  sent            \* history: text -> times it was submitted

hostVars == <<go, seqs, open, win>>
vars == <<hostVars, news, posts, relayed, main, sat, typed, sent>>

Windows == {"main", "satellite"}
Opening == {"bootstrapping", "bootstrapped"}
Texts == 1..MaxEdits

Snapshot(g) ==
  [rev |-> g.rev, phase |-> g.phase, mode |-> g.mode, instance |-> g.instance,
   handoff |-> g.handoff, reason |-> g.reason]

Message(from, kind, instance, handoff, id, text, ok) ==
  [from |-> from, kind |-> kind, instance |-> instance, handoff |-> handoff,
   id |-> id, text |-> text, ok |-> ok, checked |-> FALSE]

NoMessage == Message("main", "view", 0, 0, 0, 0, FALSE)

Post(ms) ==
  /\ posts' = posts \cup ms
  /\ Cardinality(posts') <= MaxInFlight

(***************************************************************************)
(* The host.                                                               *)
(***************************************************************************)
ClosedRuntime ==
  [phase |-> "closed", mode |-> "docked", instance |-> 0, handoff |-> 0,
   view |-> FALSE, transfer |-> 0, acked |-> FALSE, handle |-> FALSE,
   authorized |-> FALSE, failed |-> FALSE, observing |-> FALSE,
   reason |-> FALSE, rev |-> 0]

Retired(g) == [ClosedRuntime EXCEPT !.rev = g.rev, !.reason = g.reason]

(* Every transition is published to both windows with a greater revision; a *)
(* Golem window that has not been run hears nothing.                        *)
Publish(g) ==
  LET next == [g EXCEPT !.rev = @ + 1] IN
  /\ go' = next
  /\ news' = [w \in Windows |->
       IF w = "main" \/ win.shown = "run" THEN news[w] \cup {Snapshot(next)} ELSE {}]

(* The one native close of an instance.  A window that is not run yet does  *)
(* not notice the Close.                                                    *)
Authorize(reason) ==
  IF ~go.handle
  THEN Publish(Retired([go EXCEPT !.reason = reason])) /\ UNCHANGED win
  ELSE /\ Publish([go EXCEPT !.phase = "closing", !.authorized = TRUE, !.failed = FALSE,
                             !.observing = TRUE, !.reason = reason])
       /\ win' = [win EXCEPT !.closing = win.shown = "run"]

AbortAttempt == go.phase \in Opening /\ Authorize(TRUE)

RestoreReady ==
  /\ go.phase = "closing" /\ ~go.authorized
  /\ Publish([go EXCEPT !.phase = "ready", !.transfer = 0, !.acked = FALSE, !.reason = TRUE])
  /\ UNCHANGED win

TransitionTimeout_ReDocksOnly ==
  /\ go.handle /\ ~go.authorized
  /\ RestoreReady
  /\ UNCHANGED <<seqs, open, posts, relayed, main, sat, typed, sent>>

(* The phase the deadline is armed in has not changed since, or it has been *)
(* stopped; a late timer names another handoff and does nothing.            *)
TransitionTimeout ==
  /\ go.handle /\ ~go.authorized
  /\ AbortAttempt \/ RestoreReady
  /\ UNCHANGED <<seqs, open, posts, relayed, main, sat, typed, sent>>

RequestReDock ==
  CASE go.phase = "closing" /\ go.authorized /\ go.failed /\ ~go.observing ->
         /\ Publish([go EXCEPT !.failed = FALSE, !.reason = FALSE, !.observing = TRUE])
         /\ UNCHANGED <<win, seqs>>
    [] go.phase \in Opening -> AbortAttempt /\ UNCHANGED seqs
    [] go.phase = "ready" ->
         /\ seqs' = [seqs EXCEPT !.handoff = @ + 1]
         /\ Publish([go EXCEPT !.phase = "closing", !.handoff = seqs.handoff + 1,
                               !.transfer = 0, !.acked = FALSE, !.reason = FALSE])
         /\ UNCHANGED win
    [] OTHER -> UNCHANGED <<go, news, win, seqs>>

(* The Dock control of the Golem window, its shortcut, or its native close. *)
SatelliteCloses ==
  /\ win.shown = "run" /\ ~win.closing
  /\ seqs.handoff < MaxHandoffs
  /\ RequestReDock
  /\ UNCHANGED <<open, posts, relayed, main, sat, typed, sent>>

(* The native close an instance was authorized for passes through.  *)
AuthorizedNativeClose ==
  /\ win.shown = "run" /\ go.authorized /\ go.mode = "undocked"
  /\ win' = [win EXCEPT !.closing = TRUE]
  /\ UNCHANGED <<go, seqs, open, news, posts, relayed, main, sat, typed, sent>>

(* OpenGolemWindow: reserve the instance; create the window; publish it;    *)
(* add it to the manager; run it, and look whether it was retired meanwhile.*)
Answered(error) == [open EXCEPT !.pc = IF error THEN "refused" ELSE "accepted"]

OpenReserve ==
  /\ open.pc = "called"
  /\ IF go.phase # "closed"
     THEN open' = Answered(go.phase = "closing") /\ UNCHANGED <<go, seqs>>
     ELSE /\ seqs' = [seqs EXCEPT !.instance = @ + 1, !.handoff = @ + 1]
          /\ go' = [ClosedRuntime EXCEPT !.phase = "bootstrapping", !.rev = go.rev,
                      !.instance = seqs.instance + 1, !.handoff = seqs.handoff + 1]
          /\ open' = [pc |-> "creating", instance |-> seqs.instance + 1]
  /\ UNCHANGED <<win, news, posts, relayed, main, sat, typed, sent>>

AbandonOpen ==
  /\ open.pc = "creating"
  /\ open' = Answered(TRUE)
  /\ IF go.instance = open.instance
     THEN Publish(Retired(go))
     ELSE UNCHANGED <<go, news>>
  /\ UNCHANGED <<seqs, win, posts, relayed, main, sat, typed, sent>>

OpenPublish ==
  /\ open.pc = "creating"
  /\ IF go.instance = open.instance /\ go.phase = "bootstrapping"
     THEN Publish([go EXCEPT !.handle = TRUE]) /\ open' = [open EXCEPT !.pc = "published"]
     ELSE open' = Answered(TRUE) /\ UNCHANGED <<go, news>>
  /\ UNCHANGED <<seqs, win, posts, relayed, main, sat, typed, sent>>

OpenAdd ==
  /\ open.pc = "published"
  /\ open' = [open EXCEPT !.pc = "added"]
  /\ win' = [win EXCEPT !.shown = "added"]
  /\ UNCHANGED <<go, seqs, news, posts, relayed, main, sat, typed, sent>>

FreshSatellite ==
  [boot |-> "calling", instance |-> 0, st |-> Snapshot(ClosedRuntime),
   frozen |-> TRUE, draft |-> 0, installed |-> FALSE, view |-> FALSE,
   deferred |-> NoMessage, nextId |-> 0, blocked |-> FALSE,
   action |-> 0, text |-> 0, attempts |-> 0, armed |-> FALSE,
   handoff |-> 0, transfer |-> 0, stage |-> "none", payload |-> 0,
   posted |-> 0, due |-> FALSE, sends |-> 0, redock |-> 0, confirm |-> 0, refused |-> FALSE]

OpenRun ==
  /\ open.pc = "added"
  /\ IF go.instance = open.instance
     THEN /\ win' = [win EXCEPT !.shown = "run"]
          /\ sat' = FreshSatellite
          /\ open' = Answered(FALSE)
     ELSE /\ win' = [win EXCEPT !.shown = "none"]
          /\ open' = Answered(TRUE)
          /\ UNCHANGED sat
  /\ relayed' = [relayed EXCEPT !["satellite"] = <<>>]
  /\ UNCHANGED <<go, seqs, news, posts, main, typed, sent>>

(* The window manager destroys a window that a Close has reached, and its   *)
(* context with it; the text it held is kept for the properties.            *)
WindowRemoved ==
  /\ win.shown = "run" /\ win.closing
  /\ win' = [shown |-> "none", closing |-> FALSE]
  /\ relayed' = [relayed EXCEPT !["satellite"] = <<>>]
  /\ news' = [news EXCEPT !["satellite"] = {}]
  /\ sat' = [FreshSatellite EXCEPT !.draft = sat.draft]
  /\ UNCHANGED <<go, seqs, open, posts, main, typed, sent>>

ObserveRetirement ==
  /\ go.observing
  /\ win.shown = "none"
  /\ Publish(Retired(go))
  /\ UNCHANGED <<seqs, open, win, posts, relayed, main, sat, typed, sent>>

ObserverGivesUp ==
  /\ go.observing
  /\ win.shown # "none"
  /\ seqs.stalls < MaxStalls
  /\ seqs' = [seqs EXCEPT !.stalls = @ + 1]
  /\ Publish([go EXCEPT !.observing = FALSE, !.failed = TRUE, !.reason = TRUE])
  /\ UNCHANGED <<open, win, posts, relayed, main, sat, typed, sent>>

(***************************************************************************)
(* PostGolemWindowMessage.  What it checks first is checked again by the   *)
(* critical section that accepts the message, but for the handoff of a     *)
(* draft map: that one message is modelled in two steps.                   *)
(***************************************************************************)
HandoffFits(m) ==
  CASE m.kind \in {"drafts", "ready", "abort"} -> m.handoff # 0 /\ m.handoff = go.handoff
    [] m.kind = "ack" -> m.handoff \in {0, go.handoff}
    [] OTHER -> m.handoff = 0

Fits(m) == m.instance = go.instance /\ go.phase # "closed" /\ HandoffFits(m)

MayTransfer(m) ==
  /\ m.instance = go.instance
  /\ IF m.from = "main" THEN go.phase \in Opening
     ELSE go.phase = "closing" /\ go.mode = "undocked"
  /\ go.transfer \in {0, m.id}

Confirms(m) == go.transfer # 0 /\ m.id = go.transfer

Acceptable(m) ==
  CASE m.kind = "drafts" -> MayTransfer(m)
    [] m.kind = "view" -> Fits(m) /\ ~go.view
    [] m.kind = "ack" -> Fits(m) /\ (m.handoff = 0 \/ (go.phase = "closing" /\ Confirms(m)))
    [] m.kind = "action" -> Fits(m) /\ go.phase \in {"ready", "closing"}
    [] m.kind = "ready" ->
         Fits(m) /\ \/ go.phase = "ready" /\ m.id = go.transfer
                    \/ go.phase = "bootstrapped" /\ go.view /\ Confirms(m)
    [] m.kind = "abort" -> Fits(m) /\ ~go.authorized /\ go.phase \in Opening \cup {"closing"}

Accept(m) ==
  CASE m.kind = "drafts" ->
         go' = [go EXCEPT !.transfer = m.id, !.acked = FALSE] /\ UNCHANGED <<win, news>>
    [] m.kind = "view" -> go' = [go EXCEPT !.view = TRUE] /\ UNCHANGED <<win, news>>
    [] m.kind = "ack" /\ m.handoff # 0 ->
         go' = [go EXCEPT !.acked = m.ok] /\ UNCHANGED <<win, news>>
    [] m.kind = "ready" /\ go.phase = "bootstrapped" ->
         Publish([go EXCEPT !.phase = "ready", !.mode = "undocked"]) /\ UNCHANGED win
    [] m.kind = "abort" -> AbortAttempt \/ RestoreReady
    [] OTHER -> UNCHANGED <<go, win, news>>

(* The message goes to the other window only; one that is not run loses it. *)
Relay(m) ==
  relayed' = IF m.from = "satellite"
             THEN [relayed EXCEPT !["main"] = Append(@, [m EXCEPT !.checked = FALSE])]
             ELSE IF win.shown = "run"
             THEN [relayed EXCEPT !["satellite"] = Append(@, [m EXCEPT !.checked = FALSE])]
             ELSE relayed

CheckDrafts(m) ==
  /\ m.kind = "drafts" /\ ~m.checked /\ Fits(m)
  /\ posts' = (posts \ {m}) \cup {[m EXCEPT !.checked = TRUE]}
  /\ UNCHANGED <<hostVars, news, relayed, main, sat, typed, sent>>

AbortMessage(from, instance, handoff) ==
  Message(from, "abort", instance, handoff, 0, 0, FALSE)

(* A post the Golem window sees resolved arms its retry timer. *)
AcceptPost(m) ==
  /\ m.kind = "drafts" => m.checked
  /\ Acceptable(m)
  /\ Accept(m)
  /\ Relay(m)
  /\ posts' = posts \ {m}
  /\ sat' = CASE m.from = "satellite" /\ m.kind = "action" /\ sat.action = m.id ->
                   [sat EXCEPT !.armed = TRUE]
              [] m.from = "satellite" /\ m.kind = "drafts" /\ sat.handoff = m.handoff ->
                   [sat EXCEPT !.due = TRUE]
              [] OTHER -> sat
  /\ UNCHANGED <<seqs, open, main, typed, sent>>

(* A refused post arms no timer; a Golem window whose ready is refused ends *)
(* the attempt.                                                             *)
PostFails(m) ==
  posts' = (posts \ {m}) \cup
    (IF m.kind = "ready" /\ win.shown = "run"
     THEN {AbortMessage("satellite", m.instance, m.handoff)} ELSE {})

RefusePost(m) ==
  /\ IF m.kind = "drafts" /\ ~m.checked THEN ~Fits(m) ELSE ~Acceptable(m)
  /\ PostFails(m)
  /\ UNCHANGED <<hostVars, news, relayed, main, sat, typed, sent>>

ConfirmGolemWindowClose ==
  /\ sat.confirm # 0 /\ ~sat.refused
  /\ LET current == /\ go.instance = sat.instance /\ go.handoff = sat.confirm
                    /\ go.mode = "undocked" /\ go.phase = "closing"
         acked == go.transfer # 0 /\ go.acked
     IN \/ /\ current /\ acked /\ ~go.authorized
           /\ Authorize(go.reason)
           /\ sat' = [sat EXCEPT !.confirm = 0]
        \/ /\ ~(current /\ acked /\ ~go.authorized)
           /\ sat' = IF current /\ go.authorized THEN [sat EXCEPT !.confirm = 0]
                     ELSE [sat EXCEPT !.refused = TRUE]
           /\ UNCHANGED <<go, win, news>>
  /\ UNCHANGED <<seqs, open, posts, relayed, main, typed, sent>>

(***************************************************************************)
(* The main window.                                                        *)
(***************************************************************************)
MainInit ==
  [st |-> Snapshot(ClosedRuntime), frozen |-> FALSE, draft |-> 0,
   core |-> 0, lastAction |-> 0, lastOk |-> FALSE, settling |-> 0,
   inHandoff |-> 0, inAck |-> "none", claimed |-> NoMessage,
   transfer |-> 0, payload |-> 0, attempts |-> 0, settled |-> TRUE,
   cleared |-> 0, closing |-> 0,
   undock |-> "none", held |-> FALSE, dock |-> FALSE]

(* bindCore: a core lives as long as the instance it was made for. *)
BoundTo(m, s) ==
  LET instance == IF s.phase = "closed" THEN 0 ELSE s.instance
  IN IF m.core = instance THEN m
     ELSE [m EXCEPT !.core = instance, !.lastAction = 0, !.lastOk = FALSE, !.settling = 0,
                    !.inHandoff = 0, !.inAck = "none", !.claimed = NoMessage]

StartsTransfer(m, s) == s.phase = "bootstrapped" /\ m.transfer # s.handoff

(* installState: the attempts settle on what the host says of the window. *)
MainInstalled(m, s) ==
  LET is(phase) == s.phase = phase
      starts == StartsTransfer(m, s)
      stalled == /\ is("closing") /\ s.reason /\ m.st.phase = "closing"
                 /\ m.st.instance = s.instance /\ m.closing = s.instance
      returned == is("ready") /\ m.closing = s.instance
      opening == m.undock = "opening"
  IN [BoundTo(m, s) EXCEPT
        !.st = s,
        !.frozen = ~is("closed"),
        !.draft = IF is("ready") /\ m.cleared # s.instance THEN 0 ELSE @,
        !.cleared = IF is("ready") THEN s.instance ELSE @,
        !.transfer = IF starts THEN s.handoff ELSE @,
        !.attempts = IF starts THEN 1 ELSE IF is("ready") \/ is("closed") THEN 0 ELSE @,
        !.payload = IF starts THEN m.draft ELSE IF is("ready") \/ is("closed") THEN 0 ELSE @,
        !.settled = IF starts THEN FALSE ELSE @ \/ is("ready") \/ is("closed"),
        !.closing = IF is("closing") THEN s.instance
                    ELSE IF returned \/ is("closed") THEN 0 ELSE @,
        !.dock = @ /\ ~(stalled \/ returned \/ is("closed")),
        !.undock = IF is("ready") \/ (is("closed") /\ ~opening) THEN "none" ELSE @,
        !.held = (@ \/ is("closed")) /\ opening /\ ~is("ready")]

DraftsFromMain(m) == Message("main", "drafts", m.core, m.transfer, 1, m.payload, FALSE)

ViewMessage(instance) == Message("main", "view", instance, 0, 0, 0, FALSE)

Ack(id, handoff, ok) == Message("main", "ack", main.core, handoff, id, 0, ok)

(* Where a relayed message stands to the installed state: one that is ahead *)
(* of it is held until the state has caught up.                             *)
Gate(m) ==
  LET st == main.st
      current == IF m.handoff > st.handoff THEN "ahead" ELSE "reject"
      early(phases) == CASE st.phase \in phases -> "accept"
                         [] st.phase = "closed" -> "reject"
                         [] OTHER -> "ahead"
  IN IF m.instance # st.instance
     THEN IF m.instance > st.instance THEN "ahead" ELSE "reject"
     ELSE CASE m.kind = "abort" -> "accept"
            [] m.kind = "action" -> early({"ready", "closing"})
            [] m.kind = "drafts" ->
                 IF m.handoff = st.handoff THEN early({"closing"}) ELSE current
            [] m.kind = "ready" ->
                 IF m.handoff # st.handoff THEN current
                 ELSE IF st.phase \in {"bootstrapped", "ready"} THEN "accept"
                 ELSE IF st.phase = "bootstrapping" THEN "ahead" ELSE "reject"

Held(i) == Gate(relayed["main"][i]) = "ahead"

(* States come in the order they were published; while a message is held    *)
(* main also reads the state, whose answer may overtake published ones.     *)
MainInstallsState ==
  \E s \in news["main"] :
    /\ \/ \A other \in news["main"] : s.rev <= other.rev
       \/ \E i \in DOMAIN relayed["main"] : Held(i)
    /\ news' = [news EXCEPT !["main"] = {other \in @ : other.rev > s.rev}]
    /\ LET next == MainInstalled(main, s) IN
       /\ main' = next
       /\ Post((IF next.core \notin {0, main.core} THEN {ViewMessage(next.core)} ELSE {})
                \cup (IF StartsTransfer(main, s) THEN {DraftsFromMain(next)} ELSE {}))
    /\ UNCHANGED <<hostVars, relayed, sat, typed, sent>>

MainUnchanged == UNCHANGED <<hostVars, news, sat, typed>>

MainDrops(m) ==
  /\ Gate(m) = "reject"
  /\ UNCHANGED <<main, posts, sent>>

MainReceivesAbort(m) ==
  /\ m.kind = "abort" /\ Gate(m) = "accept"
  /\ main' = [main EXCEPT !.settled = TRUE]
  /\ UNCHANGED <<posts, sent>>

MainReceivesAction_Undeduplicated(m) ==
  /\ m.kind = "action" /\ Gate(m) = "accept" /\ main.core = m.instance
  /\ \E ok \in BOOLEAN :
       /\ main' = [main EXCEPT !.lastAction = m.id, !.lastOk = ok, !.settling = m.id]
       /\ sent' = IF ok THEN [sent EXCEPT ![m.text] = @ + 1] ELSE sent
       /\ UNCHANGED posts

(* An action is executed at most once: a repeated id shares the outcome of  *)
(* the first, an older one is refused.                                      *)
MainReceivesAction(m) ==
  /\ m.kind = "action" /\ Gate(m) = "accept" /\ main.core = m.instance
  /\ CASE m.id > main.lastAction ->
            \E ok \in BOOLEAN :
              /\ main' = [main EXCEPT !.lastAction = m.id, !.lastOk = ok, !.settling = m.id]
              /\ sent' = IF ok THEN [sent EXCEPT ![m.text] = @ + 1] ELSE sent
              /\ UNCHANGED posts
       [] m.id = main.lastAction /\ main.settling # m.id ->
            Post({Ack(m.id, 0, main.lastOk)}) /\ UNCHANGED <<main, sent>>
       [] m.id < main.lastAction ->
            Post({Ack(m.id, 0, FALSE)}) /\ UNCHANGED <<main, sent>>
       [] OTHER -> UNCHANGED <<posts, main, sent>>

(* The projection that covers the action is posted before its ack. *)
MainAcksAction ==
  /\ main.settling # 0
  /\ Post({Ack(main.settling, 0, main.lastOk)})
  /\ main' = [main EXCEPT !.settling = 0]
  /\ UNCHANGED <<relayed, sent>>
  /\ MainUnchanged

MainReceivesDrafts(m) ==
  /\ m.kind = "drafts" /\ Gate(m) = "accept" /\ main.core = m.instance
  /\ UNCHANGED sent
  /\ IF m.handoff = main.inHandoff /\ main.inAck # "none"
     THEN Post({Ack(m.id, m.handoff, main.inAck = "ok")}) /\ UNCHANGED main
     ELSE /\ UNCHANGED posts
          /\ main' = IF m.handoff <= main.inHandoff THEN main
                     ELSE [main EXCEPT !.inHandoff = m.handoff, !.inAck = "none", !.claimed = m]

(* After the admissions before it.  A map the window never owned is refused.*)
MainInstallsDrafts ==
  /\ main.claimed # NoMessage /\ main.settling = 0
  /\ LET owned == main.st.mode = "undocked" IN
     /\ main' = [main EXCEPT !.claimed = NoMessage,
                   !.inAck = IF owned THEN "ok" ELSE "refused",
                   !.draft = IF owned THEN main.claimed.text ELSE @]
     /\ Post({Ack(main.claimed.id, main.claimed.handoff, owned)})
  /\ UNCHANGED <<relayed, sent>>
  /\ MainUnchanged

MainReceivesReady(m) ==
  /\ m.kind = "ready" /\ Gate(m) = "accept" /\ main.core = m.instance
  /\ main' = IF main.transfer = m.handoff THEN [main EXCEPT !.settled = TRUE] ELSE main
  /\ UNCHANGED <<posts, sent>>

MainReceives ==
  \E i \in DOMAIN relayed["main"] :
    /\ ~Held(i) /\ \A j \in 1..(i - 1) : Held(j)
    /\ relayed' = [relayed EXCEPT !["main"] = RemoveAt(@, i)]
    /\ LET m == relayed["main"][i] IN
       \/ MainDrops(m) \/ MainReceivesAbort(m) \/ MainReceivesAction(m)
       \/ MainReceivesDrafts(m) \/ MainReceivesReady(m)
    /\ MainUnchanged

(* The timer of postTransfer: post the same map again, or give up and tell  *)
(* the host.                                                                *)
TransferTimer ==
  /\ ~main.settled
  /\ IF main.attempts < MaxPosts
     THEN /\ main' = [main EXCEPT !.attempts = @ + 1]
          /\ Post({DraftsFromMain(main)})
     ELSE /\ main' = [main EXCEPT !.settled = TRUE]
          /\ Post({AbortMessage("main", main.core, main.transfer)})
  /\ UNCHANGED <<relayed, sent>>
  /\ MainUnchanged

UndockGolem ==
  /\ main.st.phase = "closed" /\ ~main.frozen
  /\ main.undock = "none" /\ open.pc = "idle"
  /\ seqs.instance < MaxInstances /\ seqs.handoff < MaxHandoffs
  /\ main' = [main EXCEPT !.frozen = TRUE, !.undock = "opening"]
  /\ open' = [open EXCEPT !.pc = "called"]
  /\ UNCHANGED <<go, seqs, win, news, posts, relayed, sat, typed, sent>>

OpenAnswered ==
  /\ open.pc \in {"accepted", "refused"}
  /\ open' = [open EXCEPT !.pc = "idle"]
  /\ main' = CASE main.undock # "opening" -> main
               [] main.undock = "opening" /\ open.pc = "accepted" ->
                    [main EXCEPT !.undock = IF main.held THEN "none" ELSE "opened",
                                 !.held = FALSE]
               [] OTHER ->
                    [main EXCEPT !.undock = "none", !.held = FALSE,
                       !.frozen = IF main.held THEN @ ELSE main.st.phase # "closed"]
  /\ UNCHANGED <<go, seqs, win, news, posts, relayed, sat, typed, sent>>

(* The rail, and the command: not while a close runs that has not stalled. *)
DockGolem ==
  /\ ~main.dock /\ seqs.handoff < MaxHandoffs
  /\ main.st.phase # "closed"
  /\ main.st.phase = "closing" => main.st.reason
  /\ main' = [main EXCEPT !.dock = TRUE]
  /\ RequestReDock
  /\ UNCHANGED <<open, posts, relayed, sat, typed, sent>>

MainTypes ==
  /\ ~main.frozen /\ typed < MaxEdits
  /\ typed' = typed + 1
  /\ main' = [main EXCEPT !.draft = typed + 1]
  /\ UNCHANGED <<hostVars, news, posts, relayed, sat, sent>>

(* A docked Send clears the text in the same step as it is accepted. *)
MainSends ==
  /\ ~main.frozen /\ main.draft # 0
  /\ main' = [main EXCEPT !.draft = 0]
  /\ sent' = [sent EXCEPT ![main.draft] = @ + 1]
  /\ UNCHANGED <<hostVars, news, posts, relayed, sat, typed>>

(***************************************************************************)
(* The Golem window.                                                       *)
(***************************************************************************)
Up == win.shown = "run" /\ sat.boot = "up"

(* refreshFrozen: live only with a projection, the transferred map and the  *)
(* host's own ready for this instance.                                      *)
Barrier(w) ==
  [w EXCEPT !.frozen = ~(/\ w.installed /\ w.view
                         /\ w.st.instance = w.instance /\ w.st.phase = "ready")]

(* abortHandoff, and with it what the rejected waiter does: the transition  *)
(* is over for this window, settled or not.                                 *)
Lifted(w, handoff) ==
  IF w.handoff # handoff THEN w
  ELSE [w EXCEPT !.blocked = FALSE, !.payload = 0, !.stage = "settled",
                 !.posted = 0, !.due = FALSE,
                 !.redock = IF w.stage = "settled" THEN @ ELSE 0]

(* failHandoff tells the host only while it believes the transfer runs. *)
Failed(w, handoff) ==
  Barrier([Lifted(w, handoff) EXCEPT !.redock = IF @ = handoff THEN 0 ELSE @])

FailurePosts(w, handoff) ==
  IF w.st.phase = "closing" /\ w.st.handoff = handoff
  THEN {AbortMessage("satellite", w.instance, handoff)} ELSE {}

(* runReDock: no further action enters the queue; the drafts are read after *)
(* the ones in it have been admitted.                                       *)
HandoffBegun(w, handoff) ==
  [w EXCEPT !.frozen = TRUE, !.blocked = TRUE, !.redock = handoff, !.handoff = handoff,
            !.nextId = @ + 1, !.transfer = w.nextId + 1, !.stage = "draining",
            !.payload = 0, !.due = FALSE]

SatelliteInstalled(w, s) ==
  LET mine == w.instance # 0 /\ s.instance = w.instance
      seen == [w EXCEPT !.st = s]
      back == IF mine /\ s.phase = "ready" /\ w.redock = s.handoff
              THEN Lifted(seen, s.handoff) ELSE seen
  IN IF mine /\ s.phase = "closing" /\ s.mode = "undocked" /\ w.redock # s.handoff
     THEN HandoffBegun(Barrier(back), s.handoff)
     ELSE Barrier(back)

Oldest(s) == \A other \in news["satellite"] : s.rev <= other.rev

SatelliteInstallsState ==
  \E s \in news["satellite"] :
    /\ win.shown = "run" /\ Oldest(s)
    /\ news' = [news EXCEPT !["satellite"] = @ \ {s}]
    /\ sat' = SatelliteInstalled(sat, s)
    /\ UNCHANGED <<hostVars, posts, relayed, main, typed, sent>>

(* BootstrapGolemWindow, and what the window does with the answer: the      *)
(* state it carries may overtake the published one.                         *)
BootstrapGolemWindow ==
  /\ win.shown = "run" /\ sat.boot = "calling"
  /\ go.phase # "closed"
  /\ sat' = [sat EXCEPT !.boot = "answering"]
  /\ IF go.phase = "bootstrapping"
     THEN Publish([go EXCEPT !.phase = "bootstrapped"])
     ELSE UNCHANGED <<go, news>>
  /\ UNCHANGED <<seqs, open, win, posts, relayed, main, typed, sent>>

BootstrapAnswered ==
  /\ win.shown = "run" /\ sat.boot = "answering"
  /\ LET core == [sat EXCEPT !.boot = "up", !.instance = open.instance, !.view = go.view] IN
     \/ /\ news["satellite"] = {}
        /\ sat' = SatelliteInstalled(core, sat.st)
        /\ UNCHANGED news
     \/ \E s \in news["satellite"] :
          /\ Oldest(s)
          /\ news' = [news EXCEPT !["satellite"] = @ \ {s}]
          /\ sat' = SatelliteInstalled(core, s)
  /\ UNCHANGED <<hostVars, posts, relayed, main, typed, sent>>

(* failStartup drops the buffer; Retry connection calls again. *)
StartupFails ==
  /\ win.shown = "run" /\ sat.boot = "answering"
  /\ sat' = [sat EXCEPT !.boot = "failed", !.frozen = TRUE]
  /\ relayed' = [relayed EXCEPT !["satellite"] = <<>>]
  /\ Post(IF sat.st.handoff = 0 THEN {}
          ELSE {AbortMessage("satellite", sat.st.instance, sat.st.handoff)})
  /\ UNCHANGED <<hostVars, news, main, typed, sent>>

RetryStartup ==
  /\ win.shown = "run" /\ sat.boot = "failed"
  /\ sat' = [sat EXCEPT !.boot = "calling"]
  /\ UNCHANGED <<hostVars, news, posts, relayed, main, typed, sent>>

SatelliteUnchanged == UNCHANGED <<hostVars, news, main, typed, sent>>

(* ready quotes the id of the map that was installed. *)
ReadyMessage(m) == Message("satellite", "ready", m.instance, m.handoff, m.id, 0, FALSE)

(* A map is installed once, whatever the number of its copies; without a    *)
(* projection it waits, for ready must not be posted without one.           *)
SatelliteTakesDrafts(w, m) ==
  CASE w.installed -> /\ sat' = w
                      /\ Post({ReadyMessage(m)})
    [] ~w.installed /\ ~w.view -> sat' = [w EXCEPT !.deferred = m] /\ UNCHANGED posts
    [] OTHER -> /\ sat' = Barrier([w EXCEPT !.draft = m.text, !.installed = TRUE])
                /\ Post({ReadyMessage(m)})

SatelliteReceivesDrafts(m) ==
  /\ m.kind = "drafts"
  /\ IF sat.st.phase \in Opening \cup {"ready"} /\ m.handoff = sat.st.handoff
     THEN SatelliteTakesDrafts(sat, m)
     ELSE UNCHANGED <<sat, posts>>

SatelliteReceivesView(m) ==
  /\ m.kind = "view"
  /\ LET seen == Barrier([sat EXCEPT !.view = TRUE, !.deferred = NoMessage]) IN
     IF sat.deferred # NoMessage
     THEN SatelliteTakesDrafts(seen, sat.deferred)
     ELSE sat' = seen /\ UNCHANGED posts

(* An abort of main names a transfer this window never began. *)
SatelliteReceivesAbort(m) ==
  /\ m.kind = "abort"
  /\ sat' = Barrier(Lifted(sat, m.handoff))
  /\ UNCHANGED posts

(* The text is cleared only by an acceptance of the Send it went with. *)
SatelliteReceivesAck(m) ==
  /\ m.kind = "ack" /\ m.handoff = 0
  /\ sat' = IF sat.action # m.id THEN sat
            ELSE [sat EXCEPT !.action = 0, !.text = 0, !.attempts = 0, !.armed = FALSE,
                             !.draft = IF m.ok THEN 0 ELSE @]
  /\ UNCHANGED posts

SatelliteReceivesTransferAck(m) ==
  /\ m.kind = "ack" /\ m.handoff # 0
  /\ IF ~(sat.handoff = m.handoff /\ sat.transfer = m.id /\ sat.stage = "posted")
     THEN UNCHANGED <<sat, posts>>
     ELSE IF m.ok
     THEN /\ sat' = [sat EXCEPT !.stage = "settled", !.payload = 0,
                       !.posted = 0, !.due = FALSE, !.confirm = IF sat.st.handoff = m.handoff THEN m.handoff ELSE @]
          /\ UNCHANGED posts
     ELSE /\ sat' = Failed(sat, m.handoff)
          /\ Post(FailurePosts(sat, m.handoff))

SatelliteReceives ==
  /\ Up /\ relayed["satellite"] # <<>>
  /\ relayed' = [relayed EXCEPT !["satellite"] = Tail(@)]
  /\ LET m == Head(relayed["satellite"]) IN
     IF m.instance # sat.instance THEN UNCHANGED <<sat, posts>>
     ELSE \/ SatelliteReceivesDrafts(m) \/ SatelliteReceivesView(m)
          \/ SatelliteReceivesAbort(m) \/ SatelliteReceivesAck(m)
          \/ SatelliteReceivesTransferAck(m)
  /\ SatelliteUnchanged

ActionMessage == Message("satellite", "action", sat.instance, 0, sat.action, sat.text, FALSE)

SatelliteSends ==
  /\ Up /\ ~sat.frozen /\ ~sat.blocked
  /\ sat.action = 0 /\ sat.draft # 0 /\ sat.sends < MaxSends
  /\ sat' = [sat EXCEPT !.sends = @ + 1, !.nextId = @ + 1, !.action = sat.nextId + 1,
                        !.text = sat.draft, !.attempts = 1, !.armed = FALSE]
  /\ Post({Message("satellite", "action", sat.instance, 0, sat.nextId + 1, sat.draft, FALSE)})
  /\ UNCHANGED relayed
  /\ SatelliteUnchanged

(* The ack timer posts the same envelope again, a bounded number of times;  *)
(* Retry connection starts the count anew (bound: it is not pressed while   *)
(* messages are under way).                                                 *)
ActionTimer ==
  /\ Up /\ sat.action # 0 /\ sat.armed /\ sat.attempts < MaxPosts
  /\ sat' = [sat EXCEPT !.attempts = @ + 1, !.armed = FALSE]
  /\ Post({ActionMessage})
  /\ UNCHANGED relayed
  /\ SatelliteUnchanged

RetryPending ==
  /\ Up /\ sat.action # 0 /\ sat.st.phase # "closing"
  /\ posts = {} /\ \A w \in Windows : relayed[w] = <<>>
  /\ sat' = [sat EXCEPT !.attempts = 1, !.armed = FALSE]
  /\ Post({ActionMessage})
  /\ UNCHANGED relayed
  /\ SatelliteUnchanged

DraftsFromSatellite(w) ==
  Message("satellite", "drafts", w.instance, w.handoff, w.transfer, w.payload, FALSE)

HandoffDrained ==
  /\ Up /\ sat.stage = "draining" /\ sat.action = 0
  /\ LET read == [sat EXCEPT !.stage = "posted", !.payload = sat.draft, !.posted = 1,
                             !.due = FALSE]
     IN sat' = read /\ Post({DraftsFromSatellite(read)})
  /\ UNCHANGED relayed
  /\ SatelliteUnchanged

HandoffTimer ==
  /\ Up /\ sat.stage = "posted" /\ sat.due /\ sat.posted < MaxPosts
  /\ sat' = [sat EXCEPT !.posted = @ + 1, !.due = FALSE]
  /\ Post({DraftsFromSatellite(sat)})
  /\ UNCHANGED relayed
  /\ SatelliteUnchanged

ConfirmRefused ==
  /\ win.shown = "run" /\ sat.refused
  /\ sat' = [Failed(sat, sat.confirm) EXCEPT !.confirm = 0, !.refused = FALSE]
  /\ Post(FailurePosts(sat, sat.confirm))
  /\ UNCHANGED relayed
  /\ SatelliteUnchanged

(* A composer with an unacknowledged Send is locked. *)
SatelliteTypes ==
  /\ Up /\ ~sat.frozen /\ sat.action = 0 /\ typed < MaxEdits
  /\ typed' = typed + 1
  /\ sat' = [sat EXCEPT !.draft = typed + 1]
  /\ UNCHANGED <<hostVars, news, posts, relayed, main, sent>>

Init ==
  /\ go = ClosedRuntime
  /\ seqs = [instance |-> 0, handoff |-> 0, stalls |-> 0]
  /\ open = [pc |-> "idle", instance |-> 0]
  /\ win = [shown |-> "none", closing |-> FALSE]
  /\ news = [w \in Windows |-> {}]
  /\ posts = {}
  /\ relayed = [w \in Windows |-> <<>>]
  /\ main = MainInit
  /\ sat = FreshSatellite
  /\ typed = 0
  /\ sent = [t \in Texts |-> 0]

User == MainTypes \/ MainSends \/ UndockGolem \/ DockGolem \/ SatelliteTypes
        \/ SatelliteSends \/ SatelliteCloses \/ AuthorizedNativeClose
        \/ RetryStartup \/ RetryPending

Opens == OpenReserve \/ OpenPublish \/ OpenAdd \/ OpenRun \/ OpenAnswered
Posts == \E m \in posts : CheckDrafts(m) \/ AcceptPost(m) \/ RefusePost(m)
Timers == TransferTimer \/ ActionTimer \/ HandoffTimer

Next ==
  \/ User
  \/ Opens \/ AbandonOpen
  \/ Posts
  \/ Timers \/ TransitionTimeout
  \/ ConfirmGolemWindowClose \/ ConfirmRefused
  \/ WindowRemoved \/ ObserveRetirement \/ ObserverGivesUp
  \/ MainInstallsState \/ MainReceives \/ MainAcksAction \/ MainInstallsDrafts
  \/ SatelliteInstallsState \/ SatelliteReceives \/ HandoffDrained
  \/ BootstrapGolemWindow \/ BootstrapAnswered \/ StartupFails

Spec == Init /\ [][Next]_vars

(***************************************************************************)
(* Properties.                                                             *)
(***************************************************************************)
(* A Send main has accepted is gone from the composer, though the Golem     *)
(* window clears it only when the ack arrives.                              *)
Submitted ==
  /\ sat.action # 0 /\ main.core = sat.instance
  /\ main.lastAction = sat.action /\ main.lastOk

ComposerText ==
  IF go.mode = "docked" THEN main.draft
  ELSE IF Submitted THEN 0 ELSE sat.draft

Live(w) == IF w = "main" THEN ~main.frozen ELSE win.shown = "run" /\ ~sat.frozen

Host ==
  CASE Live("main") /\ Live("satellite") -> "both"
    [] Live("main") /\ ~Live("satellite") -> "main"
    [] ~Live("main") /\ Live("satellite") -> "satellite"
    [] OTHER -> "none"

Owner == INSTANCE DraftOwnership WITH host <- Host, text <- ComposerText

(* The whole protocol implements the move of one text between two windows:  *)
(* whatever is lost, late, repeated, timed out or refused (windowRelay.ts,  *)
(* windowSatellite.ts, app_golem_window.go), no text is dropped, restored   *)
(* after its submission or submitted twice, and the two composers are never *)
(* open together.                                                           *)
MovesDraft == Owner!Spec

(* Only the user can end it: the observer has given up on the window, or is *)
(* left with one whose Close was issued before it was run.                  *)
Stalled == go.failed \/ (go.authorized /\ win.shown = "run" /\ ~win.closing)

(* Not BootstrapGolemWindow: the page of the new window may never load.     *)
Progress ==
  /\ WF_vars(Opens) /\ WF_vars(Posts) /\ WF_vars(Timers) /\ WF_vars(TransitionTimeout)
  /\ WF_vars(ConfirmGolemWindowClose)
  /\ WF_vars(ConfirmRefused) /\ WF_vars(WindowRemoved) /\ WF_vars(ObserveRetirement)
  /\ WF_vars(MainInstallsState) /\ WF_vars(MainReceives) /\ WF_vars(MainAcksAction)
  /\ WF_vars(MainInstallsDrafts) /\ WF_vars(SatelliteInstallsState)
  /\ WF_vars(SatelliteReceives) /\ WF_vars(HandoffDrained)
  /\ WF_vars(BootstrapAnswered)

FairSpec == Spec /\ Progress

(* After every undock and dock, however it ends, one of the two composers   *)
(* accepts typing again, and the promises the controls got are settled; but *)
(* for a Dock whose closing main never saw, because the state it read for a *)
(* held message had overtaken it and the window was ready again.            *)
Ended ==
  /\ main.undock = "none" /\ Host # "none"
  /\ main.dock => main.st.phase = "ready"

HandoffsEnd == []<>(Ended \/ Stalled)
=============================================================================
