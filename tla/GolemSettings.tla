---------------------------- MODULE GolemSettings ----------------------------
(***************************************************************************)
(* The Golem configuration: the surface that stages a draft of it and      *)
(* applies it (components/GolemConfig/GolemConfigWorkspace.tsx), and the   *)
(* service that writes it and asks for the approval of new remote          *)
(* destinations (internal/ai/service.go, internal/ai/settings_apply.go).   *)
(* A write is two calls when it reaches a new destination: the first one   *)
(* answers with a challenge, the second one repeats the whole request.     *)
(***************************************************************************)
EXTENDS Naturals, FiniteSets

CONSTANTS
  Remotes,          \* remote destinations a configuration may route to
  Key,              \* the change that sets the key of a provider
  Absent, Broken,   \* no file, and a file that cannot be edited from here
  Unread,           \* the page shows no configuration: it is loading, or loading failed
  MaxTokens,        \* bound on challenges
  MaxNoise          \* bound on what others do: files, turns, failures

ASSUME SettingsBounds == {MaxTokens, MaxNoise} \subseteq Nat

Configs == [reach : SUBSET Remotes, keyed : BOOLEAN]
Blank   == [reach |-> {}, keyed |-> FALSE]
ReachOf(file) == IF file \in Configs THEN file.reach ELSE {}

VARIABLES
  host,             \* the service and its files: configuration, curated profile, grants,
                    \* snapshot in effect, whether a turn runs, challenges, those past their deadline
  rpc,              \* the one call that owns the page, from beginOperation to endOperation
  strays,           \* best-effort cancels on their way
  loads,            \* ReloadGolemSettings and LoadGolemProfile calls in flight
  page,             \* the surface
  dialog,           \* the transition the user is asked about
  closing,          \* the closes that wait for the call in flight, and what they see of the page
  noise,            \* counter of what others do
  fate              \* history: what became of a token the surface gave up

settingsVars == <<host, rpc, strays, loads, page, dialog, closing, noise, fate>>

Untouched == [source |-> "applied", base |-> Blank, changes |-> {}, review |-> {}, confirmed |-> FALSE]
NoOffer == [token |-> 0, grants |-> {}]
NoCall == [kind |-> "none", pc |-> "none", token |-> 0, request |-> {}, then |-> "none",
           answer |-> "none", found |-> Unread, offer |-> NoOffer]

(* Mounted: the surface loads the configuration. *)
NewPage ==
  [open |-> TRUE, shown |-> Unread, draft |-> Untouched, target |-> Absent, held |-> FALSE,
   editing |-> FALSE, preview |-> {}, request |-> {}, offer |-> NoOffer, intent |-> "apply",
   busy |-> FALSE, drops |-> FALSE, conflict |-> "none", unknown |-> FALSE,
   inFlight |-> TRUE, fetching |-> FALSE]
Unmounted == [NewPage EXCEPT !.open = FALSE, !.inFlight = FALSE]
NoClose == [waits |-> {}, unsaved |-> FALSE]
NewLoad(kind) == [kind |-> kind, current |-> TRUE, pc |-> "sent", found |-> Unread, busy |-> FALSE]

SettingsInit ==
  /\ \E file \in {Absent, Blank} \cup {[reach |-> {r}, keyed |-> FALSE] : r \in Remotes},
        r \in Remotes :
       host = [file |-> file, profile |-> [reach |-> {r}, keyed |-> FALSE], granted |-> {},
               snapshot |-> file, turn |-> FALSE, next |-> 0, issued |-> {}, expired |-> {}]
  /\ rpc = NoCall /\ strays = {} /\ loads = {NewLoad("reload")} /\ page = NewPage
  /\ dialog = "none" /\ closing = NoClose /\ noise = 0
  /\ fate = [t \in 1..MaxTokens |-> "none"]

(***************************************************************************)
(* The page.                                                               *)
(***************************************************************************)
Dirty(p)   == p.draft.changes # {} \/ p.draft.source # "applied"
Unsaved(p) == Dirty(p) \/ p.editing \/ p.offer.token # 0

(* NO_OUTCOME *)
Cleared(p) ==
  [p EXCEPT !.offer = NoOffer, !.intent = "apply", !.busy = FALSE, !.drops = FALSE,
            !.conflict = "none", !.unknown = FALSE]

DraftAfter_KeepsKey(d, event) ==
  IF event \in {"discard", "teardown", "applied"} THEN Untouched
  ELSE [d EXCEPT !.review = IF event = "conflict" THEN d.changes ELSE @]

(* settleDraft: what is left of the draft after an event that is final. *)
DraftAfter(d, event) ==
  LET kept == d.changes \ {Key}
  IN IF event \in {"discard", "teardown", "applied"} THEN Untouched
     ELSE [d EXCEPT !.changes = kept,
                    !.review  = IF event \in {"conflict", "rejected"} THEN kept ELSE @ \cap kept,
                    !.source  = IF event = "rejected" THEN "applied" ELSE @,
                    !.base    = IF event = "rejected" THEN Blank ELSE @]

(* Results that are answered by sending the same request again. *)
Retaining == {"consent", "drops", "busy"}

(* settle: loads are invalidated, the outcome is replaced, and a final event *)
(* drops the key and the request and closes the editors.                     *)
Settled(p, event) ==
  LET q == [Cleared(p) EXCEPT !.inFlight = FALSE, !.fetching = FALSE]
  IN IF event \in Retaining THEN q
     ELSE [q EXCEPT !.held = FALSE, !.request = {}, !.editing = FALSE,
                    !.draft = DraftAfter(@, event)]

Still(p)  == ~p.inFlight /\ ~p.fetching /\ rpc.kind = "none"
Locked_BusyEdits(p) == ~Still(p) \/ p.unknown \/ p.offer.token # 0

Locked(p) == ~Still(p) \/ p.unknown \/ p.busy \/ p.offer.token # 0

(* What the rows are painted from: the preview of a source, or the configuration. *)
Shows(p) == p.shown # Unread
Body(p)  == IF p.preview # {} THEN p.preview ELSE {p.shown} \cap Configs
CanEdit(p) == p.open /\ Shows(p) /\ Body(p) # {} /\ ~Locked(p)

ModeOf(p) == IF p.shown = Absent THEN "create" ELSE "apply"
RequestOf(p) ==
  [mode |-> ModeOf(p), target |-> IF ModeOf(p) = "create" THEN Absent ELSE p.target,
   source |-> p.draft.source, base |-> p.draft.base, changes |-> p.draft.changes,
   confirmed |-> p.draft.confirmed]

(* parseSettingsApplyRequest: the request is refused before it is sent. *)
Malformed(p) ==
  \/ p.held # (Key \in p.draft.changes)
  \/ p.draft.changes = {} /\ p.draft.source # "profile"
  \/ IF ModeOf(p) = "create" THEN p.draft.source = "applied" ELSE p.target = Absent

(* A route that moves away from the model it has loses the fields that model owns. *)
Loses(source, config, changes) ==
  source # "blank" /\ ~(changes \cap Remotes \subseteq config.reach)

(***************************************************************************)
(* Loads: the generation makes every earlier one stale.  A stale reload may *)
(* still have the service read its file, as often as one was sent.          *)
(***************************************************************************)
Reloads(l) == l.kind # "profile"

Stale_StillLands(ls) == ls

Stale(ls) ==
  {[NewLoad("reload") EXCEPT !.current = FALSE] : l \in {k \in ls : Reloads(k) /\ k.pc = "sent"}}

Invalidates(p) == page' = p /\ loads' = Stale(loads)
StartsLoad(p, kind) ==
  /\ page' = [p EXCEPT !.inFlight = kind # "profile", !.fetching = kind = "profile", !.editing = FALSE]
  /\ loads' = Stale(loads) \cup {NewLoad(kind)}

Discarded(p) == [Settled(p, "discard") EXCEPT !.preview = {}]

(* What follows when the challenge, if there was one, is cancelled. *)
Follows(p, then) ==
  CASE then = "cancelled" -> Invalidates(Settled(p, "cancelled"))
    [] then = "dismiss"   -> page' = Cleared(p) /\ UNCHANGED loads
    [] then = "discard"   -> Invalidates(Discarded(p))
    [] then = "refresh"   -> StartsLoad(Discarded(p), "reload")
    [] then = "profile"   -> StartsLoad(Discarded(p), "profile")
    [] then = "blank"     -> Invalidates([Discarded(p) EXCEPT !.preview = {Blank}, !.draft.source = "blank"])
    [] then = "quit"      -> Invalidates(Settled(p, "teardown"))
    [] then = "close"     -> Invalidates(Unmounted)

(* A write holds the idle barrier: no turn starts and nothing is reloaded. *)
Barred == rpc.pc \in {"prepared", "saved"}

LoadServed(l) ==
  /\ l.pc = "sent" /\ (Reloads(l) => ~Barred)
  /\ LET found == IF ~Reloads(l) THEN host.profile
                  ELSE IF host.turn THEN host.snapshot ELSE host.file
         answer == [l EXCEPT !.pc = "answered", !.found = found, !.busy = Reloads(l) /\ host.turn]
     IN /\ loads' \in IF l.current THEN {(loads \ {l}) \cup {answer}} ELSE {loads, loads \ {l}}
        /\ host' = [host EXCEPT !.snapshot = IF Reloads(l) THEN found ELSE @]
  /\ UNCHANGED <<rpc, strays, page, dialog, closing, noise, fate>>

(* A review ends the outcome it reviews only when the load succeeded. *)
LoadLands(l) ==
  /\ l.pc = "answered" /\ loads' = loads \ {l}
  /\ LET p == [page EXCEPT !.inFlight = FALSE, !.fetching = FALSE]
         q == IF Reloads(l)
              THEN [p EXCEPT !.shown = l.found, !.target = IF l.found \in Configs THEN l.found ELSE @]
              ELSE [p EXCEPT !.preview = {l.found}, !.draft.source = "profile", !.draft.base = l.found]
     IN page' = IF l.kind # "reload" /\ ~l.busy THEN Cleared(q) ELSE q
  /\ UNCHANGED <<host, rpc, strays, dialog, closing, noise, fate>>

Upsets == noise < MaxNoise /\ noise' = noise + 1

LoadFails(l) ==
  /\ Upsets /\ l.current /\ loads' = loads \ {l}
  /\ page' = [page EXCEPT !.inFlight = FALSE, !.fetching = FALSE,
                          !.shown = IF Reloads(l) THEN Unread ELSE @]
  /\ UNCHANGED <<host, rpc, strays, dialog, closing, fate>>

(***************************************************************************)
(* The service.  A write holds the barrier from its first step to its       *)
(* answer; others may still edit the files.                                 *)
(***************************************************************************)
Replies(answer) == rpc' = [rpc EXCEPT !.pc = "answered", !.answer = answer]
Request == CHOOSE r \in rpc.request : TRUE
RecordsOf(token) == {c \in host.issued : c.token = token}
Without(token) == [host EXCEPT !.issued = @ \ RecordsOf(token)]
(* takeSettingsChallenge: a record past its deadline is as good as none. *)
Taken(token) == IF token \in host.expired THEN {} ELSE RecordsOf(token)

SourceOf(req) ==
  CASE req.source = "applied" -> host.file [] req.source = "profile" -> req.base [] OTHER -> Blank

ResultOf(req) ==
  [reach |-> SourceOf(req).reach \cup (req.changes \cap Remotes),
   keyed |-> Key \in req.changes \/ (req.source = "applied" /\ host.file.keyed)]

(* prepareSettingsApply: why a fresh preparation refuses the request. *)
Refusals(req) ==
  LET moved == IF req.mode = "create" THEN host.file # Absent
               ELSE host.file = Absent \/ host.file \notin {Broken, req.target}
      loses == Loses(req.source, SourceOf(req), req.changes)
      why == IF moved THEN "target"
             ELSE IF host.file = Broken THEN "refused"
             ELSE IF req.source = "profile" /\ host.profile # req.base THEN "profile_source"
             ELSE IF req.source = "blank" /\ req.changes \cap Remotes = {} THEN "refused"
             ELSE IF loses = req.confirmed THEN "none"
             ELSE IF loses THEN "drops" ELSE "refused"
  IN {why} \ {"none"}

(* newRemoteDestinations *)
Ungranted(prior, reached) == (reached \ prior) \ host.granted

(* installSettingsChallenge: records past their deadline go. *)
Issues(mode, prior, grants) ==
  /\ host.next < MaxTokens
  /\ LET token == host.next + 1
         made  == [token |-> token, mode |-> mode, request |-> rpc.request, prior |-> prior,
                   file |-> host.file, grants |-> grants]
     IN /\ host' = [host EXCEPT !.next = token,
                       !.issued = {c \in @ : c.token \notin host.expired} \cup {made}]
        /\ rpc' = [rpc EXCEPT !.pc = "answered", !.answer = "consent",
                              !.offer = [token |-> token, grants |-> grants]]

(* Call 1 publishes at once, or asks. *)
WriteStarts ==
  /\ rpc.kind = "write" /\ rpc.pc = "sent"
  /\ LET req  == Request
         pre  == ReachOf(host.file)
         asks == Ungranted(pre, ResultOf(req).reach)
     IN CASE host.turn -> Replies("busy") /\ UNCHANGED host
          [] ~host.turn /\ Refusals(req) # {} -> UNCHANGED host /\ \E why \in Refusals(req) : Replies(why)
          [] ~host.turn /\ Refusals(req) = {} /\ asks # {} -> Issues(req.mode, pre, asks)
          [] OTHER -> rpc' = [rpc EXCEPT !.pc = "prepared"] /\ UNCHANGED host
  /\ UNCHANGED <<strays, loads, page, dialog, closing, noise, fate>>

(* matches: the preparation still describes the write that was approved. *)
Matches(c) == c.mode = Request.mode /\ c.request = rpc.request /\ c.prior = ReachOf(host.file)

(* Call 2 takes the challenge, prepares again, and grants what was shown.   *)
(* The token is spent whatever comes after; only a busy service keeps it.   *)
ConfirmStarts ==
  /\ rpc.kind = "confirm" /\ rpc.pc = "sent"
  /\ IF host.turn THEN Replies("busy") /\ UNCHANGED <<host, noise>>
     ELSE LET mine == {c \in Taken(rpc.token) : c.mode # "grants"}
              fits == {c \in mine : Matches(c)}
          IN \/ /\ mine = {} \/ (Refusals(Request) = {} /\ fits = {})
                /\ Replies("challenge") /\ host' = Without(rpc.token) /\ UNCHANGED noise
             \/ /\ mine # {} /\ host' = Without(rpc.token) /\ UNCHANGED noise
                /\ \E why \in Refusals(Request) : Replies(why)
             \/ \E c \in fits :
                  /\ Refusals(Request) = {}
                  /\ \/ /\ host' = [Without(rpc.token) EXCEPT !.granted = @ \cup c.grants]
                        /\ rpc' = [rpc EXCEPT !.pc = "prepared"] /\ UNCHANGED noise
                     \/ Upsets /\ host' = Without(rpc.token) /\ Replies("refused")
  /\ UNCHANGED <<strays, loads, page, dialog, closing, fate>>

Unmoved_Unchecked(req) == host.file \in Configs \cup {req.target}

(* SaveNew and SaveReplace compare the file with the one that was prepared. *)
Unmoved(req) == host.file = req.target

Publishes ==
  /\ rpc.pc = "prepared"
  /\ \/ ~Unmoved(Request) /\ Replies("target") /\ UNCHANGED <<host, noise>>
     \/ /\ Unmoved(Request) /\ UNCHANGED noise
        /\ host' = [host EXCEPT !.file = ResultOf(Request)]
        /\ rpc' = [rpc EXCEPT !.pc = "saved"]
     \/ Unmoved(Request) /\ Upsets /\ Replies("refused") /\ UNCHANGED host
  /\ UNCHANGED <<strays, loads, page, dialog, closing, fate>>

(* publishSettingsWrite: the snapshot is read from the file again. *)
Republished ==
  /\ rpc.pc = "saved"
  /\ host' = [host EXCEPT !.snapshot = host.file]
  /\ rpc' = [rpc EXCEPT !.pc = "answered", !.answer = "applied", !.found = host.file]
  /\ UNCHANGED <<strays, loads, page, dialog, closing, noise, fate>>

(* PrepareDestinationGrants: what the active configuration reaches and may not. *)
PrepareServed ==
  /\ rpc.kind = "prepare" /\ rpc.pc = "sent"
  /\ LET asks == Ungranted({}, ReachOf(host.file))
     IN \/ host.turn /\ Replies("busy") /\ UNCHANGED host
        \/ ~host.turn /\ asks = {} /\ Replies("over") /\ UNCHANGED host
        \/ ~host.turn /\ asks # {} /\ Issues("grants", {}, asks)
  /\ UNCHANGED <<strays, loads, page, dialog, closing, noise, fate>>

(* ConfirmDestinationGrants: the file must be the one that was listed. *)
SameListing(c) == c.mode = "grants" /\ c.file = host.file

ApproveServed ==
  /\ rpc.kind = "approve" /\ rpc.pc = "sent"
  /\ LET mine == {c \in Taken(rpc.token) : SameListing(c)}
     IN \/ host.turn /\ Replies("busy") /\ UNCHANGED <<host, noise>>
        \/ /\ ~host.turn /\ mine = {} /\ Replies("over")
           /\ host' = Without(rpc.token) /\ UNCHANGED noise
        \/ /\ ~host.turn /\ Replies("over") /\ UNCHANGED noise
           /\ \E c \in mine : host' = [Without(rpc.token) EXCEPT !.granted = @ \cup c.grants]
        \/ ~host.turn /\ mine # {} /\ Upsets /\ Replies("over") /\ host' = Without(rpc.token)
  /\ UNCHANGED <<strays, loads, page, dialog, closing, fate>>

(* CancelSettingsApply takes no barrier. *)
CancelServed ==
  /\ rpc.kind = "cancel" /\ rpc.pc = "sent"
  /\ host' = Without(rpc.token) /\ Replies("cancelled")
  /\ UNCHANGED <<strays, loads, page, dialog, closing, noise, fate>>

(* A best-effort cancel is served, or fails unseen. *)
StrayServed(token) ==
  /\ token \in strays /\ strays' = strays \ {token}
  /\ \/ host' = Without(token) /\ UNCHANGED fate
     \/ fate' = [fate EXCEPT ![token] = "lost"] /\ UNCHANGED host
  /\ UNCHANGED <<rpc, loads, page, dialog, closing, noise>>

(***************************************************************************)
(* What goes on beside the page.                                           *)
(***************************************************************************)
TurnStarts ==
  /\ Upsets /\ ~host.turn /\ ~Barred /\ host' = [host EXCEPT !.turn = TRUE]
  /\ UNCHANGED <<rpc, strays, loads, page, dialog, closing, fate>>

TurnEnds ==
  /\ host.turn /\ host' = [host EXCEPT !.turn = FALSE]
  /\ UNCHANGED <<rpc, strays, loads, page, dialog, closing, noise, fate>>

FilesChange ==
  /\ Upsets
  /\ \/ \E file \in {Absent, Broken} \cup {[reach |-> R, keyed |-> FALSE] : R \in SUBSET Remotes} :
          file # host.file /\ host' = [host EXCEPT !.file = file]
     \/ \E R \in SUBSET Remotes : R # host.profile.reach /\ host' = [host EXCEPT !.profile.reach = R]
  /\ UNCHANGED <<rpc, strays, loads, page, dialog, closing, fate>>

(* The deadline of a challenge that somebody still holds. *)
Carried == (IF page.open THEN {page.offer.token} ELSE {}) \cup {rpc.token, rpc.offer.token} \cup strays

Deadline(token) ==
  /\ token \in Carried \ host.expired
  /\ host' = [host EXCEPT !.expired = @ \cup {token}]
  /\ UNCHANGED <<rpc, strays, loads, page, dialog, closing, noise, fate>>

(***************************************************************************)
(* The answer lands: receive, sendGrants and cancelChallenge.              *)
(***************************************************************************)
Lapsed(p) == p.offer.token \in host.expired

Received(p) ==
  LET a == rpc.answer
      q == Settled(p, a)
  IN CASE a = "applied" ->
            [q EXCEPT !.preview = {}, !.shown = rpc.found,
                      !.target = IF rpc.found \in Configs THEN rpc.found ELSE Absent]
       [] a = "consent" -> [q EXCEPT !.offer = rpc.offer]
       [] a = "drops"   -> [q EXCEPT !.drops = TRUE]
       [] a \in {"target", "profile_source", "challenge"} ->
            [Settled(p, "conflict") EXCEPT !.conflict = a]
       [] a = "busy" /\ Lapsed(p) -> Settled(p, "expired")
       [] a = "busy" /\ ~Lapsed(p) -> [q EXCEPT !.busy = TRUE, !.offer = p.offer]
       [] a = "refused" -> q

(* The grant-only flow never settles the draft. *)
Granted(p) ==
  CASE rpc.answer = "consent" -> [Cleared(p) EXCEPT !.offer = rpc.offer, !.intent = "grants"]
    [] rpc.answer = "busy"    -> p
    [] rpc.answer = "over"    -> Cleared(p)

(* endOperation.  A close that waited looks at the page as it was painted:   *)
(* with the answer, or before it.  One that waited for a cancel by which the *)
(* page goes is answered by nobody; the next request to close forces it.     *)
Ends ==
  /\ rpc' = NoCall
  /\ \E p \in {page, page'} :
       closing' = IF page'.open /\ closing.waits # {} THEN [closing EXCEPT !.unsaved = Unsaved(p)]
                  ELSE NoClose

AnswerLands ==
  /\ rpc.pc = "answered"
  /\ CASE rpc.kind = "cancel" -> Follows(page, rpc.then)
       [] rpc.kind \in {"prepare", "approve"} -> page' = Granted(page) /\ UNCHANGED loads
       [] rpc.kind \in {"write", "confirm"} -> Invalidates(Received(page))
  /\ fate' = IF rpc.kind = "cancel" THEN [fate EXCEPT ![rpc.token] = "cancelled"] ELSE fate
  /\ Ends /\ UNCHANGED <<host, strays, dialog, noise>>

(* A rejection: the call never arrived, or its answer is lost with the token *)
(* of its challenge.  It says nothing about the outcome of a write.           *)
AnswerLost ==
  /\ rpc.pc \in {"sent", "answered"} /\ Upsets
  /\ CASE rpc.kind = "cancel" -> UNCHANGED <<page, loads>>
       [] rpc.kind \in {"prepare", "approve"} -> page' = Cleared(page) /\ UNCHANGED loads
       [] rpc.kind \in {"write", "confirm"} ->
            Invalidates([Settled(page, "rejected") EXCEPT !.unknown = TRUE, !.preview = {}])
  /\ strays' = strays \cup (IF rpc.kind \in {"approve", "confirm"} THEN {rpc.token} ELSE {})
  /\ fate' = IF rpc.answer = "consent" THEN [fate EXCEPT ![rpc.offer.token] = "lost"] ELSE fate
  /\ Ends /\ UNCHANGED <<host, dialog>>

(* The timer of a prompt; one that only grants arms none. *)
PromptLapses ==
  /\ page.open /\ rpc.kind = "none" /\ page.intent = "apply" /\ Lapsed(page)
  /\ Invalidates(Settled(page, "expired"))
  /\ UNCHANGED <<host, rpc, strays, dialog, closing, noise, fate>>

(***************************************************************************)
(* The user.                                                               *)
(***************************************************************************)
User == page.open /\ dialog = "none"
UserOnly == User /\ UNCHANGED <<host, strays, noise, fate, closing>>
(* A control of the page itself. *)
Draws(p) == page' = p /\ UNCHANGED <<rpc, loads, dialog>>

Sends(kind, token, request) ==
  rpc' = [NoCall EXCEPT !.kind = kind, !.pc = "sent", !.token = token, !.request = request]

CancelsThen_Abandons(then) == rpc.kind = "none" /\ Follows(page, then) /\ UNCHANGED rpc

(* cancelChallenge, and then what was to follow. *)
CancelsThen(then) ==
  /\ rpc.kind = "none"
  /\ IF page.offer.token = 0 THEN Follows(page, then) /\ UNCHANGED rpc
     ELSE /\ rpc' = [NoCall EXCEPT !.kind = "cancel", !.pc = "sent", !.token = page.offer.token,
                                   !.then = then]
          /\ UNCHANGED <<page, loads>>

OpenEditor == UserOnly /\ CanEdit(page) /\ ~page.editing /\ Draws([page EXCEPT !.editing = TRUE])

(* stageChange: the change is staged anew, and so no longer under review. *)
Staged(p, changes, change) ==
  [p EXCEPT !.editing = FALSE, !.held = Key \in changes, !.draft.changes = changes,
            !.draft.review = @ \ {change},
            !.draft.confirmed = \E config \in Body(p) : Loses(p.draft.source, config, changes)]

Stage(change) ==
  /\ UserOnly /\ CanEdit(page) /\ page.editing
  /\ Draws(Staged(page, page.draft.changes \cup {change}, change))

(* unstageChange *)
UnstageKey ==
  /\ UserOnly /\ CanEdit(page) /\ Key \in page.draft.changes
  /\ Draws(Staged(page, page.draft.changes \ {Key}, Key))

Bar == page.open /\ Shows(page) /\ Dirty(page) /\ ~page.unknown

Apply ==
  /\ UserOnly /\ Bar /\ ~Locked(page) /\ ~page.editing /\ page.draft.review = {}
  /\ (page.draft.source = "blank" => page.draft.changes \cap Remotes # {})
  /\ IF Malformed(page) THEN Draws(Cleared(page))
     ELSE /\ page' = [page EXCEPT !.request = {RequestOf(page)}]
          /\ Sends("write", 0, {RequestOf(page)}) /\ UNCHANGED <<loads, dialog>>

Confirms ==
  /\ page.offer.token # 0
  /\ IF page.intent = "apply"
     THEN Sends("confirm", page.offer.token, page.request) /\ UNCHANGED <<page, loads>>
     ELSE IF Lapsed(page) THEN CancelsThen("dismiss")
     ELSE Sends("approve", page.offer.token, {}) /\ UNCHANGED <<page, loads>>

Confirm == UserOnly /\ Shows(page) /\ Still(page) /\ Confirms /\ UNCHANGED dialog

Retry ==
  /\ UserOnly /\ Shows(page) /\ Still(page) /\ page.busy /\ UNCHANGED dialog
  /\ IF page.offer.token # 0 THEN Confirms
     ELSE Sends("write", 0, page.request) /\ UNCHANGED <<page, loads>>

CancelApproval ==
  /\ UserOnly /\ Shows(page) /\ Still(page) /\ page.offer.token # 0 /\ UNCHANGED dialog
  /\ CancelsThen(IF page.intent = "grants" THEN "dismiss" ELSE "cancelled")

Approve ==
  /\ UserOnly /\ Shows(page) /\ ~Locked(page) /\ ~page.editing
  /\ ~page.drops /\ page.conflict = "none"
  /\ Sends("prepare", 0, {}) /\ UNCHANGED <<page, loads, dialog>>

Discard == UserOnly /\ Bar /\ Still(page) /\ CancelsThen("discard") /\ UNCHANGED dialog

(* A transition that loses something asks first. *)
Transition(then, guard) ==
  /\ UserOnly /\ guard /\ Still(page) /\ ~page.unknown /\ UNCHANGED rpc
  /\ IF Unsaved(page) THEN dialog' = then /\ UNCHANGED <<page, loads>>
     ELSE /\ IF then = "refresh" THEN StartsLoad(page, "reload") ELSE Follows(page, then)
          /\ UNCHANGED dialog

Refresh == Transition("refresh", TRUE)
StartProfile == Transition("profile", page.shown = Absent /\ ~page.busy)
StartBlank == Transition("blank", page.shown = Absent /\ ~page.busy)

RestageDrops ==
  /\ UserOnly /\ Shows(page) /\ Still(page) /\ page.drops
  /\ Draws([Cleared(page) EXCEPT !.draft.confirmed = TRUE])

ReviewConflict ==
  /\ UserOnly /\ Shows(page) /\ Still(page) /\ UNCHANGED <<rpc, dialog>>
  /\ \/ page.conflict = "target" /\ StartsLoad(page, "review")
     \/ /\ page.conflict = "profile_source" /\ page.draft.source = "profile"
        /\ StartsLoad(page, "profile")
     \/ page.conflict = "challenge" /\ page' = Cleared(page) /\ UNCHANGED loads

DiscardConflict ==
  /\ UserOnly /\ Shows(page) /\ Still(page) /\ page.conflict # "none"
  /\ CancelsThen("refresh") /\ UNCHANGED dialog

Recover == UserOnly /\ page.unknown /\ Still(page) /\ StartsLoad(page, "review") /\ UNCHANGED <<rpc, dialog>>

RetryLoad ==
  UserOnly /\ page.shown = Unread /\ ~page.inFlight /\ StartsLoad(page, "reload") /\ UNCHANGED <<rpc, dialog>>

(* The tab is closed, or the application: the handler waits for the call in  *)
(* flight before it looks at the page.                                        *)
RequestClose(kind) ==
  /\ page.open
  /\ kind \notin closing.waits /\ (kind = "close" => dialog = "none")
  /\ closing' = [waits |-> closing.waits \cup {kind}, unsaved |-> Unsaved(page)]
  /\ UNCHANGED <<host, rpc, strays, loads, page, dialog, noise, fate>>

Due == page.open /\ closing.waits # {} /\ rpc.kind = "none"

CloseResumes ==
  /\ closing' = NoClose
  /\ \/ closing.unsaved /\ dialog' \in closing.waits /\ UNCHANGED <<page, loads, fate>>
     \/ /\ ~closing.unsaved /\ "close" \in closing.waits
        /\ dialog' = "none" /\ Invalidates(Unmounted)
        /\ fate' = IF page.offer.token # 0 THEN [fate EXCEPT ![page.offer.token] = "slipped"] ELSE fate
     \/ ~closing.unsaved /\ "close" \notin closing.waits /\ UNCHANGED <<dialog, page, loads, fate>>
  /\ UNCHANGED <<host, rpc, strays, noise>>

AnswerDialog(ok) ==
  /\ page.open /\ dialog # "none" /\ dialog' = "none"
  /\ IF ok THEN CancelsThen(dialog) ELSE UNCHANGED <<rpc, page, loads>>
  /\ UNCHANGED <<host, strays, closing, noise, fate>>

Reopen ==
  /\ ~page.open
  /\ page' = NewPage /\ loads' = Stale(loads) \cup {NewLoad("reload")}
  /\ UNCHANGED <<host, rpc, strays, dialog, closing, noise, fate>>

Controls ==
  \/ OpenEditor \/ UnstageKey \/ Apply \/ Confirm \/ Retry \/ CancelApproval \/ Approve \/ Discard
  \/ Refresh \/ StartProfile \/ StartBlank \/ RestageDrops \/ ReviewConflict \/ DiscardConflict
  \/ Recover \/ RetryLoad \/ Reopen
  \/ \E change \in Remotes \cup {Key} : Stage(change)
  \/ \E kind \in {"close", "quit"} : RequestClose(kind)
  \/ \E ok \in BOOLEAN : AnswerDialog(ok)

Serving ==
  \/ \E l \in loads : LoadServed(l) \/ LoadLands(l) \/ LoadFails(l)
  \/ WriteStarts \/ ConfirmStarts \/ Publishes \/ Republished \/ PrepareServed \/ ApproveServed
  \/ CancelServed \/ \E token \in strays : StrayServed(token)
  \/ AnswerLands \/ AnswerLost \/ PromptLapses
  \/ TurnStarts \/ TurnEnds \/ FilesChange \/ \E token \in 1..MaxTokens : Deadline(token)

SettingsNext == \/ Due /\ CloseResumes
                \/ ~Due /\ (Controls \/ Serving)

SettingsSpec == SettingsInit /\ [][SettingsNext]_settingsVars

(***************************************************************************)
(* Properties.                                                             *)
(***************************************************************************)
(* A write makes the configuration reach a destination only if it reached it *)
(* before or the user has approved it, and the service records an approval   *)
(* only for what the prompt on the surface lists, by the token it shows      *)
(* (ConfirmSettingsApply, ConfirmDestinationGrants).                          *)
ConsentCovers ==
  [][/\ (rpc.pc = "prepared" /\ rpc'.pc = "saved") =>
          ReachOf(host'.file) \subseteq ReachOf(host.file) \cup host.granted
     /\ host'.granted # host.granted =>
          /\ page.open /\ rpc.token = page.offer.token
          /\ host'.granted \ host.granted \subseteq page.offer.grants]_settingsVars

(* What is sent again, on a retry or by an approval, is what the page shows:  *)
(* the request that was kept never differs from the draft on the screen, nor  *)
(* does the one in flight; a key value is held exactly while its change is    *)
(* staged (pendingRequestRef, KeyVault); and the page says it is loading      *)
(* exactly while a load that may still land is in flight, so that no           *)
(* superseded load leaves it locked (generation).                              *)
SurfaceIsTrue ==
  page.open =>
    /\ (page.busy \/ (page.offer.token # 0 /\ page.intent = "apply")) => page.request = {RequestOf(page)}
    /\ rpc.kind \in {"write", "confirm"} => rpc.request = {RequestOf(page)}
    /\ page.held <=> Key \in page.draft.changes
    /\ page.inFlight \/ page.fetching <=> \E l \in loads : l.current

(* A challenge the service still honours is on the surface, on its way to or  *)
(* from it, or about to be cancelled, unless its answer or its cancel was     *)
(* lost, or it arrived as the tab closed; and one the user was told is        *)
(* cancelled authorizes nothing (cancelChallenge).                             *)
TokensTracked ==
  \A t \in 1..MaxTokens :
    Taken(t) # {} => fate[t] # "cancelled" /\ (t \in Carried \/ fate[t] \in {"lost", "slipped"})

(***************************************************************************)
(* The inductive strengthening behind the properties.                      *)
(***************************************************************************)
Files    == Configs \cup {Absent, Broken}
Sources  == {"applied", "profile", "blank"}
Then     == {"cancelled", "dismiss", "discard", "refresh", "profile", "blank", "quit", "close"}
Offers   == [token : 0..MaxTokens, grants : SUBSET Remotes]
Requests == [mode : {"create", "apply"}, target : Configs \cup {Absent}, source : Sources,
             base : Configs, changes : SUBSET (Remotes \cup {Key}), confirmed : BOOLEAN]
Challenges == [token : 1..MaxTokens, mode : {"create", "apply", "grants"},
               request : SUBSET Requests, prior : SUBSET Remotes, file : Files,
               grants : SUBSET Remotes]

(* What a call may be answered with.  Why a write is refused:                *)
Whys == {"target", "profile_source", "drops", "refused"}
Answers(kind) ==
  CASE kind = "write"   -> {"applied", "consent", "busy"} \cup Whys
    [] kind = "confirm" -> {"applied", "challenge", "busy"} \cup Whys
    [] kind = "prepare" -> {"consent", "busy", "over"}
    [] kind = "approve" -> {"busy", "over"}
    [] OTHER            -> {"cancelled"}

Hosts == [file : Files, profile : Configs, granted : SUBSET Remotes, snapshot : Files,
          turn : BOOLEAN, next : 0..MaxTokens, issued : SUBSET Challenges,
          expired : SUBSET (1..MaxTokens)]
Calls == [kind : {"none", "write", "confirm", "prepare", "approve", "cancel"},
          pc : {"none", "sent", "prepared", "saved", "answered"}, token : 0..MaxTokens,
          request : SUBSET Requests, then : Then \cup {"none"},
          answer : {"none", "applied", "consent", "busy", "challenge", "over", "cancelled"} \cup Whys,
          found : Files \cup {Unread}, offer : Offers]
LoadCalls == [kind : {"reload", "review", "profile"}, current : BOOLEAN,
              pc : {"sent", "answered"}, found : Files \cup {Unread}, busy : BOOLEAN]
Drafts == [source : Sources, base : Configs, changes : SUBSET (Remotes \cup {Key}),
           review : SUBSET (Remotes \cup {Key}), confirmed : BOOLEAN]
Pages == [open : BOOLEAN, shown : Files \cup {Unread}, draft : Drafts,
          target : Configs \cup {Absent}, held : BOOLEAN, editing : BOOLEAN,
          preview : SUBSET Configs, request : SUBSET Requests, offer : Offers,
          intent : {"apply", "grants"}, busy : BOOLEAN, drops : BOOLEAN,
          conflict : {"none", "target", "profile_source", "challenge"},
          unknown : BOOLEAN, inFlight : BOOLEAN, fetching : BOOLEAN]

SettingsTypeOK ==
  /\ host \in Hosts /\ rpc \in Calls /\ page \in Pages
  /\ strays \in SUBSET (1..MaxTokens) /\ loads \in SUBSET LoadCalls
  /\ dialog \in {"none", "refresh", "profile", "blank", "close", "quit"}
  /\ closing \in [waits : SUBSET {"close", "quit"}, unsaved : BOOLEAN]
  /\ fate \in [1..MaxTokens -> {"none", "cancelled", "lost", "slipped"}]

(* The reach a request gives the file it is for. *)
PlannedReach(req) ==
  ReachOf(IF req.source = "applied" THEN req.target ELSE IF req.source = "profile" THEN req.base ELSE Blank)
    \cup (req.changes \cap Remotes)

WellFormed(req) == IF req.mode = "create" THEN req.target = Absent /\ req.source # "applied"
                                          ELSE req.target \in Configs

(* At most one load may still land; the page says so; only it is answered, *)
(* and with a file.                                                        *)
LoadsFit ==
  /\ \A l, k \in loads : (l.current /\ k.current) => l = k
  /\ \A l \in loads : l.pc = "answered" => l.current /\ l.found \in IF Reloads(l) THEN Files ELSE Configs
  /\ (page.inFlight \/ page.fetching) <=> \E l \in loads : l.current
  /\ ~page.open => page = Unmounted

(* While the service holds a request or a challenge of the page, the page    *)
(* shows a configuration, loads nothing and reports nothing else; and the    *)
(* request that would be sent again is the draft.                            *)
PageFits ==
  /\ (page.offer.token # 0 \/ page.busy \/ rpc.kind # "none") =>
       page.open /\ Shows(page) /\ ~page.inFlight /\ ~page.fetching
  /\ (page.offer.token # 0 \/ page.busy) => page.conflict = "none" /\ ~page.drops /\ ~page.unknown
  /\ (page.busy \/ (page.offer.token # 0 /\ page.intent = "apply") \/ rpc.kind \in {"write", "confirm"}) =>
       page.request = {RequestOf(page)} /\ WellFormed(RequestOf(page)) /\ Dirty(page)
  /\ page.held <=> Key \in page.draft.changes

(* Where a call is says what it holds. *)
CallFits ==
  /\ rpc.kind = "none" => rpc = NoCall
  /\ rpc.kind # "none" => rpc.pc # "none"
  /\ rpc.pc \in {"prepared", "saved"} => rpc.kind \in {"write", "confirm"}
  /\ rpc.pc = "answered" => rpc.answer \in Answers(rpc.kind)
  /\ rpc.pc # "answered" => rpc.answer = "none"
  /\ rpc.offer.token # 0 <=> rpc.answer = "consent"
  /\ rpc.kind \in {"write", "confirm"} => rpc.request = page.request
  /\ rpc.kind \in {"write", "prepare"} => rpc.token = 0 /\ page.offer.token = 0
  /\ rpc.kind \in {"confirm", "approve", "cancel"} => rpc.token = page.offer.token /\ rpc.token # 0
  /\ rpc.kind = "confirm" => page.intent = "apply"
  /\ rpc.kind = "cancel" => rpc.then \in Then
  /\ rpc.answer = "applied" => rpc.found \in Files
  /\ rpc.pc = "prepared" => PlannedReach(RequestOf(page)) \subseteq ReachOf(RequestOf(page).target) \cup host.granted

(* A challenge lists what its prompt shows, and approving it covers what its *)
(* request reaches.                                                          *)
ChallengesFit ==
  /\ page.offer.token <= host.next /\ rpc.offer.token <= host.next
  /\ \A c \in host.issued :
       /\ c.token <= host.next
       /\ c.token = page.offer.token => c.grants = page.offer.grants
       /\ c.token = rpc.offer.token => c.grants = rpc.offer.grants
       /\ c.mode # "grants" => \E req \in Requests :
            /\ c.request = {req} /\ WellFormed(req)
            /\ PlannedReach(req) \subseteq c.prior \cup c.grants \cup host.granted

(* A token that was used, or cancelled, is gone for good. *)
TokensFit ==
  /\ \A t \in 1..MaxTokens : fate[t] = "cancelled" => t <= host.next /\ RecordsOf(t) = {}
  /\ (rpc.kind \in {"confirm", "approve", "cancel"} /\ rpc.pc # "sent" /\ rpc.answer # "busy") =>
       RecordsOf(rpc.token) = {}

SettingsInv ==
  /\ SettingsTypeOK /\ LoadsFit /\ PageFits /\ CallFits /\ ChallengesFit /\ TokensFit /\ TokensTracked
=============================================================================
