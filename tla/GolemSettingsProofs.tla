------------------------ MODULE GolemSettingsProofs ------------------------
(***************************************************************************)
(* Proofs about GolemSettings: what a write reaches was approved, what the *)
(* surface would send again is what it shows, and no challenge is left to  *)
(* authorize what nobody looks at.  And about ConsentStore, the approvals  *)
(* that the service reads: what is authorized is in the file, synced.      *)
(***************************************************************************)
EXTENDS GolemSettings, ConsentStore, TLAPS

-----------------------------------------------------------------------------
\* The pages and drafts the surface builds.

LEMMA Constants ==
  /\ Blank \in Configs /\ Untouched \in Drafts
  /\ NoOffer \in Offers /\ NoOffer.token = 0 /\ 0 \in 0..MaxTokens
  /\ NoCall \in Calls
<1>1. Blank \in Configs
  BY DEF Blank, Configs
<1>2. Untouched \in Drafts
  BY <1>1 DEF Untouched, Drafts, Sources
<1>3. NoOffer \in Offers /\ NoOffer.token = 0 /\ 0 \in 0..MaxTokens
  BY SettingsBounds DEF NoOffer, Offers
<1>4. NoCall \in Calls
  BY <1>3 DEF NoCall, Calls, Then, Files
<1> QED BY <1>1, <1>2, <1>3, <1>4

LEMMA NewPages ==
  /\ NewPage \in Pages /\ Unmounted \in Pages
  /\ NewPage.open /\ ~Unmounted.open /\ ~Unmounted.inFlight
  /\ \A p \in {NewPage, Unmounted} :
       p.offer = NoOffer /\ ~p.busy /\ ~p.held /\ p.draft = Untouched /\ ~p.fetching /\ ~p.unknown
  /\ NewPage.inFlight
<1>1. NewPage \in Pages
  BY Constants DEF NewPage, Pages, Files
<1>2. /\ NewPage.open /\ NewPage.inFlight /\ NewPage.offer = NoOffer /\ ~NewPage.busy /\ ~NewPage.held
      /\ NewPage.draft = Untouched /\ ~NewPage.fetching /\ ~NewPage.unknown
  BY DEF NewPage
<1> HIDE DEF NewPage
<1> QED BY <1>1, <1>2 DEF Unmounted, Pages

\* NO_OUTCOME clears the outcome and nothing else.
LEMMA ClearedIs ==
  ASSUME NEW p \in Pages
  PROVE  /\ Cleared(p) \in Pages
         /\ Cleared(p).offer = NoOffer /\ Cleared(p).intent = "apply" /\ ~Cleared(p).busy
         /\ ~Cleared(p).drops /\ Cleared(p).conflict = "none" /\ ~Cleared(p).unknown
         /\ Cleared(p).open = p.open /\ Cleared(p).shown = p.shown /\ Cleared(p).draft = p.draft
         /\ Cleared(p).target = p.target /\ Cleared(p).held = p.held /\ Cleared(p).editing = p.editing
         /\ Cleared(p).preview = p.preview /\ Cleared(p).request = p.request
         /\ Cleared(p).inFlight = p.inFlight /\ Cleared(p).fetching = p.fetching
BY Constants DEF Cleared, Pages

\* A final event leaves no key among the changes.
LEMMA DraftAfterIs ==
  ASSUME NEW d \in Drafts, NEW event
  PROVE  DraftAfter(d, event) \in Drafts /\ Key \notin DraftAfter(d, event).changes
<1>1. CASE event \in {"discard", "teardown", "applied"}
  BY <1>1, Constants DEF DraftAfter, Untouched
<1>2. CASE event \notin {"discard", "teardown", "applied"}
  <2> DEFINE kept == d.changes \ {Key}
  <2>1. /\ kept \in SUBSET (Remotes \cup {Key}) /\ Key \notin kept
        /\ d.review \cap kept \in SUBSET (Remotes \cup {Key})
        /\ "applied" \in Sources /\ Blank \in Configs
    BY Constants DEF Drafts, Sources
  <2> QED BY <1>2, <2>1 DEF DraftAfter, Drafts
<1> QED BY <1>1, <1>2

\* A settled page loads nothing and has no outcome; a request and a draft with
\* a key survive only a result that is answered by sending it again.
LEMMA SettledIs ==
  ASSUME NEW p \in Pages, NEW event
  PROVE  LET q == Settled(p, event) IN
         /\ q \in Pages
         /\ q.offer = NoOffer /\ q.intent = "apply" /\ ~q.busy
         /\ ~q.drops /\ q.conflict = "none" /\ ~q.unknown /\ ~q.inFlight /\ ~q.fetching
         /\ q.open = p.open /\ q.shown = p.shown /\ q.target = p.target /\ q.preview = p.preview
         /\ event \in Retaining => /\ q.held = p.held /\ q.draft = p.draft /\ q.request = p.request
                                   /\ q.editing = p.editing
         /\ event \notin Retaining => ~q.held /\ Key \notin q.draft.changes
<1> DEFINE c == Cleared(p)
           r == [c EXCEPT !.inFlight = FALSE, !.fetching = FALSE]
           kept == [r EXCEPT !.held = FALSE, !.request = {}, !.editing = FALSE,
                             !.draft = DraftAfter(r.draft, event)]
<1>1. /\ c \in Pages
      /\ c.offer = NoOffer /\ c.intent = "apply" /\ ~c.busy
      /\ ~c.drops /\ c.conflict = "none" /\ ~c.unknown
      /\ c.open = p.open /\ c.shown = p.shown /\ c.target = p.target /\ c.preview = p.preview
      /\ c.held = p.held /\ c.draft = p.draft /\ c.request = p.request /\ c.editing = p.editing
  BY ClearedIs
<1> HIDE DEF c
<1>2. /\ r \in Pages
      /\ r.offer = NoOffer /\ r.intent = "apply" /\ ~r.busy
      /\ ~r.drops /\ r.conflict = "none" /\ ~r.unknown /\ ~r.inFlight /\ ~r.fetching
      /\ r.open = p.open /\ r.shown = p.shown /\ r.target = p.target /\ r.preview = p.preview
      /\ r.held = p.held /\ r.draft = p.draft /\ r.request = p.request /\ r.editing = p.editing
  BY <1>1 DEF Pages
<1>3. Settled(p, event) = IF event \in Retaining THEN r ELSE kept
  BY DEF Settled, c
<1> HIDE DEF r
<1>4. r.draft \in Drafts
  BY <1>2 DEF Pages
<1>5. DraftAfter(r.draft, event) \in Drafts /\ Key \notin DraftAfter(r.draft, event).changes
  BY <1>4, DraftAfterIs
<1>6. /\ kept \in Pages
      /\ kept.offer = NoOffer /\ kept.intent = "apply" /\ ~kept.busy
      /\ ~kept.drops /\ kept.conflict = "none" /\ ~kept.unknown /\ ~kept.inFlight /\ ~kept.fetching
      /\ kept.open = p.open /\ kept.shown = p.shown /\ kept.target = p.target /\ kept.preview = p.preview
      /\ ~kept.held /\ Key \notin kept.draft.changes
  BY <1>2, <1>5 DEF Pages
<1> HIDE DEF kept
<1>7. CASE event \in Retaining
  BY <1>2, <1>3, <1>7
<1>8. CASE event \notin Retaining
  BY <1>3, <1>6, <1>8
<1> QED BY <1>7, <1>8

-----------------------------------------------------------------------------
\* What keeps the invariant, by who takes the step.

\* An idle call holds nothing.
LEMMA IdleCall ==
  ASSUME SettingsInv, rpc.kind = "none"
  PROVE  /\ rpc = NoCall /\ rpc.pc = "none" /\ rpc.token = 0 /\ rpc.offer = NoOffer
         /\ rpc.answer = "none" /\ rpc.then = "none" /\ rpc.request = {}
BY DEF SettingsInv, CallFits, NoCall

\* The page changes by itself: it keeps its offer, or drops one past its deadline.
LEMMA PageStep ==
  ASSUME SettingsInv, rpc.kind = "none", UNCHANGED <<host, rpc, strays, fate>>,
         page' \in Pages, loads' \in SUBSET LoadCalls,
         dialog' \in {"none", "refresh", "profile", "blank", "close", "quit"},
         closing' \in [waits : SUBSET {"close", "quit"}, unsaved : BOOLEAN],
         \/ page'.offer = page.offer /\ page'.open = page.open
         \/ page'.offer = NoOffer /\ page.offer.token \in {0} \cup host.expired,
         LoadsFit', PageFits'
  PROVE  SettingsInv'
<1>1. SettingsTypeOK'
  BY DEF SettingsInv, SettingsTypeOK
<1>2. CallFits'
  <2> USE Constants
  <2> QED BY IdleCall DEF SettingsInv, CallFits, NoOffer
<1>3. page'.offer = page.offer \/ page'.offer.token = 0
  BY Constants
<1>4. ChallengesFit'
  <2>1. \A c \in host.issued : c.token # 0
    BY DEF SettingsInv, SettingsTypeOK, Hosts, Challenges
  <2>2. page'.offer.token <= host.next
    BY <1>3, SettingsBounds DEF SettingsInv, ChallengesFit, SettingsTypeOK, Hosts
  <2> QED BY <1>3, <2>1, <2>2 DEF SettingsInv, ChallengesFit
<1>5. TokensFit'
  BY DEF SettingsInv, TokensFit, RecordsOf
<1>6. TokensTracked'
  <2> SUFFICES ASSUME NEW t \in 1..MaxTokens, Taken(t) # {}
               PROVE  fate[t] # "cancelled" /\ (t \in Carried' \/ fate[t] \in {"lost", "slipped"})
    BY DEF TokensTracked, Taken, RecordsOf
  <2>1. fate[t] # "cancelled" /\ (t \in Carried \/ fate[t] \in {"lost", "slipped"})
    BY DEF SettingsInv, TokensTracked
  <2>2. t # 0 /\ t \notin host.expired
    BY DEF Taken
  <2> QED BY <2>1, <2>2 DEF Carried
<1> QED BY <1>1, <1>2, <1>4, <1>5, <1>6 DEF SettingsInv

\* The service, or somebody beside it, changes nothing but files, the snapshot,
\* turns and deadlines, takes challenges back and grants; a call in flight moves
\* on, and one that spends its token takes the challenge.
LEMMA ServiceStep ==
  ASSUME SettingsInv, UNCHANGED <<page, strays, dialog, closing, fate>>,
         host' \in Hosts, rpc' \in Calls, loads' \in SUBSET LoadCalls,
         host'.next = host.next, host'.issued \subseteq host.issued,
         host.granted \subseteq host'.granted, host.expired \subseteq host'.expired,
         rpc'.kind = rpc.kind, rpc'.token = rpc.token, rpc'.offer = rpc.offer,
         CallFits', LoadsFit',
         (rpc.kind \in {"confirm", "approve", "cancel"} /\ rpc'.pc # "sent" /\ rpc'.answer # "busy") =>
           \A c \in host'.issued : c.token # rpc.token
  PROVE  SettingsInv'
<1>1. SettingsTypeOK'
  BY DEF SettingsInv, SettingsTypeOK
<1>2. PageFits'
  BY DEF SettingsInv, PageFits, Shows, Dirty, RequestOf, ModeOf, WellFormed
<1>3. ChallengesFit'
  <2> SUFFICES ASSUME NEW c \in host'.issued, c.mode # "grants"
               PROVE  \E req \in Requests : /\ c.request = {req} /\ WellFormed(req)
                        /\ PlannedReach(req) \subseteq c.prior \cup c.grants \cup host'.granted
    BY DEF SettingsInv, ChallengesFit, WellFormed, PlannedReach, ReachOf
  <2>1. PICK req \in Requests : /\ c.request = {req} /\ WellFormed(req)
                                /\ PlannedReach(req) \subseteq c.prior \cup c.grants \cup host.granted
    BY DEF SettingsInv, ChallengesFit
  <2> QED BY <2>1
<1>4. TokensFit'
  BY DEF SettingsInv, TokensFit, RecordsOf
<1>5. TokensTracked'
  <2> SUFFICES ASSUME NEW t \in 1..MaxTokens, Taken(t)' # {}
               PROVE  fate[t] # "cancelled" /\ (t \in Carried' \/ fate[t] \in {"lost", "slipped"})
    BY DEF TokensTracked
  <2>1. Taken(t) # {}
    BY DEF Taken, RecordsOf
  <2> QED BY <2>1 DEF SettingsInv, TokensTracked, Carried
<1> QED BY <1>1, <1>2, <1>3, <1>4, <1>5 DEF SettingsInv

\* What a call takes with it when it is sent.
SendsWith(kind, token, request, then) ==
  /\ rpc' = [kind |-> kind, pc |-> "sent", token |-> token, request |-> request, then |-> then,
             answer |-> "none", found |-> Unread, offer |-> NoOffer]
  /\ page' \in {page, [page EXCEPT !.request = request]}
  /\ kind \in {"write", "prepare"} => token = 0 /\ page.offer.token = 0
  /\ kind \in {"confirm", "approve", "cancel"} =>
       token = page.offer.token /\ token # 0 /\ page' = page
  /\ kind = "confirm" => page.intent = "apply"
  /\ kind \in {"write", "confirm"} => /\ request = page'.request /\ request = {RequestOf(page)}
                                      /\ WellFormed(RequestOf(page)) /\ Dirty(page)
  /\ kind = "prepare" => page' = page
  /\ kind = "cancel" => then \in Then

\* A call is sent from a page that shows a configuration and loads nothing.
LEMMA SendStep ==
  ASSUME SettingsInv, rpc.kind = "none", UNCHANGED <<host, strays, loads, closing, fate>>,
         dialog' \in {"none", "refresh", "profile", "blank", "close", "quit"},
         page.open, Shows(page), ~page.inFlight, ~page.fetching,
         NEW kind \in {"write", "confirm", "prepare", "approve", "cancel"},
         NEW token \in 0..MaxTokens, NEW request \in SUBSET Requests, NEW then \in Then \cup {"none"},
         SendsWith(kind, token, request, then)
  PROVE  SettingsInv'
<1> USE DEF SendsWith
<1>1. /\ rpc' \in Calls /\ rpc'.kind = kind /\ rpc'.pc = "sent" /\ rpc'.token = token
      /\ rpc'.request = request /\ rpc'.then = then /\ rpc'.answer = "none" /\ rpc'.offer = NoOffer
      /\ NoOffer.token = 0
  BY Constants DEF NoCall, Calls
<1>2. page \in Pages
  BY DEF SettingsInv, SettingsTypeOK
<1>3. /\ page' \in Pages /\ page'.offer = page.offer /\ page'.open = page.open
      /\ page'.intent = page.intent /\ page'.busy = page.busy /\ page'.conflict = page.conflict
      /\ page'.drops = page.drops /\ page'.unknown = page.unknown /\ page'.held = page.held
      /\ page'.draft = page.draft /\ page'.shown = page.shown /\ page'.target = page.target
      /\ page'.inFlight = page.inFlight /\ page'.fetching = page.fetching
      /\ page'.request \in {page.request, request}
      /\ RequestOf(page') = RequestOf(page)
  <2>1. CASE page' = page
    BY <1>2, <2>1
  <2>2. CASE page' = [page EXCEPT !.request = request]
    BY <1>2, <2>2 DEF Pages, RequestOf, ModeOf
  <2> QED BY <2>1, <2>2
<1>4. SettingsTypeOK'
  BY <1>1, <1>3 DEF SettingsInv, SettingsTypeOK
<1>5. LoadsFit'
  BY <1>3 DEF SettingsInv, LoadsFit
<1>6. PageFits'
  <2>1. kind \in {"confirm", "approve", "cancel", "prepare"} => page' = page
    OBVIOUS
  <2>2. page'.busy \/ (page'.offer.token # 0 /\ page'.intent = "apply") \/ kind \in {"write", "confirm"} =>
          /\ page'.request = {RequestOf(page)} /\ WellFormed(RequestOf(page)) /\ Dirty(page)
    BY <1>3, <2>1 DEF SettingsInv, PageFits
  <2> QED BY <1>1, <1>3, <2>2 DEF SettingsInv, PageFits, Shows, Dirty
<1>7. CallFits'
  BY <1>1, <1>3 DEF CallFits
<1>8. ChallengesFit'
  <2>1. \A c \in host.issued : c.token # 0
    BY DEF SettingsInv, SettingsTypeOK, Hosts, Challenges
  <2>2. 0 <= host.next
    BY SettingsBounds DEF SettingsInv, SettingsTypeOK, Hosts
  <2>3. rpc'.offer.token = 0 /\ page'.offer = page.offer
    BY <1>1, <1>3
  <2>4. \A c \in host.issued : c.token # rpc'.offer.token
    BY <2>1, <2>3
  <2> QED BY <2>2, <2>3, <2>4 DEF SettingsInv, ChallengesFit
<1>9. TokensFit'
  BY <1>1 DEF SettingsInv, TokensFit, RecordsOf
<1>10. TokensTracked'
  <2> SUFFICES ASSUME NEW t \in 1..MaxTokens, Taken(t) # {}
               PROVE  fate[t] # "cancelled" /\ (t \in Carried' \/ fate[t] \in {"lost", "slipped"})
    BY DEF TokensTracked, Taken, RecordsOf
  <2>1. fate[t] # "cancelled" /\ (t \in Carried \/ fate[t] \in {"lost", "slipped"})
    BY DEF SettingsInv, TokensTracked
  <2>2. rpc.token = 0 /\ rpc.offer.token = 0
    BY IdleCall, Constants
  <2> QED BY <1>3, <2>1, <2>2 DEF Carried
<1> QED BY <1>4, <1>5, <1>6, <1>7, <1>8, <1>9, <1>10 DEF SettingsInv

-----------------------------------------------------------------------------
\* The service.

\* What the page of a request in flight says of it.
LEMMA RequestIs ==
  ASSUME SettingsInv, rpc.kind \in {"write", "confirm"}
  PROVE  /\ Request = RequestOf(page) /\ rpc.request = {Request}
         /\ Request \in Requests /\ WellFormed(Request)
<1>1. rpc.request = {RequestOf(page)} /\ WellFormed(RequestOf(page))
  BY DEF SettingsInv, CallFits, PageFits
<1>2. Request = RequestOf(page)
  BY <1>1 DEF Request
<1>3. RequestOf(page) \in Requests
  BY <1>1 DEF SettingsInv, SettingsTypeOK, Calls
<1> QED BY <1>1, <1>2, <1>3

\* A request that is not refused is for the file there is, and gives it the
\* reach it plans.
LEMMA PlanIs ==
  ASSUME NEW req \in Requests, WellFormed(req), host.file \in Files
  PROVE  /\ Refusals(req) \subseteq Whys
         /\ Refusals(req) = {} => host.file = req.target
         /\ host.file = req.target => ResultOf(req) \in Configs /\ ResultOf(req).reach = PlannedReach(req)
<1>1. Refusals(req) \subseteq Whys
  BY DEF Refusals, Whys
<1>2. Refusals(req) = {} => host.file = req.target
  BY DEF Refusals, Requests, WellFormed
<1>3. ASSUME host.file = req.target
      PROVE  ResultOf(req) \in Configs /\ ResultOf(req).reach = PlannedReach(req)
  <2>1. SourceOf(req) = IF req.source = "applied" THEN req.target
                        ELSE IF req.source = "profile" THEN req.base ELSE Blank
    BY <1>3 DEF SourceOf, Requests, Sources
  <2>2. SourceOf(req) \in Configs
    BY <2>1, Constants DEF Requests, WellFormed
  <2>3. SourceOf(req).reach \in SUBSET Remotes
    BY <2>2 DEF Configs
  <2> QED BY <2>1, <2>2, <2>3 DEF ResultOf, PlannedReach, ReachOf, Configs
<1> QED BY <1>1, <1>2, <1>3

LEMMA ReachIsRemote == \A file \in Files : ReachOf(file) \in SUBSET Remotes
BY DEF ReachOf, Files, Configs

\* An answer that makes no promise about a challenge.
LEMMA RepliesIs ==
  ASSUME SettingsInv, NEW answer \in Answers(rpc.kind) \ {"consent", "applied"},
         rpc.kind # "none", rpc.pc # "answered", Replies(answer)
  PROVE  /\ rpc' \in Calls /\ rpc'.kind = rpc.kind /\ rpc'.token = rpc.token
         /\ rpc'.offer = rpc.offer /\ rpc'.answer = answer /\ rpc'.pc = "answered"
         /\ rpc'.request = rpc.request /\ rpc'.then = rpc.then /\ rpc'.found = rpc.found
         /\ rpc.offer.token = 0
<1>1. rpc \in Calls /\ rpc.offer.token = 0
  BY DEF SettingsInv, SettingsTypeOK, CallFits
<1>2. answer \in {"none", "applied", "consent", "busy", "challenge", "over", "cancelled"} \cup Whys
  BY DEF Answers
<1> QED BY <1>1, <1>2 DEF Replies, Calls

\* A reply spends the token of a call, or tells that the service is busy.
LEMMA ReplyStep ==
  ASSUME SettingsInv, UNCHANGED <<page, loads, strays, dialog, closing, fate>>,
         host' \in Hosts,
         host'.next = host.next, host'.issued \subseteq host.issued,
         host.granted \subseteq host'.granted, host.expired \subseteq host'.expired,
         rpc.kind # "none", rpc.pc # "answered",
         NEW answer \in Answers(rpc.kind) \ {"consent", "applied"}, Replies(answer),
         (rpc.kind \in {"confirm", "approve", "cancel"} /\ answer # "busy") => \A c \in host'.issued : c.token # rpc.token
  PROVE  SettingsInv'
<1>1. /\ rpc' \in Calls /\ rpc'.kind = rpc.kind /\ rpc'.token = rpc.token
      /\ rpc'.offer = rpc.offer /\ rpc'.answer = answer /\ rpc'.pc = "answered"
      /\ rpc'.request = rpc.request /\ rpc'.then = rpc.then /\ rpc.offer.token = 0
  BY RepliesIs
<1>2. answer # "consent" /\ answer # "applied"
  OBVIOUS
<1>3. CallFits'
  BY <1>1, <1>2 DEF SettingsInv, CallFits
<1>4. LoadsFit' /\ loads' \in SUBSET LoadCalls
  BY DEF SettingsInv, LoadsFit, SettingsTypeOK
<1> QED BY <1>1, <1>3, <1>4, ServiceStep

\* A challenge that is taken is gone.
LEMMA WithoutIs ==
  ASSUME SettingsInv, NEW token, NEW grants \in SUBSET Remotes,
         host' = Without(token) \/ host' = [Without(token) EXCEPT !.granted = @ \cup grants]
  PROVE  /\ host' \in Hosts /\ host'.next = host.next /\ host'.issued \subseteq host.issued
         /\ host'.granted \in {host.granted, host.granted \cup grants}
         /\ host'.expired = host.expired /\ host'.file = host.file
         /\ \A c \in host'.issued : c.token # token
<1>1. host \in Hosts
  BY DEF SettingsInv, SettingsTypeOK
<1>2. host'.issued = host.issued \ RecordsOf(token)
  BY <1>1 DEF Without, Hosts
<1>3. host' \in Hosts
  BY <1>1 DEF Without, Hosts
<1>4. \A c \in host'.issued : c.token # token
  BY <1>2 DEF RecordsOf
<1> QED BY <1>1, <1>2, <1>3, <1>4 DEF Without, Hosts

\* A challenge is made for a request that is prepared, or for the file.
LEMMA IssuesStep ==
  ASSUME SettingsInv, UNCHANGED <<page, loads, strays, dialog, closing, fate>>,
         rpc.kind \in {"write", "prepare"}, rpc.pc = "sent",
         NEW mode \in {"create", "apply", "grants"}, NEW prior \in SUBSET Remotes,
         NEW grants \in SUBSET Remotes, Issues(mode, prior, grants),
         mode # "grants" => \E req \in Requests : /\ rpc.request = {req} /\ WellFormed(req)
                                                 /\ PlannedReach(req) \subseteq prior \cup grants \cup host.granted
  PROVE  SettingsInv'
<1> DEFINE token == host.next + 1
           made  == [token |-> token, mode |-> mode, request |-> rpc.request, prior |-> prior,
                     file |-> host.file, grants |-> grants]
           offer == [token |-> token, grants |-> grants]
<1>1. host \in Hosts /\ rpc \in Calls
  BY DEF SettingsInv, SettingsTypeOK
<1>2. token \in 1..MaxTokens /\ host.next \in Nat
  BY <1>1, SettingsBounds DEF Issues, Hosts
<1>3. made \in Challenges /\ offer \in Offers
  BY <1>1, <1>2 DEF Challenges, Offers, Hosts, Calls
<1> HIDE DEF made
<1>4. /\ host' = [host EXCEPT !.next = token,
                     !.issued = {c \in @ : c.token \notin host.expired} \cup {made}]
      /\ rpc' = [rpc EXCEPT !.pc = "answered", !.answer = "consent", !.offer = offer]
  BY DEF Issues, made
<1>5. /\ host' \in Hosts /\ host'.next = token /\ host'.granted = host.granted
      /\ host'.expired = host.expired
      /\ host'.issued = {c \in host.issued : c.token \notin host.expired} \cup {made}
  <2> DEFINE issued == {c \in host.issued : c.token \notin host.expired} \cup {made}
  <2>1. issued \in SUBSET Challenges
    BY <1>1, <1>3 DEF Hosts
  <2>2. host' = [host EXCEPT !.next = token, !.issued = issued]
    BY <1>4
  <2>3. token \in 0..MaxTokens
    BY <1>2
  <2> HIDE DEF issued, token
  <2>4. /\ host' \in Hosts /\ host'.next = token /\ host'.granted = host.granted
        /\ host'.expired = host.expired /\ host'.issued = issued
    BY <1>1, <2>1, <2>2, <2>3 DEF Hosts
  <2> QED BY <2>4 DEF issued
<1>6. /\ rpc' \in Calls /\ rpc'.kind = rpc.kind /\ rpc'.pc = "answered" /\ rpc'.answer = "consent"
      /\ rpc'.offer = offer /\ rpc'.token = rpc.token /\ rpc'.request = rpc.request
      /\ rpc'.then = rpc.then
  BY <1>1, <1>3, <1>4 DEF Calls
<1>7. offer.token = token /\ offer.grants = grants /\ token # 0
  BY <1>2
<1>8. made.token = token /\ made.grants = grants /\ made.mode = mode /\ made.prior = prior
      /\ made.request = rpc.request
  BY DEF made
<1> HIDE DEF offer
<1>9. SettingsTypeOK'
  BY <1>5, <1>6 DEF SettingsInv, SettingsTypeOK
<1>10. LoadsFit' /\ PageFits'
  BY <1>6 DEF SettingsInv, LoadsFit, PageFits, Shows, Dirty, RequestOf, ModeOf, WellFormed
<1>11. CallFits'
  <2>1. "consent" \in Answers(rpc.kind)
    BY DEF Answers
  <2> QED BY <1>6, <1>7, <2>1 DEF SettingsInv, CallFits
<1>12. ChallengesFit'
  <2>1. page.offer.token <= host.next /\ page.offer.token \in Nat
    BY SettingsBounds DEF SettingsInv, ChallengesFit, SettingsTypeOK, Pages, Offers
  <2>2. ASSUME NEW c \in host'.issued
        PROVE  /\ c.token <= token
               /\ c.token = page.offer.token => c.grants = page.offer.grants
               /\ c.token = token => c.grants = grants
               /\ c.mode # "grants" => \E req \in Requests :
                    /\ c.request = {req} /\ WellFormed(req)
                    /\ PlannedReach(req) \subseteq c.prior \cup c.grants \cup host.granted
    <3>1. CASE c = made
      BY <1>2, <1>8, <2>1, <3>1
    <3>2. CASE c # made
      <4>1. c \in host.issued
        BY <1>5, <3>2
      <4>2. c.token <= host.next /\ c.token \in Nat
        BY <1>1, <4>1 DEF SettingsInv, ChallengesFit, Hosts, Challenges
      <4> QED BY <1>2, <4>1, <4>2 DEF SettingsInv, ChallengesFit
    <3> QED BY <3>1, <3>2
  <2> QED BY <1>2, <1>5, <1>6, <1>7, <2>1, <2>2 DEF ChallengesFit, PlannedReach, ReachOf, WellFormed
<1>13. TokensFit'
  <2>1. ASSUME NEW t \in 1..MaxTokens, fate[t] = "cancelled" PROVE t <= token /\ RecordsOf(t)' = {}
    <3>1. t <= host.next /\ RecordsOf(t) = {}
      BY <2>1 DEF SettingsInv, TokensFit
    <3> QED BY <1>2, <1>5, <1>8, <3>1 DEF RecordsOf
  <2> QED BY <1>5, <1>6, <2>1 DEF TokensFit
<1>14. TokensTracked'
  <2> SUFFICES ASSUME NEW t \in 1..MaxTokens, Taken(t)' # {}
               PROVE  fate[t] # "cancelled" /\ (t \in Carried' \/ fate[t] \in {"lost", "slipped"})
    BY DEF TokensTracked
  <2>1. CASE t = token
    <3>1. fate[t] # "cancelled"
      BY <1>2, <2>1 DEF SettingsInv, TokensFit
    <3> QED BY <1>6, <1>7, <2>1, <3>1 DEF Carried
  <2>2. CASE t # token
    <3>1. Taken(t) # {}
      BY <1>5, <1>8, <2>2 DEF Taken, RecordsOf
    <3>2. rpc.offer.token = 0
      BY DEF SettingsInv, CallFits
    <3> QED BY <1>6, <3>1, <3>2 DEF SettingsInv, TokensTracked, Carried
  <2> QED BY <2>1, <2>2
<1> QED BY <1>9, <1>10, <1>11, <1>12, <1>13, <1>14 DEF SettingsInv

-----------------------------------------------------------------------------
\* The steps of the service, one by one.

LEMMA WriteStartsStep ==
  ASSUME SettingsInv, WriteStarts
  PROVE  SettingsInv'
<1> DEFINE req  == Request
           pre  == ReachOf(host.file)
           asks == Ungranted(pre, ResultOf(req).reach)
<1>1. /\ rpc.kind = "write" /\ rpc.pc = "sent" /\ rpc.pc # "answered"
      /\ UNCHANGED <<strays, loads, page, dialog, closing, noise, fate>>
  BY DEF WriteStarts
<1>2. /\ req = RequestOf(page) /\ rpc.request = {req} /\ req \in Requests /\ WellFormed(req)
      /\ host \in Hosts /\ host.file \in Files
  BY <1>1, RequestIs DEF SettingsInv, SettingsTypeOK, Hosts
<1>3. pre \in SUBSET Remotes
  BY <1>2, ReachIsRemote
<1>4. ASSUME NEW answer \in Answers("write") \ {"consent", "applied"}, Replies(answer), UNCHANGED host
      PROVE  SettingsInv'
  BY <1>1, <1>2, <1>4, ReplyStep
<1>5. CASE host.turn
  <2>1. "busy" \in Answers("write") \ {"consent", "applied"}
    BY DEF Answers
  <2> QED BY <1>4, <1>5, <2>1 DEF WriteStarts
<1>6. CASE ~host.turn /\ Refusals(req) # {}
  <2>1. PICK why \in Refusals(req) : Replies(why) /\ UNCHANGED host
    BY <1>6 DEF WriteStarts
  <2>2. why \in Answers("write") \ {"consent", "applied"}
    BY <1>2, <2>1, PlanIs DEF Answers, Whys
  <2> QED BY <1>4, <2>1, <2>2
<1>7. CASE ~host.turn /\ Refusals(req) = {}
  <2>1. /\ host.file = req.target /\ ResultOf(req).reach = PlannedReach(req)
        /\ ResultOf(req) \in Configs
    BY <1>2, <1>7, PlanIs
  <2>2. ResultOf(req).reach \in SUBSET Remotes
    BY <2>1 DEF Configs
  <2>3. PlannedReach(req) \subseteq pre \cup asks \cup host.granted
    BY <2>1, <2>2 DEF Ungranted
  <2>4. CASE asks # {}
    <3>1. Issues(req.mode, pre, asks)
      BY <1>7, <2>4 DEF WriteStarts
    <3>2. asks \in SUBSET Remotes
      BY <2>2 DEF Ungranted
    <3>3. req.mode \in {"create", "apply"}
      BY <1>2 DEF Requests
    <3> HIDE DEF req, pre, asks
    <3> QED BY <1>1, <1>2, <1>3, <2>3, <3>1, <3>2, <3>3, IssuesStep
  <2>5. CASE asks = {}
    <3>1. rpc' = [rpc EXCEPT !.pc = "prepared"] /\ UNCHANGED host
      BY <1>7, <2>5 DEF WriteStarts
    <3>2. rpc \in Calls
      BY DEF SettingsInv, SettingsTypeOK
    <3>3. /\ rpc' \in Calls /\ rpc'.kind = rpc.kind /\ rpc'.token = rpc.token
          /\ rpc'.offer = rpc.offer /\ rpc'.pc = "prepared" /\ rpc'.request = rpc.request
          /\ rpc'.then = rpc.then /\ rpc'.answer = rpc.answer /\ rpc'.found = rpc.found
      BY <3>1, <3>2 DEF Calls
    <3>4. PlannedReach(req) \subseteq ReachOf(req.target) \cup host.granted
      BY <2>1, <2>3, <2>5
    <3> HIDE DEF req
    <3>5. CallFits'
      BY <1>1, <1>2, <3>1, <3>3, <3>4 DEF SettingsInv, CallFits, PlannedReach, ReachOf, RequestOf, ModeOf
    <3>6. LoadsFit' /\ loads' \in SUBSET LoadCalls
      BY <1>1 DEF SettingsInv, LoadsFit, SettingsTypeOK
    <3> QED BY <1>1, <1>2, <3>1, <3>3, <3>5, <3>6, ServiceStep
  <2> QED BY <2>4, <2>5
<1> QED BY <1>5, <1>6, <1>7

LEMMA ConfirmStartsStep ==
  ASSUME SettingsInv, ConfirmStarts
  PROVE  SettingsInv'
<1>1. /\ rpc.kind = "confirm" /\ rpc.pc = "sent" /\ rpc.pc # "answered"
      /\ UNCHANGED <<strays, loads, page, dialog, closing, fate>>
  BY DEF ConfirmStarts
<1>2. /\ Request = RequestOf(page) /\ rpc.request = {Request} /\ Request \in Requests /\ WellFormed(Request)
      /\ host \in Hosts /\ host.file \in Files /\ rpc \in Calls
  BY <1>1, RequestIs DEF SettingsInv, SettingsTypeOK, Hosts
<1>3. ASSUME NEW answer \in Answers("confirm") \ {"applied"}, Replies(answer),
             host' = Without(rpc.token) \/ (answer = "busy" /\ UNCHANGED host)
      PROVE  SettingsInv'
  <2>1. answer \in Answers(rpc.kind) \ {"consent", "applied"}
    BY <1>1 DEF Answers, Whys
  <2>2. /\ host' \in Hosts /\ host'.next = host.next /\ host'.issued \subseteq host.issued
        /\ host.granted \subseteq host'.granted /\ host.expired \subseteq host'.expired
        /\ answer # "busy" => \A c \in host'.issued : c.token # rpc.token
    BY <1>2, <1>3, WithoutIs
  <2> QED BY <1>1, <1>3, <2>1, <2>2, ReplyStep
<1>4. /\ "busy" \in Answers("confirm") \ {"applied"}
      /\ "challenge" \in Answers("confirm") \ {"applied"}
      /\ Whys \subseteq Answers("confirm") \ {"applied"} /\ "refused" \in Whys
  BY DEF Answers, Whys
<1>5. ASSUME NEW c \in Taken(rpc.token), c.mode # "grants", Matches(c), Refusals(Request) = {},
             host' = [Without(rpc.token) EXCEPT !.granted = @ \cup c.grants],
             rpc' = [rpc EXCEPT !.pc = "prepared"]
      PROVE  SettingsInv'
  <2>1. c \in host.issued /\ c \in Challenges
    BY <1>2, <1>5 DEF Taken, RecordsOf, Hosts
  <2>2. c.grants \in SUBSET Remotes
    BY <2>1 DEF Challenges
  <2>3. /\ host' \in Hosts /\ host'.next = host.next /\ host'.issued \subseteq host.issued
        /\ host'.granted \in {host.granted, host.granted \cup c.grants}
        /\ host'.expired = host.expired /\ \A d \in host'.issued : d.token # rpc.token
    BY <1>5, <2>2, WithoutIs
  <2>4. host'.granted = host.granted \cup c.grants
    BY <1>2, <1>5 DEF Without, Hosts
  <2>5. /\ rpc' \in Calls /\ rpc'.kind = rpc.kind /\ rpc'.token = rpc.token
        /\ rpc'.offer = rpc.offer /\ rpc'.pc = "prepared" /\ rpc'.request = rpc.request
        /\ rpc'.then = rpc.then /\ rpc'.answer = rpc.answer /\ rpc'.found = rpc.found
    BY <1>2, <1>5 DEF Calls
  <2>6. host.file = Request.target
    BY <1>2, <1>5, PlanIs
  <2>7. PICK req \in Requests : /\ c.request = {req}
                                /\ PlannedReach(req) \subseteq c.prior \cup c.grants \cup host.granted
    BY <1>5, <2>1 DEF SettingsInv, ChallengesFit
  <2>8. req = Request /\ c.prior = ReachOf(Request.target)
    BY <1>2, <1>5, <2>6, <2>7 DEF Matches
  <2>9. PlannedReach(Request) \subseteq ReachOf(Request.target) \cup host'.granted
    BY <2>4, <2>7, <2>8
  <2>10. CallFits'
    BY <1>1, <1>2, <2>5, <2>9 DEF SettingsInv, CallFits, PlannedReach, ReachOf, RequestOf, ModeOf
  <2>11. LoadsFit' /\ loads' \in SUBSET LoadCalls
    BY <1>1 DEF SettingsInv, LoadsFit, SettingsTypeOK
  <2> QED BY <1>1, <2>3, <2>4, <2>5, <2>10, <2>11, ServiceStep
<1> DEFINE mine == {c \in Taken(rpc.token) : c.mode # "grants"}
           fits == {c \in mine : Matches(c)}
<1>6. CASE host.turn
  BY <1>3, <1>4, <1>6 DEF ConfirmStarts
<1>7. CASE ~host.turn
  <2>1. \/ Replies("challenge") /\ host' = Without(rpc.token)
        \/ host' = Without(rpc.token) /\ \E why \in Refusals(Request) : Replies(why)
        \/ \E c \in fits : /\ Refusals(Request) = {}
                           /\ host' = [Without(rpc.token) EXCEPT !.granted = @ \cup c.grants]
                           /\ rpc' = [rpc EXCEPT !.pc = "prepared"]
        \/ host' = Without(rpc.token) /\ Replies("refused")
    BY <1>7, Zenon DEF ConfirmStarts
  <2>2. Refusals(Request) \subseteq Whys
    BY <1>2, PlanIs
  <2> QED BY <1>3, <1>4, <1>5, <2>1, <2>2
<1> QED BY <1>6, <1>7

LEMMA PublishesStep ==
  ASSUME SettingsInv, Publishes
  PROVE  SettingsInv'
<1>1. /\ rpc.pc = "prepared" /\ rpc.kind \in {"write", "confirm"}
      /\ UNCHANGED <<strays, loads, page, dialog, closing, fate>>
  BY DEF Publishes, SettingsInv, CallFits
<1>2. /\ Request = RequestOf(page) /\ rpc.request = {Request} /\ Request \in Requests /\ WellFormed(Request)
      /\ host \in Hosts /\ host.file \in Files /\ rpc \in Calls
  BY <1>1, RequestIs DEF SettingsInv, SettingsTypeOK, Hosts
<1>3. rpc.kind = "confirm" => \A c \in host.issued : c.token # rpc.token
  BY <1>1 DEF SettingsInv, TokensFit, CallFits, RecordsOf
<1>4. ASSUME NEW answer \in {"target", "refused"}, Replies(answer), UNCHANGED host
      PROVE  SettingsInv'
  <2>1. answer \in Answers(rpc.kind) \ {"consent", "applied"}
    BY <1>1 DEF Answers, Whys
  <2>2. (rpc.kind \in {"confirm", "approve", "cancel"} /\ answer # "busy") => \A c \in host'.issued : c.token # rpc.token
    BY <1>1, <1>3, <1>4 DEF RecordsOf
  <2> QED BY <1>1, <1>2, <1>4, <2>1, <2>2, ReplyStep
<1>5. ASSUME Unmoved(Request), host' = [host EXCEPT !.file = ResultOf(Request)],
             rpc' = [rpc EXCEPT !.pc = "saved"]
      PROVE  SettingsInv'
  <2>1. ResultOf(Request) \in Configs
    BY <1>2, <1>5, PlanIs DEF Unmoved
  <2>2. /\ host' \in Hosts /\ host'.next = host.next /\ host'.issued = host.issued
        /\ host'.granted = host.granted /\ host'.expired = host.expired
    BY <1>2, <1>5, <2>1 DEF Hosts, Files
  <2>3. /\ rpc' \in Calls /\ rpc'.kind = rpc.kind /\ rpc'.token = rpc.token
        /\ rpc'.offer = rpc.offer /\ rpc'.pc = "saved" /\ rpc'.request = rpc.request
        /\ rpc'.then = rpc.then /\ rpc'.answer = rpc.answer /\ rpc'.found = rpc.found
    BY <1>2, <1>5 DEF Calls
  <2>4. CallFits'
    BY <1>1, <2>3 DEF SettingsInv, CallFits
  <2>5. LoadsFit' /\ loads' \in SUBSET LoadCalls
    BY <1>1 DEF SettingsInv, LoadsFit, SettingsTypeOK
  <2>6. (rpc.kind \in {"confirm", "approve", "cancel"}) => \A c \in host'.issued : c.token # rpc.token
    BY <1>1, <1>3, <2>2 DEF RecordsOf
  <2> QED BY <1>1, <2>2, <2>3, <2>4, <2>5, <2>6, ServiceStep
<1> QED BY <1>4, <1>5 DEF Publishes

LEMMA RepublishedStep ==
  ASSUME SettingsInv, Republished
  PROVE  SettingsInv'
<1>1. /\ rpc.pc = "saved" /\ rpc.kind \in {"write", "confirm"} /\ rpc.offer.token = 0
      /\ UNCHANGED <<strays, loads, page, dialog, closing, fate>>
      /\ host' = [host EXCEPT !.snapshot = host.file]
      /\ rpc' = [rpc EXCEPT !.pc = "answered", !.answer = "applied", !.found = host.file]
  BY DEF Republished, SettingsInv, CallFits
<1>2. host \in Hosts /\ host.file \in Files /\ rpc \in Calls
  BY DEF SettingsInv, SettingsTypeOK, Hosts
<1>3. /\ host' \in Hosts /\ host'.next = host.next /\ host'.issued = host.issued
      /\ host'.granted = host.granted /\ host'.expired = host.expired
  BY <1>1, <1>2 DEF Hosts
<1>4. /\ rpc' \in Calls /\ rpc'.kind = rpc.kind /\ rpc'.token = rpc.token
      /\ rpc'.offer = rpc.offer /\ rpc'.pc = "answered" /\ rpc'.request = rpc.request
      /\ rpc'.then = rpc.then /\ rpc'.answer = "applied" /\ rpc'.found = host.file
  BY <1>1, <1>2 DEF Calls
<1>5. "applied" \in Answers(rpc.kind)
  BY <1>1 DEF Answers
<1>6. CallFits'
  BY <1>1, <1>2, <1>4, <1>5 DEF SettingsInv, CallFits
<1>7. LoadsFit' /\ loads' \in SUBSET LoadCalls
  BY <1>1 DEF SettingsInv, LoadsFit, SettingsTypeOK
<1>8. rpc.kind = "confirm" => \A c \in host'.issued : c.token # rpc.token
  BY <1>1, <1>3 DEF SettingsInv, TokensFit, CallFits, RecordsOf
<1> QED BY <1>1, <1>3, <1>4, <1>6, <1>7, <1>8, ServiceStep

LEMMA PrepareServedStep ==
  ASSUME SettingsInv, PrepareServed
  PROVE  SettingsInv'
<1> DEFINE asks == Ungranted({}, ReachOf(host.file))
<1>1. /\ rpc.kind = "prepare" /\ rpc.pc = "sent" /\ rpc.pc # "answered"
      /\ UNCHANGED <<strays, loads, page, dialog, closing, fate>>
  BY DEF PrepareServed
<1>2. host \in Hosts /\ host.file \in Files
  BY DEF SettingsInv, SettingsTypeOK, Hosts
<1>3. asks \in SUBSET Remotes /\ {} \in SUBSET Remotes
  BY <1>2, ReachIsRemote DEF Ungranted
<1>4. CASE Issues("grants", {}, asks)
  <2> HIDE DEF asks
  <2> QED BY <1>1, <1>3, <1>4, IssuesStep
<1>5. ASSUME NEW answer \in {"busy", "over"}, Replies(answer), UNCHANGED host PROVE SettingsInv'
  <2>1. answer \in Answers(rpc.kind) \ {"consent", "applied"}
    BY <1>1, <1>5 DEF Answers
  <2> QED BY <1>1, <1>2, <1>5, <2>1, ReplyStep
<1> QED BY <1>4, <1>5 DEF PrepareServed

\* An answer of a call that has a token, which it spends unless the service is busy.
LEMMA SpendingStep ==
  ASSUME SettingsInv, UNCHANGED <<strays, loads, page, dialog, closing, fate>>,
         rpc.kind # "none", rpc.pc = "sent",
         NEW answer \in Answers(rpc.kind) \ {"consent", "applied"}, Replies(answer),
         NEW grants \in SUBSET Remotes,
         \/ host' = Without(rpc.token) \/ host' = [Without(rpc.token) EXCEPT !.granted = @ \cup grants]
         \/ answer = "busy" /\ UNCHANGED host
  PROVE  SettingsInv'
<1>1. host \in Hosts
  BY DEF SettingsInv, SettingsTypeOK
<1>2. /\ host' \in Hosts /\ host'.next = host.next /\ host'.issued \subseteq host.issued
      /\ host.granted \subseteq host'.granted /\ host.expired \subseteq host'.expired
      /\ answer # "busy" => \A c \in host'.issued : c.token # rpc.token
  BY <1>1, WithoutIs
<1> QED BY <1>2, ReplyStep

LEMMA ApproveServedStep ==
  ASSUME SettingsInv, ApproveServed
  PROVE  SettingsInv'
<1>1. /\ rpc.kind = "approve" /\ rpc.pc = "sent" /\ rpc.kind # "none"
      /\ UNCHANGED <<strays, loads, page, dialog, closing, fate>>
  BY DEF ApproveServed
<1>2. \A a \in {"busy", "over"} : a \in Answers(rpc.kind) \ {"consent", "applied"}
  BY <1>1 DEF Answers
<1>3. \/ Replies("busy") /\ UNCHANGED host
      \/ Replies("over") /\ host' = Without(rpc.token)
      \/ /\ Replies("over")
         /\ \E c \in Taken(rpc.token) : host' = [Without(rpc.token) EXCEPT !.granted = @ \cup c.grants]
  BY Zenon DEF ApproveServed
<1>4. \A c \in Taken(rpc.token) : c.grants \in SUBSET Remotes
  BY DEF Taken, RecordsOf, SettingsInv, SettingsTypeOK, Hosts, Challenges
<1>5. {} \in SUBSET Remotes
  OBVIOUS
<1> QED BY <1>1, <1>2, <1>3, <1>4, <1>5, SpendingStep

LEMMA CancelServedStep ==
  ASSUME SettingsInv, CancelServed
  PROVE  SettingsInv'
<1>1. /\ rpc.kind = "cancel" /\ rpc.pc = "sent" /\ rpc.kind # "none"
      /\ UNCHANGED <<strays, loads, page, dialog, closing, fate>>
      /\ host' = Without(rpc.token) /\ Replies("cancelled")
  BY DEF CancelServed
<1>2. "cancelled" \in Answers(rpc.kind) \ {"consent", "applied"}
  BY <1>1 DEF Answers
<1>3. {} \in SUBSET Remotes
  OBVIOUS
<1> QED BY <1>1, <1>2, <1>3, SpendingStep

LEMMA StrayServedStep ==
  ASSUME SettingsInv, NEW token \in strays, StrayServed(token)
  PROVE  SettingsInv'
<1>1. /\ strays' = strays \ {token} /\ UNCHANGED <<rpc, loads, page, dialog, closing>>
      /\ \/ host' = Without(token) /\ UNCHANGED fate
         \/ fate' = [fate EXCEPT ![token] = "lost"] /\ UNCHANGED host
  BY DEF StrayServed
<1>2. /\ host \in Hosts /\ token \in 1..MaxTokens /\ {} \in SUBSET Remotes
      /\ fate \in [1..MaxTokens -> {"none", "cancelled", "lost", "slipped"}]
  BY DEF SettingsInv, SettingsTypeOK
<1>3. /\ host' \in Hosts /\ host'.next = host.next /\ host'.issued \subseteq host.issued
      /\ host'.granted = host.granted /\ host'.expired = host.expired
      /\ host' # host => \A c \in host'.issued : c.token # token
  <2>1. CASE host' = Without(token)
    BY <1>2, <2>1, WithoutIs
  <2>2. CASE UNCHANGED host
    BY <1>2, <2>2
  <2> QED BY <1>1, <2>1, <2>2
<1>4. /\ fate' \in [1..MaxTokens -> {"none", "cancelled", "lost", "slipped"}]
      /\ \A t \in 1..MaxTokens : fate'[t] = fate[t] \/ (t = token /\ fate'[t] = "lost")
      /\ fate' # fate => fate'[token] = "lost"
  BY <1>1, <1>2
<1>5. SettingsTypeOK'
  BY <1>1, <1>3, <1>4 DEF SettingsInv, SettingsTypeOK
<1>6. LoadsFit' /\ PageFits'
  BY <1>1 DEF SettingsInv, LoadsFit, PageFits, Shows, Dirty, RequestOf, ModeOf, WellFormed
<1>7. CallFits'
  BY <1>1, <1>3 DEF SettingsInv, CallFits, PlannedReach, ReachOf, RequestOf, ModeOf
<1>8. ChallengesFit'
  BY <1>1, <1>3 DEF SettingsInv, ChallengesFit, PlannedReach, ReachOf, WellFormed
<1>9. TokensFit'
  BY <1>1, <1>3, <1>4 DEF SettingsInv, TokensFit, RecordsOf
<1>10. TokensTracked'
  <2> SUFFICES ASSUME NEW t \in 1..MaxTokens, Taken(t)' # {}
               PROVE  fate'[t] # "cancelled" /\ (t \in Carried' \/ fate'[t] \in {"lost", "slipped"})
    BY DEF TokensTracked
  <2>1. Taken(t) # {}
    BY <1>3 DEF Taken, RecordsOf
  <2>2. fate[t] # "cancelled" /\ (t \in Carried \/ fate[t] \in {"lost", "slipped"})
    BY <2>1 DEF SettingsInv, TokensTracked
  <2>3. CASE t = token
    <3>1. host' = host
      BY <1>3, <2>3 DEF Taken, RecordsOf
    <3>2. host' = Without(token) => \A c \in host'.issued : c.token # token
      BY <1>2, WithoutIs
    <3>3. fate'[t] = "lost"
      BY <1>1, <1>2, <2>3, <3>2 DEF Taken, RecordsOf
    <3> QED BY <3>3
  <2>4. CASE t # token
    BY <1>1, <1>4, <2>2, <2>4 DEF Carried
  <2> QED BY <2>3, <2>4
<1> QED BY <1>5, <1>6, <1>7, <1>8, <1>9, <1>10 DEF SettingsInv

\* What goes on beside the page.
LEMMA AsideStep ==
  ASSUME SettingsInv,
         TurnStarts \/ TurnEnds \/ FilesChange \/ \E token \in 1..MaxTokens : Deadline(token)
  PROVE  SettingsInv'
<1>1. UNCHANGED <<rpc, strays, loads, page, dialog, closing, fate>>
  BY DEF TurnStarts, TurnEnds, FilesChange, Deadline
<1>2. host \in Hosts
  BY DEF SettingsInv, SettingsTypeOK
<1> DEFINE Kept == /\ host' \in Hosts /\ host'.next = host.next /\ host'.issued = host.issued
                   /\ host'.granted = host.granted /\ host.expired \subseteq host'.expired
<1>3. TurnStarts \/ TurnEnds => Kept
  BY <1>2 DEF TurnStarts, TurnEnds, Hosts
<1>4. FilesChange => Kept
  <2>1. ASSUME NEW file \in Files, host' = [host EXCEPT !.file = file] PROVE Kept
    BY <1>2, <2>1 DEF Hosts
  <2>2. ASSUME NEW R \in SUBSET Remotes, host' = [host EXCEPT !.profile.reach = R] PROVE Kept
    <3>1. [host.profile EXCEPT !.reach = R] \in Configs
      BY <1>2 DEF Hosts, Configs
    <3>2. host' = [host EXCEPT !.profile = [host.profile EXCEPT !.reach = R]]
      BY <2>2
    <3> QED BY <1>2, <3>1, <3>2 DEF Hosts
  <2>3. {Absent, Broken} \cup {[reach |-> R, keyed |-> FALSE] : R \in SUBSET Remotes} \subseteq Files
    <3>1. \A R \in SUBSET Remotes : [reach |-> R, keyed |-> FALSE] \in Configs
      BY DEF Configs
    <3> QED BY <3>1 DEF Files
  <2> QED BY <2>1, <2>2, <2>3 DEF FilesChange
<1>5. ASSUME NEW token \in 1..MaxTokens, Deadline(token) PROVE Kept
  BY <1>2, <1>5 DEF Deadline, Hosts
<1>6. Kept
  BY <1>3, <1>4, <1>5
<1>7. rpc' \in Calls /\ loads' \in SUBSET LoadCalls /\ LoadsFit'
  BY <1>1 DEF SettingsInv, SettingsTypeOK, LoadsFit
<1>8. CallFits'
  BY <1>1, <1>6 DEF SettingsInv, CallFits, PlannedReach, ReachOf, RequestOf, ModeOf
<1>9. (rpc.kind \in {"confirm", "approve", "cancel"} /\ rpc'.pc # "sent" /\ rpc'.answer # "busy") =>
        \A c \in host'.issued : c.token # rpc.token
  BY <1>1, <1>6 DEF SettingsInv, TokensFit, RecordsOf
<1> QED BY <1>1, <1>6, <1>7, <1>8, <1>9, ServiceStep

-----------------------------------------------------------------------------
\* Loads.

\* Stale reloads may only have the service read its file.
LEMMA StaleIs ==
  /\ Stale(loads) \in SUBSET LoadCalls
  /\ \A l \in Stale(loads) : ~l.current /\ l.pc = "sent"
<1>1. /\ [NewLoad("reload") EXCEPT !.current = FALSE] \in LoadCalls
      /\ [NewLoad("reload") EXCEPT !.current = FALSE].pc = "sent"
      /\ [NewLoad("reload") EXCEPT !.current = FALSE].current = FALSE
  BY DEF NewLoad, LoadCalls
<1> QED BY <1>1 DEF Stale

LEMMA NewLoadIs ==
  ASSUME NEW kind \in {"reload", "review", "profile"}
  PROVE  /\ NewLoad(kind) \in LoadCalls /\ NewLoad(kind).current /\ NewLoad(kind).pc = "sent"
BY DEF NewLoad, LoadCalls

LEMMA InvalidatesIs ==
  ASSUME NEW p \in Pages, Invalidates(p), ~p.inFlight, ~p.fetching, p.open \/ p = Unmounted
  PROVE  page' = p /\ loads' \in SUBSET LoadCalls /\ LoadsFit'
<1>1. page' = p /\ loads' = Stale(loads)
  BY DEF Invalidates
<1> QED BY <1>1, StaleIs DEF LoadsFit

LEMMA StartsLoadIs ==
  ASSUME NEW p \in Pages, NEW kind \in {"reload", "review", "profile"}, StartsLoad(p, kind), p.open
  PROVE  /\ page' \in Pages /\ loads' \in SUBSET LoadCalls /\ LoadsFit'
         /\ page'.offer = p.offer /\ page'.open = p.open /\ page'.busy = p.busy
         /\ page'.held = p.held /\ page'.draft = p.draft
<1>1. /\ page' = [p EXCEPT !.inFlight = kind # "profile", !.fetching = kind = "profile", !.editing = FALSE]
      /\ loads' = Stale(loads) \cup {NewLoad(kind)}
  BY DEF StartsLoad
<1>2. /\ page' \in Pages /\ page'.offer = p.offer /\ page'.open = p.open /\ page'.busy = p.busy
      /\ page'.held = p.held /\ page'.draft = p.draft /\ (page'.inFlight \/ page'.fetching)
  BY <1>1 DEF Pages
<1>3. loads' \in SUBSET LoadCalls
  BY <1>1, StaleIs, NewLoadIs
<1>4. LoadsFit'
  BY <1>1, <1>2, StaleIs, NewLoadIs DEF LoadsFit
<1> QED BY <1>2, <1>3, <1>4

LEMMA LoadServedStep ==
  ASSUME SettingsInv, NEW l \in loads, LoadServed(l)
  PROVE  SettingsInv'
<1> DEFINE found  == IF ~Reloads(l) THEN host.profile
                     ELSE IF host.turn THEN host.snapshot ELSE host.file
           answer == [l EXCEPT !.pc = "answered", !.found = found, !.busy = Reloads(l) /\ host.turn]
           snapshot == IF Reloads(l) THEN found ELSE host.snapshot
<1>1. /\ l.pc = "sent" /\ UNCHANGED <<rpc, strays, page, dialog, closing, fate>>
      /\ loads' \in IF l.current THEN {(loads \ {l}) \cup {answer}} ELSE {loads, loads \ {l}}
      /\ host' = [host EXCEPT !.snapshot = snapshot]
  BY DEF LoadServed
<1>2. host \in Hosts /\ l \in LoadCalls /\ loads \in SUBSET LoadCalls /\ rpc \in Calls
  BY DEF SettingsInv, SettingsTypeOK
<1>3. /\ found \in IF Reloads(l) THEN Files ELSE Configs
      /\ found \in Files /\ snapshot \in Files
  BY <1>2 DEF Hosts, Files
<1> HIDE DEF found, snapshot
<1>4. /\ host' \in Hosts /\ host'.next = host.next /\ host'.issued = host.issued
      /\ host'.granted = host.granted /\ host'.expired = host.expired
  BY <1>1, <1>2, <1>3 DEF Hosts
<1>5. /\ answer \in LoadCalls /\ answer.current = l.current /\ answer.pc = "answered"
      /\ answer.found = found /\ answer.kind = l.kind
  BY <1>2, <1>3 DEF LoadCalls, Reloads
<1> HIDE DEF answer
<1>6. loads' \in SUBSET LoadCalls /\ LoadsFit'
  <2>1. CASE l.current
    <3>1. loads' = (loads \ {l}) \cup {answer}
      BY <1>1, <2>1
    <3>2. \A k \in loads \ {l} : ~k.current
      BY <2>1 DEF SettingsInv, LoadsFit
    <3>3. answer.found \in IF Reloads(answer) THEN Files ELSE Configs
      BY <1>3, <1>5 DEF Reloads
    <3> QED BY <1>1, <1>2, <1>5, <2>1, <3>1, <3>2, <3>3 DEF SettingsInv, LoadsFit
  <2>2. CASE ~l.current
    BY <1>1, <1>2, <2>2 DEF SettingsInv, LoadsFit
  <2> QED BY <2>1, <2>2
<1>7. CallFits'
  BY <1>1, <1>4 DEF SettingsInv, CallFits, PlannedReach, ReachOf, RequestOf, ModeOf
<1>8. (rpc.kind \in {"confirm", "approve", "cancel"} /\ rpc'.pc # "sent" /\ rpc'.answer # "busy") =>
        \A c \in host'.issued : c.token # rpc.token
  BY <1>1, <1>4 DEF SettingsInv, TokensFit, RecordsOf
<1> QED BY <1>1, <1>2, <1>4, <1>6, <1>7, <1>8, ServiceStep

\* While a load may still land the page has nothing else going on.
LEMMA LoadingPage ==
  ASSUME SettingsInv, NEW l \in loads, l.current
  PROVE  /\ page.open /\ rpc.kind = "none" /\ page.offer.token = 0 /\ ~page.busy
         /\ page.inFlight \/ page.fetching
         /\ \A k \in loads \ {l} : ~k.current /\ k.pc # "answered"
<1>1. page.inFlight \/ page.fetching
  BY DEF SettingsInv, LoadsFit
<1>2. page.open
  BY <1>1, NewPages DEF SettingsInv, LoadsFit
<1> QED BY <1>1, <1>2 DEF SettingsInv, LoadsFit, PageFits

\* A page that a load leaves.
LEMMA LoadedStep ==
  ASSUME SettingsInv, NEW l \in loads, l.current, loads' = loads \ {l},
         UNCHANGED <<host, rpc, strays, dialog, closing, fate>>,
         page' \in Pages, ~page'.inFlight, ~page'.fetching, ~page'.busy,
         page'.offer \in {page.offer, NoOffer}, page'.open = page.open,
         page'.held = page.held, page'.draft.changes = page.draft.changes
  PROVE  SettingsInv'
<1>1. /\ page.open /\ rpc.kind = "none" /\ page.offer.token = 0
      /\ \A k \in loads \ {l} : ~k.current /\ k.pc # "answered"
  BY LoadingPage
<1>2. page'.offer.token = 0
  BY <1>1, Constants
<1>3. PageFits'
  BY <1>1, <1>2 DEF SettingsInv, PageFits
<1>4. LoadsFit'
  BY <1>1 DEF LoadsFit
<1>5. /\ loads' \in SUBSET LoadCalls /\ closing' \in [waits : SUBSET {"close", "quit"}, unsaved : BOOLEAN]
      /\ dialog' \in {"none", "refresh", "profile", "blank", "close", "quit"}
  BY DEF SettingsInv, SettingsTypeOK
<1> QED BY <1>1, <1>3, <1>4, <1>5, PageStep

LEMMA LoadLandsStep ==
  ASSUME SettingsInv, NEW l \in loads, LoadLands(l)
  PROVE  SettingsInv'
<1> DEFINE p == [page EXCEPT !.inFlight = FALSE, !.fetching = FALSE]
           reloaded == [p EXCEPT !.shown = l.found,
                                 !.target = IF l.found \in Configs THEN l.found ELSE p.target]
           profiled == [p EXCEPT !.preview = {l.found},
                                 !.draft = [p.draft EXCEPT !.source = "profile", !.base = l.found]]
           q == IF Reloads(l) THEN reloaded ELSE profiled
<1>1. /\ l.pc = "answered" /\ loads' = loads \ {l}
      /\ UNCHANGED <<host, rpc, strays, dialog, closing, fate>>
      /\ page' \in {Cleared(q), q}
  BY DEF LoadLands
<1>2. l.current /\ l.found \in IF Reloads(l) THEN Files ELSE Configs
  BY <1>1 DEF SettingsInv, LoadsFit
<1>3. page \in Pages /\ ~page.busy
  BY <1>2, LoadingPage DEF SettingsInv, SettingsTypeOK
<1>4. /\ p \in Pages /\ ~p.inFlight /\ ~p.fetching /\ ~p.busy /\ p.offer = page.offer
      /\ p.open = page.open /\ p.held = page.held /\ p.draft = page.draft /\ p.draft \in Drafts
  BY <1>3 DEF Pages
<1> HIDE DEF p
<1>5. ASSUME Reloads(l)
      PROVE  /\ reloaded \in Pages /\ ~reloaded.inFlight /\ ~reloaded.fetching /\ ~reloaded.busy
             /\ reloaded.offer = page.offer /\ reloaded.open = page.open /\ reloaded.held = page.held
             /\ reloaded.draft.changes = page.draft.changes
  BY <1>2, <1>4, <1>5 DEF Pages
<1>6. ASSUME ~Reloads(l)
      PROVE  /\ profiled \in Pages /\ ~profiled.inFlight /\ ~profiled.fetching /\ ~profiled.busy
             /\ profiled.offer = page.offer /\ profiled.open = page.open /\ profiled.held = page.held
             /\ profiled.draft.changes = page.draft.changes
  <2> DEFINE d == [p.draft EXCEPT !.source = "profile", !.base = l.found]
  <2>1. d \in Drafts /\ d.changes = page.draft.changes
    BY <1>2, <1>4, <1>6 DEF Drafts, Sources
  <2> HIDE DEF d
  <2>2. {l.found} \in SUBSET Configs
    BY <1>2, <1>6
  <2>3. LET new == [p EXCEPT !.preview = {l.found}, !.draft = d] IN
        /\ new \in Pages /\ ~new.inFlight /\ ~new.fetching /\ ~new.busy
        /\ new.offer = page.offer /\ new.open = page.open /\ new.held = page.held
        /\ new.draft = d
    BY <1>4, <2>1, <2>2 DEF Pages
  <2> QED BY <2>1, <2>3 DEF d
<1> HIDE DEF reloaded, profiled
<1>7. /\ q \in Pages /\ ~q.inFlight /\ ~q.fetching /\ ~q.busy
      /\ q.offer = page.offer /\ q.open = page.open /\ q.held = page.held
      /\ q.draft.changes = page.draft.changes
  BY <1>5, <1>6
<1> HIDE DEF q
<1>8. CASE page' = q
  BY <1>1, <1>2, <1>7, <1>8, LoadedStep
<1>9. CASE page' = Cleared(q)
  BY <1>1, <1>2, <1>7, <1>9, ClearedIs, LoadedStep
<1> QED BY <1>1, <1>8, <1>9

LEMMA LoadFailsStep ==
  ASSUME SettingsInv, NEW l \in loads, LoadFails(l)
  PROVE  SettingsInv'
<1>1. /\ l.current /\ loads' = loads \ {l} /\ UNCHANGED <<host, rpc, strays, dialog, closing, fate>>
      /\ page' = [page EXCEPT !.inFlight = FALSE, !.fetching = FALSE,
                              !.shown = IF Reloads(l) THEN Unread ELSE page.shown]
  BY DEF LoadFails
<1>2. page \in Pages /\ ~page.busy
  BY <1>1, LoadingPage DEF SettingsInv, SettingsTypeOK
<1>3. /\ page' \in Pages /\ ~page'.inFlight /\ ~page'.fetching /\ ~page'.busy
      /\ page'.offer = page.offer /\ page'.open = page.open /\ page'.held = page.held
      /\ page'.draft = page.draft
  BY <1>1, <1>2 DEF Pages
<1> QED BY <1>1, <1>3, LoadedStep

-----------------------------------------------------------------------------
\* What follows a cancel.

\* A page without an outcome only has to hold its key.
LEMMA CalmPage ==
  ASSUME rpc'.kind = "none", page'.offer.token = 0, ~page'.busy,
         page'.held <=> Key \in page'.draft.changes
  PROVE  PageFits'
BY DEF PageFits

LEMMA DiscardedIs ==
  ASSUME NEW p \in Pages
  PROVE  /\ Discarded(p) \in Pages /\ Discarded(p).offer = NoOffer /\ ~Discarded(p).busy
         /\ ~Discarded(p).inFlight /\ ~Discarded(p).fetching /\ Discarded(p).open = p.open
         /\ ~Discarded(p).held /\ Key \notin Discarded(p).draft.changes
<1> DEFINE q == Settled(p, "discard")
<1>1. /\ q \in Pages /\ q.offer = NoOffer /\ ~q.busy /\ ~q.inFlight /\ ~q.fetching /\ q.open = p.open
      /\ ~q.held /\ Key \notin q.draft.changes
  BY SettledIs DEF Retaining
<1> HIDE DEF q
<1>2. LET r == [q EXCEPT !.preview = {}] IN
      /\ r \in Pages /\ r.offer = NoOffer /\ ~r.busy /\ ~r.inFlight /\ ~r.fetching /\ r.open = p.open
      /\ ~r.held /\ Key \notin r.draft.changes
  BY <1>1 DEF Pages
<1> QED BY <1>2 DEF Discarded, q

\* A page that starts anew from no configuration.
LEMMA BlankIs ==
  ASSUME NEW p \in Pages
  PROVE  LET q == [Discarded(p) EXCEPT !.preview = {Blank}, !.draft.source = "blank"] IN
         /\ q \in Pages /\ q.offer = NoOffer /\ ~q.busy /\ ~q.inFlight /\ ~q.fetching
         /\ q.open = p.open /\ ~q.held /\ Key \notin q.draft.changes
<1> DEFINE r == Discarded(p)
           d == [r.draft EXCEPT !.source = "blank"]
<1>1. /\ r \in Pages /\ r.offer = NoOffer /\ ~r.busy /\ ~r.inFlight /\ ~r.fetching /\ r.open = p.open
      /\ ~r.held /\ Key \notin r.draft.changes
  BY DiscardedIs
<1> HIDE DEF r
<1>2. d \in Drafts /\ Key \notin d.changes
  BY <1>1 DEF Pages, Drafts, Sources
<1> HIDE DEF d
<1>3. {Blank} \in SUBSET Configs
  BY Constants
<1>4. LET q == [r EXCEPT !.preview = {Blank}, !.draft = d] IN
      /\ q \in Pages /\ q.offer = NoOffer /\ ~q.busy /\ ~q.inFlight /\ ~q.fetching
      /\ q.open = p.open /\ ~q.held /\ Key \notin q.draft.changes
  BY <1>1, <1>2, <1>3 DEF Pages
<1> QED BY <1>4 DEF r, d

\* Whatever follows, the page offers nothing any more; it goes only when closed.
LEMMA FollowsIs ==
  ASSUME SettingsInv, page.open, rpc'.kind = "none", NEW then \in Then, Follows(page, then)
  PROVE  /\ page' \in Pages /\ loads' \in SUBSET LoadCalls /\ LoadsFit' /\ PageFits'
         /\ page'.offer = NoOffer /\ page'.open = (then # "close")
<1>1. page \in Pages /\ NoOffer.token = 0
  BY Constants DEF SettingsInv, SettingsTypeOK
<1>2. ASSUME NEW p \in Pages, Invalidates(p), p.open \/ p = Unmounted, ~p.inFlight, ~p.fetching,
             p.offer = NoOffer, ~p.busy, ~p.held, Key \notin p.draft.changes, p.open = (then # "close")
      PROVE  /\ page' \in Pages /\ loads' \in SUBSET LoadCalls /\ LoadsFit' /\ PageFits'
             /\ page'.offer = NoOffer /\ page'.open = (then # "close")
  <2>1. page' = p /\ loads' \in SUBSET LoadCalls /\ LoadsFit'
    BY <1>2, InvalidatesIs
  <2> QED BY <1>1, <1>2, <2>1, CalmPage
<1>3. ASSUME then \in {"refresh", "profile"} PROVE
             /\ page' \in Pages /\ loads' \in SUBSET LoadCalls /\ LoadsFit' /\ PageFits'
             /\ page'.offer = NoOffer /\ page'.open = (then # "close")
  <2>1. PICK kind \in {"reload", "review", "profile"} : StartsLoad(Discarded(page), kind)
    BY <1>3 DEF Follows
  <2>2. /\ Discarded(page) \in Pages /\ Discarded(page).offer = NoOffer /\ ~Discarded(page).busy
        /\ Discarded(page).open /\ ~Discarded(page).held /\ Key \notin Discarded(page).draft.changes
    BY <1>1, DiscardedIs
  <2>3. /\ page' \in Pages /\ loads' \in SUBSET LoadCalls /\ LoadsFit'
        /\ page'.offer = NoOffer /\ page'.open /\ ~page'.busy /\ ~page'.held
        /\ Key \notin page'.draft.changes
    BY <2>1, <2>2, StartsLoadIs
  <2> QED BY <1>1, <1>3, <2>3, CalmPage
<1>4. CASE then = "dismiss"
  <2>1. page' = Cleared(page) /\ loads' = loads
    BY <1>4 DEF Follows
  <2>2. /\ page' \in Pages /\ page'.offer = NoOffer /\ ~page'.busy /\ page'.open = page.open
        /\ page'.held = page.held /\ page'.draft = page.draft
        /\ page'.inFlight = page.inFlight /\ page'.fetching = page.fetching
    BY <1>1, <2>1, ClearedIs
  <2>3. LoadsFit' /\ loads' \in SUBSET LoadCalls
    BY <2>1, <2>2 DEF SettingsInv, LoadsFit, SettingsTypeOK
  <2>4. page'.held <=> Key \in page'.draft.changes
    BY <2>2 DEF SettingsInv, PageFits
  <2> QED BY <1>1, <1>4, <2>2, <2>3, <2>4, CalmPage
<1>5. ASSUME NEW event \in {"cancelled", "teardown"}, Invalidates(Settled(page, event)), then # "close"
      PROVE  /\ page' \in Pages /\ loads' \in SUBSET LoadCalls /\ LoadsFit' /\ PageFits'
             /\ page'.offer = NoOffer /\ page'.open = (then # "close")
  <2>1. event \notin Retaining
    BY DEF Retaining
  <2> DEFINE p == Settled(page, event)
  <2>2. /\ p \in Pages /\ ~p.inFlight /\ ~p.fetching /\ p.offer = NoOffer /\ ~p.busy /\ ~p.held
        /\ Key \notin p.draft.changes /\ p.open
    BY <1>1, <2>1, SettledIs
  <2>3. Invalidates(p)
    BY <1>5
  <2> HIDE DEF p
  <2> QED BY <1>2, <1>5, <2>2, <2>3
<1>6. CASE then = "cancelled"
  BY <1>5, <1>6 DEF Follows
<1>7. CASE then = "quit"
  BY <1>5, <1>7 DEF Follows
<1>8. CASE then = "discard"
  <2>1. Invalidates(Discarded(page))
    BY <1>8 DEF Follows
  <2> QED BY <1>1, <1>2, <1>8, <2>1, DiscardedIs
<1>9. CASE then = "blank"
  <2> DEFINE p == [Discarded(page) EXCEPT !.preview = {Blank}, !.draft.source = "blank"]
  <2>1. Invalidates(p)
    BY <1>9 DEF Follows
  <2>2. /\ p \in Pages /\ ~p.inFlight /\ ~p.fetching /\ p.offer = NoOffer /\ ~p.busy /\ ~p.held
        /\ Key \notin p.draft.changes /\ p.open
    BY <1>1, BlankIs
  <2> HIDE DEF p
  <2> QED BY <1>2, <1>9, <2>1, <2>2
<1>10. CASE then = "close"
  <2>1. Invalidates(Unmounted)
    BY <1>10 DEF Follows
  <2>2. /\ Unmounted \in Pages /\ ~Unmounted.inFlight /\ ~Unmounted.fetching
        /\ Unmounted.offer = NoOffer /\ ~Unmounted.busy /\ ~Unmounted.held
        /\ Key \notin Unmounted.draft.changes /\ Unmounted.open = FALSE
    BY NewPages DEF Untouched, Pages
  <2> HIDE DEF Unmounted
  <2> QED BY <1>2, <1>10, <2>1, <2>2
<1> QED BY <1>3, <1>4, <1>6, <1>7, <1>8, <1>9, <1>10 DEF Then

-----------------------------------------------------------------------------
\* The answer of a call lands, or is lost.

\* The page takes over the offer of the answer, keeps its own, or has none; what
\* it gives up is no challenge any more, on its way to be cancelled, or lost.
LEMMA LandStep ==
  ASSUME SettingsInv, rpc' = NoCall, UNCHANGED host,
         dialog' \in {"none", "refresh", "profile", "blank", "close", "quit"},
         page' \in Pages, loads' \in SUBSET LoadCalls, LoadsFit', PageFits',
         closing' \in [waits : SUBSET {"close", "quit"}, unsaved : BOOLEAN], strays' \in SUBSET (1..MaxTokens),
         fate' \in [1..MaxTokens -> {"none", "cancelled", "lost", "slipped"}],
         page'.offer \in {page.offer, rpc.offer, NoOffer},
         \A t \in 1..MaxTokens : fate'[t] = "cancelled" =>
           fate[t] = "cancelled" \/ (t <= host.next /\ RecordsOf(t) = {}),
         \A t \in 1..MaxTokens : Taken(t) # {} =>
           /\ fate'[t] # "cancelled"
           /\ t \in Carried' \/ fate'[t] \in {"lost", "slipped"}
  PROVE  SettingsInv'
<1>1. SettingsTypeOK'
  BY Constants DEF SettingsInv, SettingsTypeOK
<1>2. CallFits'
  BY Constants DEF CallFits, NoCall, NoOffer
<1>3. ChallengesFit'
  <2>1. \A c \in host.issued : c.token # 0
    BY DEF SettingsInv, SettingsTypeOK, Hosts, Challenges
  <2>2. 0 <= host.next
    BY SettingsBounds DEF SettingsInv, SettingsTypeOK, Hosts
  <2>3. rpc'.offer = NoOffer /\ NoOffer.token = 0
    BY Constants DEF NoCall
  <2>4. page'.offer.token <= host.next
    BY <2>2, <2>3 DEF SettingsInv, ChallengesFit
  <2>5. \A c \in host.issued : c.token = page'.offer.token => c.grants = page'.offer.grants
    BY <2>1, <2>3 DEF SettingsInv, ChallengesFit
  <2>6. \A c \in host.issued : /\ c.token <= host.next
                               /\ c.mode # "grants" => \E req \in Requests :
                                    /\ c.request = {req} /\ WellFormed(req)
                                    /\ PlannedReach(req) \subseteq c.prior \cup c.grants \cup host.granted
    BY DEF SettingsInv, ChallengesFit
  <2>7. (\A c \in host.issued :
           c.mode # "grants" => \E req \in Requests :
             /\ c.request = {req} /\ WellFormed(req)
             /\ PlannedReach(req) \subseteq c.prior \cup c.grants \cup host.granted)'
    BY <2>6 DEF PlannedReach, ReachOf, WellFormed
  <2> QED BY <2>1, <2>2, <2>3, <2>4, <2>5, <2>6, <2>7 DEF ChallengesFit
<1>4. TokensFit'
  BY DEF SettingsInv, TokensFit, RecordsOf, NoCall
<1>5. TokensTracked'
  <2>1. \A t \in 1..MaxTokens : Taken(t)' = Taken(t)
    BY DEF Taken, RecordsOf
  <2> QED BY <2>1 DEF TokensTracked
<1> QED BY <1>1, <1>2, <1>3, <1>4, <1>5 DEF SettingsInv

LEMMA EndsIs ==
  ASSUME SettingsInv, Ends
  PROVE  /\ dialog \in {"none", "refresh", "profile", "blank", "close", "quit"}
         /\ rpc' = NoCall /\ closing' \in [waits : SUBSET {"close", "quit"}, unsaved : BOOLEAN]
<1>1. closing \in [waits : SUBSET {"close", "quit"}, unsaved : BOOLEAN]
  BY DEF SettingsInv, SettingsTypeOK
<1>2. NoClose \in [waits : SUBSET {"close", "quit"}, unsaved : BOOLEAN]
  BY DEF NoClose
<1>3. \A p \in {page, page'} : Unsaved(p) \in BOOLEAN
  BY DEF Unsaved
<1>4. dialog \in {"none", "refresh", "profile", "blank", "close", "quit"}
  BY DEF SettingsInv, SettingsTypeOK
<1> QED BY <1>1, <1>2, <1>3, <1>4 DEF Ends

\* What the answer of a write leaves on the page: the challenge it brings, or the
\* one it repeats, or none; and the request that would be sent again.
LEMMA ReceivedIs ==
  ASSUME SettingsInv, rpc.kind \in {"write", "confirm"}, rpc.pc = "answered"
  PROVE  LET q == Received(page) IN
         /\ q \in Pages /\ q.open /\ ~q.inFlight /\ ~q.fetching
         /\ \/ /\ q.offer = NoOffer /\ ~q.busy /\ rpc.answer # "consent"
               /\ rpc.answer = "busy" => page.offer.token \in host.expired
            \/ q.offer = rpc.offer /\ ~q.busy /\ rpc.answer = "consent"
            \/ q.offer = page.offer /\ q.busy /\ rpc.answer = "busy"
         /\ (q.busy \/ q.offer.token # 0) =>
              /\ Shows(q) /\ q.conflict = "none" /\ ~q.drops /\ ~q.unknown
              /\ q.request = page.request /\ RequestOf(q) = RequestOf(page) /\ Dirty(q)
         /\ q.held <=> Key \in q.draft.changes
<1> DEFINE a == rpc.answer
           s == Settled(page, a)
<1>1. /\ page \in Pages /\ rpc \in Calls /\ page.open /\ Shows(page) /\ Dirty(page)
      /\ page.held <=> Key \in page.draft.changes
      /\ a \in Answers(rpc.kind) /\ (a = "applied" => rpc.found \in Files)
      /\ NoOffer.token = 0
  BY Constants DEF SettingsInv, SettingsTypeOK, PageFits, CallFits
<1>2. a \in {"applied", "consent", "busy", "challenge", "target", "profile_source", "drops", "refused"}
  BY <1>1 DEF Answers, Whys
<1>3. /\ s \in Pages /\ s.offer = NoOffer /\ ~s.busy
      /\ ~s.drops /\ s.conflict = "none" /\ ~s.unknown /\ ~s.inFlight /\ ~s.fetching
      /\ s.open /\ s.shown = page.shown /\ s.target = page.target
      /\ a \in Retaining => (s.held = page.held /\ s.draft = page.draft /\ s.request = page.request)
      /\ a \notin Retaining => ~s.held /\ Key \notin s.draft.changes
  BY <1>1, SettledIs
<1>4. s.held <=> Key \in s.draft.changes
  BY <1>1, <1>3
<1>5. ASSUME NEW event, event \notin Retaining
      PROVE  LET r == Settled(page, event) IN
             /\ r \in Pages /\ r.offer = NoOffer /\ ~r.busy /\ ~r.inFlight /\ ~r.fetching /\ r.open
             /\ r.held <=> Key \in r.draft.changes
  BY <1>1, <1>5, SettledIs
<1> DEFINE q == Received(page)
<1> HIDE DEF s
<1>6. CASE a = "applied"
  <2> DEFINE target == IF rpc.found \in Configs THEN rpc.found ELSE Absent
  <2>1. q = [s EXCEPT !.preview = {}, !.shown = rpc.found, !.target = target]
    BY <1>6 DEF Received, s
  <2>2. target \in Configs \cup {Absent} /\ rpc.found \in Files
    BY <1>1, <1>6
  <2> HIDE DEF target, q
  <2>3. /\ q \in Pages /\ q.open /\ ~q.inFlight /\ ~q.fetching /\ q.offer = NoOffer /\ ~q.busy
        /\ q.held <=> Key \in q.draft.changes
    BY <1>3, <1>4, <2>1, <2>2 DEF Pages
  <2> QED BY <1>1, <1>6, <2>3 DEF q
<1>7. CASE a = "consent"
  <2>1. q = [s EXCEPT !.offer = rpc.offer] /\ a \in Retaining
    BY <1>7 DEF Received, s, Retaining
  <2>2. rpc.offer \in Offers
    BY <1>1 DEF Calls
  <2> HIDE DEF q
  <2>3. /\ q \in Pages /\ q.open /\ ~q.inFlight /\ ~q.fetching /\ q.offer = rpc.offer /\ ~q.busy
        /\ ~q.drops /\ q.conflict = "none" /\ ~q.unknown /\ q.shown = page.shown
        /\ q.target = page.target /\ q.draft = page.draft /\ q.request = page.request
        /\ q.held = page.held
    BY <1>3, <2>1, <2>2 DEF Pages
  <2>4. RequestOf(q) = RequestOf(page) /\ Dirty(q) /\ Shows(q)
    BY <1>1, <2>3 DEF RequestOf, ModeOf, Dirty, Shows
  <2> QED BY <1>1, <1>7, <2>3, <2>4 DEF q
<1>8. CASE a = "drops"
  <2>1. q = [s EXCEPT !.drops = TRUE]
    BY <1>8 DEF Received, s
  <2> HIDE DEF q
  <2>2. /\ q \in Pages /\ q.open /\ ~q.inFlight /\ ~q.fetching /\ q.offer = NoOffer /\ ~q.busy
        /\ q.held <=> Key \in q.draft.changes
    BY <1>3, <1>4, <2>1 DEF Pages
  <2> QED BY <1>1, <1>8, <2>2 DEF q
<1>9. CASE a \in {"target", "profile_source", "challenge"}
  <2> DEFINE r == Settled(page, "conflict")
  <2>1. /\ r \in Pages /\ r.offer = NoOffer /\ ~r.busy /\ ~r.inFlight /\ ~r.fetching /\ r.open
        /\ r.held <=> Key \in r.draft.changes
    BY <1>5 DEF Retaining
  <2>2. q = [r EXCEPT !.conflict = a]
    BY <1>9 DEF Received
  <2> HIDE DEF r, q
  <2>3. /\ q \in Pages /\ q.open /\ ~q.inFlight /\ ~q.fetching /\ q.offer = NoOffer /\ ~q.busy
        /\ q.held <=> Key \in q.draft.changes
    BY <1>9, <2>1, <2>2 DEF Pages
  <2> QED BY <1>1, <1>9, <2>3 DEF q
<1>10. CASE a = "busy" /\ Lapsed(page)
  <2>1. q = Settled(page, "expired")
    BY <1>10 DEF Received
  <2>2. /\ q \in Pages /\ q.offer = NoOffer /\ ~q.busy /\ ~q.inFlight /\ ~q.fetching /\ q.open
        /\ q.held <=> Key \in q.draft.changes
    BY <1>5, <2>1 DEF Retaining
  <2> HIDE DEF q
  <2> QED BY <1>1, <1>10, <2>2 DEF q, Lapsed
<1>11. CASE a = "busy" /\ ~Lapsed(page)
  <2>1. q = [s EXCEPT !.busy = TRUE, !.offer = page.offer] /\ a \in Retaining
    BY <1>11 DEF Received, s, Retaining
  <2>2. page.offer \in Offers
    BY <1>1 DEF Pages
  <2> HIDE DEF q
  <2>3. /\ q \in Pages /\ q.open /\ ~q.inFlight /\ ~q.fetching /\ q.offer = page.offer /\ q.busy
        /\ ~q.drops /\ q.conflict = "none" /\ ~q.unknown /\ q.shown = page.shown
        /\ q.target = page.target /\ q.draft = page.draft /\ q.request = page.request
        /\ q.held = page.held
    BY <1>3, <2>1, <2>2 DEF Pages
  <2>4. RequestOf(q) = RequestOf(page) /\ Dirty(q) /\ Shows(q)
    BY <1>1, <2>3 DEF RequestOf, ModeOf, Dirty, Shows
  <2> QED BY <1>1, <1>11, <2>3, <2>4 DEF q
<1>12. CASE a = "refused"
  <2>1. q = s
    BY <1>12 DEF Received, s
  <2> QED BY <1>1, <1>3, <1>4, <1>12, <2>1
<1> QED BY <1>2, <1>6, <1>7, <1>8, <1>9, <1>10, <1>11, <1>12

LEMMA GrantedIs ==
  ASSUME SettingsInv, rpc.kind \in {"prepare", "approve"}, rpc.pc = "answered"
  PROVE  LET q == Granted(page) IN
         /\ q \in Pages /\ q.open /\ q.shown = page.shown /\ q.held = page.held
         /\ q.draft = page.draft /\ q.target = page.target
         /\ q.inFlight = page.inFlight /\ q.fetching = page.fetching
         /\ \/ q = page /\ rpc.answer = "busy"
            \/ /\ ~q.busy /\ ~q.drops /\ q.conflict = "none" /\ ~q.unknown
               /\ \/ q.offer = NoOffer /\ rpc.answer = "over"
                  \/ q.offer = rpc.offer /\ q.intent = "grants" /\ rpc.answer = "consent"
<1>1. /\ page \in Pages /\ rpc.offer \in Offers /\ page.open /\ rpc.answer \in {"consent", "busy", "over"}
  BY DEF SettingsInv, SettingsTypeOK, PageFits, CallFits, Answers, Calls
<1> DEFINE c == Cleared(page)
<1>2. /\ c \in Pages /\ c.offer = NoOffer /\ ~c.busy /\ ~c.drops /\ c.conflict = "none" /\ ~c.unknown
      /\ c.open = page.open /\ c.shown = page.shown /\ c.draft = page.draft /\ c.held = page.held
      /\ c.target = page.target /\ c.inFlight = page.inFlight /\ c.fetching = page.fetching
  BY <1>1, ClearedIs
<1>3. CASE rpc.answer = "consent"
  <2> DEFINE q == [c EXCEPT !.offer = rpc.offer, !.intent = "grants"]
  <2>1. Granted(page) = q
    BY <1>3 DEF Granted
  <2> HIDE DEF c
  <2>2. /\ q \in Pages /\ q.offer = rpc.offer /\ q.intent = "grants"
        /\ ~q.busy /\ ~q.drops /\ q.conflict = "none" /\ ~q.unknown
        /\ q.open = page.open /\ q.shown = page.shown /\ q.draft = page.draft /\ q.held = page.held
        /\ q.target = page.target /\ q.inFlight = page.inFlight /\ q.fetching = page.fetching
    BY <1>1, <1>2 DEF Pages
  <2> QED BY <1>1, <1>3, <2>1, <2>2
<1>4. CASE rpc.answer = "busy"
  <2>1. Granted(page) = page
    BY <1>4 DEF Granted
  <2> QED BY <1>1, <1>4, <2>1
<1>5. CASE rpc.answer = "over"
  <2>1. Granted(page) = c
    BY <1>5 DEF Granted
  <2> HIDE DEF c
  <2> QED BY <1>1, <1>2, <1>5, <2>1
<1> QED BY <1>1, <1>3, <1>4, <1>5

\* A call that is not a write leaves its answer on the page and settles nothing.
LEMMA GrantLandsStep ==
  ASSUME SettingsInv, AnswerLands, rpc.kind \in {"prepare", "approve"}
  PROVE  SettingsInv'
<1> DEFINE q == Granted(page)
<1>1. /\ rpc.pc = "answered" /\ page' = q /\ UNCHANGED <<host, strays, dialog, loads, fate>> /\ Ends
  BY DEF AnswerLands
<1>2. /\ q \in Pages /\ q.open /\ q.shown = page.shown /\ q.held = page.held
      /\ q.draft = page.draft /\ q.target = page.target
      /\ q.inFlight = page.inFlight /\ q.fetching = page.fetching
      /\ \/ q = page /\ rpc.answer = "busy"
         \/ /\ ~q.busy /\ ~q.drops /\ q.conflict = "none" /\ ~q.unknown
            /\ \/ q.offer = NoOffer /\ rpc.answer = "over"
               \/ q.offer = rpc.offer /\ q.intent = "grants" /\ rpc.answer = "consent"
  BY <1>1, GrantedIs
<1> HIDE DEF q
<1>3. /\ rpc' = NoCall /\ rpc'.kind = "none" /\ rpc'.token = 0 /\ rpc'.offer.token = 0 /\ NoOffer.token = 0
      /\ closing' \in [waits : SUBSET {"close", "quit"}, unsaved : BOOLEAN]
  BY <1>1, EndsIs, Constants DEF NoCall
<1>4. LoadsFit'
  BY <1>1, <1>2 DEF SettingsInv, LoadsFit
<1>5. PageFits'
  <2>1. CASE q = page
    BY <1>1, <1>3, <2>1 DEF SettingsInv, PageFits, Shows, Dirty
  <2>2. CASE q # page
    <3>1. /\ ~q.busy /\ ~q.drops /\ q.conflict = "none" /\ ~q.unknown
          /\ q.offer.token = 0 \/ q.intent = "grants"
      BY <1>2, <1>3, <2>2
    <3>2. page.open /\ Shows(page) /\ ~page.inFlight /\ ~page.fetching
      BY DEF SettingsInv, PageFits
    <3> QED BY <1>1, <1>2, <1>3, <3>1, <3>2 DEF SettingsInv, PageFits, Shows
  <2> QED BY <2>1, <2>2
<1>6. ASSUME NEW t \in 1..MaxTokens, Taken(t) # {}
      PROVE  fate[t] # "cancelled" /\ (t \in Carried' \/ fate[t] \in {"lost", "slipped"})
  <2>1. fate[t] # "cancelled" /\ (t \in Carried \/ fate[t] \in {"lost", "slipped"})
    BY <1>6 DEF SettingsInv, TokensTracked
  <2>2. RecordsOf(t) # {}
    BY <1>6 DEF Taken
  <2>3. rpc.answer = "over" /\ rpc.kind = "approve" => t # rpc.token
    BY <1>1, <2>2 DEF SettingsInv, TokensFit
  <2>4. rpc.kind = "prepare" => rpc.token = 0 /\ page.offer.token = 0
    BY DEF SettingsInv, CallFits
  <2>5. rpc.kind = "approve" => rpc.token = page.offer.token /\ rpc.answer # "consent"
    BY <1>1 DEF SettingsInv, CallFits, Answers
  <2>6. rpc.offer.token # 0 => rpc.answer = "consent"
    BY DEF SettingsInv, CallFits
  <2>7. page'.open /\ strays' = strays
    BY <1>1, <1>2
  <2> QED BY <1>1, <1>2, <1>3, <2>1, <2>3, <2>4, <2>5, <2>6, <2>7 DEF Carried
<1>7. /\ page'.offer \in {page.offer, rpc.offer, NoOffer} /\ page' \in Pages
      /\ loads' \in SUBSET LoadCalls /\ strays' \in SUBSET (1..MaxTokens)
      /\ fate' = fate /\ fate \in [1..MaxTokens -> {"none", "cancelled", "lost", "slipped"}]
  BY <1>1, <1>2 DEF SettingsInv, SettingsTypeOK
<1> QED BY <1>1, <1>3, <1>4, <1>5, <1>6, <1>7, EndsIs, LandStep

LEMMA WriteLandsStep ==
  ASSUME SettingsInv, AnswerLands, rpc.kind \in {"write", "confirm"}
  PROVE  SettingsInv'
<1> DEFINE q == Received(page)
<1>1. /\ rpc.pc = "answered" /\ Invalidates(q) /\ UNCHANGED <<host, strays, dialog, fate>> /\ Ends
  BY DEF AnswerLands
<1>2. /\ q \in Pages /\ q.open /\ ~q.inFlight /\ ~q.fetching
      /\ \/ /\ q.offer = NoOffer /\ ~q.busy /\ rpc.answer # "consent"
            /\ rpc.answer = "busy" => page.offer.token \in host.expired
         \/ q.offer = rpc.offer /\ ~q.busy /\ rpc.answer = "consent"
         \/ q.offer = page.offer /\ q.busy /\ rpc.answer = "busy"
      /\ (q.busy \/ q.offer.token # 0) =>
           /\ Shows(q) /\ q.conflict = "none" /\ ~q.drops /\ ~q.unknown
           /\ q.request = page.request /\ RequestOf(q) = RequestOf(page) /\ Dirty(q)
      /\ q.held <=> Key \in q.draft.changes
  BY <1>1, ReceivedIs
<1> HIDE DEF q
<1>3. /\ rpc' = NoCall /\ rpc'.kind = "none" /\ rpc'.token = 0 /\ rpc'.offer.token = 0 /\ NoOffer.token = 0
      /\ closing' \in [waits : SUBSET {"close", "quit"}, unsaved : BOOLEAN]
  BY <1>1, EndsIs, Constants DEF NoCall
<1>4. page' = q /\ loads' \in SUBSET LoadCalls /\ LoadsFit'
  BY <1>1, <1>2, InvalidatesIs
<1>5. PageFits'
  <2>1. page.request = {RequestOf(page)} /\ WellFormed(RequestOf(page))
    BY DEF SettingsInv, PageFits
  <2> QED BY <1>2, <1>3, <1>4, <2>1 DEF PageFits
<1>6. ASSUME NEW t \in 1..MaxTokens, Taken(t) # {}
      PROVE  fate[t] # "cancelled" /\ (t \in Carried' \/ fate[t] \in {"lost", "slipped"})
  <2>1. fate[t] # "cancelled" /\ (t \in Carried \/ fate[t] \in {"lost", "slipped"})
    BY <1>6 DEF SettingsInv, TokensTracked
  <2>2. RecordsOf(t) # {} /\ t \notin host.expired /\ t # 0
    BY <1>6 DEF Taken
  <2>3. rpc.answer # "busy" /\ rpc.kind = "confirm" => t # rpc.token
    BY <1>1, <2>2 DEF SettingsInv, TokensFit
  <2>4. rpc.kind = "write" => rpc.token = 0 /\ page.offer.token = 0
    BY DEF SettingsInv, CallFits
  <2>5. rpc.kind = "confirm" => rpc.token = page.offer.token /\ rpc.answer # "consent"
    BY <1>1 DEF SettingsInv, CallFits, Answers, Whys
  <2>6. rpc.offer.token # 0 => rpc.answer = "consent"
    BY DEF SettingsInv, CallFits
  <2>7. page'.open /\ strays' = strays
    BY <1>1, <1>2, <1>4
  <2> QED BY <1>2, <1>3, <1>4, <2>1, <2>2, <2>3, <2>4, <2>5, <2>6, <2>7 DEF Carried
<1>7. /\ page'.offer \in {page.offer, rpc.offer, NoOffer} /\ page' \in Pages
      /\ strays' \in SUBSET (1..MaxTokens)
      /\ fate' = fate /\ fate \in [1..MaxTokens -> {"none", "cancelled", "lost", "slipped"}]
  BY <1>1, <1>2, <1>4 DEF SettingsInv, SettingsTypeOK
<1> QED BY <1>1, <1>3, <1>4, <1>5, <1>6, <1>7, EndsIs, LandStep

\* A cancel has taken its challenge, and says so before what follows it.
LEMMA CancelLandsStep ==
  ASSUME SettingsInv, AnswerLands, rpc.kind = "cancel"
  PROVE  SettingsInv'
<1>1. /\ rpc.pc = "answered" /\ Follows(page, rpc.then) /\ UNCHANGED <<host, strays, dialog>> /\ Ends
      /\ fate' = [fate EXCEPT ![rpc.token] = "cancelled"]
  BY DEF AnswerLands
<1>2. /\ rpc' = NoCall /\ rpc'.kind = "none" /\ rpc'.token = 0 /\ rpc'.offer.token = 0
      /\ closing' \in [waits : SUBSET {"close", "quit"}, unsaved : BOOLEAN]
  BY <1>1, EndsIs, Constants DEF NoCall
<1>3. /\ rpc.then \in Then /\ page.open /\ rpc.token = page.offer.token /\ rpc.token # 0
      /\ rpc.answer = "cancelled" /\ rpc.offer.token = 0 /\ RecordsOf(rpc.token) = {}
  BY <1>1 DEF SettingsInv, CallFits, PageFits, TokensFit, Answers
<1>4. /\ page' \in Pages /\ loads' \in SUBSET LoadCalls /\ LoadsFit' /\ PageFits'
      /\ page'.offer = NoOffer
  BY <1>1, <1>2, <1>3, FollowsIs
<1>5. /\ rpc.token \in 1..MaxTokens /\ rpc.token <= host.next /\ strays \in SUBSET (1..MaxTokens)
      /\ fate \in [1..MaxTokens -> {"none", "cancelled", "lost", "slipped"}]
  BY <1>3, SettingsBounds DEF SettingsInv, SettingsTypeOK, Calls, ChallengesFit
<1>6. /\ fate' \in [1..MaxTokens -> {"none", "cancelled", "lost", "slipped"}]
      /\ \A t \in 1..MaxTokens : t # rpc.token => fate'[t] = fate[t]
  BY <1>1, <1>5
<1>7. ASSUME NEW t \in 1..MaxTokens, Taken(t) # {}
      PROVE  fate'[t] # "cancelled" /\ (t \in Carried' \/ fate'[t] \in {"lost", "slipped"})
  <2>1. fate[t] # "cancelled" /\ (t \in Carried \/ fate[t] \in {"lost", "slipped"})
    BY <1>7 DEF SettingsInv, TokensTracked
  <2>2. t # rpc.token /\ t # 0
    BY <1>3, <1>7 DEF Taken
  <2>3. t \in strays \/ fate[t] \in {"lost", "slipped"}
    BY <1>3, <2>1, <2>2 DEF Carried
  <2> QED BY <1>1, <1>6, <2>1, <2>2, <2>3 DEF Carried
<1>8. \A t \in 1..MaxTokens : fate'[t] = "cancelled" =>
        fate[t] = "cancelled" \/ (t <= host.next /\ RecordsOf(t) = {})
  BY <1>3, <1>5, <1>6
<1> QED BY <1>1, <1>2, <1>4, <1>5, <1>6, <1>7, <1>8, EndsIs, LandStep

LEMMA AnswerLandsStep ==
  ASSUME SettingsInv, AnswerLands
  PROVE  SettingsInv'
<1>1. rpc.kind \in {"write", "confirm", "prepare", "approve", "cancel"}
  <2>1. rpc.kind # "none"
    BY IdleCall DEF AnswerLands
  <2> QED BY <2>1 DEF SettingsInv, SettingsTypeOK, Calls
<1> QED BY <1>1, GrantLandsStep, WriteLandsStep, CancelLandsStep

LEMMA RejectedIs ==
  ASSUME NEW p \in Pages
  PROVE  LET q == [Settled(p, "rejected") EXCEPT !.unknown = TRUE, !.preview = {}] IN
         /\ q \in Pages /\ q.offer = NoOffer /\ ~q.busy /\ ~q.inFlight /\ ~q.fetching
         /\ q.open = p.open /\ ~q.held /\ Key \notin q.draft.changes
<1> DEFINE r == Settled(p, "rejected")
<1>1. /\ r \in Pages /\ r.offer = NoOffer /\ ~r.busy /\ ~r.inFlight /\ ~r.fetching /\ r.open = p.open
      /\ ~r.held /\ Key \notin r.draft.changes
  BY SettledIs DEF Retaining
<1> HIDE DEF r
<1>2. LET q == [r EXCEPT !.unknown = TRUE, !.preview = {}] IN
      /\ q \in Pages /\ q.offer = NoOffer /\ ~q.busy /\ ~q.inFlight /\ ~q.fetching
      /\ q.open = p.open /\ ~q.held /\ Key \notin q.draft.changes
  BY <1>1 DEF Pages
<1> QED BY <1>2 DEF r

\* A call that fails leaves its token to a best-effort cancel, and the challenge
\* it was to bring is lost.
LEMMA AnswerLostStep ==
  ASSUME SettingsInv, AnswerLost
  PROVE  SettingsInv'
<1>1. /\ rpc.pc \in {"sent", "answered"} /\ UNCHANGED <<host, dialog>> /\ Ends
      /\ strays' = strays \cup (IF rpc.kind \in {"approve", "confirm"} THEN {rpc.token} ELSE {})
      /\ fate' = IF rpc.answer = "consent" THEN [fate EXCEPT ![rpc.offer.token] = "lost"] ELSE fate
  BY DEF AnswerLost
<1>2. /\ rpc.kind \in {"write", "confirm", "prepare", "approve", "cancel"}
      /\ page \in Pages /\ rpc \in Calls /\ page.open
  <2>1. rpc.kind # "none"
    BY <1>1, IdleCall
  <2> QED BY <2>1 DEF SettingsInv, SettingsTypeOK, Calls, PageFits
<1>3. /\ rpc' = NoCall /\ rpc'.kind = "none" /\ rpc'.token = 0 /\ rpc'.offer.token = 0 /\ NoOffer.token = 0
      /\ closing' \in [waits : SUBSET {"close", "quit"}, unsaved : BOOLEAN]
      /\ dialog' \in {"none", "refresh", "profile", "blank", "close", "quit"}
  BY <1>1, EndsIs, Constants DEF NoCall
<1>4. /\ rpc.kind \in {"write", "prepare"} => rpc.token = 0 /\ page.offer.token = 0
      /\ rpc.kind \in {"confirm", "approve", "cancel"} => rpc.token = page.offer.token /\ rpc.token # 0
      /\ rpc.offer.token # 0 <=> rpc.answer = "consent"
      /\ rpc.token \in 0..MaxTokens /\ rpc.offer.token \in 0..MaxTokens
  BY <1>2 DEF SettingsInv, CallFits, Calls, Offers
<1>5. /\ strays' \in SUBSET (1..MaxTokens)
      /\ fate' \in [1..MaxTokens -> {"none", "cancelled", "lost", "slipped"}]
      /\ \A t \in 1..MaxTokens : fate'[t] \in {fate[t], "lost"}
      /\ \A t \in 1..MaxTokens : t = rpc.offer.token => fate'[t] = "lost"
  <2>1. /\ strays \in SUBSET (1..MaxTokens)
        /\ fate \in [1..MaxTokens -> {"none", "cancelled", "lost", "slipped"}]
    BY DEF SettingsInv, SettingsTypeOK
  <2>2. rpc.kind \in {"approve", "confirm"} => rpc.token \in 1..MaxTokens
    BY <1>4, SettingsBounds
  <2>3. rpc.answer = "consent" => rpc.offer.token \in 1..MaxTokens
    BY <1>4, SettingsBounds
  <2>4. \A t \in 1..MaxTokens : t # 0
    OBVIOUS
  <2> QED BY <1>1, <1>4, <2>1, <2>2, <2>3, <2>4
<1>6. /\ page' \in Pages /\ loads' \in SUBSET LoadCalls /\ LoadsFit' /\ PageFits' /\ page'.open
      /\ page'.offer \in {page.offer, NoOffer}
      /\ rpc.kind = "cancel" => page'.offer = page.offer
  <2>1. loads \in SUBSET LoadCalls
    BY DEF SettingsInv, SettingsTypeOK
  <2>2. CASE rpc.kind = "cancel"
    <3>1. UNCHANGED <<page, loads>>
      BY <2>2 DEF AnswerLost
    <3> QED BY <1>2, <1>3, <2>1, <3>1
               DEF SettingsInv, LoadsFit, PageFits, Shows, Dirty, RequestOf, ModeOf, WellFormed
  <2>3. CASE rpc.kind \in {"prepare", "approve"}
    <3>1. page' = Cleared(page) /\ UNCHANGED loads
      BY <2>3 DEF AnswerLost
    <3>2. /\ page' \in Pages /\ page'.offer = NoOffer /\ ~page'.busy /\ page'.open = page.open
          /\ page'.held = page.held /\ page'.draft = page.draft
          /\ page'.inFlight = page.inFlight /\ page'.fetching = page.fetching
      BY <1>2, <3>1, ClearedIs
    <3>3. LoadsFit'
      BY <1>2, <3>1, <3>2 DEF SettingsInv, LoadsFit
    <3>4. page'.held <=> Key \in page'.draft.changes
      BY <3>2 DEF SettingsInv, PageFits
    <3> QED BY <1>2, <1>3, <2>1, <2>3, <3>1, <3>2, <3>3, <3>4, CalmPage
  <2>4. CASE rpc.kind \in {"write", "confirm"}
    <3> DEFINE q == [Settled(page, "rejected") EXCEPT !.unknown = TRUE, !.preview = {}]
    <3>1. Invalidates(q)
      BY <2>4 DEF AnswerLost
    <3>2. /\ q \in Pages /\ q.offer = NoOffer /\ ~q.busy /\ ~q.inFlight /\ ~q.fetching /\ q.open
          /\ ~q.held /\ Key \notin q.draft.changes
      BY <1>2, RejectedIs
    <3> HIDE DEF q
    <3>3. page' = q /\ loads' \in SUBSET LoadCalls /\ LoadsFit'
      BY <3>1, <3>2, InvalidatesIs
    <3> QED BY <1>3, <2>4, <3>2, <3>3, CalmPage
  <2> QED BY <1>2, <2>2, <2>3, <2>4
<1>7. ASSUME NEW t \in 1..MaxTokens, Taken(t) # {}
      PROVE  fate'[t] # "cancelled" /\ (t \in Carried' \/ fate'[t] \in {"lost", "slipped"})
  <2>1. fate[t] # "cancelled" /\ (t \in Carried \/ fate[t] \in {"lost", "slipped"})
    BY <1>7 DEF SettingsInv, TokensTracked
  <2>2. t # 0
    OBVIOUS
  <2>3. t = rpc.token \/ t = page.offer.token => t \in strays' \/ t = page'.offer.token
    BY <1>1, <1>2, <1>4, <1>6, <2>2
  <2>4. strays \subseteq strays'
    BY <1>1
  <2> QED BY <1>5, <1>6, <2>1, <2>3, <2>4 DEF Carried
<1>8. \A t \in 1..MaxTokens : fate'[t] = "cancelled" => fate[t] = "cancelled"
  BY <1>5
<1> QED BY <1>1, <1>3, <1>5, <1>6, <1>7, <1>8, LandStep

\* The challenge whose prompt lapses is past its deadline.
LEMMA PromptLapsesStep ==
  ASSUME SettingsInv, PromptLapses
  PROVE  SettingsInv'
<1> DEFINE q == Settled(page, "expired")
<1>1. /\ page.open /\ rpc.kind = "none" /\ page.offer.token \in host.expired /\ Invalidates(q)
      /\ UNCHANGED <<host, rpc, strays, dialog, closing, fate>>
  BY DEF PromptLapses, Lapsed
<1>2. page \in Pages /\ NoOffer.token = 0
  BY Constants DEF SettingsInv, SettingsTypeOK
<1>3. /\ q \in Pages /\ q.offer = NoOffer /\ ~q.busy /\ ~q.inFlight /\ ~q.fetching /\ q.open
      /\ ~q.held /\ Key \notin q.draft.changes
  BY <1>1, <1>2, SettledIs DEF Retaining
<1> HIDE DEF q
<1>4. page' = q /\ loads' \in SUBSET LoadCalls /\ LoadsFit'
  BY <1>1, <1>3, InvalidatesIs
<1>5. PageFits'
  BY <1>1, <1>2, <1>3, <1>4, CalmPage
<1>6. /\ dialog' \in {"none", "refresh", "profile", "blank", "close", "quit"}
      /\ closing' \in [waits : SUBSET {"close", "quit"}, unsaved : BOOLEAN]
  BY <1>1 DEF SettingsInv, SettingsTypeOK
<1> QED BY <1>1, <1>3, <1>4, <1>5, <1>6, PageStep

-----------------------------------------------------------------------------
\* The user.

\* Only what the user is asked, and the closes that wait, change.
LEMMA AskStep ==
  ASSUME SettingsInv, UNCHANGED <<host, rpc, strays, loads, page, fate>>,
         dialog' \in {"none", "refresh", "profile", "blank", "close", "quit"},
         closing' \in [waits : SUBSET {"close", "quit"}, unsaved : BOOLEAN]
  PROVE  SettingsInv'
<1>1. SettingsTypeOK'
  BY DEF SettingsInv, SettingsTypeOK
<1>2. LoadsFit' /\ PageFits'
  BY DEF SettingsInv, LoadsFit, PageFits, Shows, Dirty, RequestOf, ModeOf, WellFormed
<1>3. CallFits'
  BY DEF SettingsInv, CallFits, PlannedReach, ReachOf, RequestOf, ModeOf
<1>4. ChallengesFit'
  BY DEF SettingsInv, ChallengesFit, WellFormed, PlannedReach, ReachOf
<1>5. TokensFit' /\ TokensTracked'
  BY DEF SettingsInv, TokensFit, TokensTracked, RecordsOf, Taken, Carried
<1> QED BY <1>1, <1>2, <1>3, <1>4, <1>5 DEF SettingsInv

LEMMA DialogIs ==
  ASSUME SettingsInv
  PROVE  /\ dialog \in {"none", "refresh", "profile", "blank", "close", "quit"}
         /\ closing \in [waits : SUBSET {"close", "quit"}, unsaved : BOOLEAN]
         /\ page \in Pages /\ host \in Hosts /\ loads \in SUBSET LoadCalls
         /\ page.offer.token \in 0..MaxTokens /\ NoOffer.token = 0
BY Constants DEF SettingsInv, SettingsTypeOK, Pages, Offers

\* A control of an idle page without an outcome.
LEMMA DrawStep ==
  ASSUME SettingsInv, UNCHANGED <<host, rpc, strays, loads, dialog, closing, fate>>,
         rpc.kind = "none", page.open, page.offer.token = 0,
         page' \in Pages, page'.offer \in {page.offer, NoOffer}, ~page'.busy, page'.open = page.open,
         page'.inFlight = page.inFlight, page'.fetching = page.fetching,
         page'.held <=> Key \in page'.draft.changes
  PROVE  SettingsInv'
<1>1. page'.offer.token = 0
  BY Constants
<1>2. PageFits'
  BY <1>1, CalmPage
<1>3. LoadsFit'
  BY DEF SettingsInv, LoadsFit
<1> QED BY <1>2, <1>3, DialogIs, PageStep

LEMMA StartsLoadStep ==
  ASSUME SettingsInv, UNCHANGED <<host, rpc, strays, dialog, closing, fate>>,
         rpc.kind = "none", page.open, page.offer.token = 0, ~page.busy,
         NEW kind \in {"reload", "review", "profile"}, StartsLoad(page, kind)
  PROVE  SettingsInv'
<1>1. /\ page' \in Pages /\ loads' \in SUBSET LoadCalls /\ LoadsFit'
      /\ page'.offer = page.offer /\ page'.open = page.open /\ page'.busy = page.busy
      /\ page'.held = page.held /\ page'.draft = page.draft
  BY DialogIs, StartsLoadIs
<1>2. page'.held <=> Key \in page'.draft.changes
  BY <1>1 DEF SettingsInv, PageFits
<1>3. PageFits'
  BY <1>1, <1>2, CalmPage
<1> QED BY <1>1, <1>3, DialogIs, PageStep

LEMMA FollowsStep ==
  ASSUME SettingsInv, UNCHANGED <<host, rpc, strays, closing, fate>>,
         dialog' \in {"none", "refresh", "profile", "blank", "close", "quit"},
         rpc.kind = "none", page.open, page.offer.token = 0, NEW then \in Then, Follows(page, then)
  PROVE  SettingsInv'
<1>1. /\ page' \in Pages /\ loads' \in SUBSET LoadCalls /\ LoadsFit' /\ PageFits'
      /\ page'.offer = NoOffer
  BY FollowsIs
<1> QED BY <1>1, DialogIs, PageStep

LEMMA CancelsStep ==
  ASSUME SettingsInv, UNCHANGED <<host, strays, closing, fate>>,
         dialog' \in {"none", "refresh", "profile", "blank", "close", "quit"},
         page.open, NEW then \in Then, CancelsThen(then)
  PROVE  SettingsInv'
<1>1. rpc.kind = "none"
  BY DEF CancelsThen
<1>2. CASE page.offer.token = 0
  BY <1>1, <1>2, FollowsStep DEF CancelsThen
<1>3. CASE page.offer.token # 0
  <2>1. /\ rpc' = [kind |-> "cancel", pc |-> "sent", token |-> page.offer.token, request |-> {},
                   then |-> then, answer |-> "none", found |-> Unread, offer |-> NoOffer]
        /\ UNCHANGED <<page, loads>>
    BY <1>3 DEF CancelsThen, NoCall
  <2>2. Shows(page) /\ ~page.inFlight /\ ~page.fetching
    BY <1>3 DEF SettingsInv, PageFits
  <2> DEFINE token == page.offer.token
  <2>3. token \in 0..MaxTokens /\ token # 0 /\ {} \in SUBSET Requests /\ then \in Then \cup {"none"}
    BY <1>3, DialogIs
  <2>4. SendsWith("cancel", token, {}, then)
    BY <2>1, <2>3 DEF SendsWith
  <2> HIDE DEF token
  <2> QED BY <1>1, <2>1, <2>2, <2>3, <2>4, SendStep
<1> QED BY <1>2, <1>3

\* A call of the page that nothing follows.
LEMMA SendsIs ==
  ASSUME NEW kind, NEW token, NEW request, Sends(kind, token, request)
  PROVE  rpc' = [kind |-> kind, pc |-> "sent", token |-> token, request |-> request, then |-> "none",
                 answer |-> "none", found |-> Unread, offer |-> NoOffer]
BY DEF Sends, NoCall

LEMMA LockedIs ==
  ASSUME SettingsInv
  PROVE  /\ ~Locked(page) => /\ rpc.kind = "none" /\ page.offer.token = 0 /\ ~page.busy /\ ~page.unknown
                             /\ ~page.inFlight /\ ~page.fetching
         /\ Still(page) => rpc.kind = "none" /\ ~page.inFlight /\ ~page.fetching
         /\ page.held <=> Key \in page.draft.changes
BY DEF Locked, Still, SettingsInv, PageFits

LEMMA UserIs ==
  ASSUME SettingsInv, UserOnly
  PROVE  page.open /\ UNCHANGED <<host, strays, closing, fate>>
BY DEF UserOnly, User

LEMMA StagedIs ==
  ASSUME NEW p \in Pages, NEW changes \in SUBSET (Remotes \cup {Key}), NEW change
  PROVE  LET q == Staged(p, changes, change) IN
         /\ q \in Pages /\ q.offer = p.offer /\ q.busy = p.busy /\ q.open = p.open
         /\ q.inFlight = p.inFlight /\ q.fetching = p.fetching
         /\ q.held <=> Key \in q.draft.changes
<1> DEFINE confirmed == \E config \in Body(p) : Loses(p.draft.source, config, changes)
           d == [p.draft EXCEPT !.changes = changes, !.review = p.draft.review \ {change},
                                !.confirmed = confirmed]
           held == Key \in changes
<1>1. confirmed \in BOOLEAN /\ held \in BOOLEAN
  OBVIOUS
<1>2. held <=> Key \in changes
  OBVIOUS
<1> HIDE DEF confirmed, held
<1>3. p.draft \in Drafts
  BY DEF Pages
<1>4. p.draft.review \ {change} \in SUBSET (Remotes \cup {Key})
  BY <1>3 DEF Drafts
<1>5. d \in Drafts /\ d.changes = changes
  BY <1>1, <1>3, <1>4 DEF Drafts
<1> HIDE DEF d
<1>6. LET q == [p EXCEPT !.editing = FALSE, !.held = held, !.draft = d] IN
      /\ q \in Pages /\ q.offer = p.offer /\ q.busy = p.busy /\ q.open = p.open
      /\ q.inFlight = p.inFlight /\ q.fetching = p.fetching
      /\ q.held = held /\ q.draft = d
  BY <1>1, <1>5 DEF Pages
<1>7. Staged(p, changes, change) = [p EXCEPT !.editing = FALSE, !.held = held, !.draft = d]
  BY DEF Staged, d, held, confirmed
<1> QED BY <1>2, <1>5, <1>6, <1>7

LEMMA EditStep ==
  ASSUME SettingsInv, NEW change \in Remotes \cup {Key}, OpenEditor \/ Stage(change) \/ UnstageKey
  PROVE  SettingsInv'
<1>1. /\ UserOnly /\ CanEdit(page) /\ UNCHANGED <<rpc, loads, dialog>>
  BY DEF OpenEditor, Stage, UnstageKey, Draws
<1>2. /\ page.open /\ rpc.kind = "none" /\ page.offer.token = 0 /\ ~page.busy
      /\ (page.held <=> Key \in page.draft.changes) /\ page \in Pages
  BY <1>1, LockedIs, DialogIs DEF CanEdit
<1>3. page.draft.changes \in SUBSET (Remotes \cup {Key})
  BY <1>2 DEF Pages, Drafts
<1>4. /\ page' \in Pages /\ page'.offer = page.offer /\ page'.busy = page.busy /\ page'.open = page.open
      /\ page'.inFlight = page.inFlight /\ page'.fetching = page.fetching
      /\ page'.held <=> Key \in page'.draft.changes
  <2>1. CASE OpenEditor
    <3>1. page' = [page EXCEPT !.editing = TRUE]
      BY <2>1 DEF OpenEditor, Draws
    <3> QED BY <1>2, <3>1 DEF Pages
  <2>2. CASE Stage(change)
    <3>1. page' = Staged(page, page.draft.changes \cup {change}, change)
      BY <2>2 DEF Stage, Draws
    <3>2. page.draft.changes \cup {change} \in SUBSET (Remotes \cup {Key})
      BY <1>3
    <3> QED BY <1>2, <3>1, <3>2, StagedIs
  <2>3. CASE UnstageKey
    <3>1. page' = Staged(page, page.draft.changes \ {Key}, Key)
      BY <2>3 DEF UnstageKey, Draws
    <3>2. page.draft.changes \ {Key} \in SUBSET (Remotes \cup {Key})
      BY <1>3
    <3> QED BY <1>2, <3>1, <3>2, StagedIs
  <2> QED BY <2>1, <2>2, <2>3
<1> QED BY <1>1, <1>2, <1>4, UserIs, DrawStep

\* What may be applied makes a well-formed request.
LEMMA ApplyStep ==
  ASSUME SettingsInv, Apply
  PROVE  SettingsInv'
<1>1. /\ UserOnly /\ page.open /\ Shows(page) /\ Dirty(page) /\ ~Locked(page)
      /\ page \in Pages
  BY DialogIs DEF Apply, Bar
<1>2. /\ rpc.kind = "none" /\ page.offer.token = 0 /\ ~page.busy /\ ~page.inFlight /\ ~page.fetching
      /\ (page.held <=> Key \in page.draft.changes)
      /\ UNCHANGED <<host, strays, closing, fate>>
  BY <1>1, LockedIs, UserIs
<1>3. CASE Malformed(page)
  <2>1. page' = Cleared(page) /\ UNCHANGED <<rpc, loads, dialog>>
    BY <1>3 DEF Apply, Draws
  <2>2. /\ page' \in Pages /\ page'.offer = NoOffer /\ ~page'.busy /\ page'.open = page.open
        /\ page'.held = page.held /\ page'.draft = page.draft
        /\ page'.inFlight = page.inFlight /\ page'.fetching = page.fetching
    BY <1>1, <2>1, ClearedIs
  <2> QED BY <1>1, <1>2, <2>1, <2>2, DrawStep
<1>4. CASE ~Malformed(page)
  <2> DEFINE req == RequestOf(page)
             request == {req}
  <2>1. /\ page' = [page EXCEPT !.request = request] /\ Sends("write", 0, request)
        /\ UNCHANGED <<loads, dialog>>
    BY <1>4 DEF Apply
  <2>2. page.draft \in Drafts /\ page.target \in Configs \cup {Absent}
    BY <1>1 DEF Pages
  <2>3. req \in Requests /\ WellFormed(req)
    BY <1>4, <2>2 DEF RequestOf, ModeOf, Malformed, WellFormed, Requests, Drafts
  <2> HIDE DEF req
  <2>4. request \in SUBSET Requests /\ 0 \in 0..MaxTokens /\ "none" \in Then \cup {"none"}
    BY <2>3, Constants
  <2>5. page'.request = request
    BY <1>1, <2>1 DEF Pages
  <2>6. SendsWith("write", 0, request, "none")
    <3>1. rpc' = [kind |-> "write", pc |-> "sent", token |-> 0, request |-> request, then |-> "none",
                  answer |-> "none", found |-> Unread, offer |-> NoOffer]
      BY <2>1, SendsIs
    <3>2. /\ request = page'.request /\ request = {RequestOf(page)}
          /\ WellFormed(RequestOf(page)) /\ Dirty(page)
      BY <1>1, <2>3, <2>5 DEF req
    <3>3. page' \in {page, [page EXCEPT !.request = request]}
      BY <2>1
    <3> HIDE DEF request
    <3> QED BY <1>2, <3>1, <3>2, <3>3 DEF SendsWith
  <2> HIDE DEF request
  <2> QED BY <1>1, <1>2, <2>1, <2>4, <2>6, DialogIs, SendStep
<1> QED BY <1>3, <1>4

\* What is sent again is what the page shows.
LEMMA ResendStep ==
  ASSUME SettingsInv, rpc.kind = "none", UNCHANGED <<host, strays, loads, page, closing, fate, dialog>>,
         NEW kind \in {"write", "confirm"},
         kind = "write"   => page.busy /\ page.offer.token = 0,
         kind = "confirm" => page.offer.token # 0 /\ page.intent = "apply",
         Sends(kind, page.offer.token, page.request)
  PROVE  SettingsInv'
<1> DEFINE token == page.offer.token
           request == page.request
<1>1. /\ page.open /\ Shows(page) /\ ~page.inFlight /\ ~page.fetching
      /\ request = {RequestOf(page)} /\ WellFormed(RequestOf(page)) /\ Dirty(page)
  BY DEF SettingsInv, PageFits
<1>2. token \in 0..MaxTokens /\ request \in SUBSET Requests /\ "none" \in Then \cup {"none"}
  BY DialogIs DEF Pages
<1>3. rpc' = [kind |-> kind, pc |-> "sent", token |-> token, request |-> request, then |-> "none",
              answer |-> "none", found |-> Unread, offer |-> NoOffer]
  BY SendsIs
<1>4. SendsWith(kind, token, request, "none")
  BY <1>1, <1>3 DEF SendsWith
<1>5. kind \in {"write", "confirm", "prepare", "approve", "cancel"}
  OBVIOUS
<1> HIDE DEF token, request
<1> QED BY <1>1, <1>2, <1>4, <1>5, DialogIs, SendStep

LEMMA ConfirmsStep ==
  ASSUME SettingsInv, UNCHANGED <<host, strays, closing, fate, dialog>>, rpc.kind = "none", Confirms
  PROVE  SettingsInv'
<1>1. page.offer.token # 0
  BY DEF Confirms
<1>2. page.open /\ Shows(page) /\ ~page.inFlight /\ ~page.fetching
  BY <1>1 DEF SettingsInv, PageFits
<1>3. CASE page.intent = "apply"
  <2>1. Sends("confirm", page.offer.token, page.request) /\ UNCHANGED <<page, loads>>
    BY <1>3 DEF Confirms
  <2> QED BY <1>1, <1>3, <2>1, ResendStep
<1>4. CASE page.intent # "apply" /\ Lapsed(page)
  <2>1. CancelsThen("dismiss")
    BY <1>4 DEF Confirms
  <2> QED BY <1>2, <2>1, DialogIs, CancelsStep DEF Then
<1>5. CASE page.intent # "apply" /\ ~Lapsed(page)
  <2> DEFINE token == page.offer.token
  <2>1. Sends("approve", token, {}) /\ UNCHANGED <<page, loads>>
    BY <1>5 DEF Confirms
  <2>2. SendsWith("approve", token, {}, "none")
    BY <1>1, <2>1, SendsIs DEF SendsWith
  <2>3. token \in 0..MaxTokens /\ {} \in SUBSET Requests /\ "none" \in Then \cup {"none"}
    BY DialogIs
  <2> HIDE DEF token
  <2> QED BY <1>2, <2>1, <2>2, <2>3, DialogIs, SendStep
<1> QED BY <1>3, <1>4, <1>5

LEMMA ConfirmStep == SettingsInv /\ Confirm => SettingsInv'
BY ConfirmsStep, LockedIs, UserIs DEF Confirm

LEMMA RetryStep ==
  ASSUME SettingsInv, Retry
  PROVE  SettingsInv'
<1>1. /\ rpc.kind = "none" /\ page.busy /\ UNCHANGED <<host, strays, closing, fate, dialog>>
  BY LockedIs, UserIs DEF Retry
<1>2. CASE page.offer.token # 0
  BY <1>1, <1>2, ConfirmsStep DEF Retry
<1>3. CASE page.offer.token = 0
  <2>1. Sends("write", page.offer.token, page.request) /\ UNCHANGED <<page, loads>>
    BY <1>3 DEF Retry
  <2> QED BY <1>1, <1>3, <2>1, ResendStep
<1> QED BY <1>2, <1>3

LEMMA ApproveStep ==
  ASSUME SettingsInv, Approve
  PROVE  SettingsInv'
<1>1. /\ UNCHANGED <<host, strays, closing, fate, dialog, page, loads>> /\ page.open /\ Shows(page)
      /\ rpc.kind = "none" /\ page.offer.token = 0 /\ ~page.inFlight /\ ~page.fetching
      /\ Sends("prepare", 0, {})
  BY LockedIs, UserIs DEF Approve
<1>2. SendsWith("prepare", 0, {}, "none")
  BY <1>1, SendsIs DEF SendsWith
<1>3. 0 \in 0..MaxTokens /\ {} \in SUBSET Requests /\ "none" \in Then \cup {"none"}
  BY Constants
<1> QED BY <1>1, <1>2, <1>3, DialogIs, SendStep

\* The controls that give up a challenge cancel it first.
LEMMA GiveUpStep ==
  ASSUME SettingsInv, CancelApproval \/ Discard \/ DiscardConflict
  PROVE  SettingsInv'
<1>1. /\ page.open /\ UNCHANGED <<host, strays, closing, fate, dialog>>
  BY UserIs DEF CancelApproval, Discard, DiscardConflict
<1>2. \E then \in {"dismiss", "cancelled", "discard", "refresh"} : CancelsThen(then)
  BY DEF CancelApproval, Discard, DiscardConflict
<1> QED BY <1>1, <1>2, DialogIs, CancelsStep DEF Then

LEMMA TransitionStep ==
  ASSUME SettingsInv, Refresh \/ StartProfile \/ StartBlank
  PROVE  SettingsInv'
<1>0. PICK then \in {"refresh", "profile", "blank"} : \E guard : Transition(then, guard)
  BY DEF Refresh, StartProfile, StartBlank
<1>1. PICK guard : Transition(then, guard)
  BY <1>0
<1>2. /\ page.open /\ rpc.kind = "none" /\ UNCHANGED <<host, rpc, strays, closing, fate>>
  BY <1>1, UserIs, LockedIs DEF Transition
<1>3. CASE Unsaved(page)
  <2>1. dialog' = then /\ UNCHANGED <<page, loads>>
    BY <1>1, <1>3 DEF Transition
  <2> QED BY <1>2, <2>1, DialogIs, AskStep
<1>4. CASE ~Unsaved(page)
  <2>1. page.offer.token = 0 /\ ~page.busy
    BY <1>4 DEF Unsaved, SettingsInv, PageFits
  <2>2. /\ dialog' = dialog
        /\ IF then = "refresh" THEN StartsLoad(page, "reload") ELSE Follows(page, then)
    BY <1>1, <1>4 DEF Transition
  <2>3. CASE then = "refresh"
    BY <1>2, <2>1, <2>2, <2>3, StartsLoadStep
  <2>4. CASE then # "refresh"
    BY <1>2, <2>1, <2>2, <2>4, DialogIs, FollowsStep DEF Then
  <2> QED BY <2>3, <2>4
<1> QED BY <1>3, <1>4

LEMMA RestageDropsStep ==
  ASSUME SettingsInv, RestageDrops
  PROVE  SettingsInv'
<1>1. /\ page.open /\ rpc.kind = "none" /\ UNCHANGED <<host, rpc, strays, loads, closing, fate, dialog>>
      /\ page.drops /\ page' = [Cleared(page) EXCEPT !.draft.confirmed = TRUE]
  BY UserIs, LockedIs DEF RestageDrops, Draws
<1>2. page.offer.token = 0 /\ (page.held <=> Key \in page.draft.changes)
  BY <1>1 DEF SettingsInv, PageFits
<1> DEFINE c == Cleared(page)
           d == [c.draft EXCEPT !.confirmed = TRUE]
<1>3. /\ c \in Pages /\ c.offer = NoOffer /\ ~c.busy /\ c.open = page.open
      /\ c.held = page.held /\ c.draft = page.draft
      /\ c.inFlight = page.inFlight /\ c.fetching = page.fetching
  BY DialogIs, ClearedIs
<1>4. page' = [c EXCEPT !.draft = d]
  BY <1>1
<1> HIDE DEF c
<1>5. d \in Drafts /\ d.changes = page.draft.changes
  BY <1>3 DEF Pages, Drafts
<1> HIDE DEF d
<1>6. /\ page' \in Pages /\ page'.offer = NoOffer /\ ~page'.busy /\ page'.open = page.open
      /\ page'.held = page.held /\ page'.draft = d
      /\ page'.inFlight = page.inFlight /\ page'.fetching = page.fetching
  BY <1>3, <1>4, <1>5 DEF Pages
<1> QED BY <1>1, <1>2, <1>5, <1>6, DrawStep

LEMMA ReviewConflictStep ==
  ASSUME SettingsInv, ReviewConflict
  PROVE  SettingsInv'
<1>1. /\ page.open /\ rpc.kind = "none" /\ UNCHANGED <<host, rpc, strays, closing, fate, dialog>>
      /\ page.conflict # "none"
  BY UserIs, LockedIs DEF ReviewConflict
<1>2. page.offer.token = 0 /\ ~page.busy /\ (page.held <=> Key \in page.draft.changes)
  BY <1>1 DEF SettingsInv, PageFits
<1>3. \/ \E kind \in {"review", "profile"} : StartsLoad(page, kind)
      \/ page' = Cleared(page) /\ UNCHANGED loads
  BY DEF ReviewConflict
<1>4. CASE \E kind \in {"review", "profile"} : StartsLoad(page, kind)
  BY <1>1, <1>2, <1>4, StartsLoadStep
<1>5. CASE page' = Cleared(page) /\ UNCHANGED loads
  <2>1. /\ page' \in Pages /\ page'.offer = NoOffer /\ ~page'.busy /\ page'.open = page.open
        /\ page'.held = page.held /\ page'.draft = page.draft
        /\ page'.inFlight = page.inFlight /\ page'.fetching = page.fetching
    BY <1>5, DialogIs, ClearedIs
  <2> QED BY <1>1, <1>2, <1>5, <2>1, DrawStep
<1> QED BY <1>3, <1>4, <1>5

LEMMA ReloadStep ==
  ASSUME SettingsInv, Recover \/ RetryLoad
  PROVE  SettingsInv'
<1>1. /\ page.open /\ UNCHANGED <<host, rpc, strays, closing, fate, dialog>>
      /\ (page.unknown /\ rpc.kind = "none") \/ ~Shows(page)
      /\ \E kind \in {"review", "reload"} : StartsLoad(page, kind)
  BY UserIs, LockedIs DEF Recover, RetryLoad, Shows
<1>2. page.offer.token = 0 /\ ~page.busy /\ rpc.kind = "none"
  BY <1>1 DEF SettingsInv, PageFits
<1> QED BY <1>1, <1>2, StartsLoadStep

LEMMA ReopenStep ==
  ASSUME SettingsInv, Reopen
  PROVE  SettingsInv'
<1>1. /\ ~page.open /\ page' = NewPage /\ loads' = Stale(loads) \cup {NewLoad("reload")}
      /\ UNCHANGED <<host, rpc, strays, dialog, closing, fate>>
  BY DEF Reopen
<1>2. rpc.kind = "none" /\ page.offer.token = 0
  BY <1>1 DEF SettingsInv, PageFits
<1>3. /\ page' \in Pages /\ page'.open /\ page'.offer = NoOffer /\ ~page'.busy /\ ~page'.held
      /\ page'.draft = Untouched /\ page'.inFlight
  BY <1>1, NewPages
<1>4. loads' \in SUBSET LoadCalls /\ LoadsFit'
  <2>1. NewLoad("reload") \in LoadCalls /\ NewLoad("reload").current /\ NewLoad("reload").pc = "sent"
    BY NewLoadIs
  <2> QED BY <1>1, <1>3, <2>1, StaleIs DEF LoadsFit
<1>5. PageFits'
  <2>1. page'.offer.token = 0 /\ Key \notin page'.draft.changes
    BY <1>3, Constants DEF Untouched
  <2> QED BY <1>1, <1>2, <1>3, <2>1, CalmPage
<1> QED BY <1>1, <1>2, <1>3, <1>4, <1>5, DialogIs, PageStep

LEMMA RequestCloseStep ==
  ASSUME SettingsInv, NEW kind \in {"close", "quit"}, RequestClose(kind)
  PROVE  SettingsInv'
<1>1. /\ closing' = [waits |-> closing.waits \cup {kind}, unsaved |-> Unsaved(page)]
      /\ UNCHANGED <<host, rpc, strays, loads, page, dialog, fate>>
  BY DEF RequestClose
<1>2. Unsaved(page) \in BOOLEAN /\ closing.waits \in SUBSET {"close", "quit"}
  BY DialogIs DEF Unsaved
<1>3. closing' \in [waits : SUBSET {"close", "quit"}, unsaved : BOOLEAN]
  BY <1>1, <1>2
<1> QED BY <1>1, <1>3, DialogIs, AskStep

\* A close that saw nothing unsaved takes the page; the challenge that arrived
\* meanwhile slips.
LEMMA CloseResumesStep ==
  ASSUME SettingsInv, Due, CloseResumes
  PROVE  SettingsInv'
<1>1. /\ page.open /\ rpc.kind = "none" /\ closing' = NoClose /\ UNCHANGED <<host, rpc, strays>>
      /\ closing' \in [waits : SUBSET {"close", "quit"}, unsaved : BOOLEAN]
  BY DEF Due, CloseResumes, NoClose
<1>2. CASE dialog' \in closing.waits /\ UNCHANGED <<page, loads, fate>>
  <2>1. dialog' \in {"none", "refresh", "profile", "blank", "close", "quit"}
    BY <1>2, DialogIs
  <2> QED BY <1>1, <1>2, <2>1, AskStep
<1>3. CASE UNCHANGED <<dialog, page, loads, fate>>
  BY <1>1, <1>3, DialogIs, AskStep
<1>4. ASSUME dialog' = "none", Invalidates(Unmounted),
             fate' = IF page.offer.token # 0 THEN [fate EXCEPT ![page.offer.token] = "slipped"] ELSE fate
      PROVE  SettingsInv'
  <2>1. /\ Unmounted \in Pages /\ ~Unmounted.inFlight /\ ~Unmounted.fetching
        /\ Unmounted.offer = NoOffer /\ ~Unmounted.busy /\ ~Unmounted.held
        /\ Key \notin Unmounted.draft.changes
    BY NewPages DEF Untouched
  <2> HIDE DEF Unmounted
  <2>2. page' = Unmounted /\ loads' \in SUBSET LoadCalls /\ LoadsFit'
    BY <1>4, <2>1, InvalidatesIs
  <2>3. rpc' = NoCall /\ rpc'.kind = "none" /\ rpc.token = 0 /\ rpc.offer.token = 0
    BY <1>1, IdleCall, Constants
  <2>4. PageFits'
    BY <2>1, <2>2, <2>3, CalmPage, Constants
  <2>5. /\ fate \in [1..MaxTokens -> {"none", "cancelled", "lost", "slipped"}]
        /\ strays \in SUBSET (1..MaxTokens)
        /\ page.offer.token # 0 => page.offer.token \in 1..MaxTokens
    BY DialogIs, SettingsBounds DEF SettingsInv, SettingsTypeOK
  <2>6. /\ fate' \in [1..MaxTokens -> {"none", "cancelled", "lost", "slipped"}]
        /\ \A t \in 1..MaxTokens : fate'[t] \in {fate[t], "slipped"}
        /\ \A t \in 1..MaxTokens : t = page.offer.token => fate'[t] = "slipped"
    BY <1>4, <2>5
  <2>7. ASSUME NEW t \in 1..MaxTokens, Taken(t) # {}
        PROVE  fate'[t] # "cancelled" /\ (t \in Carried' \/ fate'[t] \in {"lost", "slipped"})
    <3>1. fate[t] # "cancelled" /\ (t \in Carried \/ fate[t] \in {"lost", "slipped"})
      BY <2>7 DEF SettingsInv, TokensTracked
    <3> QED BY <1>1, <2>3, <2>6, <3>1 DEF Carried
  <2>8. \A t \in 1..MaxTokens : fate'[t] = "cancelled" => fate[t] = "cancelled"
    BY <2>6
  <2>9. dialog' \in {"none", "refresh", "profile", "blank", "close", "quit"}
    BY <1>4
  <2> QED BY <1>1, <2>1, <2>2, <2>3, <2>4, <2>5, <2>6, <2>7, <2>8, <2>9, LandStep
<1> QED BY <1>2, <1>3, <1>4 DEF CloseResumes

LEMMA AnswerDialogStep ==
  ASSUME SettingsInv, NEW ok \in BOOLEAN, AnswerDialog(ok)
  PROVE  SettingsInv'
<1>1. /\ page.open /\ dialog # "none" /\ dialog' = "none" /\ UNCHANGED <<host, strays, closing, fate>>
      /\ dialog' \in {"none", "refresh", "profile", "blank", "close", "quit"}
  BY DEF AnswerDialog
<1>2. CASE ok
  <2>1. CancelsThen(dialog) /\ dialog \in Then
    BY <1>1, <1>2, DialogIs DEF AnswerDialog, Then
  <2> QED BY <1>1, <2>1, CancelsStep
<1>3. CASE ~ok
  BY <1>1, <1>3, DialogIs, AskStep DEF AnswerDialog
<1> QED BY <1>2, <1>3

-----------------------------------------------------------------------------
\* The theorems.

LEMMA SettingsInitially == SettingsInit => SettingsInv
<1> SUFFICES ASSUME SettingsInit PROVE SettingsInv
  OBVIOUS
<1>1. /\ rpc = NoCall /\ strays = {} /\ loads = {NewLoad("reload")} /\ page = NewPage
      /\ dialog = "none" /\ closing = NoClose
      /\ fate = [t \in 1..MaxTokens |-> "none"]
  BY DEF SettingsInit
<1>2. PICK file \in {Absent, Blank} \cup {[reach |-> {r}, keyed |-> FALSE] : r \in Remotes},
           r \in Remotes :
        host = [file |-> file, profile |-> [reach |-> {r}, keyed |-> FALSE], granted |-> {},
                snapshot |-> file, turn |-> FALSE, next |-> 0, issued |-> {}, expired |-> {}]
  BY DEF SettingsInit
<1>3. file \in Files /\ [reach |-> {r}, keyed |-> FALSE] \in Configs
  <2>1. \A remote \in Remotes : [reach |-> {remote}, keyed |-> FALSE] \in Configs
    BY DEF Configs
  <2> QED BY <1>2, <2>1, Constants DEF Files
<1>4. host \in Hosts /\ host.issued = {} /\ host.next = 0
  BY <1>2, <1>3, Constants DEF Hosts
<1>5. /\ NewPage \in Pages /\ NewPage.open /\ NewPage.inFlight /\ NewPage.offer = NoOffer
      /\ ~NewPage.busy /\ ~NewPage.held /\ NewPage.draft = Untouched
      /\ NoOffer.token = 0
  BY NewPages, Constants
<1>6. NewLoad("reload") \in LoadCalls /\ NewLoad("reload").current /\ NewLoad("reload").pc = "sent"
  BY NewLoadIs
<1>7. SettingsTypeOK
  BY <1>1, <1>4, <1>5, <1>6, Constants DEF SettingsTypeOK, NoClose
<1>8. /\ rpc.kind = "none" /\ rpc.pc = "none" /\ rpc.offer = NoOffer /\ rpc.answer = "none"
      /\ page.offer.token = 0 /\ ~page.busy /\ Key \notin page.draft.changes /\ ~page.held
  BY <1>1, <1>5 DEF NoCall, Untouched
<1>9. LoadsFit
  BY <1>1, <1>5, <1>6 DEF LoadsFit
<1>10. PageFits /\ CallFits
  BY <1>1, <1>5, <1>8 DEF PageFits, CallFits
<1>11. ChallengesFit /\ TokensFit /\ TokensTracked
  BY <1>1, <1>4, <1>5, <1>8 DEF ChallengesFit, TokensFit, TokensTracked, Taken, RecordsOf
<1> QED BY <1>7, <1>9, <1>10, <1>11 DEF SettingsInv

LEMMA SettingsStep == SettingsInv /\ [SettingsNext]_settingsVars => SettingsInv'
<1> SUFFICES ASSUME SettingsInv, [SettingsNext]_settingsVars PROVE SettingsInv'
  OBVIOUS
<1>1. CASE UNCHANGED settingsVars
  <2>1. UNCHANGED <<host, rpc, strays, loads, page, dialog, closing, fate>>
    BY <1>1 DEF settingsVars
  <2> QED BY <2>1, DialogIs, AskStep
<1>2. CASE Due /\ CloseResumes
  BY <1>2, CloseResumesStep
<1>3. CASE Controls
  <2>1. CASE \E change \in Remotes \cup {Key} : OpenEditor \/ Stage(change) \/ UnstageKey
    BY <2>1, EditStep
  <2>2. OpenEditor \/ UnstageKey => \E change \in Remotes \cup {Key} : OpenEditor \/ Stage(change) \/ UnstageKey
    OBVIOUS
  <2>3. CASE Apply \/ Confirm \/ Retry \/ Approve
    BY <2>3, ApplyStep, ConfirmStep, RetryStep, ApproveStep
  <2>4. CASE CancelApproval \/ Discard \/ DiscardConflict
    BY <2>4, GiveUpStep
  <2>5. CASE Refresh \/ StartProfile \/ StartBlank
    BY <2>5, TransitionStep
  <2>6. CASE RestageDrops \/ ReviewConflict \/ Recover \/ RetryLoad \/ Reopen
    BY <2>6, RestageDropsStep, ReviewConflictStep, ReloadStep, ReopenStep
  <2>7. CASE \E kind \in {"close", "quit"} : RequestClose(kind)
    BY <2>7, RequestCloseStep
  <2>8. CASE \E ok \in BOOLEAN : AnswerDialog(ok)
    BY <2>8, AnswerDialogStep
  <2> QED BY <1>3, <2>1, <2>2, <2>3, <2>4, <2>5, <2>6, <2>7, <2>8 DEF Controls
<1>4. CASE Serving
  <2>1. CASE \E l \in loads : LoadServed(l) \/ LoadLands(l) \/ LoadFails(l)
    BY <2>1, LoadServedStep, LoadLandsStep, LoadFailsStep
  <2>2. CASE WriteStarts \/ ConfirmStarts \/ Publishes \/ Republished
    BY <2>2, WriteStartsStep, ConfirmStartsStep, PublishesStep, RepublishedStep
  <2>3. CASE PrepareServed \/ ApproveServed \/ CancelServed
    BY <2>3, PrepareServedStep, ApproveServedStep, CancelServedStep
  <2>4. CASE \E token \in strays : StrayServed(token)
    BY <2>4, StrayServedStep
  <2>5. CASE AnswerLands \/ AnswerLost \/ PromptLapses
    BY <2>5, AnswerLandsStep, AnswerLostStep, PromptLapsesStep
  <2>6. CASE TurnStarts \/ TurnEnds \/ FilesChange \/ \E token \in 1..MaxTokens : Deadline(token)
    BY <2>6, AsideStep
  <2> QED BY <1>4, <2>1, <2>2, <2>3, <2>4, <2>5, <2>6 DEF Serving
<1> QED BY <1>1, <1>2, <1>3, <1>4 DEF SettingsNext

\* Only the publishing step turns what was prepared into a file, and only an
\* approval grants; a control of the page does neither.
LEMMA ControlsAre ==
  ASSUME SettingsInv, Controls \/ (Due /\ CloseResumes)
  PROVE  host' = host /\ (rpc' = rpc \/ rpc.pc = "none")
<1>1. rpc.kind = "none" => rpc.pc = "none"
  BY IdleCall
<1>2. ASSUME NEW then, CancelsThen(then) PROVE rpc.kind = "none"
  BY <1>2 DEF CancelsThen
<1>3. CASE OpenEditor \/ UnstageKey \/ \E change \in Remotes \cup {Key} : Stage(change)
  BY <1>3, UserIs DEF OpenEditor, UnstageKey, Stage, Draws
<1>4. CASE Apply \/ Confirm \/ Retry \/ Approve
  BY <1>1, <1>4, UserIs, LockedIs DEF Apply, Confirm, Retry, Approve
<1>5. CASE CancelApproval \/ Discard \/ DiscardConflict
  BY <1>1, <1>2, <1>5, UserIs DEF CancelApproval, Discard, DiscardConflict
<1>6. CASE Refresh \/ StartProfile \/ StartBlank
  BY <1>6, UserIs DEF Refresh, StartProfile, StartBlank, Transition
<1>7. CASE RestageDrops \/ ReviewConflict \/ Recover \/ RetryLoad \/ Reopen
  BY <1>7, UserIs DEF RestageDrops, ReviewConflict, Recover, RetryLoad, Reopen, Draws
<1>8. CASE \E kind \in {"close", "quit"} : RequestClose(kind)
  BY <1>8 DEF RequestClose
<1>9. CASE \E ok \in BOOLEAN : AnswerDialog(ok)
  BY <1>1, <1>2, <1>9 DEF AnswerDialog
<1>10. CASE Due /\ CloseResumes
  BY <1>10 DEF CloseResumes
<1> QED BY <1>3, <1>4, <1>5, <1>6, <1>7, <1>8, <1>9, <1>10 DEF Controls

LEMMA RepliesAnswers ==
  ASSUME SettingsInv, NEW answer, Replies(answer)
  PROVE  rpc'.pc = "answered"
BY DEF SettingsInv, SettingsTypeOK, Calls, Replies

\* A step of the service that publishes nothing leaves what is prepared; one that
\* approves nothing leaves the grants.
LEMMA ServingIs ==
  ASSUME SettingsInv, Serving
  PROVE  /\ rpc.pc = "prepared" /\ rpc'.pc = "saved" => Publishes
         /\ host'.granted # host.granted => ConfirmStarts \/ ApproveServed
<1> USE DEF SettingsInv, SettingsTypeOK
<1>1. host \in Hosts /\ rpc \in Calls
  OBVIOUS
<1>2. ASSUME NEW token, host' = Without(token) PROVE host'.granted = host.granted
  BY <1>1, <1>2 DEF Without, Hosts
<1>3. CASE \E l \in loads : LoadServed(l) \/ LoadLands(l) \/ LoadFails(l)
  BY <1>1, <1>3 DEF LoadServed, LoadLands, LoadFails, Hosts
<1>4. CASE WriteStarts
  <2>1. rpc.pc = "sent"
    BY <1>4 DEF WriteStarts
  <2>2. host' = host \/ \E mode, prior, grants : Issues(mode, prior, grants)
    BY <1>4 DEF WriteStarts
  <2> QED BY <1>1, <2>1, <2>2 DEF Issues, Hosts
<1>5. CASE ConfirmStarts \/ ApproveServed
  BY <1>5 DEF ConfirmStarts, ApproveServed
<1>6. CASE Publishes
  BY <1>1, <1>6 DEF Publishes, Hosts
<1>7. CASE Republished
  BY <1>1, <1>7 DEF Republished, Hosts
<1>8. CASE PrepareServed
  BY <1>1, <1>8 DEF PrepareServed, Issues, Hosts
<1>9. CASE CancelServed
  BY <1>2, <1>9 DEF CancelServed
<1>10. CASE \E token \in strays : StrayServed(token)
  BY <1>2, <1>10 DEF StrayServed
<1>11. CASE AnswerLands \/ AnswerLost \/ PromptLapses
  BY <1>11 DEF AnswerLands, AnswerLost, PromptLapses, Ends, NoCall
<1>12. CASE TurnStarts \/ TurnEnds \/ FilesChange \/ \E token \in 1..MaxTokens : Deadline(token)
  BY <1>1, <1>12 DEF TurnStarts, TurnEnds, FilesChange, Deadline, Hosts
<1> QED BY <1>3, <1>4, <1>5, <1>6, <1>7, <1>8, <1>9, <1>10, <1>11, <1>12 DEF Serving

\* What is published reaches what the request reaches from the file it is for.
LEMMA PublishesWhatIsCovered ==
  ASSUME SettingsInv, Publishes, rpc'.pc = "saved"
  PROVE  ReachOf(host'.file) \subseteq ReachOf(host.file) \cup host.granted
<1>1. rpc.pc = "prepared" /\ rpc.kind \in {"write", "confirm"} /\ host \in Hosts /\ host.file \in Files
  BY DEF Publishes, SettingsInv, CallFits, SettingsTypeOK, Hosts
<1>2. host.file = Request.target /\ host' = [host EXCEPT !.file = ResultOf(Request)]
  BY RepliesAnswers DEF Publishes, Unmoved
<1>3. Request = RequestOf(page) /\ Request \in Requests /\ WellFormed(Request)
  BY <1>1, RequestIs
<1>4. ResultOf(Request) \in Configs /\ ResultOf(Request).reach = PlannedReach(Request)
  BY <1>1, <1>2, <1>3, PlanIs
<1>5. host'.file = ResultOf(Request)
  BY <1>1, <1>2 DEF Hosts
<1>6. PlannedReach(Request) \subseteq ReachOf(Request.target) \cup host.granted
  BY <1>1, <1>3 DEF SettingsInv, CallFits
<1> QED BY <1>2, <1>4, <1>5, <1>6 DEF ReachOf

\* A grant is what the challenge on the surface lists.
LEMMA GrantsWhatIsShown ==
  ASSUME SettingsInv, ConfirmStarts \/ ApproveServed, host'.granted # host.granted
  PROVE  /\ page.open /\ rpc.token = page.offer.token
         /\ host'.granted \ host.granted \subseteq page.offer.grants
<1>1. /\ rpc.kind \in {"confirm", "approve"} /\ host \in Hosts
  BY DEF ConfirmStarts, ApproveServed, SettingsInv, SettingsTypeOK
<1>2. page.open /\ rpc.token = page.offer.token
  BY <1>1 DEF SettingsInv, CallFits, PageFits
<1>3. host' = Without(rpc.token) => host'.granted = host.granted
  BY <1>1 DEF Without, Hosts
<1>4. PICK c \in Taken(rpc.token) : host' = [Without(rpc.token) EXCEPT !.granted = @ \cup c.grants]
  <2>1. CASE ConfirmStarts
    <3>1. \/ host' = host \/ host' = Without(rpc.token)
          \/ \E c \in Taken(rpc.token) : host' = [Without(rpc.token) EXCEPT !.granted = @ \cup c.grants]
      BY <2>1, Zenon DEF ConfirmStarts
    <3> QED BY <1>3, <3>1
  <2>2. CASE ApproveServed
    <3>1. \/ host' = host \/ host' = Without(rpc.token)
          \/ \E c \in Taken(rpc.token) : host' = [Without(rpc.token) EXCEPT !.granted = @ \cup c.grants]
      BY <2>2, Zenon DEF ApproveServed
    <3> QED BY <1>3, <3>1
  <2> QED BY <2>1, <2>2
<1>5. host'.granted = host.granted \cup c.grants
  BY <1>1, <1>4 DEF Without, Hosts
<1>6. c.grants = page.offer.grants
  BY <1>2, <1>4 DEF Taken, RecordsOf, SettingsInv, ChallengesFit
<1> QED BY <1>2, <1>5, <1>6

LEMMA ConsentStep ==
  ASSUME SettingsInv, [SettingsNext]_settingsVars
  PROVE  [/\ (rpc.pc = "prepared" /\ rpc'.pc = "saved") =>
               ReachOf(host'.file) \subseteq ReachOf(host.file) \cup host.granted
          /\ host'.granted # host.granted =>
               /\ page.open /\ rpc.token = page.offer.token
               /\ host'.granted \ host.granted \subseteq page.offer.grants]_settingsVars
<1>1. CASE UNCHANGED settingsVars
  BY <1>1
<1>2. CASE Controls \/ (Due /\ CloseResumes)
  <2>1. host' = host /\ (rpc' = rpc \/ rpc.pc = "none")
    BY <1>2, ControlsAre
  <2> QED BY <2>1
<1>3. CASE Serving
  BY <1>3, ServingIs, PublishesWhatIsCovered, GrantsWhatIsShown
<1> QED BY <1>1, <1>2, <1>3 DEF SettingsNext

\* Whatever the user does, whatever the service answers or loses, and whoever else
\* edits the files, the page, the call and the challenges fit each other.
THEOREM SettingsInvariance == SettingsSpec => []SettingsInv
<1> QED BY SettingsInitially, SettingsStep, PTL DEF SettingsSpec

\* What is sent again is what the page shows, and a superseded load never leaves it
\* locked (pendingRequestRef, KeyVault, generation).
THEOREM SurfaceTellsTheTruth == SettingsSpec => []SurfaceIsTrue
<1>1. SettingsInv => SurfaceIsTrue
  BY DEF SettingsInv, SurfaceIsTrue, PageFits, CallFits, LoadsFit
<1> QED BY <1>1, SettingsInvariance, PTL

\* No challenge is left to authorize what nobody looks at, and a cancelled one
\* authorizes nothing (cancelChallenge, takeSettingsChallenge).
THEOREM TokensAreTracked == SettingsSpec => []TokensTracked
<1>1. SettingsInv => TokensTracked
  BY DEF SettingsInv
<1> QED BY <1>1, SettingsInvariance, PTL

\* A write reaches what was reached before or was approved, and an approval covers
\* what the prompt lists (ConfirmSettingsApply, ConfirmDestinationGrants).
THEOREM WritesAreCovered == SettingsSpec => ConsentCovers
<1> QED BY ConsentStep, SettingsInvariance, PTL DEF SettingsSpec, ConsentCovers

-----------------------------------------------------------------------------
\* The store of the approved destinations, for every set of destinations and bound.

(* What the file holds, and the types of the store. *)
FileStates == [grants : SUBSET Destinations, ok : BOOLEAN]

ConsentTypeOK ==
  /\ stored \in FileStates /\ durable \in FileStates
  /\ granted \in SUBSET Destinations
  /\ store \in {"closed", "open", "unavailable"}

ConsentInv == ConsentTypeOK /\ Backed

\* The first state.
LEMMA ConsentInitially == ConsentInit => ConsentInv
BY DEF ConsentInit, ConsentInv, ConsentTypeOK, Backed, FileStates, File

\* Every step, of the process, of its end and of the user's editor.
LEMMA ConsentSteps == ConsentInv /\ [ConsentNext]_consentVars => ConsentInv'
<1> SUFFICES ASSUME ConsentInv, [ConsentNext]_consentVars PROVE ConsentInv'
  OBVIOUS
<1> USE DEF ConsentInv, ConsentTypeOK, Backed, FileStates, File
<1>1. CASE Open
  BY <1>1 DEF Open
<1>2. CASE OpenFails
  BY <1>2 DEF OpenFails
<1>3. CASE Dies
  <2>1. stored' \in FileStates
    <3>1. CASE UNCHANGED stored
      BY <3>1
    <3>2. ASSUME NEW batch \in SUBSET Destinations, stored' = File(Merged(batch), TRUE)
          PROVE  stored' \in FileStates
      BY <3>2 DEF Merged
    <3> QED BY <1>3, <3>1, <3>2 DEF Dies
  <2> QED BY <1>3, <2>1 DEF Dies
<1>4. CASE PowerFails
  BY <1>4 DEF PowerFails
<1>5. CASE EditedByHand
  <2>1. File({}, TRUE) \in FileStates /\ File({}, FALSE) \in FileStates
    OBVIOUS
  <2>2. stored' \in FileStates /\ durable' \in FileStates
    BY <1>5, <2>1 DEF EditedByHand
  <2>3. granted' = {} /\ store' = "closed"
    BY <1>5 DEF EditedByHand
  <2> QED BY <2>2, <2>3
<1>6. ASSUME NEW batch \in SUBSET Destinations, Grant(batch) PROVE ConsentInv'
  BY <1>6 DEF Grant, Persists, Merged
<1>7. ASSUME NEW batch \in SUBSET Destinations, GrantFails(batch) PROVE ConsentInv'
  <2>1. /\ store' = "open" /\ granted' = granted
        /\ \A ok \in BOOLEAN : /\ File(Merged(batch), ok) \in FileStates
                              /\ granted \subseteq File(Merged(batch), ok).grants
    BY <1>7 DEF GrantFails, Persists, Merged
  <2>2. CASE UNCHANGED <<stored, durable>>
    BY <2>1, <2>2
  <2>3. CASE stored' = File(Merged(batch), TRUE) /\ UNCHANGED durable
    BY <2>1, <2>3
  <2>4. ASSUME NEW ok \in BOOLEAN, stored' = File(Merged(batch), ok), durable' = stored'
        PROVE  ConsentInv'
    BY <2>1, <2>4
  <2> QED BY <1>7, <2>2, <2>3, <2>4 DEF GrantFails
<1>8. CASE UNCHANGED consentVars
  BY <1>8 DEF consentVars
<1> QED BY <1>1, <1>2, <1>3, <1>4, <1>5, <1>6, <1>7, <1>8 DEF ConsentNext

\* Whatever fails or ends while a grant is written, no destination is authorized
\* by the running process that the file, synced, does not hold: the directory is
\* synced before it is read (loadConsentGrants), and memory follows the write
\* (persistGrantsLocked).
THEOREM ConsentIsBacked == ConsentSpec => []Backed
<1>1. ConsentInv => Backed
  BY DEF ConsentInv
<1> QED BY <1>1, ConsentInitially, ConsentSteps, PTL DEF ConsentSpec
=============================================================================
