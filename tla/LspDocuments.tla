---------------------------- MODULE LspDocuments ----------------------------
(***************************************************************************)
(* One editor document and what its language server knows of it            *)
(* (utils/lspDocumentSync.ts, hooks/useLSPDocumentSync.ts and the document *)
(* calls of internal/lsp/manager.go).  Opens, changes and closes are calls *)
(* to the backend which overlap: each is served by a goroutine of its own, *)
(* so what was sent first need not arrive first.                           *)
(***************************************************************************)
EXTENDS Naturals, FiniteSets

CONSTANTS
  Contents,       \* texts of the document
  NoText,
  MaxDocs,        \* bound on the times the document is tracked
  LspActs         \* bound on the changes of the buffer, the flushes of requests and saves,
                  \* and the crashes of the server, together

ASSUME TextsAssumption == NoText \notin Contents
ASSUME DocumentBounds == MaxDocs \in Nat /\ LspActs \in Nat

VARIABLES
  buffer,         \* the editor file: open and its content
  docs,           \* TrackedDocument objects, by the order of their creation
  created,        \* how many of them there are
  tracked,        \* documents.get(path), 0 when there is none
  barrier,        \* closeBarriers.get(path): the document being closed, or 0
  flushes,        \* calls of flushLSPDocumentChange in flight
  closes,         \* calls of closeTrackedDocument in flight
  server,         \* openDocs of the manager, and the content of the server
  reconnect,      \* an lsp:reconnect event is on its way
  used,           \* counter of LspActs
  lost            \* history: how the server may have missed a text

lspVars == <<buffer, docs, created, tracked, barrier, flushes, closes, server,
             reconnect, used, lost>>

Unused == [synced |-> NoText, pending |-> NoText, timer |-> FALSE, opening |-> "none",
           opened |-> FALSE, after |-> 0]

Loses(how, when) == lost' = IF when THEN lost \cup {how} ELSE lost

Awaited(d) == docs[d].opening \in {"barrier", "sent"}

(* What awaited an open goes on in turn before anything else happens.       *)
Waiting == {f \in flushes : f.pc = "opening"}
Idle == \A f \in Waiting : Awaited(f.doc)

(* A defect: the close of the document before it is not waited for. *)
Opens_NoBarrier(text) ==
  /\ created < MaxDocs
  /\ created' = created + 1 /\ tracked' = created + 1
  /\ docs' = [docs EXCEPT ![created + 1] = [Unused EXCEPT !.synced = text, !.opening = "barrier"]]

(* openLSPDocument, after the previous document of the path was forgotten.  *)
Opens(text) ==
  /\ created < MaxDocs
  /\ created' = created + 1 /\ tracked' = created + 1
  /\ docs' = [docs EXCEPT ![created + 1] =
       [Unused EXCEPT !.synced = text, !.opening = "barrier", !.after = barrier]]

OpenFile ==
  /\ ~buffer.open /\ Idle
  /\ \E text \in Contents : buffer' = [open |-> TRUE, text |-> text] /\ Opens(text)
  /\ UNCHANGED <<barrier, flushes, closes, server, reconnect, used, lost>>

(* The close before it is through; a document closed meanwhile is not sent.  *)
OpenGoes(d) ==
  /\ docs[d].opening = "barrier" /\ docs[d].after \notin {c.doc : c \in closes}
  /\ docs' = [docs EXCEPT ![d].opening = IF tracked = d THEN "sent" ELSE "done"]
  /\ Loses("overtaken", tracked = d /\ \E f \in flushes : f.pc = "sent")
  /\ UNCHANGED <<buffer, created, tracked, barrier, flushes, closes, server, reconnect, used>>

(* The manager counts the references of a document and tells the server of  *)
(* the first only; an open that fails is forgotten.                         *)
OpenEnds(d) ==
  /\ docs[d].opening = "sent"
  /\ \/ /\ docs' = [docs EXCEPT ![d].opening = "done", ![d].opened = TRUE]
        /\ server' = [refs |-> server.refs + 1,
                      text |-> IF server.refs = 0 THEN docs[d].synced ELSE server.text]
        /\ UNCHANGED tracked
     \/ /\ docs' = [docs EXCEPT ![d].opening = "failed", ![d].timer = @ /\ tracked # d]
        /\ tracked' = IF tracked = d THEN 0 ELSE tracked
        /\ UNCHANGED server
  /\ UNCHANGED <<buffer, created, barrier, flushes, closes, reconnect, used, lost>>

(***************************************************************************)
(* Changes: scheduled behind a timer, flushed by it, by requests (hover,   *)
(* definition), and with a text of their own by saves and completions.     *)
(***************************************************************************)
InFlight(d) == {f \in flushes : f.doc = d /\ f.pc \in {"sent", "arrived"}}
(* A flush that was given its text keeps it while it awaits the open.       *)
Unsettled(d) == InFlight(d) \cup {f \in flushes : f.doc = d /\ f.own # NoText}

Schedule(text) ==
  IF tracked = 0 THEN UNCHANGED <<docs, lost>>
  ELSE IF text = docs[tracked].synced
  THEN /\ docs' = [docs EXCEPT ![tracked].pending = NoText, ![tracked].timer = FALSE]
       /\ Loses("reverted", Unsettled(tracked) # {})
  ELSE /\ docs' = [docs EXCEPT ![tracked].pending = text, ![tracked].timer = TRUE]
       /\ UNCHANGED lost

Types ==
  /\ buffer.open /\ Idle /\ used < LspActs
  /\ \E text \in Contents \ {buffer.text} :
       buffer' = [buffer EXCEPT !.text = text] /\ Schedule(text)
  /\ used' = used + 1
  /\ UNCHANGED <<created, tracked, barrier, flushes, closes, server, reconnect>>

(* After the open was awaited: what is to be sent is read again.  A text     *)
(* that was typed since the flush began stays pending.                      *)
Sends(d, own, before) ==
  LET doc  == docs[d]
      text == IF own # NoText THEN own ELSE doc.pending
      none == text \in {NoText, doc.synced}
      same == own = NoText \/ doc.pending = text \/ (none /\ doc.pending = before)
      kept == [doc EXCEPT !.timer = @ /\ own # NoText,
                          !.pending = IF same THEN NoText ELSE @]
  IN IF tracked # d \/ ~doc.opened
     THEN [docs |-> docs, sent |-> {}]
     ELSE [docs |-> [docs EXCEPT ![d] = kept],
           sent |-> IF none THEN {} ELSE {[doc |-> d, own |-> own, before |-> before,
                                           text |-> text, pc |-> "sent", turn |-> 0]}]

Sent(d, sent, others) ==
  /\ flushes' = others \cup sent
  /\ lost' = lost \cup (IF sent # {} /\ InFlight(d) # {} THEN {"overtaken"} ELSE {})
                  \cup (IF sent = {} /\ Unsettled(d) # {} THEN {"reverted"} ELSE {})

Flush(own) ==
  LET d    == tracked
      text == IF own # NoText THEN own ELSE docs[d].pending
  IN IF text \in {NoText, docs[d].synced}
     THEN /\ docs' = [docs EXCEPT ![d].timer = FALSE, ![d].pending = NoText]
          /\ Loses("reverted", Unsettled(d) # {})
          /\ UNCHANGED flushes
     ELSE IF Awaited(d)
     THEN /\ docs' = [docs EXCEPT ![d].timer = FALSE]
          /\ flushes' = flushes \cup {[doc |-> d, own |-> own, before |-> docs[d].pending,
                                       text |-> NoText, pc |-> "opening",
                                       turn |-> Cardinality(Waiting)]}
          /\ UNCHANGED lost
     ELSE LET next == Sends(d, own, docs[d].pending)
          IN /\ docs' = [next.docs EXCEPT ![d].timer = FALSE]
             /\ Sent(d, next.sent, flushes)

Timer ==
  /\ tracked # 0 /\ Idle /\ docs[tracked].timer
  /\ Flush(NoText)
  /\ UNCHANGED <<buffer, created, tracked, barrier, closes, server, reconnect, used>>

(* A request that needs the server up to date, a completion, or a save.     *)
LspRequest ==
  /\ tracked # 0 /\ Idle /\ buffer.open /\ used < LspActs
  /\ \E own \in {NoText, buffer.text} : Flush(own)
  /\ used' = used + 1
  /\ UNCHANGED <<buffer, created, tracked, barrier, closes, server, reconnect>>

FlushContinues(f) ==
  /\ f \in Waiting /\ ~Awaited(f.doc) /\ \A g \in Waiting : g.turn >= f.turn
  /\ LET next == Sends(f.doc, f.own, f.before)
     IN docs' = next.docs /\ Sent(f.doc, next.sent, flushes \ {f})
  /\ UNCHANGED <<buffer, created, tracked, barrier, closes, server, reconnect, used>>

(* The manager ignores a change of a document it does not hold.             *)
ChangeArrives(f) ==
  /\ f.pc = "sent"
  /\ server' = IF server.refs > 0 THEN [server EXCEPT !.text = f.text] ELSE server
  /\ flushes' = (flushes \ {f}) \cup {[f EXCEPT !.pc = "arrived"]}
  /\ UNCHANGED <<buffer, docs, created, tracked, barrier, closes, reconnect, used, lost>>

ChangeReturns(f) ==
  /\ f.pc = "arrived" /\ Idle
  /\ docs' = [docs EXCEPT ![f.doc].synced = f.text]
  /\ flushes' = flushes \ {f}
  /\ UNCHANGED <<buffer, created, tracked, barrier, closes, server, reconnect, used, lost>>

(***************************************************************************)
(* Closing, and the restart of a server that crashed.                      *)
(***************************************************************************)
CloseFile ==
  /\ buffer.open /\ Idle
  /\ buffer' = [open |-> FALSE, text |-> NoText]
  /\ IF tracked = 0 THEN UNCHANGED <<docs, tracked, barrier, closes>>
     ELSE /\ docs' = [docs EXCEPT ![tracked].timer = FALSE]
          /\ tracked' = 0 /\ barrier' = tracked
          /\ closes' = closes \cup {[doc |-> tracked, last |-> buffer.text, pc |-> "opening"]}
  /\ UNCHANGED <<created, flushes, server, reconnect, used, lost>>

CloseDone(c) ==
  closes' = closes \ {c} /\ barrier' = IF barrier = c.doc THEN 0 ELSE barrier

(* A defect: the open is not awaited, and may still be on its way. *)
CloseGoes_Unawaited(c) ==
  /\ c.pc = "opening"
  /\ IF ~docs[c.doc].opened
     THEN CloseDone(c)
     ELSE /\ closes' = (closes \ {c}) \cup
                       {[c EXCEPT !.pc = IF c.last # docs[c.doc].synced THEN "change" ELSE "close"]}
          /\ UNCHANGED barrier
  /\ UNCHANGED <<buffer, docs, created, tracked, flushes, server, reconnect, used, lost>>

CloseGoes(c) ==
  /\ c.pc = "opening" /\ ~Awaited(c.doc)
  /\ IF ~docs[c.doc].opened
     THEN CloseDone(c)
     ELSE /\ closes' = (closes \ {c}) \cup
                       {[c EXCEPT !.pc = IF c.last # docs[c.doc].synced THEN "change" ELSE "close"]}
          /\ UNCHANGED barrier
  /\ UNCHANGED <<buffer, docs, created, tracked, flushes, server, reconnect, used, lost>>

CloseChanges(c) ==
  /\ c.pc = "change"
  /\ server' = IF server.refs > 0 THEN [server EXCEPT !.text = c.last] ELSE server
  /\ closes' = (closes \ {c}) \cup {[c EXCEPT !.pc = "close"]}
  /\ UNCHANGED <<buffer, docs, created, tracked, barrier, flushes, reconnect, used, lost>>

CloseReleases(c) ==
  /\ c.pc = "close"
  /\ server' = IF server.refs > 0 THEN [server EXCEPT !.refs = @ - 1] ELSE server
  /\ CloseDone(c)
  /\ UNCHANGED <<buffer, docs, created, tracked, flushes, reconnect, used, lost>>

(* The restarted server holds nothing; the event lists what the old one held.*)
Crash ==
  /\ server.refs > 0 /\ used < LspActs
  /\ server' = [refs |-> 0, text |-> NoText]
  /\ reconnect' = TRUE
  /\ used' = used + 1
  /\ UNCHANGED <<buffer, docs, created, tracked, barrier, flushes, closes, lost>>

(* forgetLSPDocument and a new open, of a document that is still open.      *)
Reconnect ==
  /\ reconnect /\ Idle /\ reconnect' = FALSE
  /\ IF buffer.open THEN Opens(buffer.text) ELSE UNCHANGED <<docs, created, tracked>>
  /\ Loses("reannounced", buffer.open /\ (server.refs > 0 \/ \E d \in 1 .. MaxDocs : Awaited(d)))
  /\ UNCHANGED <<buffer, barrier, flushes, closes, server, used>>

(***************************************************************************)
(* The specification.                                                      *)
(***************************************************************************)
LspInit ==
  /\ buffer = [open |-> FALSE, text |-> NoText]
  /\ docs = [d \in 1 .. MaxDocs |-> Unused] /\ created = 0 /\ tracked = 0 /\ barrier = 0
  /\ flushes = {} /\ closes = {}
  /\ server = [refs |-> 0, text |-> NoText] /\ reconnect = FALSE
  /\ used = 0
  /\ lost = {}

(* Timers fire and calls return. *)
LspContinues ==
  \/ Timer \/ Reconnect
  \/ \E d \in 1 .. MaxDocs : OpenGoes(d) \/ OpenEnds(d)
  \/ \E f \in flushes : FlushContinues(f) \/ ChangeArrives(f) \/ ChangeReturns(f)
  \/ \E c \in closes : CloseGoes(c) \/ CloseChanges(c) \/ CloseReleases(c)

LspNext == OpenFile \/ Types \/ LspRequest \/ CloseFile \/ Crash \/ LspContinues

LspSpec == LspInit /\ [][LspNext]_lspVars
LspFairSpec == LspSpec /\ WF_lspVars(LspContinues)

(***************************************************************************)
(* Properties.                                                             *)
(***************************************************************************)
(* Nothing is left to be sent, by a timer or by a call in flight.           *)
Quiet ==
  /\ tracked # 0 /\ docs[tracked].opened /\ ~docs[tracked].timer /\ server.refs > 0
  /\ flushes = {} /\ closes = {} /\ ~reconnect

(* roadmap.md:526 promises debounced changes "without dropping latest       *)
(* state": once nothing is left to be sent the server has the text of the   *)
(* buffer.                                                                  *)
LatestState == Quiet => server.text = buffer.text

(* And it has, over every order of opens, closes, crashes and requests,     *)
(* unless a text went unsent because an older one, still in flight, had not *)
(* become the synced one yet; a change or an open was sent beside a change  *)
(* in flight; or a restart announced a document that was opened since.      *)
LatestStateApart == Quiet /\ lost = {} => server.text = buffer.text

(* A document that was closed does not stay open at the server, however its *)
(* open was delayed, but for a document announced twice.                    *)
ClosedIsClosed == ~buffer.open /\ lost = {} ~> server.refs = 0 \/ buffer.open \/ lost # {}

(* Together: no step, of an edit, a call or its answer, leaves the server   *)
(* behind the last edit, and the server follows a close.                    *)
ServerFollows == [][LatestStateApart']_lspVars /\ ClosedIsClosed
=============================================================================
