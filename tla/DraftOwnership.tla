--------------------------- MODULE DraftOwnership ---------------------------
(***************************************************************************)
(* What moving the Golem chat between windows promises its user: there is  *)
(* one composer text, at most one window that accepts typing, and a text   *)
(* is submitted at most once, after which nobody is shown it again.        *)
(***************************************************************************)
EXTENDS Naturals

CONSTANT Texts    \* the texts a user may type; 0 is the empty composer

VARIABLES
  host,           \* the window that accepts typing, "none" during a move
  text,           \* what its composer holds
  sent            \* text -> times it was submitted

dvars == <<host, text, sent>>

Init ==
  /\ host \in {"main", "none"}
  /\ text = 0
  /\ sent = [t \in Texts |-> 0]

Type(t) ==
  /\ host # "none"
  /\ text' = t
  /\ UNCHANGED <<host, sent>>

(* A submitted text leaves the composer with its submission. *)
Send ==
  /\ text \in Texts
  /\ sent[text] = 0
  /\ sent' = [sent EXCEPT ![text] = 1]
  /\ text' = 0
  /\ UNCHANGED host

(* The text stays while the window that accepts typing changes, and between *)
(* two windows there is a time when none does.                              *)
Freeze == host # "none" /\ host' = "none" /\ UNCHANGED <<text, sent>>
Thaw(w) == host = "none" /\ host' = w /\ UNCHANGED <<text, sent>>

Next ==
  \/ \E t \in Texts : Type(t)
  \/ Send
  \/ Freeze
  \/ \E w \in {"main", "satellite"} : Thaw(w)

Spec == Init /\ [][Next]_dvars
=============================================================================
