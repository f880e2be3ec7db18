--------------------------- MODULE MCGolemWindow ---------------------------
(* One window opened and re-docked, or two, with every loss and timeout. *)
EXTENDS GolemWindow
=============================================================================
