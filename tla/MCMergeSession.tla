-------------------------- MODULE MCMergeSession --------------------------
(* One text and one side of the same merge. *)
EXTENDS MergeSession
CONSTANTS a, b, none
MCTexts == {a}
MCSides == {b}
MCNoPath == none
=============================================================================
