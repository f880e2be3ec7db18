--------------------------- MODULE MCRunWorkspace ---------------------------
\* A small instance of RunWorkspace: a single profile, and a compound of it.
EXTENDS RunWorkspace, TLC

CONSTANTS build, comp

PlanOne == comp :> <<build>>
\* Bound: the record of one run is appended; two appends share nothing.
OneAppend == Cardinality({r \in Ids : record[r].pc # "none"}) <= 1
RootSymmetry == Permutations(Roots)
=============================================================================
