---------------------------- MODULE MCRunExecutor ----------------------------
\* Instances of RunExecutor for TLC: the profiles and plans of each run.
EXTENDS RunExecutor, TLC

CONSTANTS build, all, ci

\* No compound profile.
PlanNone == [c \in {} |-> <<>>]
\* A compound profile of one step.
PlanOnce == (all :> <<build>>)
\* Two compound profiles that share a step, one of which lists it twice.
PlanShared == (all :> <<build, build>>) @@ (ci :> <<build>>)

\* Ids consumed by ordinary launches, the refused ones included.
OrdinaryIds == {r \in 1..nextRunSeq :
  coord[r] = "none" /\ \A c \in 1..r : coord[c] # "none" => r \notin StepsOf(c)}

\* Bound on them, to leave room for compound runs.
TwoOrdinary == Cardinality(OrdinaryIds) <= 2
=============================================================================
