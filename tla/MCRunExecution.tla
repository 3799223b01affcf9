--------------------------- MODULE MCRunExecution ---------------------------
(* Values of the constants of RunExecution for TLC. *)
EXTENDS RunExecution, TLC

CONSTANTS r1, r2                             \* runs
CONSTANTS good, unknown, declared, bare, tagged, slow, unsafe  \* tasks, by what is wrong

OneRun == {r1}
TwoRuns == {r1, r2}

OneTask == {good}
EveryTask == {good, unknown, declared, bare, tagged, slow, unsafe}

KnownTasks == Task \ {unknown}
ServableTasks == KnownTasks \ {declared}
PackagedTasks == KnownTasks \ {bare}
PinnedTasks == KnownTasks \ {tagged}
InLimitsTasks == KnownTasks \ {slow}
ExportableTasks == KnownTasks \ {unsafe}

NoTask == {}
SomeTasks == {good, slow}

GoodRequest(c) == [wellFormed |-> TRUE, task |-> good, editable |-> TRUE, correlation |-> c]

\* One request of any kind; two good ones with correlation ids of their own (one
\* that is blank in the body gets one); two with the same: a retry, or two clients.
AnyRequest == [Run -> RequestType]
OwnCorrelations == [r \in Run |-> GoodRequest(r)]
OneCorrelation == [r \in Run |-> GoodRequest(good)]
OwnRequests == {OwnCorrelations}
SameRequests == {OneCorrelation}
OwnOrSameRequests == {OwnCorrelations, OneCorrelation}

\* Ids that safeToken leaves apart.
Correlations == Run \cup {good}
NamedByCorrelation == [p \in Task \X Correlation |-> p[2]]

AnyDocument == Verdicts \cup {"bad"}
SomeDocument == {"pass", "error"}

\* The restarts of interest: one run before, and the client's retry after, over
\* what the life before left behind under the same name.
RestartBetweenRetries ==
    \/ crashes = 0
    \/ /\ request = OneCorrelation
       /\ Cardinality({r \in Run : pc[r] = "past"}) = 1

RunSymmetry == Permutations(Run)
=============================================================================
