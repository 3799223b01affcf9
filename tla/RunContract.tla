----------------------------- MODULE RunContract -----------------------------
(***************************************************************************)
(* What POST /v1/runs promises, with no docker CLI, daemon or cleanup in   *)
(* it: a request is answered at most once and for good; its harness starts *)
(* at most once, reports at most once and ends at most once; and a verdict *)
(* is the report of a harness that ended well.  RunExecution implements it *)
(* whatever the container names are.                                       *)
(***************************************************************************)
CONSTANTS Run, Verdict

VARIABLES
    stage,     \* "idle", "open" or "closed"
    harness,   \* "unstarted", "running", "succeeded" or "stopped"
    report,    \* "none", "bad" or the verdict the harness wrote
    reply      \* "none", "failure" or the verdict answered

vars == <<stage, harness, report, reply>>

Init ==
    /\ stage = [r \in Run |-> "idle"]
    /\ harness = [r \in Run |-> "unstarted"]
    /\ report = [r \in Run |-> "none"]
    /\ reply = [r \in Run |-> "none"]

Open(r) ==
    /\ stage[r] = "idle"
    /\ stage' = [stage EXCEPT ![r] = "open"]
    /\ UNCHANGED <<harness, report, reply>>

\* A request may fail at any time before its answer, at the gate too.
Decline(r) ==
    /\ stage[r] # "closed"
    /\ stage' = [stage EXCEPT ![r] = "closed"]
    /\ reply' = [reply EXCEPT ![r] = "failure"]
    /\ UNCHANGED <<harness, report>>

Start(r) ==
    /\ stage[r] # "idle"
    /\ harness[r] = "unstarted"
    /\ harness' = [harness EXCEPT ![r] = "running"]
    /\ UNCHANGED <<stage, report, reply>>

Report(r, d) ==
    /\ harness[r] = "running"
    /\ report[r] = "none"
    /\ report' = [report EXCEPT ![r] = d]
    /\ UNCHANGED <<stage, harness, reply>>

Succeed(r) ==
    /\ harness[r] = "running"
    /\ harness' = [harness EXCEPT ![r] = "succeeded"]
    /\ UNCHANGED <<stage, report, reply>>

\* Running harnesses stop without success, of their own or by force.
Stop(S) ==
    /\ \A r \in S : harness[r] = "running"
    /\ harness' = [r \in Run |-> IF r \in S THEN "stopped" ELSE harness[r]]
    /\ UNCHANGED <<stage, report, reply>>

Grade(r) ==
    /\ stage[r] = "open"
    /\ harness[r] = "succeeded"
    /\ report[r] \in Verdict
    /\ stage' = [stage EXCEPT ![r] = "closed"]
    /\ reply' = [reply EXCEPT ![r] = report[r]]
    /\ UNCHANGED <<harness, report>>

\* The process ends: what it was serving is never answered.
Abandon ==
    /\ stage' = [r \in Run |-> IF stage[r] = "open" THEN "closed" ELSE stage[r]]
    /\ UNCHANGED <<harness, report, reply>>

Next ==
    \/ \E r \in Run : Open(r) \/ Decline(r) \/ Start(r) \/ Succeed(r) \/ Grade(r)
    \/ \E r \in Run, d \in Verdict \cup {"bad"} : Report(r, d)
    \/ \E S \in SUBSET Run : Stop(S)
    \/ Abandon

Spec == Init /\ [][Next]_vars
=============================================================================
