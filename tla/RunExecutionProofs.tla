------------------------- MODULE RunExecutionProofs -------------------------
(* The safety of RunExecution for every set of runs, tasks and names, and   *)
(* the run counters of the executor's handler.                             *)
EXTENDS RunExecution, FiniteSetTheorems, TLAPS

USE CatalogueAssumption, RequestAssumption, NameAssumption, DocumentAssumption,
    BoundAssumption

\* The types hold before the first request.
LEMMA InitType == Init => TypeOK
BY DEF Init, TypeOK, NoAnswer, Answer, Codes, NoMetrics, Verdicts, Settled, Serving, Live

Counters == [requests : Nat, passes : Nat, failures : Nat, errors : Nat]

\* Counting a result keeps the counters numbers.
LEMMA CountType ==
    ASSUME metrics \in Counters, NEW code, CountResult(code)
    PROVE  metrics' \in Counters
<1>1. CASE metrics' = [metrics EXCEPT !.passes = @ + 1] BY <1>1 DEF Counters
<1>2. CASE metrics' = [metrics EXCEPT !.failures = @ + 1] BY <1>2 DEF Counters
<1>3. CASE metrics' = [metrics EXCEPT !.errors = @ + 1] BY <1>3 DEF Counters
<1> QED BY <1>1, <1>2, <1>3 DEF CountResult

\* The two ways in which a call of the CLI fails by itself.
LEMMA FailureValues == ASSUME NEW r PROVE Failures(r) \subseteq {"failed", "noimage"}
BY DEF Failures

\* The end of a CLI keeps the types.
LEMMA CliGoneType ==
    ASSUME TypeOK, NEW r \in Run, NEW why \in {"failed", "noimage", "killed"}, CliGone(r, why)
    PROVE  TypeOK'
<1>1. pc' \in [Run -> {"new"} \cup Serving \cup Settled]
      BY DEF TypeOK, CliGone, Goto, Serving
<1>2. /\ err' \in [Run -> {"none", "failed", "noimage", "killed"}]
      /\ call' \in [Run -> {"none", "create", "start"}]
      BY DEF TypeOK, CliGone
<1> QED BY <1>1, <1>2 DEF TypeOK, CliGone, envVars

\* So does losing the daemon.
LEMMA LoseDaemonType ==
    ASSUME TypeOK, NEW r \in Run, LoseDaemon(r)
    PROVE  TypeOK'
BY FailureValues, CliGoneType DEF LoseDaemon

\* The states of a run and the answers are closed under the steps that make them.
LEMMA StepType ==
    ASSUME TypeOK, NEW r \in Run, Step(r)
    PROVE  TypeOK'
<1> USE DEF TypeOK, Goto, Return, Answer, Codes, Serving, Settled, Live, Verdicts,
            runVars, boxVars, envVars
<1>1. CASE NotPackaged(r) BY <1>1 DEF NotPackaged
<1>2. CASE ImageUnverified(r) BY <1>2 DEF ImageUnverified
<1>3. CASE FilesRejected(r) BY <1>3 DEF FilesRejected
<1>4. CASE Inspect(r) BY <1>4 DEF Inspect
<1>5. CASE SetupFails(r) BY <1>5 DEF SetupFails
<1>6. CASE OverLimits(r) BY <1>6 DEF OverLimits
<1>7. CASE Prepare(r) BY <1>7 DEF Prepare
<1>8. CASE Launch(r) BY <1>8 DEF Launch
<1>9. CASE LaunchFails(r) BY <1>9 DEF LaunchFails
<1>10. CASE CliReturns(r) BY <1>10, FailureValues DEF CliReturns
<1>11. CASE KillCli(r) BY <1>11, CliGoneType DEF KillCli
<1>12. CASE Cleanup(r) BY <1>12 DEF Cleanup, RemoveByName
<1>13. CASE CleanupUnanswered(r) BY <1>13 DEF CleanupUnanswered
<1>14. CASE Classify(r)
  <2>1. PICK code \in Codes, retryable \in BOOLEAN :
              Return(r, "classify", code, retryable)
        BY <1>14 DEF Classify, Outcome
  <2> QED BY <1>14, <2>1 DEF Classify
<1>15. CASE Reply(r)
  <2>1. metrics' \in Counters
        BY <1>15, CountType DEF Reply, Counters
  <2>2. pc' \in [Run -> {"new"} \cup Serving \cup Settled] /\ work' \in [Run -> BOOLEAN]
        BY <1>15 DEF Reply
  <2> QED BY <1>15, <2>1, <2>2 DEF Reply, Counters
<1> QED BY <1>1, <1>2, <1>3, <1>4, <1>5, <1>6, <1>7, <1>8, <1>9, <1>10,
           <1>11, <1>12, <1>13, <1>14, <1>15 DEF Step

\* So does a refusal of the daemon.
LEMMA RefusalType ==
    ASSUME TypeOK, NEW r \in Run, NEW why \in {"failed", "noimage"}, Refusal(r, why)
    PROVE  TypeOK'
<1>1. pc' \in [Run -> {"new"} \cup Serving \cup Settled]
      BY SMTT(30) DEF TypeOK, Refusal, Serving
<1>2. /\ err' \in [Run -> {"none", "failed", "noimage", "killed"}]
      /\ call' \in [Run -> {"none", "create", "start"}]
      BY DEF TypeOK, Refusal
<1> QED BY <1>1, <1>2 DEF TypeOK, Refusal, envVars

\* So does every step of the daemon.
LEMMA DaemonType ==
    ASSUME TypeOK, NEW r \in Run, Daemon(r)
    PROVE  TypeOK'
<1> USE DEF TypeOK, Serving, Settled, Live, Verdicts, runVars, boxVars, envVars
<1>1. CASE CreateContainer(r) BY <1>1 DEF CreateContainer
<1>2. CASE RefuseImage(r) BY <1>2, RefusalType DEF RefuseImage
<1>3. CASE RefuseName(r) BY <1>3, RefusalType DEF RefuseName
<1>4. CASE StartContainer(r) BY <1>4 DEF StartContainer
<1>5. CASE RefuseStart(r) BY <1>5, RefusalType DEF RefuseStart
<1>6. CASE WriteResults(r) BY <1>6 DEF WriteResults
<1>7. CASE Exit(r) BY <1>7 DEF Exit
<1>8. CASE AutoRemove(r) BY <1>8 DEF AutoRemove
<1>9. CASE LateRemove(r) BY <1>9 DEF LateRemove, RemoveByName
<1> QED BY <1>1, <1>2, <1>3, <1>4, <1>5, <1>6, <1>7, <1>8, <1>9 DEF Daemon

\* So does every step of the environment.
LEMMA EnvironmentType ==
    ASSUME TypeOK, NEW r \in Run, Environment(r)
    PROVE  TypeOK'
<1> USE DEF TypeOK, Goto, Answer, Codes, Serving, Settled, Live, Verdicts,
            runVars, boxVars, envVars
<1>1. CASE Accept(r) BY SMTT(30), <1>1 DEF Accept, Admissible, CountRequest
<1>2. CASE Refuse(r)
  <2>1. metrics' \in Counters
    <3>1. metrics \in Counters /\ CountRequest
          BY <1>2 DEF Refuse, Counters
    <3> QED BY ONLY <3>1 DEF Counters, CountRequest
  <2>2. PICK code \in Codes : answer' = [answer EXCEPT ![r] = Answer(code, FALSE)]
        BY <1>2 DEF Refuse
  <2>3. answer' \in [Run -> [code : Codes, retryable : BOOLEAN]]
        BY <2>2
  <2> QED BY <1>2, <2>1, <2>3 DEF Refuse, Counters
<1>3. CASE LoseDaemon(r) BY <1>3, LoseDaemonType
<1>4. CASE Expire(r) BY <1>4 DEF Expire
<1>5. CASE Disconnect(r) BY <1>5 DEF Disconnect
<1> QED BY <1>1, <1>2, <1>3, <1>4, <1>5 DEF Environment

\* Every step keeps the types.
LEMMA NextType == TypeOK /\ [Next]_vars => TypeOK'
<1> SUFFICES ASSUME TypeOK, [Next]_vars PROVE TypeOK'
    OBVIOUS
<1>1. CASE \E r \in Run : Step(r) \/ Daemon(r) \/ Environment(r)
      BY <1>1, StepType, DaemonType, EnvironmentType
<1>2. CASE \E t \in Transient : PruneImage(t) \/ BuildImage(t)
      BY <1>2 DEF TypeOK, PruneImage, BuildImage, runVars, boxVars
<1>3. CASE Crash
      BY <1>3 DEF TypeOK, Crash, NoAnswer, Answer, NoMetrics, Codes, Settled, Serving
<1>4. CASE UNCHANGED vars
      BY <1>4 DEF TypeOK, vars, runVars, boxVars, envVars
<1> QED BY <1>1, <1>2, <1>3, <1>4 DEF Next, Idle

\* Every variable of the execution of runs keeps its type, in every behaviour.
THEOREM TypeCorrect == Spec => []TypeOK
<1> QED BY InitType, NextType, PTL DEF Spec

\* A step of a run's goroutine keeps the invariant.
LEMMA StepSafety ==
    ASSUME SafetyInv, TypeOK', NEW r \in Run, Step(r)
    PROVE  SafetyInv'
<1> USE DEF SafetyInv, TypeOK, LifeCycle, BeforeLaunch, Attached, Returned,
            Sandbox, Swept, Passed, VerdictFromOwnContainer,
            OnlyAdmissibleReachesDaemon, WorkspaceReclaimed, TimelyResultIsAnswered, Goto, Return,
            Answer, NoAnswer, Serving, Settled, Live, Verdicts,
            runVars, boxVars, envVars
<1>1. CASE NotPackaged(r)
      BY <1>1 DEF NotPackaged
<1>2. CASE ImageUnverified(r)
      BY <1>2 DEF ImageUnverified
<1>3. CASE FilesRejected(r)
      BY <1>3 DEF FilesRejected, ImageVerified
<1>4. CASE Inspect(r)
      BY <1>4 DEF Inspect, ImageVerified
<1>5. CASE SetupFails(r)
      BY <1>5 DEF SetupFails
<1>6. CASE OverLimits(r)
      BY <1>6 DEF OverLimits
<1>7. CASE Prepare(r)
      BY <1>7 DEF Prepare
<1>8. CASE Launch(r)
      BY <1>8 DEF Launch
<1>9. CASE LaunchFails(r)
      BY <1>9 DEF LaunchFails
<1>10. CASE CliReturns(r)
  <2>1. CASE status[r] = "zero"
    <3>1. err' = [err EXCEPT ![r] = "none"]
          BY ONLY <1>10, <2>1 DEF CliReturns
    <3> QED BY <1>10, <2>1, <3>1 DEF CliReturns
  <2>2. CASE status[r] # "zero"
    <3>1. PICK e \in {"failed", "noimage"} : err' = [err EXCEPT ![r] = e]
          BY ONLY <1>10, <2>2, FailureValues DEF CliReturns
    <3> QED BY <1>10, <2>2, <3>1 DEF CliReturns
  <2> QED BY <2>1, <2>2
<1>11. CASE KillCli(r)
      BY <1>11 DEF KillCli, CliGone
<1>12. CASE Cleanup(r)
      BY <1>12 DEF Cleanup, RemoveByName
<1>13. CASE CleanupUnanswered(r)
      BY <1>13 DEF CleanupUnanswered
<1>14. CASE Classify(r)
  <2>1. PICK code \in Codes, retryable \in BOOLEAN :
              /\ Return(r, "classify", code, retryable)
              /\ code \in Verdicts => code = doc[r] /\ err[r] = "none"
              /\ code # "none"
              /\ ctx[r] = "live" /\ err[r] = "none" /\ doc[r] \in Verdicts
                   /\ request[r].task \in Exportable => code = doc[r]
        BY <1>14 DEF Classify, Outcome, Codes
  <2> QED BY <1>14, <2>1 DEF Classify
<1>15. CASE Reply(r)
      BY <1>15 DEF Reply
<1> QED BY <1>1, <1>2, <1>3, <1>4, <1>5, <1>6, <1>7, <1>8, <1>9, <1>10, <1>11, <1>12, <1>13, <1>14, <1>15
       DEF Step


\* A step of the daemon keeps the invariant.
LEMMA DaemonSafety ==
    ASSUME SafetyInv, TypeOK', NEW r \in Run, Daemon(r)
    PROVE  SafetyInv'
<1> USE DEF SafetyInv, TypeOK, LifeCycle, BeforeLaunch, Attached, Returned,
            Sandbox, Swept, Passed, VerdictFromOwnContainer,
            OnlyAdmissibleReachesDaemon, WorkspaceReclaimed, TimelyResultIsAnswered, Goto, Return,
            Answer, NoAnswer, Serving, Settled, Live, Verdicts,
            runVars, boxVars, envVars
<1>1. CASE CreateContainer(r)
      BY <1>1 DEF CreateContainer
<1>2. CASE RefuseImage(r)
  <2>1. CASE pc[r] = "cli" BY <1>2, <2>1 DEF RefuseImage, Refusal
  <2>2. CASE pc[r] # "cli" BY <1>2, <2>2 DEF RefuseImage, Refusal
  <2> QED BY <2>1, <2>2
<1>3. CASE RefuseName(r)
      BY <1>3 DEF RefuseName, Refusal
<1>4. CASE StartContainer(r)
      BY <1>4 DEF StartContainer
<1>5. CASE RefuseStart(r)
  <2>1. CASE pc[r] = "cli" BY <1>5, <2>1 DEF RefuseStart, Refusal
  <2>2. CASE pc[r] # "cli" BY <1>5, <2>2 DEF RefuseStart, Refusal
  <2> QED BY <2>1, <2>2
<1>6. CASE WriteResults(r)
      BY <1>6 DEF WriteResults
<1>7. CASE Exit(r)
      BY <1>7 DEF Exit
<1>8. CASE AutoRemove(r)
      BY <1>8 DEF AutoRemove
<1>9. CASE LateRemove(r)
      BY <1>9 DEF LateRemove, RemoveByName
<1> QED BY <1>1, <1>2, <1>3, <1>4, <1>5, <1>6, <1>7, <1>8, <1>9
       DEF Daemon


\* A step of the environment keeps the invariant.
LEMMA EnvironmentSafety ==
    ASSUME SafetyInv, TypeOK', NEW r \in Run, Environment(r)
    PROVE  SafetyInv'
<1> USE DEF SafetyInv, TypeOK, LifeCycle, BeforeLaunch, Attached, Returned,
            Sandbox, Swept, Passed, VerdictFromOwnContainer,
            OnlyAdmissibleReachesDaemon, WorkspaceReclaimed, TimelyResultIsAnswered, Goto, Return,
            Answer, NoAnswer, Serving, Settled, Live, Verdicts,
            runVars, boxVars, envVars
<1>1. CASE Accept(r)
      BY <1>1 DEF Accept, Admissible
<1>2. CASE Refuse(r)
      BY <1>2 DEF Refuse, Admissible, Refused
<1>3. CASE LoseDaemon(r)
      BY <1>3, FailureValues DEF LoseDaemon, CliGone
<1>4. CASE Expire(r)
      BY <1>4 DEF Expire
<1>5. CASE Disconnect(r)
      BY <1>5 DEF Disconnect
<1> QED BY <1>1, <1>2, <1>3, <1>4, <1>5
       DEF Environment

\* The invariant holds before the first request.
LEMMA InitSafety == Init => SafetyInv
<1> SUFFICES ASSUME Init PROVE SafetyInv
    OBVIOUS
<1>1. TypeOK
      BY InitType
<1>2. LifeCycle
      BY DEF Init, LifeCycle, BeforeLaunch, Attached, Returned, Sandbox, Swept, Passed
<1>3. /\ VerdictFromOwnContainer /\ OnlyAdmissibleReachesDaemon
      /\ WorkspaceReclaimed /\ TimelyResultIsAnswered
      BY DEF Init, VerdictFromOwnContainer, OnlyAdmissibleReachesDaemon,
             WorkspaceReclaimed, TimelyResultIsAnswered, NoAnswer, Answer, Verdicts
<1> QED BY <1>1, <1>2, <1>3 DEF SafetyInv

\* Every step keeps the invariant.
LEMMA NextSafety == SafetyInv /\ [Next]_vars => SafetyInv'
<1> SUFFICES ASSUME SafetyInv, [Next]_vars PROVE SafetyInv'
    OBVIOUS
<1>0. TypeOK'
      BY NextType DEF SafetyInv
<1> USE DEF SafetyInv, LifeCycle, BeforeLaunch, Attached, Returned, Sandbox,
            Swept, Passed, VerdictFromOwnContainer, OnlyAdmissibleReachesDaemon,
            WorkspaceReclaimed, TimelyResultIsAnswered, NoAnswer, Answer
<1>1. CASE \E r \in Run : Step(r) \/ Daemon(r) \/ Environment(r)
      BY <1>0, <1>1, StepSafety, DaemonSafety, EnvironmentSafety
<1>2. CASE \E t \in Transient : PruneImage(t) \/ BuildImage(t)
      BY <1>0, <1>2 DEF PruneImage, BuildImage, runVars, boxVars
<1>3. CASE Crash
      BY <1>0, <1>3 DEF Crash, TypeOK, Settled, Serving, Verdicts, Live
<1>4. CASE UNCHANGED vars
      BY <1>0, <1>4 DEF vars, runVars, boxVars, envVars
<1> QED BY <1>1, <1>2, <1>3, <1>4 DEF Next, Idle

\* The inductive invariant holds; the theorems below read off its parts.
THEOREM Safety == Spec => []SafetyInv
<1> QED BY InitSafety, NextSafety, PTL DEF Spec

\* A graded run repeats its own container's document, however many runs share
\* a container name, are killed or lose the daemon.
THEOREM VerdictsAreOwn == Spec => []VerdictFromOwnContainer
<1>1. SafetyInv => VerdictFromOwnContainer
      BY DEF SafetyInv
<1> QED BY <1>1, Safety, PTL

\* The policy of the handler and the executor holds at the daemon.
THEOREM DaemonGuarded == Spec => []OnlyAdmissibleReachesDaemon
<1>1. SafetyInv => OnlyAdmissibleReachesDaemon
      BY DEF SafetyInv
<1> QED BY <1>1, Safety, PTL

\* An answered cleanup leaves nothing running, now or later.
THEOREM CleanupIsFinal == Spec => []CleanupStopsContainer
<1>1. SafetyInv => CleanupStopsContainer
      BY DEF SafetyInv, LifeCycle, Swept, CleanupStopsContainer, Live
<1> QED BY <1>1, Safety, PTL

\* A workspace is left behind only after an unanswered cleanup.
THEOREM WorkspacesReclaimed == Spec => []WorkspaceReclaimed
<1>1. SafetyInv => WorkspaceReclaimed
      BY DEF SafetyInv
<1> QED BY <1>1, Safety, PTL

\* A result that came back well and in time is what the client is told, whatever
\* becomes of the cleanup.
THEOREM TimelyResultsAreAnswered == Spec => []TimelyResultIsAnswered
<1>1. SafetyInv => TimelyResultIsAnswered
      BY DEF SafetyInv
<1> QED BY <1>1, Safety, PTL

----------------------------------------------------------------------------
(* Removal by name and removal by identity.                                *)

\* `docker rm -f` leaves a run alone that shares its name with no other.
LEMMA RemoveOwn ==
    ASSUME SafetyInv, NEW r \in Run, NEW q \in Run, RemoveByName(r), q # r, Alone(q)
    PROVE  box'[q] = box[q]
BY DEF SafetyInv, TypeOK, Alone, RemoveByName

KeepsAttached ==
    \A r \in Run : pc[r] = "cli" /\ box[r] \in {"created", "running"} /\ Alone(r) =>
        box'[r] # "gone"

\* No step takes the container of a run that is alone with its name from the CLI attached to it.
LEMMA StepKeepsAttached ==
    ASSUME SafetyInv, [Next]_vars
    PROVE  KeepsAttached
<1> SUFFICES ASSUME NEW q \in Run, pc[q] = "cli", box[q] \in {"created", "running"},
                    Alone(q)
             PROVE  box'[q] # "gone"
    BY DEF KeepsAttached
<1> USE DEF SafetyInv, TypeOK
<1>1. ASSUME NEW r \in Run, Cleanup(r) \/ LateRemove(r)
      PROVE  box'[q] # "gone"
  <2>1. q # r
        BY <1>1 DEF Cleanup, LateRemove, Goto, LifeCycle, Attached
  <2> QED BY <1>1, <2>1, RemoveOwn DEF Cleanup, LateRemove
<1>2. ASSUME NEW r \in Run, Step(r), ~Cleanup(r)
      PROVE  box' = box
      BY <1>2 DEF Step, NotPackaged, ImageUnverified, FilesRejected, Inspect,
                  SetupFails, OverLimits, Prepare, Launch, LaunchFails, CliReturns,
                  KillCli, CliGone, CleanupUnanswered, Classify, Reply, boxVars
<1>3. ASSUME NEW r \in Run, Daemon(r), ~LateRemove(r)
      PROVE  box'[q] # "gone"
      BY <1>3 DEF Daemon, CreateContainer, RefuseImage, RefuseName, Refusal,
                  StartContainer, RefuseStart, WriteResults, Exit, AutoRemove
<1>4. ASSUME NEW r \in Run, Environment(r)
      PROVE  box' = box
      BY <1>4 DEF Environment, Accept, Refuse, LoseDaemon, CliGone, Expire,
                  Disconnect, boxVars
<1>5. CASE (\E t \in Transient : PruneImage(t) \/ BuildImage(t)) \/ Crash
           \/ UNCHANGED vars
      BY <1>5 DEF PruneImage, BuildImage, Crash, vars, boxVars
<1> QED BY <1>1, <1>2, <1>3, <1>4, <1>5 DEF Next, Idle

\* No run whose container name no other request has loses its container to a
\* cleanup while its CLI is attached.
THEOREM OwnNameKeepsContainer == Spec => AttachedContainerKept
<1>1. SafetyInv /\ [Next]_vars => KeepsAttached
      BY StepKeepsAttached
<1>2. KeepsAttached =>
        [\A r \in Run : pc[r] = "cli" /\ box[r] \in {"created", "running"} /\ Alone(r) =>
            box'[r] # "gone"]_vars
      BY DEF KeepsAttached
<1> QED BY <1>1, <1>2, Safety, PTL DEF Spec, AttachedContainerKept

----------------------------------------------------------------------------
(* The run counters: each is the size of a set of the requests of the      *)
(* current process.                                                        *)

Begun == {r \in Run : pc[r] \in Serving \cup {"done"}}
Answered(S) == {r \in Run : pc[r] = "done" /\ answer[r].code \in S /\ Admissible(request[r])}

\* Only what the gate admits is served, so that what Reply counts is admitted.
Admitted == \A r \in Run : pc[r] \in Serving => Admissible(request[r])

CountersInv == TypeOK /\ Admitted /\ MetricsMatchAnswers

\* The counters are right when each is the size of its set.
LEMMA CountersAsSets ==
    MetricsMatchAnswers <=>
        /\ metrics.requests = Cardinality(Begun)
        /\ metrics.passes = Cardinality(Answered({"pass"}))
        /\ metrics.failures = Cardinality(Answered({"fail", "error"}))
        /\ metrics.errors = Cardinality(Answered(Codes \ Verdicts))
BY DEF MetricsMatchAnswers, Begun, Answered

\* The same of the next state.
LEMMA CountersAsSetsNext ==
    MetricsMatchAnswers' <=>
        /\ metrics'.requests = Cardinality(Begun')
        /\ metrics'.passes = Cardinality(Answered({"pass"})')
        /\ metrics'.failures = Cardinality(Answered({"fail", "error"})')
        /\ metrics'.errors = Cardinality(Answered(Codes \ Verdicts)')
BY DEF MetricsMatchAnswers, Begun, Answered

\* Any set of runs is finite.
LEMMA FiniteRuns == \A S \in SUBSET Run : IsFiniteSet(S) /\ Cardinality(S) \in Nat
<1> TAKE S \in SUBSET Run
<1>1. IsFiniteSet(S)
  BY BoundAssumption, FS_Subset
<1> QED
  BY <1>1, FS_CardinalityType

\* A run more makes a set larger by one.
LEMMA OneMore ==
    ASSUME NEW S \in SUBSET Run, NEW r \in Run \ S
    PROVE  Cardinality(S \cup {r}) = Cardinality(S) + 1
BY FiniteRuns, FS_AddElement

\* The counters are right before the first request.
LEMMA InitCounters == Init => CountersInv
<1> SUFFICES ASSUME Init PROVE CountersInv
  OBVIOUS
<1>1. Begun = {} /\ \A S : Answered(S) = {}
  BY DEF Init, Begun, Answered, Serving
<1>2. Cardinality(Begun) = 0 /\ \A S : Cardinality(Answered(S)) = 0
  BY <1>1, FS_EmptySet
<1>3. MetricsMatchAnswers
  BY <1>2, CountersAsSets DEF Init, NoMetrics
<1>4. Admitted
  BY DEF Init, Admitted, Serving
<1> QED
  BY <1>3, <1>4, InitType DEF CountersInv

----------------------------------------------------------------------------
\* A step that neither begins nor answers a request leaves the counters true.
Quiet ==
    /\ UNCHANGED <<bound, request, metrics>>
    /\ \A r \in Run : /\ pc'[r] \in Serving <=> pc[r] \in Serving
                      /\ pc'[r] = "done" <=> pc[r] = "done"
                      /\ pc[r] = "done" => answer'[r] = answer[r]

\* A step that neither begins nor answers a request keeps the counters right.
LEMMA QuietKeeps ==
    ASSUME CountersInv, TypeOK', Quiet
    PROVE  CountersInv'
<1>1. /\ Begun' = Begun
      /\ Answered({"pass"})' = Answered({"pass"})
      /\ Answered({"fail", "error"})' = Answered({"fail", "error"})
      /\ Answered(Codes \ Verdicts)' = Answered(Codes \ Verdicts)
  BY DEF Quiet, Begun, Answered, Admissible
<1>2. MetricsMatchAnswers'
  BY <1>1, CountersAsSets, CountersAsSetsNext DEF Quiet, CountersInv
<1>3. Admitted'
  BY DEF CountersInv, Admitted, Quiet, Admissible
<1> QED
  BY <1>2, <1>3 DEF CountersInv

\* Which steps those are.
LEMMA QuietSteps ==
    ASSUME CountersInv, NEW r \in Run,
           \/ Step(r) /\ ~Reply(r)
           \/ Daemon(r)
           \/ LoseDaemon(r) \/ Expire(r) \/ Disconnect(r)
    PROVE  Quiet
<1> USE DEF CountersInv, TypeOK, Quiet, Goto, Return, Serving, runVars, boxVars, envVars
<1>1. CASE NotPackaged(r) \/ ImageUnverified(r) \/ FilesRejected(r) \/ Inspect(r)
  <2>1. CASE NotPackaged(r)
    BY <2>1 DEF NotPackaged
  <2>2. CASE ImageUnverified(r)
    BY <2>2 DEF ImageUnverified
  <2>3. CASE FilesRejected(r)
    BY <2>3 DEF FilesRejected
  <2>4. CASE Inspect(r)
    BY <2>4 DEF Inspect
  <2> QED
    BY <1>1, <2>1, <2>2, <2>3, <2>4
<1>2. CASE SetupFails(r) \/ OverLimits(r) \/ Prepare(r) \/ Launch(r) \/ LaunchFails(r)
  <2>1. CASE SetupFails(r)
    BY <2>1 DEF SetupFails
  <2>2. CASE OverLimits(r)
    BY <2>2 DEF OverLimits
  <2>3. CASE Prepare(r) \/ Launch(r) \/ LaunchFails(r)
    BY <2>3 DEF Prepare, Launch, LaunchFails
  <2> QED
    BY <1>2, <2>1, <2>2, <2>3
<1>3. CASE CliReturns(r) \/ KillCli(r) \/ LoseDaemon(r)
  BY <1>3 DEF CliReturns, KillCli, LoseDaemon, CliGone
<1>4. CASE Cleanup(r) \/ CleanupUnanswered(r)
  BY <1>4 DEF Cleanup, CleanupUnanswered
<1>5. CASE Classify(r)
  <2>1. PICK code, retryable : Return(r, "classify", code, retryable)
    BY <1>5 DEF Classify, Outcome
  <2> QED
    BY <1>5, <2>1 DEF Classify
<1>6. CASE RefuseImage(r) \/ RefuseName(r) \/ RefuseStart(r)
  BY <1>6 DEF RefuseImage, RefuseName, RefuseStart, Refusal
<1>7. CASE Daemon(r) /\ ~(RefuseImage(r) \/ RefuseName(r) \/ RefuseStart(r))
  BY <1>7 DEF Daemon, CreateContainer, StartContainer, WriteResults, Exit, AutoRemove, LateRemove
<1>8. CASE Expire(r) \/ Disconnect(r)
  BY <1>8 DEF Expire, Disconnect
<1> QED
  BY <1>1, <1>2, <1>3, <1>4, <1>5, <1>6, <1>7, <1>8 DEF Step, Daemon

\* Accept and Refuse begin a request; one that is refused is not admissible.
LEMMA BeginCounts ==
    ASSUME CountersInv, TypeOK', NEW r \in Run, Accept(r) \/ Refuse(r)
    PROVE  CountersInv'
<1> USE DEF CountersInv, TypeOK, Goto, Serving, runVars, boxVars, envVars
<1>1. /\ pc[r] = "new" /\ pc'[r] \in {"inspect", "done"}
      /\ \A q \in Run \ {r} : pc'[q] = pc[q] /\ answer'[q] = answer[q]
      /\ UNCHANGED <<bound, request>> /\ CountRequest
      /\ pc'[r] = "inspect" <=> Admissible(request[r])
  <2>1. CASE Accept(r)
    BY <2>1 DEF Accept
  <2>2. CASE Refuse(r)
    <3>1. PICK code : /\ Refused(request[r], code)
                      /\ answer' = [answer EXCEPT ![r] = Answer(code, FALSE)]
      BY <2>2 DEF Refuse
    <3>2. ~Admissible(request[r])
      BY <3>1, CatalogueAssumption DEF Refused, Admissible
    <3> QED
      BY <2>2, <3>1, <3>2 DEF Refuse
  <2> QED
    BY <2>1, <2>2
<1>2. Begun' = Begun \cup {r} /\ r \notin Begun /\ Begun \subseteq Run
  BY <1>1 DEF Begun
<1>3. /\ Answered({"pass"})' = Answered({"pass"})
      /\ Answered({"fail", "error"})' = Answered({"fail", "error"})
      /\ Answered(Codes \ Verdicts)' = Answered(Codes \ Verdicts)
  <2>1. \A q \in Run : Admissible(request[q]) =>
          /\ pc'[q] = "done" <=> pc[q] = "done"
          /\ pc[q] = "done" => answer'[q] = answer[q]
    BY <1>1
  <2>2. \A q \in Run : Admissible(request[q])' <=> Admissible(request[q])
    BY <1>1 DEF Admissible
  <2> QED
    BY <2>1, <2>2 DEF Answered
<1>4. /\ metrics'.requests = metrics.requests + 1
      /\ metrics'.passes = metrics.passes /\ metrics'.failures = metrics.failures
      /\ metrics'.errors = metrics.errors
  <2>1. metrics \in Counters /\ CountRequest
    BY <1>1 DEF Counters
  <2> QED
    BY ONLY <2>1 DEF Counters, CountRequest
<1>5. Cardinality(Begun') = Cardinality(Begun) + 1
  BY <1>2, OneMore
<1>6. MetricsMatchAnswers'
  BY <1>3, <1>4, <1>5, CountersAsSets, CountersAsSetsNext
<1>7. Admitted'
  BY <1>1 DEF Admitted, Admissible
<1> QED
  BY <1>6, <1>7

\* Reply counts the answer of an admitted request under its own kind.
LEMMA ReplyCounts ==
    ASSUME CountersInv, TypeOK', NEW r \in Run, Reply(r)
    PROVE  CountersInv'
<1> USE DEF CountersInv, TypeOK, Goto, Serving, runVars, boxVars, envVars
<1>1. /\ pc[r] = "reply" /\ pc' = [pc EXCEPT ![r] = "done"]
      /\ UNCHANGED <<bound, request, answer>> /\ CountResult(answer[r].code)
      /\ Admissible(request[r]) /\ answer[r].code \in Codes
  BY DEF Reply, Admitted
<1>2. Begun' = Begun
  BY <1>1 DEF Begun
<1> DEFINE In(S) == answer[r].code \in S
           Then(S) == {q \in Run : /\ pc'[q] = "done" /\ answer[q].code \in S
                                   /\ Admissible(request[q])}
<1>3. ASSUME NEW S
      PROVE  /\ Answered(S) \in SUBSET Run /\ r \notin Answered(S)
             /\ In(S) => Then(S) = Answered(S) \cup {r}
             /\ ~In(S) => Then(S) = Answered(S)
  BY <1>1 DEF Answered
<1> HIDE DEF In, Then
<1>4. ASSUME NEW S
      PROVE  Cardinality(Then(S)) = Cardinality(Answered(S)) + (IF In(S) THEN 1 ELSE 0)
  <2>1. /\ Cardinality(Answered(S)) \in Nat
        /\ Cardinality(Answered(S) \cup {r}) = Cardinality(Answered(S)) + 1
    BY <1>3, OneMore, FiniteRuns
  <2>2. CASE In(S)
    BY <1>3, <2>1, <2>2
  <2>3. CASE ~In(S)
    BY <1>3, <2>1, <2>3
  <2> QED
    BY <2>2, <2>3
<1>5. /\ Answered({"pass"})' = Then({"pass"})
      /\ Answered({"fail", "error"})' = Then({"fail", "error"})
      /\ Answered(Codes \ Verdicts)' = Then(Codes \ Verdicts)
  BY <1>1 DEF Answered, Admissible, Then
<1>6. /\ metrics'.requests = metrics.requests
      /\ metrics'.passes = metrics.passes + (IF In({"pass"}) THEN 1 ELSE 0)
      /\ metrics'.failures = metrics.failures + (IF In({"fail", "error"}) THEN 1 ELSE 0)
      /\ metrics'.errors = metrics.errors + (IF In(Codes \ Verdicts) THEN 1 ELSE 0)
  BY <1>1 DEF CountResult, Verdicts, In
<1>7. /\ Cardinality(Answered({"pass"})') =
           Cardinality(Answered({"pass"})) + (IF In({"pass"}) THEN 1 ELSE 0)
      /\ Cardinality(Answered({"fail", "error"})') =
           Cardinality(Answered({"fail", "error"})) + (IF In({"fail", "error"}) THEN 1 ELSE 0)
      /\ Cardinality(Answered(Codes \ Verdicts)') =
           Cardinality(Answered(Codes \ Verdicts)) + (IF In(Codes \ Verdicts) THEN 1 ELSE 0)
  BY <1>4, <1>5
<1>8. MetricsMatchAnswers'
  BY <1>2, <1>6, <1>7, CountersAsSets, CountersAsSetsNext
<1>9. Admitted'
  BY <1>1 DEF Admitted, Admissible
<1> QED
  BY <1>8, <1>9

\* After a crash the counters and the sets are empty.
LEMMA CrashClears ==
    ASSUME CountersInv, TypeOK', Crash
    PROVE  CountersInv'
<1>1. \A r \in Run : pc'[r] \in {"new", "past"}
  BY DEF Crash
<1>2. /\ Begun' = {} /\ Answered({"pass"})' = {} /\ Answered({"fail", "error"})' = {}
      /\ Answered(Codes \ Verdicts)' = {}
  BY <1>1 DEF Begun, Answered, Serving
<1>3. metrics' = NoMetrics
  BY DEF Crash
<1>4. MetricsMatchAnswers'
  BY <1>2, <1>3, FS_EmptySet, CountersAsSetsNext DEF NoMetrics
<1>5. Admitted'
  BY <1>1 DEF Admitted, Serving
<1> QED
  BY <1>4, <1>5 DEF CountersInv

\* Every step keeps the counters right.
LEMMA NextCounters == CountersInv /\ [Next]_vars => CountersInv'
<1> SUFFICES ASSUME CountersInv, [Next]_vars PROVE CountersInv'
  OBVIOUS
<1>1. TypeOK'
  BY NextType DEF CountersInv
<1>2. ASSUME NEW r \in Run, Step(r) \/ Daemon(r) \/ Environment(r)
      PROVE  CountersInv'
  <2>1. CASE Reply(r)
    BY <1>1, <2>1, ReplyCounts
  <2>2. CASE Accept(r) \/ Refuse(r)
    BY <1>1, <2>2, BeginCounts
  <2>3. CASE ~Reply(r) /\ ~Accept(r) /\ ~Refuse(r)
    <3>1. Quiet
      BY <1>2, <2>3, QuietSteps DEF Environment
    <3> QED
      BY <1>1, <3>1, QuietKeeps
  <2> QED
    BY <2>1, <2>2, <2>3
<1>3. CASE (\E t \in Transient : PruneImage(t) \/ BuildImage(t)) \/ UNCHANGED vars
  <2>1. Quiet
    BY <1>3 DEF PruneImage, BuildImage, vars, runVars, envVars, Quiet
  <2> QED
    BY <1>1, <2>1, QuietKeeps
<1>4. CASE Crash
  BY <1>1, <1>4, CrashClears
<1> QED
  BY <1>2, <1>3, <1>4 DEF Next, Idle

\* The counters of a process are those of the answers it has given.
THEOREM CountersMatch == Spec => []MetricsMatchAnswers
<1>1. CountersInv => MetricsMatchAnswers
  BY DEF CountersInv
<1> QED
  BY <1>1, InitCounters, NextCounters, PTL DEF Spec

=============================================================================
