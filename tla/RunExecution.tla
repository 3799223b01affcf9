---------------------------- MODULE RunExecution ----------------------------
(***************************************************************************)
(* One POST /v1/runs request from the HTTP handler (httpapi/server.go,     *)
(* `runs`) through DockerExecutor.Run (engine/docker_executor.go) to the   *)
(* Docker daemon and back.  Each run is a goroutine of its own; it spawns  *)
(* a `docker run` CLI process, and the daemon works on that CLI's requests *)
(* concurrently with it.  Killing the CLI does not recall a request that   *)
(* the daemon has already received, and `docker rm -f` addresses a         *)
(* container by name and not by identity: these two facts are what makes   *)
(* the cleanup of a run worth checking.                                    *)
(***************************************************************************)
EXTENDS Naturals, FiniteSets

CONSTANTS
    Run,            \* the POST /v1/runs requests; a client's retry is another run
    Batch,          \* the bodies that may come together, by run, see RequestType
    Task,           \* the task revisions a request may name
    Correlation,    \* correlation ids; a blank one is replaced by a fresh id
    Known,          \* tasks in the catalogue
    Servable,       \* ... that are released, runnable and of availability "runnable"
    Packaged,       \* ... with a check command and editable files
    Pinned,         \* ... whose image is an immutable @sha256 reference
    InLimits,       \* ... whose timeout is at most 120 s
    Exportable,     \* ... whose artifact paths are safe
    Transient,      \* ... whose image may be pruned and built while the runtime runs
    Quoting,        \* ... whose harness may print the words "no such image"
    Name,           \* docker container names
    NameOf,         \* dockerContainerName: many ids are spelled alike by safeToken
    Document,       \* what a harness may leave in results.json
    MaxCrashes      \* bound on the restarts of the runtime process

Verdicts == {"pass", "fail", "error"}

RequestType ==
    [wellFormed : BOOLEAN, task : Task, editable : BOOLEAN, correlation : Correlation]

ASSUME CatalogueAssumption ==
    /\ Known \subseteq Task
    /\ Servable \subseteq Known
    /\ Transient \subseteq Task /\ Quoting \subseteq Task
ASSUME RequestAssumption == Batch \subseteq [Run -> RequestType]
ASSUME NameAssumption == NameOf \in [Task \X Correlation -> Name]
ASSUME DocumentAssumption == Document \subseteq Verdicts \cup {"bad"}
ASSUME BoundAssumption == MaxCrashes \in Nat /\ IsFiniteSet(Run)

VARIABLES
    bound,     \* Catalogue.ReleaseBound(): the runtime has a release manifest
    pc,        \* where the run's goroutine is
    request,   \* the decoded body of each run
    ctx,       \* its context: "live", or why it is done: "expired", "cancelled"
    work,      \* its disposable workspace directory exists
    call,      \* the request of its `docker run` CLI the daemon has yet to answer
    box,       \* the container created for it
    doc,       \* the results.json its harness wrote
    status,    \* how its container ended: exit status "zero" or "nonzero"
    err,       \* what command.Run() of its CLI returned
    sweep,     \* an unanswered `docker rm -f` of this run that may still take effect
    acked,     \* history: the daemon answered its `docker rm -f`; the code drops this
    answer,    \* the response of the run
    metrics,   \* the run counters of the current process (runtimeMetrics)
    images,    \* tasks whose image is on the docker host
    crashes    \* restarts so far

runVars == <<ctx, work, err, acked, answer>>
boxVars == <<call, box, doc, status, sweep>>
envVars == <<bound, request, images, crashes>>
vars == <<pc, runVars, boxVars, envVars, metrics>>

----------------------------------------------------------------------------
\* The goroutine of a run between admission and response.
Serving == {"inspect", "prepare", "launch", "cli", "cleanup", "classify", "reply"}
Settled == {"done", "past"}
Live == {"created", "running", "exited"}     \* container states that hold a name

Codes == Verdicts \cup
    {"none", "invalid_request", "question_release_not_bound", "unknown_task",
     "runtime_not_ready", "task_not_packaged", "sandbox_unavailable",
     "sandbox_setup_failed", "invalid_task_limits", "timeout",
     "harness_failed", "runner_protocol"}

Answer(code, retryable) == [code |-> code, retryable |-> retryable]
NoAnswer == Answer("none", FALSE)

ContainerName(r) == NameOf[<<request[r].task, request[r].correlation>>]

TypeOK ==
    /\ bound \in BOOLEAN
    /\ pc \in [Run -> {"new"} \cup Serving \cup Settled]
    /\ request \in Batch
    /\ ctx \in [Run -> {"live", "expired", "cancelled"}]
    /\ work \in [Run -> BOOLEAN]
    /\ call \in [Run -> {"none", "create", "start"}]
    /\ box \in [Run -> {"none", "gone"} \cup Live]
    /\ doc \in [Run -> {"none", "bad"} \cup Verdicts]
    /\ status \in [Run -> {"none", "zero", "nonzero"}]
    /\ err \in [Run -> {"none", "failed", "noimage", "killed"}]
    /\ sweep \in [Run -> BOOLEAN]
    /\ acked \in [Run -> BOOLEAN]
    /\ answer \in [Run -> [code : Codes, retryable : BOOLEAN]]
    /\ metrics \in [requests : Nat, passes : Nat, failures : Nat, errors : Nat]
    /\ images \subseteq Task
    /\ crashes \in 0..MaxCrashes

NoMetrics == [requests |-> 0, passes |-> 0, failures |-> 0, errors |-> 0]

Init ==
    /\ bound \in BOOLEAN
    /\ pc = [r \in Run |-> "new"]
    /\ request \in Batch
    /\ ctx = [r \in Run |-> "live"]
    /\ work = [r \in Run |-> FALSE]
    /\ call = [r \in Run |-> "none"]
    /\ box = [r \in Run |-> "none"]
    /\ doc = [r \in Run |-> "none"]
    /\ status = [r \in Run |-> "none"]
    /\ err = [r \in Run |-> "none"]
    /\ sweep = [r \in Run |-> FALSE]
    /\ acked = [r \in Run |-> FALSE]
    /\ answer = [r \in Run |-> NoAnswer]
    /\ metrics = NoMetrics
    /\ images = Task
    /\ crashes = 0

Goto(r, from, to) == pc[r] = from /\ pc' = [pc EXCEPT ![r] = to]

\* DockerExecutor.Run returns: an ExecutionError, or a verdict at the end.
Return(r, from, code, retryable) ==
    /\ Goto(r, from, "reply")
    /\ answer' = [answer EXCEPT ![r] = Answer(code, retryable)]

----------------------------------------------------------------------------
(* The handler `runs`: the policy gate in front of the executor.           *)

Admissible(q) == q.wellFormed /\ bound /\ q.task \in Servable

Refused(q, code) ==
    \/ ~q.wellFormed /\ code = "invalid_request"
    \/ q.wellFormed /\ ~bound /\ code = "question_release_not_bound"
    \/ q.wellFormed /\ bound /\ q.task \notin Known /\ code = "unknown_task"
    \/ q.wellFormed /\ bound /\ q.task \in Known \ Servable
       /\ code = "runtime_not_ready"

\* Every request is counted on entry, the refused ones too.
CountRequest == metrics' = [metrics EXCEPT !.requests = @ + 1]

Accept(r) ==
    /\ Goto(r, "new", "inspect")
    /\ Admissible(request[r])
    /\ CountRequest
    /\ UNCHANGED <<runVars, boxVars, envVars>>

Refuse(r) ==
    /\ Goto(r, "new", "done")
    /\ \E code \in Codes :
         /\ Refused(request[r], code)
         /\ answer' = [answer EXCEPT ![r] = Answer(code, FALSE)]
    /\ CountRequest
    /\ UNCHANGED <<ctx, work, err, acked, boxVars, envVars>>

----------------------------------------------------------------------------
(* DockerExecutor.Run up to the docker CLI.                                *)

NotPackaged(r) ==
    /\ request[r].task \notin Packaged
    /\ Return(r, "inspect", "task_not_packaged", FALSE)
    /\ UNCHANGED <<ctx, work, err, acked, boxVars, envVars, metrics>>

\* verifyImageDigest fails: no immutable reference, no such image, the daemon
\* out of reach or the two seconds over.  The last two may always happen.
ImageUnverified(r) ==
    /\ request[r].task \in Packaged
    /\ Return(r, "inspect", "sandbox_unavailable", TRUE)
    /\ UNCHANGED <<ctx, work, err, acked, boxVars, envVars, metrics>>

ImageVerified(r) ==
    /\ request[r].task \in Packaged \cap Pinned \cap images
    /\ ctx[r] = "live"

FilesRejected(r) ==
    /\ ImageVerified(r)
    /\ ~request[r].editable
    /\ Return(r, "inspect", "invalid_request", FALSE)
    /\ UNCHANGED <<ctx, work, err, acked, boxVars, envVars, metrics>>

\* Mutant: validateFiles is not called.
InspectAnyFiles(r) ==
    /\ ImageVerified(r)
    /\ Goto(r, "inspect", "prepare")
    /\ UNCHANGED <<runVars, boxVars, envVars, metrics>>

Inspect(r) ==
    /\ ImageVerified(r)
    /\ request[r].editable
    /\ Goto(r, "inspect", "prepare")
    /\ UNCHANGED <<runVars, boxVars, envVars, metrics>>

\* The work root or the directory cannot be made, or it is made and filling it
\* fails: what prepareTask reports is the one failure not worth a retry.
SetupFails(r) ==
    /\ \E made, retryable \in BOOLEAN :
         /\ made \/ retryable
         /\ Return(r, "prepare", "sandbox_setup_failed", retryable)
         /\ work' = [work EXCEPT ![r] = made]
    /\ UNCHANGED <<ctx, err, acked, boxVars, envVars, metrics>>

OverLimits(r) ==
    /\ request[r].task \notin InLimits
    /\ Return(r, "prepare", "invalid_task_limits", FALSE)
    /\ work' = [work EXCEPT ![r] = TRUE]
    /\ UNCHANGED <<ctx, err, acked, boxVars, envVars, metrics>>

Prepare(r) ==
    /\ request[r].task \in InLimits
    /\ Goto(r, "prepare", "launch")
    /\ work' = [work EXCEPT ![r] = TRUE]
    /\ UNCHANGED <<ctx, err, acked, answer, boxVars, envVars, metrics>>

\* command.Run() starts the CLI, and the CLI asks the daemon for a container.
Launch(r) ==
    /\ ctx[r] = "live"
    /\ Goto(r, "launch", "cli")
    /\ call' = [call EXCEPT ![r] = "create"]
    /\ UNCHANGED <<runVars, box, doc, status, sweep, envVars, metrics>>

\* It starts nothing when the context is done already, or without a docker binary.
LaunchFails(r) ==
    /\ Goto(r, "launch", "cleanup")
    /\ err' = [err EXCEPT ![r] = IF ctx[r] = "live" THEN "failed" ELSE "killed"]
    /\ UNCHANGED <<ctx, work, acked, answer, boxVars, envVars, metrics>>

----------------------------------------------------------------------------
(* The daemon and the container (external: known from the docker CLI calls *)
(* the executor makes).                                                    *)

NameFree(r) ==
    \A q \in Run : ContainerName(q) = ContainerName(r) => box[q] \notin Live

\* A CLI that is still there goes on from the created container to its start.
CreateContainer(r) ==
    /\ call[r] = "create"
    /\ NameFree(r)
    /\ request[r].task \in images
    /\ box' = [box EXCEPT ![r] = "created"]
    /\ call' = [call EXCEPT ![r] = IF pc[r] = "cli" THEN "start" ELSE "none"]
    /\ UNCHANGED <<pc, runVars, doc, status, sweep, envVars, metrics>>

\* The CLI hears of a refusal only while it runs; then it exits with an error.
Refusal(r, why) ==
    /\ call' = [call EXCEPT ![r] = "none"]
    /\ IF pc[r] = "cli"
       THEN /\ pc' = [pc EXCEPT ![r] = "cleanup"]
            /\ err' = [err EXCEPT ![r] = why]
       ELSE UNCHANGED <<pc, err>>
    /\ UNCHANGED <<ctx, work, acked, answer, box, doc, status, sweep, envVars, metrics>>

RefuseImage(r) ==
    /\ call[r] = "create"
    /\ request[r].task \notin images
    /\ Refusal(r, "noimage")

RefuseName(r) ==
    /\ call[r] = "create"
    /\ ~NameFree(r)
    /\ Refusal(r, "failed")

RefuseStart(r) ==
    /\ call[r] = "start"
    /\ box[r] = "gone"
    /\ Refusal(r, "failed")

\* A bind mount (-v) whose host directory is missing makes the directory again.
StartContainer(r) ==
    /\ call[r] = "start"
    /\ box[r] = "created"
    /\ box' = [box EXCEPT ![r] = "running"]
    /\ call' = [call EXCEPT ![r] = "none"]
    /\ work' = [work EXCEPT ![r] = TRUE]
    /\ UNCHANGED <<pc, ctx, err, acked, answer, doc, status, sweep, envVars, metrics>>

\* `doc` is the last that the harness writes; an earlier writing is never read.
WriteResults(r) ==
    /\ box[r] = "running"
    /\ doc[r] = "none"
    /\ \E d \in Document : doc' = [doc EXCEPT ![r] = d]
    /\ UNCHANGED <<pc, runVars, call, box, status, sweep, envVars, metrics>>

Exit(r) ==
    /\ box[r] = "running"
    /\ box' = [box EXCEPT ![r] = "exited"]
    /\ \E s \in {"zero", "nonzero"} : status' = [status EXCEPT ![r] = s]
    /\ UNCHANGED <<pc, runVars, call, doc, sweep, envVars, metrics>>

\* --rm
AutoRemove(r) ==
    /\ box[r] = "exited"
    /\ box' = [box EXCEPT ![r] = "gone"]
    /\ UNCHANGED <<pc, runVars, call, doc, status, sweep, envVars, metrics>>

\* Mutant: docker rm without -f, which leaves a running container alone.
RemoveWithoutForce(r) ==
    /\ box' = [q \in Run |-> IF ContainerName(q) = ContainerName(r) /\ box[q] # "running"
                                /\ box[q] \in Live
                             THEN "gone" ELSE box[q]]
    /\ UNCHANGED status

\* Mutant: the name is made of the task alone.
RemoveByTask(r) ==
    LET hit == {q \in Run : request[q].task = request[r].task /\ box[q] \in Live}
    IN  /\ box' = [q \in Run |-> IF q \in hit THEN "gone" ELSE box[q]]
        /\ status' = [q \in Run |-> IF q \in hit /\ box[q] = "running"
                                    THEN "nonzero" ELSE status[q]]

\* docker rm -f: whichever container has the name now, running or not.
RemoveByName(r) ==
    LET hit == {q \in Run : ContainerName(q) = ContainerName(r) /\ box[q] \in Live}
    IN  /\ box' = [q \in Run |-> IF q \in hit THEN "gone" ELSE box[q]]
        /\ status' = [q \in Run |-> IF q \in hit /\ box[q] = "running"
                                    THEN "nonzero" ELSE status[q]]

----------------------------------------------------------------------------
(* The CLI ends, the cleanup, the classification and the response.         *)

\* Mutant: the exit status of the CLI is not looked at.
CliReturnsAnyStatus(r) ==
    /\ call[r] = "none"
    /\ box[r] \in {"exited", "gone"}
    /\ Goto(r, "cli", "cleanup")
    /\ UNCHANGED <<runVars, boxVars, envVars, metrics>>

\* Mutant: the exit status is passed on where an error is expected.
CliReturnsRawStatus(r) ==
    /\ call[r] = "none"
    /\ box[r] \in {"exited", "gone"}
    /\ Goto(r, "cli", "cleanup")
    /\ err' = [err EXCEPT ![r] = status[r]]
    /\ UNCHANGED <<ctx, work, acked, answer, boxVars, envVars, metrics>>

\* What a CLI that fails is taken to say: its stderr is the container's too.
Failures(r) ==
    {"failed"} \cup {e \in {"noimage"} : /\ request[r].task \in Quoting
                                         /\ box[r] = "running" \/ status[r] # "none"}

CliReturns(r) ==
    /\ call[r] = "none"
    /\ box[r] \in {"exited", "gone"}
    /\ Goto(r, "cli", "cleanup")
    /\ \E e \in IF status[r] = "zero" THEN {"none"} ELSE Failures(r) :
         err' = [err EXCEPT ![r] = e]
    /\ UNCHANGED <<ctx, work, acked, answer, boxVars, envVars, metrics>>

\* The CLI is gone while the daemon may have its request already.
CliGone(r, why) ==
    /\ Goto(r, "cli", "cleanup")
    /\ err' = [err EXCEPT ![r] = why]
    /\ \E c \in {call[r], "none"} : call' = [call EXCEPT ![r] = c]
    /\ UNCHANGED <<ctx, work, acked, answer, box, doc, status, sweep, envVars, metrics>>

\* Mutant: the command is bound to the request's context, without the timeout.
KillCliOnDisconnect(r) == ctx[r] = "cancelled" /\ CliGone(r, "killed")

KillCli(r) == ctx[r] # "live" /\ CliGone(r, "killed")

LoseDaemon(r) == \E why \in Failures(r) : CliGone(r, why)

Cleanup(r) ==
    /\ Goto(r, "cleanup", "classify")
    /\ RemoveByName(r)
    /\ acked' = [acked EXCEPT ![r] = TRUE]
    /\ UNCHANGED <<ctx, work, err, answer, call, doc, sweep, envVars, metrics>>

\* Five seconds pass or the daemon is out of reach: the error is discarded.
CleanupUnanswered(r) ==
    /\ Goto(r, "cleanup", "classify")
    /\ \E s \in BOOLEAN : sweep' = [sweep EXCEPT ![r] = s]
    /\ UNCHANGED <<runVars, call, box, doc, status, envVars, metrics>>

LateRemove(r) ==
    /\ sweep[r]
    /\ sweep' = [sweep EXCEPT ![r] = FALSE]
    /\ RemoveByName(r)
    /\ UNCHANGED <<pc, runVars, call, doc, envVars, metrics>>

\* Mutant: a results.json that is there is read before the CLI's error is looked at.
OutcomeResultsFirst(r) ==
    \/ ctx[r] # "live" /\ Return(r, "classify", "timeout", TRUE)
    \/ /\ ctx[r] = "live"
       /\ \/ doc[r] \in Verdicts /\ Return(r, "classify", doc[r], FALSE)
          \/ doc[r] \notin Verdicts /\ Return(r, "classify", "harness_failed", FALSE)

\* Mutant: a cleanup that goes unanswered fails the run.
OutcomeNeedsCleanup(r) ==
    \/ ctx[r] # "live" /\ Return(r, "classify", "timeout", TRUE)
    \/ /\ ctx[r] = "live"
       /\ \/ /\ err[r] # "none" \/ ~acked[r]
             /\ Return(r, "classify", "harness_failed", FALSE)
          \/ /\ err[r] = "none" /\ acked[r] /\ doc[r] \in Verdicts
             /\ Return(r, "classify", doc[r], FALSE)
          \/ /\ err[r] = "none" /\ acked[r] /\ doc[r] \notin Verdicts
             /\ Return(r, "classify", "runner_protocol", FALSE)

\* The order of the tests is the code's: context, CLI error, results.json, the
\* artifact paths that the task declares (an artifact itself may be missing).
Outcome(r) ==
    \/ ctx[r] # "live" /\ Return(r, "classify", "timeout", TRUE)
    \/ /\ ctx[r] = "live"
       /\ \/ err[r] = "noimage" /\ Return(r, "classify", "sandbox_unavailable", TRUE)
          \/ err[r] \in {"failed", "killed"} /\ Return(r, "classify", "harness_failed", FALSE)
          \/ /\ err[r] = "none" /\ doc[r] \in Verdicts /\ request[r].task \in Exportable
             /\ Return(r, "classify", doc[r], FALSE)
          \/ /\ err[r] = "none" /\ (doc[r] \notin Verdicts \/ request[r].task \notin Exportable)
             /\ Return(r, "classify", "runner_protocol", FALSE)

Classify(r) ==
    /\ Outcome(r)
    /\ UNCHANGED <<ctx, work, err, acked, boxVars, envVars, metrics>>

\* Mutant: an error verdict is counted with the errors of the runtime.
CountResultByStatus(code) ==
    \/ code = "pass" /\ metrics' = [metrics EXCEPT !.passes = @ + 1]
    \/ code = "fail" /\ metrics' = [metrics EXCEPT !.failures = @ + 1]
    \/ code \notin {"pass", "fail"} /\ metrics' = [metrics EXCEPT !.errors = @ + 1]

CountResult(code) ==
    \/ code = "pass" /\ metrics' = [metrics EXCEPT !.passes = @ + 1]
    \/ code \in {"fail", "error"} /\ metrics' = [metrics EXCEPT !.failures = @ + 1]
    \/ code \notin Verdicts /\ metrics' = [metrics EXCEPT !.errors = @ + 1]

\* Mutant: no deferred removal of the workspace.
ReplyWithoutRemoval(r) ==
    /\ Goto(r, "reply", "done")
    /\ CountResult(answer[r].code)
    /\ UNCHANGED <<ctx, work, err, acked, answer, boxVars, envVars>>

\* The deferred os.RemoveAll(work) can lose against a container that still
\* writes; its error is ignored.  Then the handler counts and responds.
Reply(r) ==
    /\ Goto(r, "reply", "done")
    /\ \E kept \in BOOLEAN :
         /\ kept => work[r] /\ box[r] = "running"
         /\ work' = [work EXCEPT ![r] = kept]
    /\ CountResult(answer[r].code)
    /\ UNCHANGED <<ctx, err, acked, answer, boxVars, envVars>>

----------------------------------------------------------------------------
(* The environment: clocks, clients, the docker host, the process itself.  *)

Timed == {"launch", "cli", "cleanup", "classify"}

Expire(r) ==
    /\ pc[r] \in Timed
    /\ ctx[r] = "live"
    /\ ctx' = [ctx EXCEPT ![r] = "expired"]
    /\ UNCHANGED <<pc, work, err, acked, answer, boxVars, envVars, metrics>>

Disconnect(r) ==
    /\ pc[r] \in Serving \ {"reply"}
    /\ ctx[r] = "live"
    /\ ctx' = [ctx EXCEPT ![r] = "cancelled"]
    /\ UNCHANGED <<pc, work, err, acked, answer, boxVars, envVars, metrics>>

PruneImage(t) ==
    /\ t \in images \cap Transient
    /\ images' = images \ {t}
    /\ UNCHANGED <<pc, runVars, boxVars, bound, request, crashes, metrics>>

BuildImage(t) ==
    /\ t \in Transient \ images
    /\ images' = images \cup {t}
    /\ UNCHANGED <<pc, runVars, boxVars, bound, request, crashes, metrics>>

\* The process and its CLIs end; the daemon keeps the containers, the disk the
\* workspaces, and some of the requests already sent still take effect.
\* Nothing looks for the leftovers when the process comes back.
Crash ==
    /\ crashes < MaxCrashes
    /\ crashes' = crashes + 1
    /\ pc' = [r \in Run |-> IF pc[r] = "new" THEN "new" ELSE "past"]
    /\ answer' = [r \in Run |-> IF pc[r] \in Settled THEN answer[r] ELSE NoAnswer]
    /\ \E sent \in SUBSET Run :
         /\ call' = [r \in Run |-> IF r \in sent THEN call[r] ELSE "none"]
         /\ sweep' = [r \in Run |-> r \in sent /\ (sweep[r] \/ pc[r] = "cleanup")]
    /\ metrics' = NoMetrics
    /\ UNCHANGED <<ctx, work, err, acked, box, doc, status, bound, request, images>>

\* No request is left to serve: the one state in which the server may rest.
Idle == (\A r \in Run : pc[r] \in Settled) /\ UNCHANGED vars

----------------------------------------------------------------------------
Step(r) ==
    \/ NotPackaged(r) \/ ImageUnverified(r) \/ FilesRejected(r) \/ Inspect(r)
    \/ SetupFails(r) \/ OverLimits(r) \/ Prepare(r)
    \/ Launch(r) \/ LaunchFails(r)
    \/ CliReturns(r) \/ KillCli(r)
    \/ Cleanup(r) \/ CleanupUnanswered(r)
    \/ Classify(r) \/ Reply(r)

Daemon(r) ==
    \/ CreateContainer(r) \/ RefuseImage(r) \/ RefuseName(r)
    \/ StartContainer(r) \/ RefuseStart(r)
    \/ WriteResults(r) \/ Exit(r) \/ AutoRemove(r) \/ LateRemove(r)

Environment(r) ==
    Accept(r) \/ Refuse(r) \/ LoseDaemon(r) \/ Expire(r) \/ Disconnect(r)

Next ==
    \/ \E r \in Run : Step(r) \/ Daemon(r) \/ Environment(r)
    \/ \E t \in Transient : PruneImage(t) \/ BuildImage(t)
    \/ Crash
    \/ Idle

Spec == Init /\ [][Next]_vars

\* The Go scheduler runs every goroutine, the bounded docker calls end (two and
\* five seconds), and the clock reaches every deadline.  Nothing is assumed of
\* the daemon, the learner's program or the client.
Fairness == \A r \in Run : WF_vars(Step(r)) /\ WF_vars(Expire(r))

FairSpec == Spec /\ Fairness

----------------------------------------------------------------------------
(* Properties.                                                             *)

\* A pass, fail or error answer repeats the document that this run's own
\* container wrote before it exited with status zero: not that of a container
\* that was killed, replaced or crashed (command.Run's error comes first).
VerdictFromOwnContainer ==
    \A r \in Run : answer[r].code \in Verdicts =>
        doc[r] = answer[r].code /\ status[r] = "zero" /\ err[r] = "none"

\* Whatever the handler and the executor refuse never reaches the daemon, at
\* any time: no container and no request for one without a release, for a task
\* that is not servable, packaged, pinned and in limits, or for other files.
OnlyAdmissibleReachesDaemon ==
    \A r \in Run : call[r] # "none" \/ box[r] # "none" =>
        /\ bound
        /\ request[r].wellFormed /\ request[r].editable
        /\ request[r].task \in Servable \cap Packaged \cap Pinned \cap InLimits

\* Once the daemon has answered `docker rm -f`, the run's container does not
\* run, and never will: what may still appear is a container that a killed CLI
\* had asked for and nobody starts.
CleanupStopsContainer ==
    \A r \in Run : acked[r] /\ box[r] \in Live =>
        box[r] = "created" /\ err[r] # "none" /\ call[r] = "none"

\* A workspace outlives its response only when the cleanup went unanswered and
\* a container of the run got as far as running.
WorkspaceReclaimed ==
    \A r \in Run : pc[r] = "done" /\ work[r] =>
        ~acked[r] /\ (box[r] = "running" \/ status[r] # "none")

\* The counters are those of the answers given since the process started:
\* every admitted request is counted once as a pass, a failure or an error,
\* when it is answered, and every request once on entry.
MetricsMatchAnswers ==
    LET Count(S) == Cardinality({r \in Run : pc[r] = "done" /\ answer[r].code \in S
                                             /\ Admissible(request[r])})
    IN  /\ metrics.requests = Cardinality({r \in Run : pc[r] \in Serving \cup {"done"}})
        /\ metrics.passes = Count({"pass"})
        /\ metrics.failures = Count({"fail", "error"})
        /\ metrics.errors = Count(Codes \ Verdicts)

Alone(r) == \A q \in Run \ {r} : ContainerName(q) # ContainerName(r)

\* A step never takes a container away from a CLI that is attached to it, unless
\* another request has the same container name: a container is removed by its
\* own run, or after it exited (--rm).
AttachedContainerKept ==
    [][\A r \in Run : pc[r] = "cli" /\ box[r] \in {"created", "running"} /\ Alone(r) =>
           box'[r] # "gone"]_vars

\* docker_executor.go:269-270, "explicit names prevent cleanup and collision
\* mistakes": the same of every run, whatever the others are called.
NamesPreventCollisions ==
    [][\A r \in Run : pc[r] = "cli" /\ box[r] \in {"created", "running"} =>
           box'[r] # "gone"]_vars

\* docker_executor.go:139-142, the reason given for the cleanup: a run that
\* timed out, and whose cleanup the daemon answered, leaks no container.
TimedOutRunLeavesNoContainer ==
    \A r \in Run : pc[r] = "done" /\ err[r] = "killed" /\ acked[r] =>
        box[r] \notin Live

\* docker_executor.go:155, "task harness exited unsuccessfully": a harness_failed
\* answer, which tells the client not to retry, is about a harness that ran.
HarnessFailureMeansHarnessRan ==
    \A r \in Run : answer[r].code = "harness_failed" =>
        box[r] = "running" \/ status[r] # "none"

\* A run whose CLI returned well, with a verdict in results.json, and whose
\* deadline had not passed when the handler looked, is answered with that verdict:
\* a cleanup that fails, or another run, makes nothing else of it
\* (docker_executor.go:295-296, "Cleanup failures are not learner-visible verdicts").
TimelyResultIsAnswered ==
    \A r \in Run :
        /\ pc[r] \in {"reply", "done"} /\ ctx[r] = "live"
        /\ err[r] = "none" /\ doc[r] \in Verdicts /\ request[r].task \in Exportable
        => answer[r].code = doc[r]

\* Every admitted request is answered, or its process ends.
EveryRunSettles == \A r \in Run : pc[r] \in Serving ~> pc[r] \in Settled

----------------------------------------------------------------------------
(* The inductive invariant behind the safety properties, run by run.       *)

\* How far the run has come bounds what the daemon can have of it.
BeforeLaunch(r) ==
    pc[r] \in {"new", "inspect", "prepare", "launch"} =>
        /\ call[r] = "none" /\ box[r] = "none" /\ err[r] = "none"
        /\ ~acked[r] /\ ~sweep[r] /\ answer[r] = NoAnswer
        /\ pc[r] # "launch" => ~work[r]

Attached(r) ==
    pc[r] = "cli" =>
        /\ err[r] = "none" /\ ~acked[r] /\ ~sweep[r] /\ answer[r] = NoAnswer
        /\ box[r] \in {"none", "created"} => call[r] # "none"
        /\ box[r] = "gone" /\ call[r] = "none" => status[r] # "none"

\* A command that returned without error left a container that had exited well.
Returned(r) ==
    /\ pc[r] \in {"cleanup", "classify"} =>
         /\ answer[r] = NoAnswer
         /\ pc[r] = "cleanup" => ~acked[r] /\ ~sweep[r]
         /\ err[r] = "none" => status[r] = "zero" /\ call[r] = "none"
    /\ pc[r] = "reply" => answer[r].code # "none"
    /\ pc[r] \in {"reply", "done"} /\ err[r] = "none" =>
         call[r] = "none" /\ box[r] \notin {"created", "running"}

\* A container and the requests for it.
Sandbox(r) ==
    /\ call[r] = "create" => box[r] = "none"
    /\ call[r] = "start" => box[r] \in {"created", "gone"} /\ status[r] = "none"
    /\ box[r] = "none" => status[r] = "none" /\ doc[r] = "none"
    /\ box[r] = "created" => status[r] = "none" /\ doc[r] = "none"
    /\ box[r] = "running" => status[r] = "none"
    /\ box[r] = "exited" => status[r] # "none"

\* What an answered cleanup has settled for good.
Swept(r) ==
    acked[r] =>
        /\ pc[r] \in {"classify", "reply"} \cup Settled
        /\ box[r] \in {"none", "created", "gone"}
        /\ box[r] = "created" => call[r] = "none" /\ err[r] # "none"
        /\ call[r] = "create" => err[r] # "none"
        /\ call[r] = "start" => box[r] = "gone"

Passed(r) ==
    /\ pc[r] \in {"inspect", "prepare", "launch"} =>
        bound /\ request[r].wellFormed /\ request[r].task \in Servable
    /\ pc[r] \in {"prepare", "launch"} =>
        request[r].editable /\ request[r].task \in Packaged \cap Pinned
    /\ pc[r] = "launch" => request[r].task \in InLimits

LifeCycle ==
    \A r \in Run : BeforeLaunch(r) /\ Attached(r) /\ Returned(r) /\ Sandbox(r)
                   /\ Swept(r) /\ Passed(r)

SafetyInv ==
    /\ TypeOK
    /\ LifeCycle
    /\ VerdictFromOwnContainer
    /\ OnlyAdmissibleReachesDaemon
    /\ WorkspaceReclaimed
    /\ TimelyResultIsAnswered

----------------------------------------------------------------------------
(* What the detailed system implements.                                    *)

StageOf(r) ==
    IF pc[r] = "new" THEN "idle"
    ELSE IF pc[r] \in Settled THEN "closed" ELSE "open"

HarnessOf(r) ==
    IF box[r] = "running" THEN "running"
    ELSE IF status[r] = "none" THEN "unstarted"
    ELSE IF status[r] = "zero" THEN "succeeded" ELSE "stopped"

\* Until it is sent, an answer is no reply.
ReplyOf(r) ==
    IF pc[r] \notin Settled \/ answer[r].code = "none" THEN "none"
    ELSE IF answer[r].code \in Verdicts THEN answer[r].code ELSE "failure"

Contract == INSTANCE RunContract WITH
    Verdict <- Verdicts,
    stage <- [r \in Run |-> StageOf(r)],
    harness <- [r \in Run |-> HarnessOf(r)],
    report <- doc,
    reply <- [r \in Run |-> ReplyOf(r)]

\* RunExecution implements RunContract.
ImplementsContract == Contract!Spec
=============================================================================
