-------------------------- MODULE RunContractProofs --------------------------
(* RunExecution implements RunContract: every step of the detailed system   *)
(* is a step of the contract or leaves it unchanged.                        *)
EXTENDS RunExecutionProofs

Stage == [r \in Run |-> StageOf(r)]
Harness == [r \in Run |-> HarnessOf(r)]
Replies == [r \in Run |-> ReplyOf(r)]
Mapped == <<Stage, Harness, doc, Replies>>

\* A step of the daemon or of the cleanup is none of the request's.
LEMMA SameRequest ==
    ASSUME UNCHANGED <<pc, answer>>
    PROVE  UNCHANGED <<Stage, Replies>>
BY DEF Stage, Replies, StageOf, ReplyOf

\* The contract sees of a container only its state and its exit.
LEMMA SameHarness ==
    ASSUME UNCHANGED <<box, status>>
    PROVE  UNCHANGED Harness
BY DEF Harness, HarnessOf

\* A goroutine that is between admission and response stays open.
LEMMA StillOpen ==
    ASSUME TypeOK, NEW r \in Run, NEW to \in Serving, pc[r] \in Serving,
           pc' = [pc EXCEPT ![r] = to],
           \A q \in Run : q # r => answer'[q] = answer[q]
    PROVE  UNCHANGED <<Stage, Replies>>
<1>1. \A q \in Run : q # r => pc'[q] = pc[q]
      BY DEF TypeOK
<1>2. pc'[r] \in Serving
      BY DEF TypeOK
<1>3. \A q \in Run : StageOf(q)' = StageOf(q)
      BY <1>1, <1>2 DEF StageOf, Serving, Settled
<1>4. \A q \in Run : ReplyOf(q)' = ReplyOf(q)
      BY <1>1, <1>2 DEF ReplyOf, Serving, Settled
<1> QED BY <1>3, <1>4 DEF Stage, Replies

\* A removal by name stops some that run, and the contract sees nothing else of it.
LEMMA RemoveStops ==
    ASSUME SafetyInv, NEW r \in Run, RemoveByName(r)
    PROVE  \E S \in SUBSET Run :
             /\ \A q \in S : Harness[q] = "running"
             /\ Harness' = [q \in Run |-> IF q \in S THEN "stopped" ELSE Harness[q]]
<1> DEFINE S == {q \in Run : /\ ContainerName(q) = ContainerName(r)
                             /\ box[q] = "running"}
<1>1. \A q \in S : Harness[q] = "running"
      BY DEF Harness, HarnessOf
<1>2. ASSUME NEW q \in Run
      PROVE  HarnessOf(q)' = IF q \in S THEN "stopped" ELSE Harness[q]
      BY DEF SafetyInv, TypeOK, RemoveByName, HarnessOf, Harness, Live
<1>3. Harness' = [q \in Run |-> IF q \in S THEN "stopped" ELSE Harness[q]]
      BY <1>2 DEF Harness
<1> QED BY <1>1, <1>3

\* The initial states are initial states of the contract.
LEMMA ContractInit == Init => Contract!Init
BY DEF Init, Contract!Init, StageOf, HarnessOf, ReplyOf, Settled

\* The steps of a goroutine that the contract does not see.
Inner(r) ==
    \/ NotPackaged(r) \/ ImageUnverified(r) \/ FilesRejected(r) \/ Inspect(r)
    \/ SetupFails(r) \/ OverLimits(r) \/ Prepare(r)
    \/ Launch(r) \/ LaunchFails(r)
    \/ CliReturns(r) \/ KillCli(r)
    \/ CleanupUnanswered(r) \/ Classify(r) \/ LoseDaemon(r)

\* The contract does not see a step between launch and answer.
LEMMA InnerStutters ==
    ASSUME SafetyInv, NEW r \in Run, Inner(r)
    PROVE  UNCHANGED Mapped
<1> USE DEF Goto, Return, runVars, boxVars
<1>1. \E from, to \in Serving : pc[r] = from /\ pc' = [pc EXCEPT ![r] = to]
      BY DEF Inner, NotPackaged, ImageUnverified, FilesRejected, Inspect, SetupFails,
             OverLimits, Prepare, Launch, LaunchFails, CliReturns, KillCli, CliGone,
             CleanupUnanswered, Classify, Outcome, LoseDaemon, Serving
<1>2. \A q \in Run : q # r => answer'[q] = answer[q]
      BY ZenonT(60) DEF SafetyInv, TypeOK, Inner, NotPackaged, ImageUnverified, FilesRejected,
             Inspect, SetupFails, OverLimits, Prepare, Launch, LaunchFails, CliReturns,
             KillCli, CliGone, CleanupUnanswered, Classify, Outcome, LoseDaemon
<1>3. UNCHANGED <<box, status, doc>>
      BY DEF Inner, NotPackaged, ImageUnverified, FilesRejected, Inspect, SetupFails,
             OverLimits, Prepare, Launch, LaunchFails, CliReturns, KillCli, CliGone,
             CleanupUnanswered, Classify, LoseDaemon
<1>4. UNCHANGED <<Stage, Replies>>
      BY <1>1, <1>2, StillOpen DEF SafetyInv
<1> QED BY <1>3, <1>4, SameHarness DEF Mapped

----------------------------------------------------------------------------

\* Accepting, refusing and answering a request are steps of the contract.
LEMMA RequestSteps ==
    ASSUME SafetyInv, NEW r \in Run, Accept(r) \/ Refuse(r) \/ Reply(r)
    PROVE  Contract!Next
<1> USE DEF SafetyInv, TypeOK, Goto, runVars, boxVars, StageOf, HarnessOf, ReplyOf,
            Serving, Settled, Answer, Verdicts
<1>1. CASE Accept(r)
  <2>1. Contract!Open(r)
        BY ZenonT(60), <1>1 DEF Accept, Contract!Open
  <2> QED BY <2>1 DEF Contract!Next
<1>2. CASE Refuse(r)
  <2>1. PICK code \in Codes :
          /\ Refused(request[r], code)
          /\ answer' = [answer EXCEPT ![r] = Answer(code, FALSE)]
        BY <1>2 DEF Refuse
  <2>2. code \notin Verdicts \cup {"none"}
        BY <2>1 DEF Refused
  <2>3. Contract!Decline(r)
        BY ZenonT(60), <1>2, <2>1, <2>2 DEF Refuse, Contract!Decline
  <2> QED BY <2>3 DEF Contract!Next
<1>3. CASE Reply(r)
  <2>0. pc[r] = "reply" /\ answer[r].code # "none"
        BY <1>3 DEF Reply, LifeCycle, Returned
  <2>3. pc' = [pc EXCEPT ![r] = "done"] /\ UNCHANGED <<answer, box, status, doc>>
        BY <1>3 DEF Reply
  <2>1. CASE answer[r].code \in Verdicts
    <3>1. doc[r] = answer[r].code /\ status[r] = "zero" /\ box[r] # "running"
          BY <2>1 DEF VerdictFromOwnContainer, LifeCycle, Sandbox
    <3>2. StageOf(r)' = "closed" /\ ReplyOf(r)' = doc[r] /\ StageOf(r) = "open"
          BY <2>0, <2>1, <2>3, <3>1
    <3>3. \A q \in Run : q # r => StageOf(q)' = StageOf(q) /\ ReplyOf(q)' = ReplyOf(q)
          BY <2>3
    <3>4. \A q \in Run : HarnessOf(q)' = HarnessOf(q)
          BY <2>3
    <3>5. HarnessOf(r) = "succeeded"
          BY <3>1
    <3> HIDE DEF StageOf, HarnessOf, ReplyOf
    <3>6. Stage' = [Stage EXCEPT ![r] = "closed"]
          BY <3>2, <3>3 DEF Stage
    <3>7. Replies' = [Replies EXCEPT ![r] = doc[r]]
          BY <3>2, <3>3 DEF Replies
    <3>8. Harness' = Harness
          BY <3>4 DEF Harness
    <3>9. Stage[r] = "open" /\ Harness[r] = "succeeded" /\ doc[r] \in Verdicts /\ doc' = doc
          BY <2>1, <2>3, <3>1, <3>2, <3>5 DEF Stage, Harness
    <3>10. Contract!Grade(r)
          BY <3>6, <3>7, <3>8, <3>9 DEF Contract!Grade, Stage, Harness, Replies
    <3> QED BY <3>10 DEF Contract!Next
  <2>2. CASE answer[r].code \notin Verdicts
    <3>1. Contract!Decline(r)
          BY ZenonT(60), <2>0, <2>2, <2>3 DEF Contract!Decline
    <3> QED BY <3>1 DEF Contract!Next
  <2> QED BY <2>1, <2>2
<1> QED BY <1>1, <1>2, <1>3

\* So are the start, the results and the exit of a container.
LEMMA HarnessSteps ==
    ASSUME SafetyInv, NEW r \in Run, StartContainer(r) \/ WriteResults(r) \/ Exit(r)
    PROVE  Contract!Next
<1> USE DEF SafetyInv, TypeOK, runVars, boxVars, StageOf, HarnessOf, ReplyOf
<1>1. CASE StartContainer(r)
  <2>1. status[r] = "none" /\ pc[r] # "new"
        BY <1>1 DEF StartContainer, LifeCycle, Sandbox, BeforeLaunch
  <2>2. Contract!Start(r)
        BY <1>1, <2>1 DEF StartContainer, Contract!Start, Settled
  <2> QED BY <2>2 DEF Contract!Next
<1>2. CASE WriteResults(r)
  <2>1. PICK d \in Verdicts \cup {"bad"} : doc' = [doc EXCEPT ![r] = d]
        BY <1>2, DocumentAssumption DEF WriteResults
  <2>2. Contract!Report(r, d)
        BY <1>2, <2>1 DEF WriteResults, Contract!Report
  <2> QED BY <2>2 DEF Contract!Next
<1>3. CASE Exit(r)
  <2>1. CASE status' = [status EXCEPT ![r] = "zero"]
    <3>1. Contract!Succeed(r)
          BY ZenonT(60), <1>3, <2>1 DEF Exit, Contract!Succeed
    <3> QED BY <3>1 DEF Contract!Next
  <2>2. CASE status' = [status EXCEPT ![r] = "nonzero"]
    <3>1. Contract!Stop({r})
          BY <1>3, <2>2 DEF Exit, Contract!Stop
    <3> QED BY <3>1 DEF Contract!Next
  <2> QED BY <1>3, <2>1, <2>2 DEF Exit
<1> QED BY <1>1, <1>2, <1>3

\* So is a removal, on time or late.
LEMMA RemoveSteps ==
    ASSUME SafetyInv, NEW r \in Run, Cleanup(r) \/ LateRemove(r)
    PROVE  Contract!Next
<1>1. UNCHANGED <<Stage, Replies, doc>>
  <2>1. CASE Cleanup(r)
        BY <2>1, StillOpen DEF SafetyInv, Cleanup, Goto, Serving
  <2>2. CASE LateRemove(r)
        BY <2>2, SameRequest DEF LateRemove, runVars
  <2> QED BY <2>1, <2>2
<1>2. PICK S \in SUBSET Run :
             /\ \A q \in S : Harness[q] = "running"
             /\ Harness' = [q \in Run |-> IF q \in S THEN "stopped" ELSE Harness[q]]
      BY RemoveStops DEF Cleanup, LateRemove
<1>3. Contract!Stop(S)
      BY <1>1, <1>2 DEF Contract!Stop, Stage, Harness, Replies
<1> QED BY <1>3 DEF Contract!Next

\* So is a crash of the runtime.
LEMMA CrashStep ==
    ASSUME SafetyInv, Crash
    PROVE  Contract!Next
<1>1. Contract!Abandon
      BY DEF SafetyInv, TypeOK, Crash, Contract!Abandon, StageOf, HarnessOf, ReplyOf,
             Settled, Serving, NoAnswer, Answer
<1> QED BY <1>1 DEF Contract!Next

\* What is left neither moves a request nor starts or ends a harness.
LEMMA OuterStutters ==
    ASSUME SafetyInv, NEW r \in Run,
           \/ CreateContainer(r) \/ RefuseImage(r) \/ RefuseName(r) \/ RefuseStart(r)
           \/ AutoRemove(r) \/ Expire(r) \/ Disconnect(r)
    PROVE  UNCHANGED Mapped
<1>1. UNCHANGED <<Stage, Replies, doc>>
  <2>1. CASE RefuseImage(r) \/ RefuseName(r) \/ RefuseStart(r)
    <3>1. CASE pc[r] = "cli"
          BY <2>1, <3>1, StillOpen
          DEF SafetyInv, RefuseImage, RefuseName, RefuseStart, Refusal, Serving
    <3>2. CASE pc[r] # "cli"
          BY <2>1, <3>2, SameRequest DEF RefuseImage, RefuseName, RefuseStart, Refusal
    <3> QED BY <3>1, <3>2
  <2>2. CASE CreateContainer(r) \/ AutoRemove(r) \/ Expire(r) \/ Disconnect(r)
        BY <2>2, SameRequest
        DEF CreateContainer, AutoRemove, Expire, Disconnect, runVars, boxVars
  <2> QED BY <2>1, <2>2
<1>2. \A q \in Run : HarnessOf(q)' = HarnessOf(q)
      BY DEF SafetyInv, TypeOK, LifeCycle, Sandbox, HarnessOf, CreateContainer,
             RefuseImage, RefuseName, RefuseStart, Refusal, AutoRemove, Expire,
             Disconnect, boxVars
<1> QED BY <1>1, <1>2 DEF Mapped, Harness

\* Every step is a step of the contract or a stutter.
LEMMA EveryStep ==
    ASSUME SafetyInv, [Next]_vars
    PROVE  [Contract!Next]_(Contract!vars)
<1>1. ASSUME UNCHANGED Mapped PROVE UNCHANGED Contract!vars
      BY <1>1 DEF Mapped, Contract!vars, Stage, Harness, Replies
<1>2. ASSUME NEW r \in Run, Step(r) \/ Daemon(r) \/ Environment(r)
      PROVE  [Contract!Next]_(Contract!vars)
      BY <1>1, <1>2, InnerStutters, OuterStutters, RequestSteps, HarnessSteps, RemoveSteps
      DEF Step, Daemon, Environment, Inner
<1>3. ASSUME NEW t \in Transient, PruneImage(t) \/ BuildImage(t)
      PROVE  UNCHANGED Mapped
      BY <1>3, SameRequest, SameHarness DEF PruneImage, BuildImage, runVars, boxVars, Mapped
<1>4. CASE UNCHANGED vars
      BY <1>4, <1>1, SameRequest, SameHarness DEF vars, runVars, boxVars, Mapped
<1> QED BY <1>1, <1>2, <1>3, <1>4, CrashStep DEF Next, Idle

\* Every behaviour of the runtime, with its daemon, its cleanups and its crashes,
\* is a behaviour of the contract.
THEOREM Refinement == Spec => ImplementsContract
<1> QED BY ContractInit, EveryStep, Safety, PTL DEF Spec, ImplementsContract, Contract!Spec
=============================================================================
