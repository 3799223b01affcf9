------------------------------- MODULE Backlog -------------------------------
(***************************************************************************)
(* cmd/portfolio-backlog: one run reads the portfolio once and the family  *)
(* manifest twice, the second time to make the items, and then either      *)
(* writes the backlog as JSON and as Markdown, one after the other, or     *)
(* compares it with the stored JSON (--check).  Authors change the         *)
(* manifests whenever they like, and a run may be stopped at any point.    *)
(***************************************************************************)
EXTENDS Portfolio

CONSTANTS
    Plan,       \* portfolio manifests
    Families,   \* TaskFamily manifests
    MaxEdits    \* bound on the changes of manifests

ASSUME FileAssumption ==
    Plan \subseteq PlanType /\ Families \subseteq FamiliesType /\ MaxEdits \in Nat

VARIABLES
    planFile, familyFile,   \* the two manifests
    json, page,             \* the stored backlog: the report each was made from
    step,                   \* where the run is; "idle" between runs
    check,                  \* it runs with --check
    plan, report,           \* what it has read and built
    outcome,                \* how the last run ended
    moved,                  \* history: a manifest changed since this run began
    cut,                    \* history: a run ended amid its writing, and none was whole since
    edits                   \* changes so far

inputs == <<planFile, familyFile, moved, edits>>
outputs == <<json, page, cut>>
vars == <<inputs, outputs, step, check, plan, report, outcome>>

\* No file, or half of one: neither decodes.
Unreadable == [source |-> "none", queue |-> <<>>, waves |-> 0]

TypeOK ==
    /\ planFile \in Plan /\ plan \in Plan
    /\ familyFile \in Families
    /\ \A r \in {json, page, report} :
         r = Unreadable \/ (r.source \in ReleaseId /\ r.waves \in Nat)
    /\ step \in {"idle", "families", "items"} \cup
               (IF check THEN {"compare"} ELSE {"json", "page"})
    /\ check \in BOOLEAN /\ moved \in BOOLEAN /\ cut \in BOOLEAN
    /\ outcome \in {"none", "failed", "valid", "written"}
    /\ edits \in 0..MaxEdits

Init ==
    /\ planFile \in Plan /\ plan = planFile
    /\ familyFile \in Families
    /\ json = Unreadable /\ page = Unreadable /\ report = Unreadable
    /\ step = "idle"
    /\ check = FALSE /\ moved = FALSE /\ cut = FALSE
    /\ outcome = "none"
    /\ edits = 0

----------------------------------------------------------------------------
\* The next step, or fatal(): the process exits.
Proceed(from, ok, to) ==
    /\ step = from
    /\ step' = IF ok THEN to ELSE "idle"
    /\ outcome' = IF ok THEN outcome ELSE "failed"

ReadPlan ==
    /\ step = "idle"
    /\ step' = IF planFile.sound THEN "families" ELSE "idle"
    /\ outcome' = IF planFile.sound THEN "none" ELSE "failed"
    /\ check' \in BOOLEAN
    /\ plan' = planFile
    /\ report' = Unreadable
    /\ moved' = FALSE
    /\ UNCHANGED <<planFile, familyFile, edits, outputs>>

Validate ==
    /\ Proceed("families", familyFile.sound /\ ValidPlan(plan, familyFile), "items")
    /\ UNCHANGED <<inputs, outputs, check, plan, report>>

\* Mutant: a check goes on to write.
BuildAndWrite ==
    /\ Proceed("items", familyFile.sound, "json")
    /\ report' = IF familyFile.sound THEN Report(plan, familyFile) ELSE report
    /\ UNCHANGED <<inputs, outputs, check, plan>>

\* The family manifest is read and validated again, the portfolio against it is not.
Build ==
    /\ Proceed("items", familyFile.sound, IF check THEN "compare" ELSE "json")
    /\ report' = IF familyFile.sound THEN Report(plan, familyFile) ELSE report
    /\ UNCHANGED <<inputs, outputs, check, plan>>

\* Mutant: the counts are compared, not the digest.
CompareCounts ==
    /\ step = "compare"
    /\ step' = "idle"
    /\ outcome' = IF json.source = report.source /\ Len(json.queue) = Len(report.queue)
                  THEN "valid" ELSE "failed"
    /\ UNCHANGED <<inputs, outputs, check, plan, report>>

Compare ==
    /\ step = "compare"
    /\ step' = "idle"
    /\ outcome' = IF json = report THEN "valid" ELSE "failed"
    /\ UNCHANGED <<inputs, outputs, check, plan, report>>

\* Mutant: the error of the first write is dropped.
WriteJsonUnchecked ==
    /\ Proceed("json", TRUE, "page")
    /\ json' \in {report, Unreadable}
    /\ UNCHANGED <<inputs, page, cut, check, plan, report>>

WriteJson ==
    /\ Proceed("json", TRUE, "page")
    /\ json' = report
    /\ UNCHANGED <<inputs, page, cut, check, plan, report>>

WritePage ==
    /\ step = "page"
    /\ step' = "idle"
    /\ outcome' = "written"
    /\ page' = report
    /\ cut' = FALSE
    /\ UNCHANGED <<inputs, json, check, plan, report>>

\* The run is killed, or a write fails: os.WriteFile truncates the file first.
Break ==
    /\ step # "idle"
    /\ step' = "idle"
    /\ outcome' = "failed"
    /\ json' \in {json} \cup (IF step = "json" THEN {Unreadable} ELSE {})
    /\ page' \in {page} \cup (IF step = "page" THEN {Unreadable} ELSE {})
    /\ cut' = (cut \/ step \in {"json", "page"})
    /\ UNCHANGED <<inputs, check, plan, report>>

Edit ==
    /\ edits < MaxEdits
    /\ edits' = edits + 1
    /\ moved' = TRUE
    /\ UNCHANGED <<outputs, step, check, plan, report, outcome>>

EditPlan == \E P \in Plan \ {planFile} : planFile' = P /\ Edit /\ UNCHANGED familyFile

EditFamilies ==
    \E F \in Families \ {familyFile} : familyFile' = F /\ Edit /\ UNCHANGED planFile

Next ==
    \/ ReadPlan \/ Validate \/ Build \/ Compare \/ WriteJson \/ WritePage
    \/ Break \/ EditPlan \/ EditFamilies

Spec == Init /\ [][Next]_vars

----------------------------------------------------------------------------
(* Properties.                                                             *)

Steady == ~moved /\ step \in {"compare", "json", "page"}

Queued == {report.queue[n].item : n \in DOMAIN report.queue}

\* Does the family list each pair once?
PairsOnce(family) ==
    \A i, j \in DOMAIN family.revisions :
        family.revisions[i].pair = family.revisions[j].pair => i = j

\* The gaps that the contract document names, of a family listing its pairs once: an
\* existing family's pair without a runnable revision, each planned family, each
\* pair of a planned family.
Deficits ==
    UNION {LET g == planFile.groups[i]
           IN  {gap \in Range(g.existing) \X ExpectedSets[g.set] :
                    ~\E j \in DOMAIN familyFile.families[gap[1]].revisions :
                        familyFile.families[gap[1]].revisions[j] =
                            [pair |-> gap[2], runnable |-> TRUE]}
               \cup (Range(g.planned) \X (ExpectedSets[g.set] \cup {"none"}))
           : i \in DOMAIN planFile.groups}

\* The queue is the deficit of the two manifests, each gap once, unless a
\* manifest changed under the run or a family lists a pair more than once.
QueueIsTheDeficit ==
    Steady /\ (\A k \in Key : PairsOnce(familyFile.families[k])) =>
        /\ {<<q.key, q.pair>> : q \in Queued} = Deficits
        /\ Len(report.queue) = Cardinality(Deficits)

\* Closing the queue is what is missing to the target: the families and the
\* revisions that exist, with those queued, are the expected ones of each kind.
ClosingReachesTarget ==
    Steady => \A kind \in Kind :
        LET mine == {i \in DOMAIN planFile.groups : planFile.groups[i].kind = kind}
            existing == UNION {Range(planFile.groups[i].existing) : i \in mine}
            done == {kp \in existing \X Pair : Closed(familyFile.families[kp[1]], kp[2])}
            open(what) == {q \in Queued : q.group \in mine /\ q.kind = what}
        IN  ExpectedKinds[kind] =
                [families |-> Cardinality(existing) + Cardinality(open("family")),
                 revisions |-> Cardinality(done) + Cardinality(open("revision"))]

\* Wave by wave the queue can be worked off: open pairs of existing families come
\* first, a planned family comes before its revisions, and only the last wave is short.
WavesCanBeWorkedOff ==
    LET q == report.queue
    IN  /\ \A m, n \in DOMAIN q :
             /\ q[m].item.priority = 1 /\ q[n].item.priority > 1 => m < n
             /\ q[m].item.kind = "family" /\ q[n].item.kind = "revision"
                  /\ q[m].item.key = q[n].item.key => q[m].wave <= q[n].wave /\ m < n
        /\ \A w \in 1..report.waves :
             LET size == Cardinality({n \in DOMAIN q : q[n].wave = w})
             IN  size >= 1 /\ size <= MaxBatch /\ (w < report.waves => size = MaxBatch)

\* A check that passed means that the stored backlog is that of the manifests,
\* which are valid, until one of them changes.
CheckMeansCurrent ==
    outcome = "valid" /\ ~moved =>
        ValidPlan(planFile, familyFile) /\ json = Report(planFile, familyFile)

\* The Markdown is that of the JSON between runs, unless one was cut off as it wrote.
PageMatchesJson == step = "idle" /\ ~cut => page = json
=============================================================================
