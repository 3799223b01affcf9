---------------------------- MODULE BacklogProofs ----------------------------
(***************************************************************************)
(* What may be relied on after a run of portfolio-backlog, for any          *)
(* manifests and any number of edits: the two stored files belong together, *)
(* and a check that passed speaks of the manifests as they are; for these   *)
(* it only matters what was read when (Fresh) and what was written when     *)
(* (Stored).  Then the backlog itself: every report was made from a plan    *)
(* that was found valid (Made), and so its queue can be worked off, is the  *)
(* deficit of the manifests, and closes it (PortfolioProofs).               *)
(***************************************************************************)
EXTENDS Backlog, PortfolioProofs, TLAPS

\* The steps of a run.
Steps == {"idle", "families", "items", "compare", "json", "page"}

\* Unless a manifest changed under it, a run works on the manifests as they are.
Fresh ==
    ~moved =>
        /\ step # "idle" => plan = planFile
        /\ step \in {"items", "compare", "json", "page"} => ValidPlan(plan, familyFile)
        /\ step \in {"compare", "json", "page"} => report = Report(plan, familyFile)

\* The page is that of the JSON file but between the two writes, when the JSON is the report's.
Stored ==
    /\ step = "page" => json = report
    /\ step # "page" /\ ~cut => page = json

\* A run that goes on has no outcome yet, so that a passed check is between runs.
Checked ==
    /\ step # "idle" => outcome = "none"
    /\ CheckMeansCurrent

\* The inductive invariant of the run.
BacklogInv == step \in Steps /\ Fresh /\ Stored /\ Checked

\* It holds before the first run.
LEMMA InvInit == Init => BacklogInv
BY DEF Init, BacklogInv, Steps, Fresh, Stored, Checked, CheckMeansCurrent

----------------------------------------------------------------------------
\* Each step of a run keeps the invariant.  An edit sets moved, under which Fresh and
\* CheckMeansCurrent ask nothing.
LEMMA InvStep == BacklogInv /\ [Next]_vars => BacklogInv'
<1> SUFFICES ASSUME BacklogInv, [Next]_vars PROVE BacklogInv'
  OBVIOUS
<1> USE DEF BacklogInv, Steps, Fresh, Stored, Checked, CheckMeansCurrent, inputs, outputs
<1>1. CASE ReadPlan
  BY <1>1 DEF ReadPlan
<1>2. CASE Validate
  BY <1>2 DEF Validate, Proceed
<1>3. CASE Build
  BY <1>3 DEF Build, Proceed
<1>4. CASE Compare
  BY <1>4 DEF Compare
<1>5. CASE WriteJson
  BY <1>5 DEF WriteJson, Proceed
<1>6. CASE WritePage
  BY <1>6 DEF WritePage
<1>7. CASE Break
  BY <1>7 DEF Break
<1>8. CASE EditPlan \/ EditFamilies
  BY <1>8 DEF EditPlan, EditFamilies, Edit
<1>9. CASE UNCHANGED vars
  BY <1>9 DEF vars
<1> QED
  BY <1>1, <1>2, <1>3, <1>4, <1>5, <1>6, <1>7, <1>8, <1>9 DEF Next

\* The inductive invariant of the command, for any manifests and any number of edits.
THEOREM Consistency == Spec => []BacklogInv
BY InvInit, InvStep, PTL DEF Spec

\* The Markdown that WritePage leaves is that of the JSON that WriteJson left, between
\* runs, unless a run was stopped amid its writing and none was whole since.
THEOREM PagesMatch == Spec => []PageMatchesJson
<1>1. BacklogInv => PageMatchesJson
  BY DEF BacklogInv, Stored, PageMatchesJson
<1> QED
  BY <1>1, Consistency, PTL

\* When --check has passed, the manifests are valid and the stored JSON is their
\* backlog, until one of them changes.
THEOREM ChecksAreCurrent == Spec => []CheckMeansCurrent
<1>1. BacklogInv => CheckMeansCurrent
  BY DEF BacklogInv, Checked
<1> QED
  BY <1>1, Consistency, PTL

----------------------------------------------------------------------------
(* The types, and where every report comes from.                           *)

\* What a run can have built or stored.
Reports == {Unreadable} \cup {Report(P, F) : P \in Plan, F \in Families}

\* What is stored is a report or unreadable; a run builds only from a plan that it found valid,
\* against the families as they were then, and its report lasts no longer than its plan.
Made ==
    /\ {json, page, report} \subseteq Reports
    /\ step \in {"items", "compare", "json", "page"} => \E F \in Families : ValidPlan(plan, F)
    /\ report # Unreadable => \E F, G \in Families : ValidPlan(plan, F) /\ report = Report(plan, G)

\* What Report makes, whatever the plan.
LEMMA ReportOf ==
    ASSUME NEW P \in PlanType, NEW F \in FamiliesType
    PROVE  /\ Report(P, F).source \in ReleaseId /\ Report(P, F).waves \in Nat
           /\ Report(P, F).queue = Queue(Items(P, F))
           /\ Report(P, F).waves = (Len(Items(P, F)) + MaxBatch - 1) \div MaxBatch
<1> DEFINE N == Len(Items(P, F))
<1>1. N \in Nat
  BY ItemsOf
<1>2. Report(P, F) = [source |-> P.source, queue |-> Queue(Items(P, F)),
                      waves |-> (N + MaxBatch - 1) \div MaxBatch]
  BY DEF Report
<1>3. P.source \in ReleaseId
  BY DEF PlanType
<1> HIDE DEF N
<1>4. (N + MaxBatch - 1) \div MaxBatch \in Nat
  BY <1>1, ConstantAssumption
<1> QED
  BY <1>2, <1>3, <1>4 DEF N

\* A report that can be read has a release and a number of waves.
LEMMA ReportsAreTyped ==
    ASSUME NEW r \in Reports
    PROVE  r = Unreadable \/ (r.source \in ReleaseId /\ r.waves \in Nat)
BY ReportOf, FileAssumption DEF Reports

\* The inductive invariant of the types.
TypedInv == TypeOK /\ Made

\* It holds before the first run.
LEMMA TypedInit == Init => TypedInv
<1> SUFFICES ASSUME Init PROVE TypedInv
  OBVIOUS
<1>1. TypeOK
  <2>1. \A r \in {json, page, report} : r = Unreadable
    BY DEF Init
  <2>2. /\ planFile \in Plan /\ plan \in Plan /\ familyFile \in Families
        /\ step = "idle" /\ check = FALSE /\ moved = FALSE /\ cut = FALSE
        /\ outcome = "none" /\ edits \in 0..MaxEdits
    BY FileAssumption DEF Init
  <2> QED
    BY <2>1, <2>2 DEF TypeOK
<1>2. Made
  BY DEF Init, Made, Reports
<1> QED
  BY <1>1, <1>2 DEF TypedInv

\* Every step of a run, and every edit of a manifest or of a file, keeps it.
LEMMA TypedStep == TypedInv /\ [Next]_vars => TypedInv'
<1> SUFFICES ASSUME TypedInv, [Next]_vars PROVE TypedInv'
  OBVIOUS
<1> USE FileAssumption DEF TypedInv, inputs, outputs
<1>1. Made'
  <2> USE DEF Made
  <2>1. CASE ReadPlan
    BY <2>1 DEF ReadPlan, Reports
  <2>2. CASE Validate
    BY <2>2 DEF Validate, Proceed, TypeOK
  <2>3. CASE Build
    <3>1. CASE familyFile.sound
      <4>1. report' = Report(plan, familyFile) /\ step = "items"
        BY <2>3, <3>1 DEF Build, Proceed
      <4>2. report' \in Reports
        BY <4>1 DEF Reports, TypeOK
      <4> QED
        BY <2>3, <4>1, <4>2 DEF Build, Proceed, TypeOK
    <3>2. CASE ~familyFile.sound
      BY <2>3, <3>2 DEF Build, Proceed
    <3> QED
      BY <3>1, <3>2
  <2>4. CASE Compare
    BY <2>4 DEF Compare
  <2>5. CASE WriteJson
    BY <2>5 DEF WriteJson, Proceed
  <2>6. CASE WritePage
    BY <2>6 DEF WritePage
  <2>7. CASE Break
    BY <2>7 DEF Break, Reports
  <2>8. CASE EditPlan \/ EditFamilies
    BY <2>8 DEF EditPlan, EditFamilies, Edit
  <2>9. CASE UNCHANGED vars
    BY <2>9 DEF vars
  <2> QED
    BY <2>1, <2>2, <2>3, <2>4, <2>5, <2>6, <2>7, <2>8, <2>9 DEF Next
<1>2. \A r \in {json, page, report}' : r = Unreadable \/ (r.source \in ReleaseId /\ r.waves \in Nat)
  BY <1>1, ReportsAreTyped DEF Made
<1>3. /\ planFile' \in Plan /\ plan' \in Plan /\ familyFile' \in Families
      /\ step' \in {"idle", "families", "items"} \cup
                  (IF check' THEN {"compare"} ELSE {"json", "page"})
      /\ check' \in BOOLEAN /\ moved' \in BOOLEAN /\ cut' \in BOOLEAN
      /\ outcome' \in {"none", "failed", "valid", "written"}
      /\ edits' \in 0..MaxEdits
  <2> USE DEF TypeOK
  <2>1. CASE ReadPlan
    BY <2>1 DEF ReadPlan
  <2>2. CASE Validate
    BY <2>2 DEF Validate, Proceed
  <2>3. CASE Build
    BY <2>3 DEF Build, Proceed
  <2>4. CASE Compare
    BY <2>4 DEF Compare
  <2>5. CASE WriteJson
    BY <2>5 DEF WriteJson, Proceed
  <2>6. CASE WritePage
    BY <2>6 DEF WritePage
  <2>7. CASE Break
    BY <2>7 DEF Break
  <2>8. CASE EditPlan \/ EditFamilies
    <3>1. UNCHANGED <<outputs, step, check, plan, report, outcome>> /\ moved' = TRUE
      BY <2>8 DEF EditPlan, EditFamilies, Edit
    <3>2. planFile' \in Plan /\ familyFile' \in Families
      BY <2>8 DEF EditPlan, EditFamilies
    <3>3. edits' \in 0..MaxEdits
      BY <2>8 DEF EditPlan, EditFamilies, Edit
    <3> QED
      BY <3>1, <3>2, <3>3
  <2>9. CASE UNCHANGED vars
    BY <2>9 DEF vars
  <2> QED
    BY <2>1, <2>2, <2>3, <2>4, <2>5, <2>6, <2>7, <2>8, <2>9 DEF Next
<1> QED
  BY <1>1, <1>2, <1>3 DEF TypeOK

\* At every moment what is stored and what a run holds is a report of two manifests.
THEOREM Typed == Spec => []TypedInv
BY TypedInit, TypedStep, PTL DEF Spec

\* A run with --check never writes and one without never compares, and what the files hold is
\* a report, with its release and its waves, or cannot be read.
THEOREM TypeCorrect == Spec => []TypeOK
<1>1. TypedInv => TypeOK
  BY DEF TypedInv
<1> QED
  BY <1>1, Typed, PTL

----------------------------------------------------------------------------
(* The queue can be worked off.                                            *)

\* If among the items a family ranks before its revisions by its priority (as Authoring
\* numbers them: 2 and 3), the queue made of them can be worked off wave by wave.
THEOREM SortedWavesCanBeWorkedOff ==
    ASSUME NEW items \in Seq(ItemType),
           \A x, y \in DOMAIN items :
              items[x].kind = "family" /\ items[y].kind = "revision"
                /\ items[x].key = items[y].key => items[x].priority < items[y].priority,
           report.queue = Queue(items),
           report.waves = (Len(items) + MaxBatch - 1) \div MaxBatch
    PROVE  WavesCanBeWorkedOff
<1> DEFINE N == Len(items)
           q == Queue(items)
           low(w) == (w - 1) * MaxBatch
<1>1. /\ N \in Nat /\ DOMAIN items = 1..N /\ \A x \in 1..N : items[x] \in ItemType
      /\ MaxBatch \in Nat \ {0}
  BY ConstantAssumption
<1>2. PICK at \in Bijection(1..N, 1..N) :
        /\ DOMAIN q = 1..N
        /\ \A n \in 1..N :
             /\ q[n].item = items[at[n]]
             /\ q[n].wave \in Nat \ {0} /\ q[n].position \in 1..MaxBatch
             /\ n = (q[n].wave - 1) * MaxBatch + q[n].position
        /\ \A m, n \in 1..N : m < n => ~Less(Rank(q[n].item), Rank(q[m].item))
  BY QueueIsSorted
<1> HIDE DEF q
<1>3. \A n \in 1..N : at[n] \in 1..N /\ q[n].item \in ItemType
  <2>1. \A n \in 1..N : at[n] \in 1..N
    BY DEF Bijection, Injection
  <2> QED
    BY <1>1, <1>2, <2>1
<1>4. ASSUME NEW m \in 1..N, NEW n \in 1..N, q[m].item.priority < q[n].item.priority
      PROVE  m < n
  <2>1. Less(Rank(q[m].item), Rank(q[n].item))
    BY <1>3, <1>4, RankCompares DEF Earlier
  <2>2. m # n
    <3>1. \A x \in ItemType : x.priority \in 1..3
      BY DEF ItemType
    <3>2. q[m].item.priority \in 1..3
      BY <1>3, <3>1
    <3> QED
      BY <1>4, <3>2
  <2>3. ~(n < m)
    BY <1>2, <2>1
  <2> QED
    BY <2>2, <2>3
<1>5. \A n \in 1..N, w \in Nat \ {0} : q[n].wave = w <=> low(w) < n /\ n <= low(w) + MaxBatch
  <2> TAKE n \in 1..N, w \in Nat \ {0}
  <2> DEFINE v == q[n].wave
             p == q[n].position
  <2>1. n \in Nat /\ v \in Nat \ {0} /\ p \in 1..MaxBatch /\ n = (v - 1) * MaxBatch + p
    BY <1>1, <1>2
  <2> HIDE DEF v, p
  <2>2. v = w <=> (w - 1) * MaxBatch < n /\ n <= (w - 1) * MaxBatch + MaxBatch
    BY <1>1, <2>1, WaveBounds
  <2> QED
    BY <2>2 DEF v
<1>6. ASSUME NEW m \in 1..N, NEW n \in 1..N, m < n PROVE q[m].wave <= q[n].wave
  <2> DEFINE v == q[m].wave
             w == q[n].wave
  <2>1. v \in Nat \ {0} /\ w \in Nat \ {0}
    BY <1>2
  <2>2. low(v) < m /\ m <= low(v) + MaxBatch /\ low(w) < n /\ n <= low(w) + MaxBatch
    BY <1>5, <2>1
  <2>3. w < v => low(w) + MaxBatch <= low(v)
    <3> SUFFICES ASSUME w < v PROVE low(w) + MaxBatch <= low(v)
      OBVIOUS
    <3> DEFINE gap == v - 1 - w
    <3>1. gap \in Nat
      BY <2>1
    <3> HIDE DEF v, w
    <3>2. low(v) = low(w) + MaxBatch + gap * MaxBatch /\ gap * MaxBatch \in Int /\ low(w) \in Int
      BY <1>1, <2>1
    <3> HIDE DEF gap
    <3>3. gap * MaxBatch >= 0
      BY <1>1, <3>1
    <3> HIDE DEF low
    <3> QED
      BY <1>1, <3>2, <3>3
  <2>4. low(v) \in Int /\ low(w) \in Int
    BY <1>1, <2>1
  <2> HIDE DEF low, v, w
  <2>5. ~(w < v)
    BY <1>1, <1>6, <2>2, <2>3, <2>4
  <2> QED
    BY <2>1, <2>5 DEF v, w
<1>7. ASSUME NEW w \in 1..report.waves
      PROVE  LET size == Cardinality({n \in DOMAIN q : q[n].wave = w})
             IN  size >= 1 /\ size <= MaxBatch /\ (w < report.waves => size = MaxBatch)
  <2> DEFINE high == IF low(w) + MaxBatch <= N THEN low(w) + MaxBatch ELSE N
  <2>1. w \in Nat \ {0} /\ low(w) \in Nat
    <3>1. w \in Nat \ {0} /\ w - 1 \in Nat
      BY <1>7
    <3> QED
      BY <1>1, <3>1
  <2>2. low(w) < N /\ (w < report.waves => low(w) + MaxBatch <= N)
    BY <1>1, <1>7, LastWave
  <2>3. {n \in DOMAIN q : q[n].wave = w} = (low(w) + 1)..high
    <3>1. {n \in DOMAIN q : q[n].wave = w} = {n \in 1..N : low(w) < n /\ n <= low(w) + MaxBatch}
      BY <1>2, <1>5, <2>1
    <3> HIDE DEF low
    <3>2. {n \in 1..N : low(w) < n /\ n <= low(w) + MaxBatch} = (low(w) + 1)..high
      BY <1>1, <2>1
    <3> QED
      BY <3>1, <3>2
  <2> HIDE DEF low
  <2>4. high \in Int /\ low(w) + 1 <= high
    BY <1>1, <2>1, <2>2
  <2>5. Cardinality((low(w) + 1)..high) = high - low(w)
    <3> HIDE DEF high
    <3>1. low(w) + 1 \in Int
      BY <2>1
    <3>2. Cardinality((low(w) + 1)..high) = high - (low(w) + 1) + 1
      BY <2>4, <3>1, FS_Interval
    <3> QED
      BY <2>1, <2>4, <3>2
  <2>6. /\ high - low(w) >= 1 /\ high - low(w) <= MaxBatch
        /\ w < report.waves => high - low(w) = MaxBatch
    BY <1>1, <2>1, <2>2
  <2> HIDE DEF high
  <2> QED
    BY <2>3, <2>5, <2>6
<1>8. ASSUME NEW m \in 1..N, NEW n \in 1..N,
             q[m].item.priority = 1, q[n].item.priority > 1
      PROVE  m < n
  BY <1>4, <1>8
<1>9. ASSUME NEW m \in 1..N, NEW n \in 1..N,
             q[m].item.kind = "family", q[n].item.kind = "revision",
             q[m].item.key = q[n].item.key
      PROVE  q[m].wave <= q[n].wave /\ m < n
  <2>1. q[m].item.priority < q[n].item.priority
    <3>1. /\ at[m] \in DOMAIN items /\ at[n] \in DOMAIN items
          /\ q[m].item = items[at[m]] /\ q[n].item = items[at[n]]
      BY <1>1, <1>2, <1>3
    <3>2. /\ items[at[m]].kind = "family" /\ items[at[n]].kind = "revision"
          /\ items[at[m]].key = items[at[n]].key
      BY <1>9, <3>1
    <3> QED
      BY <3>1, <3>2
  <2> QED
    BY <1>4, <1>6, <2>1
<1> QED
  BY <1>2, <1>7, <1>8, <1>9 DEF WavesCanBeWorkedOff, q

\* The queue of every report can be worked off wave by wave, even of a run that read the
\* families again after they had changed: it was made from a plan that has each key once.
THEOREM WavesWorkOff == Spec => []WavesCanBeWorkedOff
<1>1. TypedInv => WavesCanBeWorkedOff
  <2> SUFFICES ASSUME TypedInv PROVE WavesCanBeWorkedOff
    OBVIOUS
  <2>1. CASE report = Unreadable
    <3>1. report.queue = <<>> /\ report.waves = 0
      BY <2>1 DEF Unreadable
    <3>2. DOMAIN report.queue = {} /\ 1..report.waves = {}
      BY <3>1
    <3> QED
      BY <3>2 DEF WavesCanBeWorkedOff
  <2>2. CASE report # Unreadable
    <3>1. PICK F \in Families, G \in Families : ValidPlan(plan, F) /\ report = Report(plan, G)
      BY <2>2 DEF TypedInv, Made
    <3>2. plan \in PlanType /\ G \in FamiliesType
      BY FileAssumption DEF TypedInv, TypeOK
    <3> DEFINE items == Items(plan, G)
    <3>3. items \in Seq(ItemType)
      BY <3>2, ItemsOf
    <3>4. /\ report.queue = Queue(items)
          /\ report.waves = (Len(items) + MaxBatch - 1) \div MaxBatch
      BY <3>1, <3>2, ReportOf
    <3>5. \A x, y \in DOMAIN items :
            items[x].kind = "family" /\ items[y].kind = "revision"
              /\ items[x].key = items[y].key => items[x].priority < items[y].priority
      <4> SUFFICES ASSUME NEW x \in DOMAIN items, NEW y \in DOMAIN items,
                          items[x].kind = "family", items[y].kind = "revision",
                          items[x].key = items[y].key
                   PROVE  items[x].priority < items[y].priority
        OBVIOUS
      <4>1. items[x] \in Range(Items(plan, G)) /\ items[y] \in Range(Items(plan, G))
        BY DEF Range
      <4>2. IsInjective(AllKeys(plan))
        BY <3>1 DEF ValidPlan, Classified
      <4> HIDE DEF items
      <4> QED
        BY <3>2, <4>1, <4>2, FamiliesFirst
    <3> HIDE DEF items
    <3> QED
      BY <3>3, <3>4, <3>5, SortedWavesCanBeWorkedOff
  <2> QED
    BY <2>1, <2>2
<1> QED
  BY <1>1, Typed, PTL

----------------------------------------------------------------------------
(* The queue is what the manifests lack, and closes the target.            *)

\* What is in the queue is what Items made, as often.
LEMMA QueuedItems ==
    ASSUME NEW items \in Seq(ItemType), report.queue = Queue(items)
    PROVE  Queued = Range(items) /\ Len(report.queue) = Len(items)
<1> DEFINE N == Len(items)
           q == Queue(items)
<1>1. N \in Nat /\ DOMAIN items = 1..N
  OBVIOUS
<1>2. PICK at \in Bijection(1..N, 1..N) :
        /\ DOMAIN q = 1..N
        /\ \A n \in 1..N : q[n].item = items[at[n]]
  BY QueueIsSorted
<1>3. /\ \A n \in 1..N : at[n] \in 1..N
      /\ \A x \in 1..N : \E n \in 1..N : at[n] = x
  BY DEF Bijection, Injection, Surjection
<1>4. Queued = {q[n].item : n \in 1..N}
  BY <1>2 DEF Queued
<1>5. Len(q) = N
  <2>1. q = [n \in 1..N |-> q[n]]
    BY <1>1 DEF Queue
  <2> HIDE DEF q, N
  <2> QED
    BY <1>1, <2>1
<1> HIDE DEF q, N
<1>6. Range(items) = {items[x] : x \in 1..N}
  BY <1>1 DEF Range
<1>7. {q[n].item : n \in 1..N} = {items[x] : x \in 1..N}
  <2>1. \A n \in 1..N : q[n].item = items[at[n]] /\ at[n] \in 1..N
    BY <1>2, <1>3
  <2>2. \A x \in 1..N : \E n \in 1..N : q[n].item = items[x]
    BY <1>2, <1>3
  <2>3. ASSUME NEW y \in {q[n].item : n \in 1..N} PROVE y \in {items[x] : x \in 1..N}
    BY <2>1
  <2>4. ASSUME NEW y \in {items[x] : x \in 1..N} PROVE y \in {q[n].item : n \in 1..N}
    <3>1. PICK x \in 1..N : y = items[x]
      OBVIOUS
    <3>2. PICK n \in 1..N : q[n].item = items[x]
      BY <2>2
    <3> QED
      BY <3>1, <3>2
  <2> QED
    BY <2>3, <2>4
<1> QED
  BY <1>4, <1>5, <1>6, <1>7 DEF q, N

\* Of a family that lists each pair once, the last revision with a pair is the only one.
LEMMA ClosedOnce ==
    ASSUME NEW family \in FamilyType, PairsOnce(family), family.status = "released", NEW pair
    PROVE  Closed(family, pair) <=>
             \E j \in DOMAIN family.revisions :
                family.revisions[j] = [pair |-> pair, runnable |-> TRUE]
<1> DEFINE revisions == family.revisions
           hits == {j \in DOMAIN revisions : revisions[j].pair = pair}
<1>1. /\ revisions \in Seq([pair : Pair, runnable : BOOLEAN])
      /\ DOMAIN revisions = 1..Len(revisions) /\ Len(revisions) \in Nat
  BY DEF FamilyType
<1>2. \A j \in DOMAIN revisions :
        /\ j \in Nat /\ revisions[j].runnable \in BOOLEAN
        /\ revisions[j] = [pair |-> revisions[j].pair, runnable |-> revisions[j].runnable]
  <2> TAKE j \in DOMAIN revisions
  <2>1. j \in Nat /\ revisions[j] \in [pair : Pair, runnable : BOOLEAN]
    <3> DEFINE R == [pair : Pair, runnable : BOOLEAN]
    <3>1. revisions \in Seq(R) /\ j \in 1..Len(revisions)
      BY <1>1
    <3> HIDE DEF R, revisions
    <3>2. revisions[j] \in R /\ j \in Nat
      BY <3>1
    <3> QED
      BY <3>2 DEF R
  <2> QED
    BY <2>1
<1>3. \A i, j \in hits : i = j
  BY DEF PairsOnce
<1>4. Closed(family, pair) <=> hits # {} /\ revisions[Max(hits)].runnable
  BY DEF Closed
<1>5. ASSUME NEW j \in hits PROVE Max(hits) = j
  <2>1. hits = {j} /\ j \in Nat
    BY <1>2, <1>3
  <2> HIDE DEF hits
  <2>2. Max({j}) = j
    <3>1. \A x \in {j} : x = j /\ \A y \in {j} : x >= y
      BY <2>1
    <3> QED
      BY <3>1 DEF Max
  <2> QED
    BY <2>1, <2>2
<1>6. ASSUME Closed(family, pair)
      PROVE  \E j \in DOMAIN revisions : revisions[j] = [pair |-> pair, runnable |-> TRUE]
  <2>1. PICK j \in hits : TRUE
    BY <1>4, <1>6
  <2>2. revisions[j].runnable = TRUE /\ revisions[j].pair = pair
    BY <1>2, <1>4, <1>5, <1>6
  <2> QED
    BY <1>2, <2>2
<1>7. ASSUME NEW j \in DOMAIN revisions, revisions[j] = [pair |-> pair, runnable |-> TRUE]
      PROVE  Closed(family, pair)
  <2>1. j \in hits /\ revisions[j].runnable
    BY <1>7
  <2> QED
    BY <1>4, <1>5, <2>1
<1> QED
  BY <1>6, <1>7

\* A run with no edit since it began has built the report of the manifests as they are.
LEMMA SteadyReport ==
    ASSUME BacklogInv, TypedInv, Steady
    PROVE  /\ planFile \in PlanType /\ familyFile \in FamiliesType
           /\ ValidPlan(planFile, familyFile)
           /\ Items(planFile, familyFile) \in Seq(ItemType)
           /\ Queued = Range(Items(planFile, familyFile))
           /\ Len(report.queue) = Len(Items(planFile, familyFile))
<1>1. planFile \in PlanType /\ familyFile \in FamiliesType
  BY FileAssumption DEF TypedInv, TypeOK
<1>2. ValidPlan(planFile, familyFile) /\ report = Report(planFile, familyFile)
  BY DEF BacklogInv, Fresh, Steady
<1>3. Items(planFile, familyFile) \in Seq(ItemType)
  BY <1>1, ItemsOf
<1>4. report.queue = Queue(Items(planFile, familyFile))
  BY <1>1, <1>2, ReportOf
<1> QED
  BY <1>1, <1>2, <1>3, <1>4, QueuedItems

\* One gap for each item, by its family and its pair.
LEMMA GapOfEachItem ==
    ASSUME NEW P \in PlanType, NEW F \in FamiliesType, ValidPlan(P, F)
    PROVE  Cardinality({<<q.key, q.pair>> : q \in Range(Items(P, F))}) = Len(Items(P, F))
<1> DEFINE items == Items(P, F)
           N == Len(items)
           gapOf == [n \in 1..N |-> <<items[n].key, items[n].pair>>]
           gaps == {<<q.key, q.pair>> : q \in Range(items)}
<1>1. items \in Seq(ItemType)
  BY ItemsOf
<1>2. IsInjective(items) /\ \A q, r \in Range(items) : q.key = r.key /\ q.pair = r.pair => q = r
  BY ItemsOnce
<1> HIDE DEF items
<1>3. N \in Nat /\ DOMAIN items = 1..N
  BY <1>1
<1> HIDE DEF N
<1>4. \A n \in 1..N : items[n] \in Range(items)
  BY <1>3 DEF Range
<1>5. \A q \in Range(items) : \E n \in 1..N : q = items[n]
  BY <1>3 DEF Range
<1>6. \A n, l \in 1..N : gapOf[n] = gapOf[l] => n = l
  <2>1. \A n, l \in 1..N : items[n] = items[l] => n = l
    BY <1>2, <1>3 DEF IsInjective
  <2> QED
    BY <1>2, <1>4, <2>1
<1>7. gapOf \in [1..N -> gaps]
  BY <1>4
<1>8. \A gap \in gaps : \E n \in 1..N : gapOf[n] = gap
  BY <1>5
<1>9. IsFiniteSet(1..N) /\ Cardinality(1..N) = N
  BY <1>3, FirstNumbers
<1> HIDE DEF gapOf, gaps
<1>10. Cardinality(gaps) = N
  <2>1. PICK S : S = 1..N
    OBVIOUS
  <2>2. /\ gapOf \in [S -> gaps] /\ IsFiniteSet(S) /\ Cardinality(S) = N
        /\ \A n, l \in S : gapOf[n] = gapOf[l] => n = l
        /\ \A gap \in gaps : \E n \in S : gapOf[n] = gap
    BY <1>6, <1>7, <1>8, <1>9, <2>1
  <2> QED
    BY ONLY <2>2, SameSize
<1> QED
  BY <1>10 DEF gaps, N, items

\* While nothing has changed, what BuildTaskPortfolioBacklog queues is the deficit that the
\* contract document names, each gap once, if every family lists each pair once.
THEOREM QueueIsDeficit == Spec => []QueueIsTheDeficit
<1>1. BacklogInv /\ TypedInv => QueueIsTheDeficit
  <2> SUFFICES ASSUME BacklogInv, TypedInv, Steady, \A k \in Key : PairsOnce(familyFile.families[k])
               PROVE  /\ {<<q.key, q.pair>> : q \in Queued} = Deficits
                      /\ Len(report.queue) = Cardinality(Deficits)
    BY DEF QueueIsTheDeficit
  <2> DEFINE P == planFile
             F == familyFile
             items == Range(Items(P, F))
             gaps == {<<q.key, q.pair>> : q \in items}
             Ex(i) == Range(P.groups[i].existing)
             Pl(i) == Range(P.groups[i].planned)
             Exp(i) == ExpectedSets[P.groups[i].set]
  <2>1. /\ P \in PlanType /\ F \in FamiliesType /\ ValidPlan(P, F)
        /\ Queued = items /\ Len(report.queue) = Len(Items(P, F))
    BY SteadyReport
  <2>2. \A i \in DOMAIN P.groups : \A k \in Ex(i) : \A p :
          Closed(F.families[k], p) <=>
            \E j \in DOMAIN F.families[k].revisions :
               F.families[k].revisions[j] = [pair |-> p, runnable |-> TRUE]
    <3> TAKE i \in DOMAIN P.groups
    <3> TAKE k \in Ex(i)
    <3>1. k \in Key
      <4>1. P.groups[i] \in GroupType
        BY <2>1 DEF PlanType
      <4>2. P.groups[i].existing \in Seq(Key)
        BY <4>1 DEF GroupType
      <4> QED
        BY <4>2, RangeOf
    <3>2. F.families[k] \in FamilyType
      BY <2>1, <3>1 DEF FamiliesType
    <3>3. F.families[k].status = "released"
      BY <2>1 DEF ValidPlan, ValidGroup
    <3> QED
      BY <3>1, <3>2, <3>3, ClosedOnce
  <2> DEFINE undone(i) == {gap \in Ex(i) \X Exp(i) :
                             ~\E j \in DOMAIN F.families[gap[1]].revisions :
                                F.families[gap[1]].revisions[j] = [pair |-> gap[2], runnable |-> TRUE]}
             unwritten(i) == Pl(i) \X (Exp(i) \cup {"none"})
  <2>3. /\ \A gap : gap \in Deficits <=>
                 \E i \in DOMAIN P.groups : gap \in undone(i) \/ gap \in unwritten(i)
        /\ \A i, gap : gap \in undone(i) <=>
                 /\ gap \in Ex(i) \X Exp(i)
                 /\ ~\E j \in DOMAIN F.families[gap[1]].revisions :
                        F.families[gap[1]].revisions[j] = [pair |-> gap[2], runnable |-> TRUE]
        /\ \A i, gap : gap \in unwritten(i) <=> gap \in Pl(i) \X (Exp(i) \cup {"none"})
    <3>1. Deficits = UNION {undone(i) \cup unwritten(i) : i \in DOMAIN P.groups}
      BY DEF Deficits
    <3>2. \A gap : gap \in Deficits <=>
            \E i \in DOMAIN P.groups : gap \in undone(i) \/ gap \in unwritten(i)
      <4> HIDE DEF undone, unwritten
      <4> QED
        BY <3>1
    <3>3. \A i, gap : gap \in undone(i) <=>
            /\ gap \in Ex(i) \X Exp(i)
            /\ ~\E j \in DOMAIN F.families[gap[1]].revisions :
                   F.families[gap[1]].revisions[j] = [pair |-> gap[2], runnable |-> TRUE]
      OBVIOUS
    <3> QED
      BY <3>2, <3>3
  <2>4. \A q \in items :
          /\ q.group \in DOMAIN P.groups
          /\ \/ /\ q.kind = "revision" /\ q.pair \in Exp(q.group)
                /\ \/ q.key \in Ex(q.group) /\ ~Closed(F.families[q.key], q.pair)
                   \/ q.key \in Pl(q.group)
             \/ q.kind = "family" /\ q.pair = "none" /\ q.key \in Pl(q.group)
    <3> HIDE DEF items
    <3> QED
      BY <2>1, ItemsAre DEF items
  <2>5. /\ \A i \in DOMAIN P.groups : \A k \in Ex(i), p \in Exp(i) :
             ~Closed(F.families[k], p) => HasItem(P, F, i, "revision", k, p)
        /\ \A i \in DOMAIN P.groups : \A k \in Pl(i), p \in Exp(i) :
             HasItem(P, F, i, "revision", k, p)
        /\ \A i \in DOMAIN P.groups : \A k \in Pl(i) : HasItem(P, F, i, "family", k, "none")
    <3> HIDE DEF P, F
    <3> QED
      BY <2>1, ItemsAre
  <2>6. Cardinality(gaps) = Len(Items(P, F))
    BY <2>1, GapOfEachItem
  <2> HIDE DEF items, P, F
  <2>7. ASSUME NEW gap \in gaps PROVE gap \in Deficits
    <3>1. PICK q \in items : gap = <<q.key, q.pair>>
      OBVIOUS
    <3> DEFINE i == q.group
    <3>2. /\ i \in DOMAIN P.groups
          /\ \/ q.key \in Ex(i) /\ q.pair \in Exp(i) /\ ~Closed(F.families[q.key], q.pair)
             \/ q.key \in Pl(i) /\ q.pair \in Exp(i) \cup {"none"}
      BY <2>4
    <3> HIDE DEF i
    <3>3. CASE q.key \in Ex(i) /\ q.pair \in Exp(i) /\ ~Closed(F.families[q.key], q.pair)
      BY <2>2, <2>3, <3>1, <3>2, <3>3
    <3>4. CASE q.key \in Pl(i) /\ q.pair \in Exp(i) \cup {"none"}
      BY <2>3, <3>1, <3>2, <3>4
    <3> QED
      BY <3>2, <3>3, <3>4
  <2>8. ASSUME NEW gap \in Deficits PROVE gap \in gaps
    <3>1. PICK i \in DOMAIN P.groups :
             \/ /\ gap \in Ex(i) \X Exp(i)
                /\ ~\E j \in DOMAIN F.families[gap[1]].revisions :
                       F.families[gap[1]].revisions[j] = [pair |-> gap[2], runnable |-> TRUE]
             \/ gap \in Pl(i) \X (Exp(i) \cup {"none"})
      BY <2>3
    <3> SUFFICES \E what : HasItem(P, F, i, what, gap[1], gap[2]) /\ gap = <<gap[1], gap[2]>>
      BY DEF HasItem, items
    <3>2. CASE /\ gap \in Ex(i) \X Exp(i)
               /\ ~\E j \in DOMAIN F.families[gap[1]].revisions :
                      F.families[gap[1]].revisions[j] = [pair |-> gap[2], runnable |-> TRUE]
      <4>1. /\ gap[1] \in Ex(i) /\ gap[2] \in Exp(i) /\ gap = <<gap[1], gap[2]>>
            /\ ~Closed(F.families[gap[1]], gap[2])
        BY <2>2, <3>2
      <4> QED
        BY <2>5, <4>1
    <3>3. CASE gap \in Pl(i) \X (Exp(i) \cup {"none"})
      <4>1. gap[1] \in Pl(i) /\ gap[2] \in Exp(i) \cup {"none"} /\ gap = <<gap[1], gap[2]>>
        BY <3>3
      <4> QED
        BY <2>5, <4>1
    <3> QED
      BY <3>1, <3>2, <3>3
  <2>9. gaps = Deficits
    BY <2>7, <2>8
  <2> QED
    BY <2>1, <2>6, <2>9
<1> QED
  BY <1>1, Consistency, Typed, PTL

\* What exists and what BuildTaskPortfolioBacklog queues are together the expected families and
\* revisions of each kind, while nothing has changed.
THEOREM ClosingReaches == Spec => []ClosingReachesTarget
<1>1. BacklogInv /\ TypedInv => ClosingReachesTarget
  <2> SUFFICES ASSUME BacklogInv, TypedInv, Steady PROVE ClosingReachesTarget
    BY DEF ClosingReachesTarget
  <2>1. /\ planFile \in PlanType /\ familyFile \in FamiliesType /\ ValidPlan(planFile, familyFile)
        /\ Queued = Range(Items(planFile, familyFile))
    BY SteadyReport
  <2> QED
    BY <2>1, ClosingTotals DEF ClosingReachesTarget
<1> QED
  BY <1>1, Consistency, Typed, PTL
=============================================================================
