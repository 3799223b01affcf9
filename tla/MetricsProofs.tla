---------------------------- MODULE MetricsProofs ----------------------------
(***************************************************************************)
(* What a reader of /v1/metrics may rely on, for any number of requests,   *)
(* scrapes and restarts: the counters are the sizes of nested sets of      *)
(* requests (CountInv), and a scrape lies between them as they were at its *)
(* start and at its end (ScrapeInv).                                       *)
(***************************************************************************)
EXTENDS Metrics, FiniteSetTheorems, TLAPS

\* The five counters of a scrape, in the order in which it reads them.
LEMMA OrderFacts ==
    /\ Len(Order) = 5
    /\ \A i \in 1..5 : Order[i] \in Counter
    /\ Order[2] = "run" /\ Order[3] = "pass" /\ Order[4] = "fail" /\ Order[5] = "error"
BY DEF Order, Counter, Outcome

----------------------------------------------------------------------------
(* Types.                                                                  *)

\* Adding to a counter changes that counter by one request, and no other.
LEMMA AddTypes ==
    ASSUME TypeOK, NEW c \in Counter, NEW r \in Request, Add(c, r)
    PROVE  /\ count' \in [Counter -> Nat] /\ counted' \in [Counter -> SUBSET Request]
           /\ count'[c] = count[c] + 1 /\ counted'[c] = counted[c] \cup {r}
           /\ \A d \in Counter \ {c} : count'[d] = count[d] /\ counted'[d] = counted[d]
BY DEF TypeOK, Add

\* A request moves alone.
LEMMA MoveTypes ==
    ASSUME TypeOK, NEW r \in Request, NEW from, NEW to \in Stage, Moves(r, from, to)
    PROVE  /\ at' \in [Request -> Stage]
           /\ at[r] = from /\ at'[r] = to
           /\ \A s \in Request \ {r} : at'[s] = at[s]
BY DEF TypeOK, Moves

\* A scrape reads the next counter of the order, and no other scrape changes.
LEMMA ReadTypes ==
    ASSUME TypeOK, NEW r \in Request, Read(r)
    PROVE  /\ reads' \in [Request -> Seq(Nat)]
           /\ Len(reads[r]) \in 0..4
           /\ Len(reads'[r]) = Len(reads[r]) + 1
           /\ reads'[r][Len(reads[r]) + 1] = count[Order[Len(reads[r]) + 1]]
           /\ \A i \in 1..Len(reads[r]) : reads'[r][i] = reads[r][i]
           /\ \A s \in Request \ {r} : reads'[s] = reads[s]
<1> DEFINE n == Len(reads[r])
           v == count[Order[n + 1]]
<1>1. reads[r] \in Seq(Nat) /\ n \in Nat /\ n < 5
    BY OrderFacts DEF TypeOK, Read
<1>2. v \in Nat
    <2>1. n + 1 \in 1..5
        BY <1>1
    <2>2. Order[n + 1] \in Counter
        BY <2>1, OrderFacts
    <2>3. count \in [Counter -> Nat]
        BY DEF TypeOK
    <2> QED
        BY <2>2, <2>3
<1>3. reads' = [reads EXCEPT ![r] = Append(reads[r], v)]
    BY DEF Read, Loaded
<1> HIDE DEF v
<1>4. Append(reads[r], v) \in Seq(Nat) /\ Len(Append(reads[r], v)) = n + 1
    BY <1>1, <1>2
<1>5. Append(reads[r], v)[n + 1] = v /\ \A i \in 1..n : Append(reads[r], v)[i] = reads[r][i]
    BY <1>1
<1>6. reads'[r] = Append(reads[r], v) /\ \A s \in Request \ {r} : reads'[s] = reads[s]
    BY <1>3 DEF TypeOK
<1>7. reads' \in [Request -> Seq(Nat)]
    BY <1>3, <1>4 DEF TypeOK
<1>8. n \in 0..4
    <2>1. \A m \in Nat : m < 5 => m \in 0..4
        OBVIOUS
    <2> HIDE DEF n
    <2> QED
        BY <1>1, <2>1
<1> QED
    BY <1>4, <1>5, <1>6, <1>7, <1>8 DEF v

\* Every step keeps the types.
LEMMA TypesKept ==
    ASSUME TypeOK, [Next]_vars
    PROVE  TypeOK'
<1> USE DEF history
<1>1. ASSUME NEW r \in Request, Arrive(r)
      PROVE  TypeOK'
    <2>1. at' \in [Request -> Stage]
        BY <1>1, MoveTypes DEF Arrive, Stage
    <2>2. count' \in [Counter -> Nat] /\ counted' \in [Counter -> SUBSET Request]
        BY <1>1, AddTypes DEF Arrive, Counter
    <2> QED
        BY <1>1, <2>1, <2>2 DEF Arrive, TypeOK
<1>2. ASSUME NEW r \in Request, CountRun(r)
      PROVE  TypeOK'
    <2>1. at' \in [Request -> Stage]
        BY <1>2, MoveTypes DEF CountRun, Stage
    <2>2. count' \in [Counter -> Nat] /\ counted' \in [Counter -> SUBSET Request]
        BY <1>2, AddTypes DEF CountRun, Counter
    <2> QED
        BY <1>2, <2>1, <2>2 DEF CountRun, TypeOK
<1>3. ASSUME NEW r \in Request, CountResult(r)
      PROVE  TypeOK'
    <2>1. at' \in [Request -> Stage]
        BY <1>3, MoveTypes DEF CountResult, Stage
    <2>2. PICK o \in Outcome : Add(o, r)
        BY <1>3 DEF CountResult, CountsOutcome
    <2>3. count' \in [Counter -> Nat] /\ counted' \in [Counter -> SUBSET Request]
        BY <2>2, AddTypes DEF Counter
    <2> QED
        BY <1>3, <2>1, <2>3 DEF CountResult, TypeOK
<1>4. ASSUME NEW r \in Request,
             Serve(r) \/ Refuse(r) \/ Execute(r) \/ Reply(r) \/ EndScrape(r)
      PROVE  TypeOK'
    <2>1. PICK from, to \in Stage : Moves(r, from, to)
        BY <1>4 DEF Serve, Refuse, Execute, Reply, EndScrape, Stage
    <2>2. at' \in [Request -> Stage]
        BY <2>1, MoveTypes
    <2> QED
        BY <1>4, <2>2 DEF Serve, Refuse, Execute, Reply, EndScrape, TypeOK
<1>5. ASSUME NEW r \in Request, Scrape(r)
      PROVE  TypeOK'
    <2>1. at' \in [Request -> Stage]
        BY <1>5, MoveTypes DEF Scrape, Stage
    <2> QED
        BY <1>5, <2>1 DEF Scrape, TypeOK
<1>6. ASSUME NEW r \in Request, Read(r)
      PROVE  TypeOK'
    <2>1. \A s \in Request \ {r} : reads'[s] = reads[s]
        BY <1>6, ReadTypes
    <2>2. Len(reads'[r]) <= Len(Order)
        <3>1. Len(reads[r]) \in 0..4 /\ Len(reads'[r]) = Len(reads[r]) + 1
            BY <1>6, ReadTypes
        <3>2. \A m \in 0..4 : m + 1 <= 5
            OBVIOUS
        <3>3. Len(Order) = 5
            BY OrderFacts
        <3> QED
            BY <3>1, <3>2, <3>3
    <2>3. reads' \in [Request -> Seq(Nat)]
        BY <1>6, ReadTypes
    <2> QED
        BY <1>6, <2>1, <2>2, <2>3 DEF Read, TypeOK
<1>7. CASE Restart
    <2>1. at' \in [Request -> Stage]
        BY <1>7 DEF Restart, TypeOK, Stage
    <2>2. life' \in 0..MaxRestarts
        BY <1>7, RestartAssumption DEF Restart, TypeOK
    <2>3. count' \in [Counter -> Nat] /\ counted' \in [Counter -> SUBSET Request]
        BY <1>7 DEF Restart, Zero
    <2> QED
        BY <1>7, <2>1, <2>2, <2>3 DEF Restart, TypeOK
<1>8. CASE UNCHANGED vars
    BY <1>8 DEF vars, TypeOK
<1> QED
    BY <1>1, <1>2, <1>3, <1>4, <1>5, <1>6, <1>7, <1>8 DEF Next, Handle

----------------------------------------------------------------------------
(* Counting.                                                               *)

\* Finitely many requests have been counted.
LEMMA CountedFinite ==
    ASSUME TypeOK, NEW c \in Counter
    PROVE  IsFiniteSet(counted[c])
<1>1. counted[c] \in SUBSET Request
    BY DEF TypeOK
<1> QED
    BY <1>1, FS_Subset, RequestAssumption

\* Adding a request that was not counted yet keeps each counter the size of its set.
LEMMA AddSizes ==
    ASSUME TypeOK, CountsAreSizes, NEW c \in Counter, NEW r \in Request, r \notin counted[c],
           Add(c, r)
    PROVE  CountsAreSizes'
<1>1. Cardinality(counted[c] \cup {r}) = Cardinality(counted[c]) + 1
    BY CountedFinite, FS_AddElement
<1>2. ASSUME NEW d \in Counter
      PROVE  count'[d] = Cardinality(counted'[d])
    BY <1>1, AddTypes DEF CountsAreSizes
<1> QED
    BY <1>2 DEF CountsAreSizes

\* Every step keeps the invariant of the counters.
LEMMA CountingKept ==
    ASSUME CountInv, [Next]_vars
    PROVE  CountInv'
<1>0. TypeOK /\ TypeOK'
    BY TypesKept DEF CountInv
<1>1. ASSUME NEW r \in Request, Arrive(r)
      PROVE  CountInv'
    <2>1. /\ at[r] = "none" /\ at'[r] = "routed"
          /\ \A s \in Request \ {r} : at'[s] = at[s]
        BY <1>0, <1>1, MoveTypes DEF Arrive, Stage
    <2>2. "http" \in Counter /\ r \notin counted["http"]
        BY <1>1, <2>1 DEF CountInv, StageIsCounted, Counter
    <2>3. CountsAreSizes'
        BY <1>0, <1>1, <2>2, AddSizes DEF Arrive, CountInv
    <2>4. /\ counted'["http"] = counted["http"] \cup {r}
          /\ counted'["run"] = counted["run"]
          /\ \A o \in Outcome : counted'[o] = counted[o]
        BY <1>0, <1>1, <2>2, AddTypes DEF Arrive, Counter, Outcome
    <2>5. r \notin counted["run"]
        BY <2>2 DEF CountInv, CountedOnce
    <2>6. CountedOnce'
        BY <2>4 DEF CountInv, CountedOnce
    <2>7. ASSUME NEW s \in Request
          PROVE  StageIsCounted(s)' /\ OfThisLife(s)'
        <3>1. life' = life /\ born' = [born EXCEPT ![r] = life]
            BY <1>1 DEF Arrive
        <3>2. OfThisLife(s)'
            BY <1>0, <2>1, <3>1 DEF CountInv, OfThisLife, TypeOK
        <3>3. StageIsCounted(s)'
            BY <2>1, <2>4, <2>5 DEF CountInv, StageIsCounted
        <3> QED
            BY <3>2, <3>3
    <2> QED
        BY <1>0, <2>3, <2>6, <2>7 DEF CountInv
<1>2. ASSUME NEW r \in Request, CountRun(r)
      PROVE  CountInv'
    <2>1. /\ at[r] = "routed" /\ at'[r] = "run"
          /\ \A s \in Request \ {r} : at'[s] = at[s]
        BY <1>0, <1>2, MoveTypes DEF CountRun, Stage
    <2>2. "run" \in Counter /\ r \in counted["http"] /\ r \notin counted["run"]
        BY <1>2, <2>1 DEF CountInv, StageIsCounted, Counter
    <2>3. CountsAreSizes'
        BY <1>0, <1>2, <2>2, AddSizes DEF CountRun, CountInv
    <2>4. /\ counted'["run"] = counted["run"] \cup {r}
          /\ counted'["http"] = counted["http"]
          /\ \A o \in Outcome : counted'[o] = counted[o]
        BY <1>0, <1>2, <2>2, AddTypes DEF CountRun, Counter, Outcome
    <2>5. \A o \in Outcome : r \notin counted[o]
        BY <2>2 DEF CountInv, CountedOnce
    <2>6. CountedOnce'
        BY <2>2, <2>4 DEF CountInv, CountedOnce
    <2>7. ASSUME NEW s \in Request
          PROVE  StageIsCounted(s)' /\ OfThisLife(s)'
        <3>1. life' = life /\ born' = born
            BY <1>2 DEF CountRun
        <3>2. OfThisLife(s)'
            BY <2>1, <3>1 DEF CountInv, OfThisLife, Open
        <3>3. StageIsCounted(s)'
            BY <2>1, <2>4, <2>5 DEF CountInv, StageIsCounted
        <3> QED
            BY <3>2, <3>3
    <2> QED
        BY <1>0, <2>3, <2>6, <2>7 DEF CountInv
<1>3. ASSUME NEW r \in Request, CountResult(r)
      PROVE  CountInv'
    <2>1. /\ at[r] = "executing" /\ at'[r] = "answered"
          /\ \A s \in Request \ {r} : at'[s] = at[s]
        BY <1>0, <1>3, MoveTypes DEF CountResult, Stage
    <2>2. PICK o \in Outcome : Add(o, r)
        BY <1>3 DEF CountResult, CountsOutcome
    <2>3. o \in Counter /\ r \in counted["run"] /\ \A p \in Outcome : r \notin counted[p]
        BY <1>3, <2>1 DEF CountInv, StageIsCounted, Counter
    <2>4. CountsAreSizes'
        BY <1>0, <2>2, <2>3, AddSizes DEF CountInv
    <2>5. /\ counted'[o] = counted[o] \cup {r}
          /\ counted'["run"] = counted["run"] /\ counted'["http"] = counted["http"]
          /\ \A p \in Outcome \ {o} : counted'[p] = counted[p]
        BY <1>0, <2>2, <2>3, AddTypes DEF Counter, Outcome
    <2>6. CountedOnce'
        BY <2>3, <2>5 DEF CountInv, CountedOnce
    <2>7. ASSUME NEW s \in Request
          PROVE  StageIsCounted(s)' /\ OfThisLife(s)'
        <3>1. life' = life /\ born' = born
            BY <1>3 DEF CountResult
        <3>2. OfThisLife(s)'
            BY <2>1, <3>1 DEF CountInv, OfThisLife, Open
        <3>3. StageIsCounted(s)'
            BY <2>1, <2>5 DEF CountInv, StageIsCounted
        <3> QED
            BY <3>2, <3>3
    <2> QED
        BY <1>0, <2>4, <2>6, <2>7 DEF CountInv
<1>4. ASSUME NEW r \in Request,
             Serve(r) \/ Refuse(r) \/ Execute(r) \/ Reply(r) \/ Scrape(r) \/ EndScrape(r) \/ Read(r)
      PROVE  CountInv'
    <2>1. UNCHANGED <<count, counted, life, born>>
        BY <1>4 DEF Serve, Refuse, Execute, Reply, Scrape, EndScrape, Read, history
    <2>2. ASSUME NEW s \in Request
          PROVE  \/ at'[s] = at[s]
                 \/ at[s] = "run" /\ at'[s] = "executing"
                 \/ at[s] \in Open /\ at'[s] \in {"scraping", "scraped", "done"}
        BY <1>0, <1>4 DEF Serve, Refuse, Execute, Reply, Scrape, EndScrape, Read, Moves, TypeOK, Open
    <2>3. CountsAreSizes' /\ CountedOnce'
        BY <2>1 DEF CountInv, CountsAreSizes, CountedOnce
    <2>4. ASSUME NEW s \in Request
          PROVE  StageIsCounted(s)' /\ OfThisLife(s)'
        BY <2>1, <2>2 DEF CountInv, StageIsCounted, OfThisLife, Open
    <2> QED
        BY <1>0, <2>3, <2>4 DEF CountInv
<1>5. CASE Restart
    <2>1. /\ count' = Zero /\ counted' = [c \in Counter |-> {}] /\ born' = born
          /\ life' = life + 1 /\ life \in Nat
          /\ \A r \in Request : at'[r] = IF at[r] \in Open THEN "lost" ELSE at[r]
        BY <1>0, <1>5 DEF Restart, TypeOK
    <2>2. \A c \in Counter : count'[c] = 0 /\ counted'[c] = {}
        BY <2>1 DEF Zero
    <2>3. CountsAreSizes'
        BY <2>2, FS_EmptySet DEF CountsAreSizes
    <2>4. CountedOnce'
        BY <2>2 DEF CountedOnce, Counter
    <2>5. ASSUME NEW s \in Request
          PROVE  StageIsCounted(s)' /\ OfThisLife(s)'
        <3>1. at'[s] \notin Open
            BY <2>1 DEF Open
        <3>2. born[s] <= life /\ born[s] \in Nat
            BY <1>0 DEF CountInv, OfThisLife, TypeOK
        <3> QED
            BY <2>1, <2>2, <3>1, <3>2 DEF StageIsCounted, OfThisLife, Open, Counter
    <2> QED
        BY <1>0, <2>3, <2>4, <2>5 DEF CountInv
<1>6. CASE UNCHANGED vars
    BY <1>6 DEF vars, history, CountInv, TypeOK, CountsAreSizes, CountedOnce, StageIsCounted, OfThisLife
<1> QED
    BY <1>1, <1>2, <1>3, <1>4, <1>5, <1>6 DEF Next, Handle

\* At every moment each counter is the size of the set it has counted, and the sets nest.
LEMMA CountInvariant == Spec => []CountInv
<1>1. Init => CountInv
    <2> SUFFICES ASSUME Init PROVE CountInv
        OBVIOUS
    <2>1. TypeOK
        BY RestartAssumption, OrderFacts DEF Init, TypeOK, Zero, Stage
    <2>2. CountsAreSizes
        BY FS_EmptySet DEF Init, CountsAreSizes, Zero
    <2>3. CountedOnce
        BY DEF Init, CountedOnce, Counter
    <2>4. \A r \in Request : StageIsCounted(r) /\ OfThisLife(r)
        BY DEF Init, StageIsCounted, OfThisLife, Open, Counter
    <2> QED
        BY <2>1, <2>2, <2>3, <2>4 DEF CountInv
<1>2. CountInv /\ [Next]_vars => CountInv'
    BY CountingKept
<1> QED
    BY <1>1, <1>2, PTL DEF Spec

\* The results counted are results of different runs, all of them counted before.
LEMMA Nested ==
    ASSUME CountInv
    PROVE  CountersAreNested
<1> DEFINE P == counted["pass"]
           F == counted["fail"]
           E == counted["error"]
<1>1. /\ IsFiniteSet(P) /\ IsFiniteSet(F) /\ IsFiniteSet(E)
      /\ IsFiniteSet(counted["run"]) /\ IsFiniteSet(counted["http"])
    BY CountedFinite DEF CountInv, Counter, Outcome
<1>2. P \cap F = {} /\ (P \cup F) \cap E = {}
    BY DEF CountInv, CountedOnce, Outcome
<1>3. (P \cup F) \cup E \in SUBSET counted["run"] /\ counted["run"] \in SUBSET counted["http"]
    BY DEF CountInv, CountedOnce, Outcome
<1>4. /\ count["pass"] = Cardinality(P) /\ count["fail"] = Cardinality(F)
      /\ count["error"] = Cardinality(E)
      /\ count["run"] = Cardinality(counted["run"])
      /\ count["http"] = Cardinality(counted["http"])
    BY DEF CountInv, CountsAreSizes, Counter, Outcome
<1> HIDE DEF P, F, E
<1>5. /\ Cardinality(P) \in Nat /\ Cardinality(F) \in Nat /\ Cardinality(E) \in Nat
      /\ Cardinality({}) = 0
    BY <1>1, FS_EmptySet, FS_CardinalityType
<1>6. IsFiniteSet(P \cup F) /\ Cardinality(P \cup F) = Cardinality(P) + Cardinality(F)
    <2>1. /\ IsFiniteSet(P \cup F)
          /\ Cardinality(P \cup F) = Cardinality(P) + Cardinality(F) - Cardinality(P \cap F)
        BY <1>1, FS_Union
    <2>2. Cardinality(P \cap F) = 0
        BY <1>2, <1>5
    <2> QED
        BY <1>5, <2>1, <2>2
<1>7. Cardinality((P \cup F) \cup E) = Cardinality(P) + Cardinality(F) + Cardinality(E)
    <2>1. Cardinality((P \cup F) \cup E)
            = Cardinality(P \cup F) + Cardinality(E) - Cardinality((P \cup F) \cap E)
        BY <1>1, <1>6, FS_Union
    <2>2. Cardinality((P \cup F) \cap E) = 0
        BY <1>2, <1>5
    <2> QED
        BY <1>5, <1>6, <2>1, <2>2
<1>8. Cardinality((P \cup F) \cup E) <= Cardinality(counted["run"])
    BY <1>1, <1>3, FS_Subset
<1>9. Cardinality(counted["run"]) <= Cardinality(counted["http"])
    BY <1>1, <1>3, FS_Subset
<1> QED
    BY <1>4, <1>7, <1>8, <1>9 DEF CountersAreNested, Results

\* Every state of the counters and their readers has its type.
THEOREM TypeCorrect == Spec => []TypeOK
<1>1. CountInv => TypeOK
    BY DEF CountInv
<1> QED
    BY <1>1, CountInvariant, PTL

\* There are never more results than runs, nor more runs than requests, however
\* requests interleave and whenever the process restarts.
THEOREM CountersNest == Spec => []CountersAreNested
<1>1. CountInv => CountersAreNested
    BY Nested
<1> QED
    BY <1>1, CountInvariant, PTL

----------------------------------------------------------------------------
(* Scrapes.                                                                *)

\* What a scrape has read is numbers.
LEMMA Element ==
    ASSUME NEW q \in Seq(Nat), NEW i \in 1..Len(q)
    PROVE  q[i] \in Nat
OBVIOUS

\* In one life counters only grow.
LEMMA Grows ==
    ASSUME TypeOK, NEW r \in Request, Handle(r)
    PROVE  \A c \in Counter : count[c] <= count'[c]
<1>1. CASE \E c \in Counter : Add(c, r)
    <2>1. PICK c \in Counter : Add(c, r)
        BY <1>1
    <2>2. count \in [Counter -> Nat]
        BY DEF TypeOK
    <2> QED
        BY <2>1, <2>2, AddTypes
<1>2. CASE UNCHANGED count
    BY <1>2 DEF TypeOK
<1>3. (\E c \in Counter : Add(c, r)) \/ UNCHANGED count
    BY DEF Handle, Arrive, Serve, CountRun, Refuse, Execute, CountResult, CountsOutcome, Reply,
           Scrape, Read, EndScrape, Counter
<1> QED
    BY <1>1, <1>2, <1>3

\* A step of one request, as the scrape of another sees it.
LEMMA OthersKept ==
    ASSUME TypeOK, NEW r \in Request, Handle(r), NEW s \in Request, s # r
    PROVE  /\ life' = life /\ at'[s] = at[s] /\ reads'[s] = reads[s]
           /\ born'[s] = born[s] /\ before'[s] = before[s] /\ earlier'[s] = earlier[s]
BY DEF TypeOK, Handle, Arrive, Serve, CountRun, Refuse, Execute, CountResult, Reply,
       Scrape, Read, EndScrape, Moves, history

\* A finished scrape stays what it is.
LEMMA ScrapedKept ==
    ASSUME TypeOK, NEW r \in Request, Handle(r), NEW s \in Request, at[s] = "scraped"
    PROVE  at'[s] = "scraped" /\ reads'[s] = reads[s] /\ born'[s] = born[s]
<1>1. s # r
    BY DEF Handle, Arrive, Serve, CountRun, Refuse, Execute, CountResult, Reply,
           Scrape, Read, EndScrape, Moves
<1> QED
    BY <1>1, OthersKept

\* Scrapes other than the one that moves.
LEMMA OtherScrapes ==
    ASSUME TypeOK, ScrapeInv, NEW r \in Request, Handle(r), NEW s \in Request, s # r
    PROVE  ReadsAreOrdered(s)' /\ Rising(s)' /\ AfterEarlier(s)'
<1>1. /\ life' = life /\ at'[s] = at[s] /\ reads'[s] = reads[s]
      /\ born'[s] = born[s] /\ before'[s] = before[s] /\ earlier'[s] = earlier[s]
    BY OthersKept
<1>2. ReadsAreOrdered(s)'
    BY <1>1 DEF ScrapeInv, ReadsAreOrdered
<1>3. Rising(s)'
    <2> SUFFICES ASSUME Scraping(s)' PROVE Rising(s)'
        BY DEF Rising
    <2>1. Scraping(s)
        BY <1>1 DEF Scraping
    <2>2. \A i \in 1..Len(reads'[s]) : before'[s][Order[i]] <= reads'[s][i]
        BY <1>1, <2>1 DEF ScrapeInv, Rising
    <2>3. ASSUME born'[s] = life', NEW c \in Counter
          PROVE  before'[s][c] <= count'[c]
        <3>1. before[s][c] <= count[c] /\ count[c] <= count'[c]
            BY <1>1, <2>1, <2>3, Grows DEF ScrapeInv, Rising
        <3>2. count[c] \in Nat /\ before[s][c] \in Nat
            BY DEF TypeOK
        <3>3. count'[c] \in Nat
            <4>1. TypeOK'
                BY TypesKept DEF Next
            <4> QED
                BY <4>1 DEF TypeOK
        <3> QED
            BY <1>1, <3>1, <3>2, <3>3
    <2>4. ASSUME born'[s] = life', NEW i \in 1..Len(reads'[s])
          PROVE  reads'[s][i] <= count'[Order[i]]
        <3>1. Len(reads[s]) \in Nat /\ Len(reads[s]) <= 5 /\ reads[s] \in Seq(Nat)
            BY OrderFacts DEF TypeOK
        <3>2. i \in 1..5 /\ i \in 1..Len(reads[s])
            <4>1. i \in 1..Len(reads[s])
                BY <1>1, <2>4
            <4> QED
                BY <3>1, <4>1
        <3>3. Order[i] \in Counter
            BY <3>2, OrderFacts
        <3>4. reads[s][i] <= count[Order[i]] /\ count[Order[i]] <= count'[Order[i]]
            BY <1>1, <2>1, <2>4, <3>2, <3>3, Grows DEF ScrapeInv, Rising
        <3>5. count[Order[i]] \in Nat /\ reads[s][i] \in Nat
            <4>1. count[Order[i]] \in Nat
                BY <3>3 DEF TypeOK
            <4>2. reads[s][i] \in Nat
                BY <3>1, <3>2, Element
            <4> QED
                BY <4>1, <4>2
        <3>6. count'[Order[i]] \in Nat
            <4>1. TypeOK'
                BY TypesKept DEF Next
            <4> QED
                BY <3>3, <4>1 DEF TypeOK
        <3> QED
            BY <1>1, <3>4, <3>5, <3>6
    <2> QED
        BY <2>2, <2>3, <2>4 DEF Rising
<1>4. AfterEarlier(s)'
    <2> SUFFICES ASSUME Scraping(s)', NEW t \in earlier'[s]
                 PROVE  /\ at'[t] = "scraped"
                        /\ born'[t] = born'[s] =>
                             \A i \in 1..5 : reads'[t][i] <= before'[s][Order[i]]
        BY DEF AfterEarlier
    <2>1. Scraping(s) /\ t \in earlier[s] /\ t \in Request
        BY <1>1 DEF Scraping, TypeOK
    <2>2. /\ at[t] = "scraped"
          /\ born[t] = born[s] => \A i \in 1..5 : reads[t][i] <= before[s][Order[i]]
        BY <2>1 DEF ScrapeInv, AfterEarlier
    <2> QED
        BY <1>1, <2>1, <2>2, ScrapedKept
<1> QED
    BY <1>2, <1>3, <1>4

\* A step of a request keeps what is known of its own scrape.
LEMMA OwnScrape ==
    ASSUME CountInv, ScrapeInv, NEW r \in Request, Handle(r)
    PROVE  ReadsAreOrdered(r)' /\ Rising(r)' /\ AfterEarlier(r)'
<1>0. TypeOK
    BY DEF CountInv
<1>1. ASSUME Arrive(r) \/ Serve(r) \/ CountRun(r) \/ Refuse(r) \/ Execute(r) \/ CountResult(r) \/ Reply(r)
      PROVE  ReadsAreOrdered(r)' /\ Rising(r)' /\ AfterEarlier(r)'
    <2>1. /\ at'[r] \notin {"none", "scraping", "scraped"} /\ reads' = reads
          /\ at'[r] = "routed" => at[r] = "none"
        BY <1>0, <1>1
        DEF Arrive, Serve, CountRun, Refuse, Execute, CountResult, Reply, Moves, TypeOK, history
    <2>2. ReadsAreOrdered(r)'
        BY <2>1 DEF ScrapeInv, ReadsAreOrdered
    <2> QED
        BY <2>1, <2>2 DEF Rising, AfterEarlier, Scraping
<1>2. CASE Scrape(r)
    <2>1. /\ at[r] = "routed" /\ at'[r] = "scraping" /\ reads' = reads /\ born' = born
          /\ life' = life /\ count' = count
          /\ before'[r] = count /\ earlier'[r] = {s \in Request : at[s] = "scraped"}
        BY <1>0, <1>2 DEF Scrape, Moves, TypeOK
    <2>2. reads[r] = <<>> /\ born[r] = life
        BY <2>1 DEF ScrapeInv, ReadsAreOrdered, CountInv, OfThisLife, Open
    <2>3. ReadsAreOrdered(r)'
        BY <2>1 DEF ReadsAreOrdered
    <2>4. Rising(r)'
        <3>1. Len(reads'[r]) = 0
            BY <2>1, <2>2
        <3>2. \A c \in Counter : count[c] \in Nat
            BY <1>0 DEF TypeOK
        <3> QED
            BY <2>1, <3>1, <3>2 DEF Rising
    <2>5. ASSUME NEW s \in earlier'[r]
          PROVE  /\ at'[s] = "scraped"
                 /\ born'[s] = born'[r] =>
                      \A i \in 1..5 : reads'[s][i] <= before'[r][Order[i]]
        <3>1. s \in Request /\ at[s] = "scraped"
            BY <2>1, <2>5
        <3>2. at'[s] = "scraped"
            BY <1>0, <3>1, ScrapedKept
        <3>3. ASSUME born[s] = life, NEW i \in 1..5
              PROVE  reads[s][i] <= count[Order[i]]
            <4>1. Len(reads[s]) = 5
                BY <3>1 DEF ScrapeInv, ReadsAreOrdered
            <4> QED
                BY <3>1, <3>3, <4>1 DEF ScrapeInv, Rising, Scraping
        <3> QED
            BY <2>1, <2>2, <3>2, <3>3
    <2>6. AfterEarlier(r)'
        BY <2>5 DEF AfterEarlier
    <2> QED
        BY <2>3, <2>4, <2>6
<1>3. CASE Read(r)
    <2> DEFINE n == Len(reads[r])
    <2>1. /\ at[r] = "scraping" /\ at' = at /\ born' = born /\ life' = life /\ count' = count
          /\ before' = before /\ earlier' = earlier
        BY <1>3 DEF Read, history
    <2>2. /\ n \in 0..4 /\ Len(reads'[r]) = n + 1
          /\ reads'[r][n + 1] = count[Order[n + 1]]
          /\ \A i \in 1..n : reads'[r][i] = reads[r][i]
        BY <1>0, <1>3, ReadTypes
    <2> HIDE DEF n
    <2>3. ReadsAreOrdered(r)'
        BY <2>1 DEF ReadsAreOrdered
    <2>4. /\ born[r] = life /\ Scraping(r)
          /\ \A c \in Counter : before[r][c] <= count[c]
        BY <2>1 DEF ScrapeInv, Rising, Scraping, CountInv, OfThisLife, Open
    <2>5. n + 1 \in 1..5 /\ Order[n + 1] \in Counter
        <3>1. n + 1 \in 1..5
            BY <2>2
        <3> QED
            BY <3>1, OrderFacts
    <2>6. ASSUME NEW i \in 1..Len(reads'[r])
          PROVE  before[r][Order[i]] <= reads'[r][i] /\ reads'[r][i] <= count[Order[i]]
        <3>1. CASE i = n + 1
            <4>1. count[Order[n + 1]] \in Nat
                BY <1>0, <2>5 DEF TypeOK
            <4> QED
                BY <2>2, <2>4, <2>5, <3>1, <4>1
        <3>2. CASE i # n + 1
            <4>1. i \in 1..n
                BY <2>2, <3>2
            <4> QED
                BY <2>2, <2>4, <4>1 DEF ScrapeInv, Rising, n
        <3> QED
            BY <3>1, <3>2
    <2>7. Rising(r)'
        BY <2>1, <2>4, <2>6 DEF Rising
    <2>8. ASSUME NEW s \in earlier[r]
          PROVE  at[s] = "scraped" /\ reads'[s] = reads[s]
        <3>1. at[s] = "scraped" /\ s \in Request
            BY <1>0, <2>4 DEF ScrapeInv, AfterEarlier, TypeOK
        <3> QED
            BY <1>0, <3>1, ScrapedKept
    <2>9. AfterEarlier(r)'
        BY <2>1, <2>4, <2>8 DEF ScrapeInv, AfterEarlier
    <2> QED
        BY <2>3, <2>7, <2>9
<1>4. CASE EndScrape(r)
    <2>1. /\ at[r] = "scraping" /\ at'[r] = "scraped" /\ Len(reads[r]) = 5
          /\ UNCHANGED <<count, reads, life, born, before, earlier>>
        BY <1>0, <1>4, OrderFacts DEF EndScrape, Moves, TypeOK, history
    <2>2. ReadsAreOrdered(r)'
        BY <2>1 DEF ReadsAreOrdered
    <2>3. Rising(r)'
        BY <2>1 DEF ScrapeInv, Rising, Scraping
    <2>4. ASSUME NEW s \in earlier[r]
          PROVE  at[s] = "scraped" /\ at'[s] = "scraped"
        <3>1. at[s] = "scraped" /\ s \in Request
            BY <1>0, <2>1 DEF ScrapeInv, AfterEarlier, Scraping, TypeOK
        <3> QED
            BY <1>0, <3>1, ScrapedKept
    <2>5. AfterEarlier(r)'
        BY <2>1, <2>4 DEF ScrapeInv, AfterEarlier, Scraping
    <2> QED
        BY <2>2, <2>3, <2>5
<1> QED
    BY <1>1, <1>2, <1>3, <1>4 DEF Handle

\* Every step keeps the invariant of the scrapes.
LEMMA ScrapesKept ==
    ASSUME CountInv, ScrapeInv, [Next]_vars
    PROVE  ScrapeInv'
<1>0. TypeOK
    BY DEF CountInv
<1>1. ASSUME NEW r \in Request, Handle(r)
      PROVE  ScrapeInv'
    BY <1>0, <1>1, OtherScrapes, OwnScrape DEF ScrapeInv
<1>2. CASE Restart
    <2>1. /\ life' = life + 1 /\ life \in Nat
          /\ UNCHANGED <<reads, born, before, earlier>>
          /\ \A r \in Request : at'[r] = IF at[r] \in Open THEN "lost" ELSE at[r]
        BY <1>0, <1>2 DEF Restart, TypeOK
    <2>2. ASSUME NEW r \in Request
          PROVE  /\ at'[r] = "scraped" <=> at[r] = "scraped"
                 /\ at'[r] # "routed" /\ at'[r] # "scraping"
                 /\ at'[r] = "none" => at[r] = "none"
        BY <2>1 DEF Open
    <2>3. ASSUME NEW r \in Request
          PROVE  ReadsAreOrdered(r)'
        BY <2>1, <2>2 DEF ScrapeInv, ReadsAreOrdered
    <2>4. ASSUME NEW r \in Request
          PROVE  Rising(r)'
        <3>1. born'[r] # life'
            <4>1. born[r] <= life /\ born[r] \in Nat
                BY <1>0 DEF CountInv, OfThisLife, TypeOK
            <4> QED
                BY <2>1, <4>1
        <3> QED
            BY <2>1, <2>2, <3>1 DEF ScrapeInv, Rising, Scraping
    <2>5. ASSUME NEW r \in Request
          PROVE  AfterEarlier(r)'
        <3>1. \A s \in earlier[r] : s \in Request
            BY <1>0 DEF TypeOK
        <3> QED
            BY <2>1, <2>2, <3>1 DEF ScrapeInv, AfterEarlier, Scraping
    <2> QED
        BY <2>3, <2>4, <2>5 DEF ScrapeInv
<1>3. CASE UNCHANGED vars
    BY <1>3 DEF vars, history, ScrapeInv, ReadsAreOrdered, Rising, AfterEarlier, Scraping
<1> QED
    BY <1>1, <1>2, <1>3 DEF Next

\* At every moment the numbers of a scrape lie between the counters at its start and now.
LEMMA ScrapeInvariant == Spec => []ScrapeInv
<1>1. Init => ScrapeInv
    BY DEF Init, ScrapeInv, ReadsAreOrdered, Rising, AfterEarlier, Scraping
<1>2. CountInv /\ ScrapeInv /\ [Next]_vars => ScrapeInv'
    BY ScrapesKept
<1> QED
    BY <1>1, <1>2, CountInvariant, PTL DEF Spec

\* Each number of a scrape lies between those at its start and at its end.
THEOREM ReadsAreTrue == Spec => []ReadsAreCurrent
<1>1. ScrapeInv => ReadsAreCurrent
    BY DEF ScrapeInv, Rising, Scraping, ReadsAreCurrent
<1> QED
    BY <1>1, ScrapeInvariant, PTL

\* A scrape shows more results than runs by no more than the runs that came late.
THEOREM ExcessIsBounded == Spec => []ExcessIsOfLateRuns
<1>1. ASSUME CountInv, ScrapeInv, NEW r \in Request, born[r] = life,
             at[r] = "scraping", Len(reads[r]) = 5
      PROVE  reads[r][3] + reads[r][4] + reads[r][5]
               <= reads[r][2] + (count["run"] - before[r]["run"])
    <2>1. \A i \in 1..5 : before[r][Order[i]] <= reads[r][i] /\ reads[r][i] <= count[Order[i]]
        BY <1>1 DEF ScrapeInv, Rising, Scraping
    <2>2. /\ before[r]["run"] <= reads[r][2]
          /\ reads[r][3] <= count["pass"] /\ reads[r][4] <= count["fail"]
          /\ reads[r][5] <= count["error"]
        BY <2>1, OrderFacts
    <2>3. count["pass"] + count["fail"] + count["error"] <= count["run"]
        BY <1>1, Nested DEF CountersAreNested, Results
    <2>4. /\ count["pass"] \in Nat /\ count["fail"] \in Nat /\ count["error"] \in Nat
          /\ count["run"] \in Nat /\ before[r]["run"] \in Nat
        BY <1>1 DEF CountInv, TypeOK, Counter, Outcome
    <2>5. \A i \in 1..5 : reads[r][i] \in Nat
        <3>1. reads[r] \in Seq(Nat)
            BY <1>1 DEF CountInv, TypeOK
        <3> QED
            BY <1>1, <3>1
    <2>6. /\ reads[r][2] \in Nat /\ reads[r][3] \in Nat /\ reads[r][4] \in Nat
          /\ reads[r][5] \in Nat
        BY <2>5
    <2> QED
        BY <2>2, <2>3, <2>4, <2>6
<1>2. CountInv /\ ScrapeInv => ExcessIsOfLateRuns
    BY <1>1 DEF ExcessIsOfLateRuns
<1> QED
    BY <1>2, CountInvariant, ScrapeInvariant, PTL

\* Scrapes of one process, one after the other, never go down: to a scraper a
\* counter that is lower than before means a restart.
THEOREM DropsMeanRestarts == Spec => []DropMeansRestart
<1>1. ASSUME CountInv, ScrapeInv, NEW r \in Request, NEW s \in Request, at[r] = "scraped",
             s \in earlier[r], born[s] = born[r], NEW i \in 1..5
      PROVE  reads[s][i] <= reads[r][i]
    <2>1. at[s] = "scraped" /\ reads[s][i] <= before[r][Order[i]]
        BY <1>1 DEF ScrapeInv, AfterEarlier, Scraping
    <2>2. Len(reads[r]) = 5 /\ Len(reads[s]) = 5
        BY <1>1, <2>1 DEF ScrapeInv, ReadsAreOrdered
    <2>3. before[r][Order[i]] <= reads[r][i]
        BY <1>1, <2>2 DEF ScrapeInv, Rising, Scraping
    <2>4. reads[s][i] \in Nat /\ reads[r][i] \in Nat
        <3>1. reads[s] \in Seq(Nat) /\ reads[r] \in Seq(Nat)
            BY <1>1 DEF CountInv, TypeOK
        <3>2. i \in 1..Len(reads[s]) /\ i \in 1..Len(reads[r])
            BY <2>2
        <3> QED
            BY <3>1, <3>2, Element
    <2>5. before[r][Order[i]] \in Nat
        <3>1. Order[i] \in Counter
            BY OrderFacts
        <3> QED
            BY <1>1, <3>1 DEF CountInv, TypeOK
    <2> QED
        BY <2>1, <2>3, <2>4, <2>5
<1>2. CountInv /\ ScrapeInv => DropMeansRestart
    BY <1>1 DEF DropMeansRestart
<1> QED
    BY <1>2, CountInvariant, ScrapeInvariant, PTL
=============================================================================
