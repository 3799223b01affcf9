------------------------------- MODULE Metrics -------------------------------
(***************************************************************************)
(* The counters of the HTTP server (httpapi/server.go) and the scrapes of  *)
(* GET /v1/metrics that read them.  Every request has a goroutine; an      *)
(* increment or a load of one counter is atomic, a scrape of all five is   *)
(* not, and a restart of the process begins again from zero.               *)
(***************************************************************************)
EXTENDS Naturals, Sequences, FiniteSets

CONSTANTS
    Request,       \* HTTP requests
    MaxRestarts    \* bound on the restarts of the process

ASSUME RequestAssumption == IsFiniteSet(Request)
ASSUME RestartAssumption == MaxRestarts \in Nat

Outcome == {"pass", "fail", "error"}
Counter == {"http", "run"} \cup Outcome

\* The order in which a scrape loads the counters.
Order == <<"http", "run", "pass", "fail", "error">>

VARIABLES
    count,     \* runtimeMetrics
    at,        \* how far each request has come
    reads,     \* what each scrape has loaded so far, counter after counter
    life,      \* restarts so far
    counted,   \* history: the requests that each counter stands for
    born,      \* history: the life each request arrived in
    before,    \* history: the counters when a scrape arrived
    earlier    \* history: the scrapes that had ended when a scrape arrived

history == <<counted, born, before, earlier>>
vars == <<count, at, reads, life, history>>

Zero == [c \in Counter |-> 0]

Stage == {"none", "routed", "run", "executing", "answered", "scraping", "scraped", "done", "lost"}
Open == {"routed", "run", "executing", "answered", "scraping"}

TypeOK ==
    /\ count \in [Counter -> Nat]
    /\ at \in [Request -> Stage]
    /\ reads \in [Request -> Seq(Nat)]
    /\ \A r \in Request : Len(reads[r]) <= Len(Order)
    /\ life \in 0..MaxRestarts
    /\ counted \in [Counter -> SUBSET Request]
    /\ born \in [Request -> 0..MaxRestarts]
    /\ before \in [Request -> [Counter -> Nat]]
    /\ earlier \in [Request -> SUBSET Request]

Init ==
    /\ count = Zero
    /\ at = [r \in Request |-> "none"]
    /\ reads = [r \in Request |-> <<>>]
    /\ life = 0
    /\ counted = [c \in Counter |-> {}]
    /\ born = [r \in Request |-> 0]
    /\ before = [r \in Request |-> Zero]
    /\ earlier = [r \in Request |-> {}]

Moves(r, from, to) == at[r] = from /\ at' = [at EXCEPT ![r] = to]

Add(c, r) ==
    /\ count' = [count EXCEPT ![c] = @ + 1]
    /\ counted' = [counted EXCEPT ![c] = @ \cup {r}]

\* requestLog counts a request of any kind before the handler sees it.
Arrive(r) ==
    /\ Moves(r, "none", "routed")
    /\ Add("http", r)
    /\ born' = [born EXCEPT ![r] = life]
    /\ UNCHANGED <<reads, life, before, earlier>>

\* A handler that counts nothing.
Serve(r) ==
    /\ Moves(r, "routed", "done")
    /\ UNCHANGED <<count, reads, life, history>>

\* Mutant: a run is counted once it is admitted.
CountRunLater(r) ==
    /\ Moves(r, "routed", "run")
    /\ UNCHANGED <<count, counted, reads, life, born, before, earlier>>

CountRun(r) ==
    /\ Moves(r, "routed", "run")
    /\ Add("run", r)
    /\ UNCHANGED <<reads, life, born, before, earlier>>

\* One of the early returns of runs.
Refuse(r) ==
    /\ Moves(r, "run", "done")
    /\ UNCHANGED <<count, reads, life, history>>

Execute(r) ==
    /\ Moves(r, "run", "executing")
    /\ UNCHANGED <<count, reads, life, history>>

\* Mutant: an error is counted as a run that failed, too.
CountsErrorTwice(o, r) ==
    LET up == IF o = "error" THEN {"error", "fail"} ELSE {o}
    IN  /\ count' = [c \in Counter |-> IF c \in up THEN count[c] + 1 ELSE count[c]]
        /\ counted' = [c \in Counter |-> IF c \in up THEN counted[c] \cup {r} ELSE counted[c]]

CountsOutcome(o, r) == Add(o, r)

CountResult(r) ==
    /\ Moves(r, "executing", "answered")
    /\ \E o \in Outcome : CountsOutcome(o, r)
    /\ UNCHANGED <<reads, life, born, before, earlier>>

Reply(r) ==
    /\ Moves(r, "answered", "done")
    /\ UNCHANGED <<count, reads, life, history>>

----------------------------------------------------------------------------
(* prometheus.                                                             *)

Scrape(r) ==
    /\ Moves(r, "routed", "scraping")
    /\ before' = [before EXCEPT ![r] = count]
    /\ earlier' = [earlier EXCEPT ![r] = {s \in Request : at[s] = "scraped"}]
    /\ UNCHANGED <<count, reads, life, counted, born>>

\* Mutant: a scrape leaves itself out of what it shows.
LoadedWithoutSelf(r, c) == count[c] - 1

\* Mutant: results are shown as a sum over what is loaded so far.
LoadedAsSum(r, c) == IF c = "error" THEN count[c] + count["fail"] ELSE count[c]

\* Mutant: a scrape gives what it has not given before, as a gauge would.
LoadedSinceScrape(r, c) ==
    IF \E s \in earlier[r] : born[s] = life THEN 0 ELSE count[c]

Loaded(r, c) == count[c]

Read(r) ==
    /\ at[r] = "scraping"
    /\ Len(reads[r]) < Len(Order)
    /\ reads' = [reads EXCEPT ![r] = Append(@, Loaded(r, Order[Len(@) + 1]))]
    /\ UNCHANGED <<count, at, life, history>>

EndScrape(r) ==
    /\ Len(reads[r]) = Len(Order)
    /\ Moves(r, "scraping", "scraped")
    /\ UNCHANGED <<count, reads, life, history>>

Restart ==
    /\ life < MaxRestarts
    /\ life' = life + 1
    /\ count' = Zero
    /\ counted' = [c \in Counter |-> {}]
    /\ at' = [r \in Request |-> IF at[r] \in Open THEN "lost" ELSE at[r]]
    /\ UNCHANGED <<reads, born, before, earlier>>

Handle(r) ==
    \/ Arrive(r) \/ Serve(r)
    \/ CountRun(r) \/ Refuse(r) \/ Execute(r) \/ CountResult(r) \/ Reply(r)
    \/ Scrape(r) \/ Read(r) \/ EndScrape(r)

Next == Restart \/ \E r \in Request : Handle(r)

Spec == Init /\ [][Next]_vars

----------------------------------------------------------------------------
(* Properties.                                                             *)

\* The counters, and the numbers of requests and of runs that came in.
Results == count["pass"] + count["fail"] + count["error"]

\* At any time there are no more results than runs and no more runs than requests:
\* the handlers count in this order, and each run has one result at most.
CountersAreNested == Results <= count["run"] /\ count["run"] <= count["http"]

\* A scrape is not atomic, and what it shows need never have been the state of the
\* counters; each number lies between those at its start and at its end.
ReadsAreCurrent ==
    \A r \in Request : born[r] = life /\ at[r] \in {"scraping", "scraped"} =>
        \A i \in 1..Len(reads[r]) :
            before[r][Order[i]] <= reads[r][i] /\ reads[r][i] <= count[Order[i]]

\* A scrape may show more results than run requests, but by no more than the run
\* requests that came in while it went on, in whatever order the counters are loaded.
ExcessIsOfLateRuns ==
    \A r \in Request : born[r] = life /\ at[r] = "scraping" /\ Len(reads[r]) = 5 =>
        reads[r][3] + reads[r][4] + reads[r][5]
            <= reads[r][2] + (count["run"] - before[r]["run"])

\* To a scraper a counter that has gone down means a restart, and nothing else does:
\* of two scrapes one after the other, of one process, none is lower in the second.
DropMeansRestart ==
    \A r, s \in Request : at[r] = "scraped" /\ s \in earlier[r] /\ born[s] = born[r] =>
        \A i \in 1..5 : reads[s][i] <= reads[r][i]

----------------------------------------------------------------------------
(* The inductive invariant.                                                *)

CountsAreSizes == \A c \in Counter : count[c] = Cardinality(counted[c])

CountedOnce ==
    /\ counted["run"] \subseteq counted["http"]
    /\ \A o \in Outcome : counted[o] \subseteq counted["run"]
    /\ \A o, p \in Outcome : o # p => counted[o] \cap counted[p] = {}

StageIsCounted(r) ==
    /\ at[r] = "none" => r \notin counted["http"]
    /\ at[r] = "routed" => r \in counted["http"] \ counted["run"]
    /\ at[r] \in {"run", "executing"} =>
         r \in counted["run"] /\ \A o \in Outcome : r \notin counted[o]

OfThisLife(r) == born[r] <= life /\ (at[r] \in Open => born[r] = life)

CountInv ==
    /\ TypeOK
    /\ CountsAreSizes
    /\ CountedOnce
    /\ \A r \in Request : StageIsCounted(r) /\ OfThisLife(r)

Scraping(r) == at[r] \in {"scraping", "scraped"}

ReadsAreOrdered(r) ==
    /\ at[r] \in {"none", "routed"} => reads[r] = <<>>
    /\ at[r] = "scraped" => Len(reads[r]) = 5

\* The counters of a life only grow, from the start of a scrape to its end.
Rising(r) ==
    Scraping(r) =>
        /\ \A i \in 1..Len(reads[r]) : before[r][Order[i]] <= reads[r][i]
        /\ born[r] = life => \A c \in Counter : before[r][c] <= count[c]
        /\ born[r] = life => \A i \in 1..Len(reads[r]) : reads[r][i] <= count[Order[i]]

\* A scrape starts from counters that no earlier one of its life has exceeded.
AfterEarlier(r) ==
    Scraping(r) => \A s \in earlier[r] :
        /\ at[s] = "scraped"
        /\ born[s] = born[r] => \A i \in 1..5 : reads[s][i] <= before[r][Order[i]]

ScrapeInv == \A r \in Request : ReadsAreOrdered(r) /\ Rising(r) /\ AfterEarlier(r)
=============================================================================
