------------------------------ MODULE Portfolio ------------------------------
(***************************************************************************)
(* The TaskPortfolio manifest and its validator (engine/portfolio.go): a   *)
(* plan that gives every family of the target a place in one group, next   *)
(* to the TaskFamily manifest that says what exists already; and the queue *)
(* of what is left to author (engine/portfolio_backlog.go).                *)
(*                                                                         *)
(* A planned series (prefix, start, count) is the sequence of the keys it  *)
(* generates, a language/profile pair one value.  What concerns one value  *)
(* of one file (decoding, patterns, dispositions, the two targets that     *)
(* must repeat the constants, group ids) is the file's flag `sound`.       *)
(***************************************************************************)
EXTENDS Naturals, Sequences, FiniteSets, FiniteSetsExt, SequencesExt

CONSTANTS
    Kind,           \* kinds of families, "native" among them
    Track,          \* native tracks
    SetId,          \* names of compatibility sets
    Pair,           \* language/profile pairs
    Key,            \* family keys
    ReleaseId,      \* names of TaskFamily releases
    ExpectedKinds,  \* families and revisions of each kind
    ExpectedSets,   \* pairs of each compatibility set
    SetOf,          \* the set that a kind, or a native track, must use
    TrackFamilies,  \* families of each native track
    KeyOrder,       \* the alphabetical order of the keys, and of no key
    MaxBatch        \* items of a wave

ASSUME ConstantAssumption ==
    /\ "native" \in Kind /\ "none" \notin Track \cup Pair \cup Key
    /\ ExpectedKinds \in [Kind -> [families : Nat, revisions : Nat]]
    /\ ExpectedSets \in [SetId -> SUBSET Pair]
    /\ SetOf \in [(Kind \ {"native"}) \cup Track -> SetId]
    /\ TrackFamilies \in Nat /\ MaxBatch \in Nat \ {0}
    /\ KeyOrder \in [Key \cup {"none"} -> Nat] /\ IsInjective(KeyOrder)

GroupType ==
    [kind : Kind, track : Track \cup {"none"}, set : SetId, target : Nat, each : Nat,
     existing : Seq(Key), planned : Seq(Key)]

PlanType ==
    [sound : BOOLEAN, source : ReleaseId, sets : [SetId -> Seq(Pair)],
     groups : Seq(GroupType), superseded : Seq(Key)]

\* A family of status "none" is not in the manifest.
FamilyType ==
    [status : {"none", "released", "unreleased", "draft"},
     revisions : Seq([pair : Pair, runnable : BOOLEAN])]

FamiliesType == [sound : BOOLEAN, release : ReleaseId, families : [Key -> FamilyType]]

Listed(F) == {k \in Key : F.families[k].status # "none"}

----------------------------------------------------------------------------
(* validateTaskPortfolioManifest.                                          *)

\* The order of the pairs in a set is the author's; it orders the queue.
ValidSets(P) ==
    \A s \in SetId : IsInjective(P.sets[s]) /\ Range(P.sets[s]) = ExpectedSets[s]

UsesItsSet(g) ==
    \/ g.kind = "native" /\ g.track # "none" /\ g.set = SetOf[g.track]
    \/ g.kind # "native" /\ g.track = "none" /\ g.set = SetOf[g.kind]

PairsOf(family) == {family.revisions[j].pair : j \in DOMAIN family.revisions}

ValidGroup(P, F, g) ==
    /\ UsesItsSet(g)
    /\ g.target >= 1 /\ g.each = Len(P.sets[g.set])
    /\ Len(g.existing) + Len(g.planned) = g.target
    /\ \A k \in Range(g.existing) :
         /\ F.families[k].status = "released"
         /\ PairsOf(F.families[k]) \subseteq Range(P.sets[g.set])
    /\ Range(g.planned) \cap Listed(F) = {}

AllKeys(P) ==
    FlattenSeq([i \in DOMAIN P.groups |-> P.groups[i].existing \o P.groups[i].planned])
        \o P.superseded

\* Mutant: the map of the families seen is made anew for each group.
ClassifiedPerGroup(P, F) ==
    /\ \A i \in DOMAIN P.groups : IsInjective(P.groups[i].existing \o P.groups[i].planned)
    /\ Listed(F) \subseteq Range(AllKeys(P))
    /\ \A k \in Range(P.superseded) :
         k \in Listed(F) /\ F.families[k].status # "released"

\* Every key is classified once, and every family of the release is.
Classified(P, F) ==
    /\ IsInjective(AllKeys(P))
    /\ Listed(F) \subseteq Range(AllKeys(P))
    /\ \A k \in Range(P.superseded) :
         k \in Listed(F) /\ F.families[k].status # "released"

KindTotal(P, kind) ==
    LET mine == {i \in DOMAIN P.groups : P.groups[i].kind = kind}
    IN  [families |-> MapThenSumSet(LAMBDA i : P.groups[i].target, mine),
         revisions |-> MapThenSumSet(LAMBDA i : P.groups[i].target * P.groups[i].each, mine)]

TrackTotal(P, track) ==
    MapThenSumSet(LAMBDA i : P.groups[i].target,
                  {i \in DOMAIN P.groups : P.groups[i].track = track})

ValidPlan(P, F) ==
    /\ P.sound
    /\ P.source = F.release
    /\ ValidSets(P)
    /\ \A i \in DOMAIN P.groups : ValidGroup(P, F, P.groups[i])
    /\ Classified(P, F)
    /\ \A kind \in Kind : KindTotal(P, kind) = ExpectedKinds[kind]
    /\ \A track \in Track : TrackTotal(P, track) = TrackFamilies

----------------------------------------------------------------------------
(* BuildTaskPortfolioBacklog: the items, their order, waves and positions. *)

\* A family that the second reading of the manifest lacks has no key either.
NameAt(F, k) == IF k \in Listed(F) THEN k ELSE "none"

\* Mutant: a revision that is there closes the gap, runnable or not.
ClosedIfListed(family, pair) ==
    /\ \E j \in DOMAIN family.revisions : family.revisions[j].pair = pair
    /\ family.status = "released"

\* Of several revisions with one pair, the map keeps the last.
Closed(family, pair) ==
    LET hits == {j \in DOMAIN family.revisions : family.revisions[j].pair = pair}
    IN  hits # {} /\ family.revisions[Max(hits)].runnable /\ family.status = "released"

Item(i, kind, key, pair, priority, sequence) ==
    [group |-> i, kind |-> kind, key |-> key, pair |-> pair,
     priority |-> priority, sequence |-> sequence]

Gaps(P, F, i, k) ==
    LET pairs == P.sets[P.groups[i].set]
        open == {m \in DOMAIN pairs : ~Closed(F.families[k], pairs[m])}
        nth(n) == CHOOSE m \in open : Cardinality(open \cap 1..m) = n
    IN  [n \in 1..Cardinality(open) |->
            Item(i, "revision", NameAt(F, k), pairs[nth(n)], 1, n)]

Authoring(P, i, n) ==
    LET key == P.groups[i].planned[n]
        pairs == P.sets[P.groups[i].set]
    IN  <<Item(i, "family", key, "none", 2, n)>>
        \o [m \in DOMAIN pairs |-> Item(i, "revision", key, pairs[m], 3, m)]

Items(P, F) ==
    FlattenSeq([i \in DOMAIN P.groups |->
        LET g == P.groups[i]
        IN  FlattenSeq([n \in DOMAIN g.existing |-> Gaps(P, F, i, g.existing[n])])
            \o FlattenSeq([n \in DOMAIN g.planned |-> Authoring(P, i, n)])])

\* Mutant: by group first, so that new families come before open pairs.
RankByGroup(item) ==
    <<item.group, KeyOrder[item.key], item.priority, IF item.kind = "family" THEN 0 ELSE 1,
      item.sequence>>

Rank(item) ==
    <<item.priority, item.group, KeyOrder[item.key], IF item.kind = "family" THEN 0 ELSE 1,
      item.sequence>>

Less(s, t) == \E i \in DOMAIN s : s[i] < t[i] /\ \A j \in 1..(i - 1) : s[j] = t[j]

\* sort.SliceStable, then the numbering of waves and positions.
Queue(items) ==
    LET place == [x \in DOMAIN items |-> 1 + Cardinality({y \in DOMAIN items :
                    \/ Less(Rank(items[y]), Rank(items[x]))
                    \/ Rank(items[y]) = Rank(items[x]) /\ y < x})]
    IN  [n \in DOMAIN items |->
            [item |-> items[CHOOSE x \in DOMAIN items : place[x] = n],
             wave |-> (n - 1) \div MaxBatch + 1, position |-> ((n - 1) % MaxBatch) + 1]]

\* Its content is its digest: nothing of the report but its time and path is left out.
Report(P, F) ==
    LET items == Items(P, F)
    IN  [source |-> P.source, queue |-> Queue(items),
         waves |-> (Len(items) + MaxBatch - 1) \div MaxBatch]
=============================================================================
