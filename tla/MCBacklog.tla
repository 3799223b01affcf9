------------------------------ MODULE MCBacklog ------------------------------
(* Values of the constants of Portfolio and Backlog for TLC: a target of two *)
(* algorithm families of two revisions each and one native family, plans     *)
(* that reach it and plans that miss it, releases that fit and do not fit.   *)
EXTENDS Backlog

Kinds == {"algorithm", "native"}
Tracks == {"go"}
Sets == {"cross", "native-go"}
Pairs == {"js", "ts", "go"}
Keys == {"base", "alg-1", "alg-2", "native-1", "old"}
Releases == {"none", "fr1", "fr2"}

KindTarget == [k \in Kinds |-> IF k = "native" THEN [families |-> 1, revisions |-> 1]
                               ELSE [families |-> 2, revisions |-> 4]]
SetTarget == [s \in Sets |-> IF s = "cross" THEN {"js", "ts"} ELSE {"go"}]
SetUse == [x \in {"algorithm", "go"} |-> IF x = "go" THEN "native-go" ELSE "cross"]
Alphabet == [k \in Keys \cup {"none"} |->
    CASE k = "none" -> 0 [] k = "alg-1" -> 1 [] k = "alg-2" -> 2
      [] k = "base" -> 3 [] k = "native-1" -> 4 [] OTHER -> 5]

Plain == [s \in Sets |-> IF s = "cross" THEN <<"ts", "js">> ELSE <<"go">>]

Group(kind, existing, planned) ==
    LET native == kind = "native"
    IN  [kind |-> kind, track |-> IF native THEN "go" ELSE "none",
         set |-> IF native THEN "native-go" ELSE "cross",
         target |-> Len(existing) + Len(planned), each |-> IF native THEN 1 ELSE 2,
         existing |-> existing, planned |-> planned]

PlanOf(groups, superseded) ==
    [sound |-> TRUE, source |-> "fr1", sets |-> Plain, groups |-> groups,
     superseded |-> superseded]

Native == Group("native", <<>>, <<"native-1">>)
First == PlanOf(<<Group("algorithm", <<"base">>, <<"alg-1">>), Native>>, <<"old">>)

Plans ==
    {First,
     PlanOf(<<Native, Group("algorithm", <<"base">>, <<>>), Group("algorithm", <<>>, <<"alg-2">>)>>,
            <<"old">>),
     [PlanOf(<<Group("algorithm", <<"base", "alg-1">>, <<>>), Native>>, <<"old">>)
         EXCEPT !.source = "fr2"],
     [First EXCEPT !.sound = FALSE],
     [First EXCEPT !.superseded = <<>>],
     [First EXCEPT !.sets["cross"] = <<"js", "go">>],
     [First EXCEPT !.groups[2].track = "none"],
     [First EXCEPT !.groups[1].each = 1],
     PlanOf(<<Group("algorithm", <<>>, <<"alg-1">>), Native>>, <<"base", "old">>),
     PlanOf(<<Group("algorithm", <<"base">>, <<>>), Group("algorithm", <<"base">>, <<>>), Native>>,
            <<"old">>)}

Revisions(s) == [n \in DOMAIN s |-> [pair |-> s[n], runnable |-> TRUE]]
Family(status, revisions) == [status |-> status, revisions |-> revisions]
Old == Family("unreleased", Revisions(<<"js">>))

NoFamily == Family("none", <<>>)

FamilyFile(id, base) ==
    [sound |-> TRUE, release |-> id,
     families |-> [k \in Keys |-> IF k = "old" THEN Old ELSE IF k = "base" THEN base ELSE NoFamily]]

JsDone == Family("released", Revisions(<<"js">>))

FamilyFiles ==
    {FamilyFile("fr1", base) : base \in
        {JsDone, Family("released", Revisions(<<"js", "ts">>)),
         Family("released", <<[pair |-> "ts", runnable |-> TRUE],
                              [pair |-> "ts", runnable |-> FALSE]>>),
         Family("released", <<[pair |-> "js", runnable |-> FALSE]>>),
         Family("draft", Revisions(<<"js">>)),
         Family("released", Revisions(<<"js", "go">>)),
         NoFamily}}
    \cup {[FamilyFile("fr1", Old) EXCEPT !.sound = FALSE],
          [FamilyFile("fr2", JsDone) EXCEPT !.families["alg-1"] = JsDone]}
=============================================================================
