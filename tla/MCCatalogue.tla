---------------------------- MODULE MCCatalogue ----------------------------
(* Values of the constants of Catalogue and ReleaseGenerator for TLC: two  *)
(* task directories, two families, and manifests that fit some directories *)
(* and not the others.                                                     *)
EXTENDS ReleaseGenerator

Tasks == {"a", "b"}
Keys == {"f", "g"}
Names == {"none", "node", "postgres", "q1", "q2", "c1", "c2", "old", "new", "fr0", "fr1", "fr2",
          "plain", "retested", "declared", "second", "sql", "bindings", "oldbindings",
          "oldpin", "broken"}

Directory(content, revision, released, kind, bindings, qrelease) ==
    [sound |-> TRUE, revision |-> revision, released |-> released, kind |-> kind,
     bindings |-> bindings, qrelease |-> qrelease, content |-> content]

Plain == Directory("plain", 1, TRUE, "node", {}, "none")
Retested == Directory("retested", 1, TRUE, "node", {}, "none")
Declared == Directory("declared", 1, FALSE, "node", {}, "none")
Second == Directory("second", 2, TRUE, "node", {}, "none")
Sql == Directory("sql", 1, TRUE, "postgres", {}, "none")
Bindings == Directory("bindings", 1, TRUE, "node", {"q1"}, "none")
OldBindings == Directory("oldbindings", 1, TRUE, "node", {"q1"}, "old")
OldPin == Directory("oldpin", 1, TRUE, "node", {}, "old")
Broken == [Plain EXCEPT !.sound = FALSE, !.content = "broken"]

AllPacks == {Plain, Retested, Declared, Second, Sql, Bindings, OldBindings, OldPin, Broken}
FewPacks == {Plain, Retested, Declared}

AllLayouts == [Task -> Pack \cup {NoPack}]
PlainLayout == {[t \in Task |-> Plain]}

Entry(t, n, k, b, c) ==
    [task |-> t, revision |-> n, family |-> k, qrelease |-> "none", bindings |-> b,
     capabilities |-> c]

Manifest(v, tasks) ==
    [version |-> v, sound |-> TRUE, qrelease |-> "new", familyRelease |-> IF v = 1 THEN "none" ELSE "fr1",
     capabilities |-> IF v = 3 THEN {"c1"} ELSE {}, tasks |-> tasks]

A(k) == Entry("a", 1, k, {"q1"}, {"c1"})
B(k) == Entry("b", 1, k, {}, {"c1"})

FewReleases == {Manifest(v, <<A("f"), B("f")>>) : v \in {2, 3}}
AllReleases ==
    {Manifest(v, tasks) : v \in 1..3, tasks \in
        {<<A("f")>>, <<A("f"), B("f")>>, <<B("g"), A("f")>>, <<A("f"), A("g")>>,
         <<A("none"), B("none")>>, <<Entry("a", 2, "f", {}, {"c1"})>>, <<Entry("a", 1, "f", {}, {"c2"})>>}}
    \cup {[Manifest(3, <<A("f")>>) EXCEPT !.familyRelease = "none"],
          [Manifest(1, <<A("f")>>) EXCEPT !.sound = FALSE],
          Manifest(1, <<[A("f") EXCEPT !.qrelease = "old"]>>)}

Member(k, t, n, kind, available, hash) ==
    [family |-> k, task |-> t, revision |-> n, kind |-> kind,
     availability |-> available, hash |-> hash]

Family(id, f, g, revisions) ==
    [sound |-> TRUE, release |-> id,
     execution |-> [k \in FamilyKey |-> IF k = "f" THEN f ELSE g],
     capabilities |-> [k \in FamilyKey |-> IF k = "f" THEN {"c1"} ELSE {"c2"}],
     revisions |-> revisions]

InF(t) == Member("f", t, 1, "node", "runnable", "plain")
FewFamilies ==
    {Family("fr1", "code", "code", <<InF("a"), InF("b")>>),
     Family("fr2", "code", "code", <<Member("f", "a", 1, "node", "brief_only", "declared"), InF("b")>>)}
AllFamilies == FewFamilies \cup
    {Family("fr1", "none", "sql", <<Member("g", "b", 1, "postgres", "runnable", "sql"), InF("a")>>),
     Family("fr1", "code", "none", <<Member("g", "b", 1, "postgres", "runnable", "sql"), InF("a")>>),
     Family("fr0", "none", "none", <<Member("g", "b", 1, "postgres", "runnable", "sql"), InF("a")>>),
     Family("fr1", "code", "code", <<InF("a"), Member("g", "a", 1, "node", "runnable", "plain")>>),
     Family("fr1", "code", "code", <<Member("f", "a", 2, "node", "superseded", "second")>>),
     Family("fr1", "code", "code", <<Member("f", "a", 1, "node", "runnable", "oldpin")>>),
     Family("fr1", "code", "code", <<Member("f", "a", 1, "node", "runnable", "bindings"), InF("b")>>)}

\* Earlier manifests: a complete one, one without an entry for b, one with b in
\* another family, one with an entry twice, one that names no question.
Histories ==
    {Manifest(2, tasks) : tasks \in
        {<<A("f"), B("f")>>, <<A("f")>>, <<B("g"), A("f")>>, <<A("f"), B("f"), A("f")>>,
         <<B("f")>>}}

\* Question Brain as it was, with a new revision of the card and one capability
\* more, without the card, without the capability of f, and unsound.
Published(capabilities, q1) ==
    [sound |-> TRUE, qrelease |-> "new", capabilities |-> capabilities,
     card |-> [n \in Name |-> IF n = "q1" THEN q1 ELSE "none"]]
Brains ==
    {Published({"c1"}, "q1"), Published({"c1", "c2"}, "q2"), Published({"c1"}, "none"),
     Published({"c2"}, "q1"), [Published({"c1"}, "q1") EXCEPT !.sound = FALSE]}

\* Bound: files are replaced in deployments of few files only.
FewWhenEdited ==
    edits = 0 \/ /\ disk \in [Task -> FewPacks \cup {NoPack}]
                 /\ {releaseFile, release} \subseteq FewReleases \cup {NoRelease}
                 /\ {familyFile, families} \subseteq FewFamilies \cup {NoFamilies}
=============================================================================
