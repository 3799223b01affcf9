--------------------------- MODULE CatalogueProofs ---------------------------
(***************************************************************************)
(* The join of the catalogue is sound for every deployment: JoinInv is an  *)
(* inductive invariant of Catalogue, and RunnableIsReleased,               *)
(* ReleaseIsComplete, ProjectionMatchesTable and AdvertisedIsServable      *)
(* follow from it; with PinInv, PinnedUnlessReplaced does.                 *)
(***************************************************************************)
EXTENDS Catalogue, TLAPS

\* The files the process reads have their types.
LEMMA FileTypes ==
    ASSUME TypeOK
    PROVE  /\ release.tasks \in Seq(EntryType)
           /\ release.qrelease \in Name
           /\ families.revisions \in Seq(RevisionType)
           /\ NoFamilies.revisions = <<>> /\ NoRelease.tasks = <<>>
<1>1. NoRelease.tasks = <<>> /\ NoRelease.qrelease \in Name
    BY PackAssumption DEF NoRelease
<1>2. NoFamilies.revisions = <<>>
    BY DEF NoFamilies
<1>3. \A R \in Release : R.tasks \in Seq(EntryType) /\ R.qrelease \in Name
    BY FileAssumption DEF ReleaseType
<1>4. \A F \in FamilyRelease : F.revisions \in Seq(RevisionType)
    BY FileAssumption DEF FamilyReleaseType
<1>5. release \in Release \cup {NoRelease} /\ families \in FamilyRelease \cup {NoFamilies}
    BY DEF TypeOK
<1>6. <<>> \in Seq(EntryType) /\ <<>> \in Seq(RevisionType)
    OBVIOUS
<1> QED
    BY <1>1, <1>2, <1>3, <1>4, <1>5, <1>6

\* Entries are entries.
LEMMA EntryTypes ==
    ASSUME TypeOK, NEW t, NEW n
    PROVE  Entries(t, n) \subseteq EntryType
BY FileTypes DEF Entries

\* A directory is of its type, or absent and not sound.
LEMMA PackTypes ==
    ASSUME TypeOK, NEW t \in Task
    PROVE  disk[t] \in PackType \/ disk[t] = NoPack
BY PackAssumption DEF TypeOK

\* A sound directory has a pack's type, which an unsound one need not have.
LEMMA SoundPack ==
    ASSUME TypeOK, NEW t \in Task, disk[t].sound
    PROVE  disk[t] \in PackType
BY PackTypes DEF NoPack

\* Rows of a directory without an entry, and with one.
LEMMA UnlistedFacts ==
    ASSUME NEW p \in PackType
    PROVE  /\ Unlisted(p) \in RowType
           /\ Unlisted(p).revision = p.revision
           /\ Unlisted(p).released = p.released
           /\ Unlisted(p).runnable = (release # NoRelease /\ p.released)
           /\ Unlisted(p).bindings = p.bindings
           /\ Unlisted(p).availability = "unreleased"
BY PackAssumption DEF Unlisted, PackType, RowType, Availabilities

\* What mergeQuestionRelease keeps of the directory and takes from the entry, field by field.
LEMMA MergedFacts ==
    ASSUME TypeOK, NEW p \in PackType, NEW e \in EntryType
    PROVE  /\ Merged(p, e) \in RowType
           /\ Merged(p, e).revision = p.revision
           /\ Merged(p, e).released = p.released
           /\ Merged(p, e).runnable = (release # NoRelease /\ p.released)
           /\ Merged(p, e).bindings = IF p.bindings = {} THEN e.bindings ELSE p.bindings
           /\ Merged(p, e).qrelease = release.qrelease
           /\ Merged(p, e).family = e.family
           /\ Merged(p, e).availability = "runnable"
<1>1. "runnable" \in Availabilities
    BY DEF Availabilities
<1>2. /\ e.family \in FamilyKey \cup {"none"} /\ e.bindings \in SUBSET Name
      /\ p.bindings \in SUBSET Name
    BY DEF EntryType, PackType
<1> QED
    BY <1>1, <1>2, UnlistedFacts, FileTypes DEF Merged, RowType

\* The row of a directory that may be loaded is a row, with the directory's
\* revision; under a release a released one has what its entry says.
LEMMA RowFacts ==
    ASSUME TypeOK, NEW t, NEW p \in PackType, Loadable(t, p)
    PROVE  /\ Row(t, p) \in RowType
           /\ Row(t, p).revision = p.revision
           /\ Row(t, p).runnable => Row(t, p).released /\ ReleaseBound
           /\ Row(t, p).released /\ ReleaseBound =>
                \E e \in Entries(t, p.revision) :
                    /\ Row(t, p).qrelease = release.qrelease
                    /\ Row(t, p).bindings = e.bindings
                    /\ e.family \in {"none", Row(t, p).family}
           /\ Row(t, p).released /\ ReleaseBound =>
                Row(t, p).runnable /\ Row(t, p).availability = "runnable"
<1>1. CASE Entries(t, p.revision) = {}
    <2>1. Row(t, p) = Unlisted(p)
        BY <1>1 DEF Row
    <2>2. ReleaseBound => ~p.released
        BY <1>1 DEF Loadable, ReleaseBound
    <2>3. Unlisted(p).runnable => Unlisted(p).released /\ ReleaseBound
        BY UnlistedFacts DEF ReleaseBound
    <2>4. ~(Unlisted(p).released /\ ReleaseBound)
        BY <2>2, UnlistedFacts
    <2> QED
        BY <2>1, <2>3, <2>4, UnlistedFacts
<1>2. CASE Entries(t, p.revision) # {}
    <2>1. PICK e \in Entries(t, p.revision) : Row(t, p) = Merged(p, e)
        BY <1>2 DEF Row
    <2>2. e \in EntryType
        BY EntryTypes
    <2>3. release # NoRelease
        BY <1>2, FileTypes DEF Entries
    <2>4. p.bindings \in {{}, e.bindings}
        BY <2>3 DEF Loadable
    <2>5. /\ Merged(p, e).runnable => Merged(p, e).released /\ ReleaseBound
          /\ Merged(p, e).released => Merged(p, e).runnable
          /\ Merged(p, e).availability = "runnable"
        <3>1. /\ Merged(p, e).released = p.released
              /\ Merged(p, e).runnable = (release # NoRelease /\ p.released)
              /\ Merged(p, e).availability = "runnable"
            BY <2>2, MergedFacts
        <3> QED
            BY <2>3, <3>1 DEF ReleaseBound
    <2>6. /\ Merged(p, e) \in RowType
          /\ Merged(p, e).revision = p.revision
          /\ Merged(p, e).bindings = e.bindings
          /\ Merged(p, e).qrelease = release.qrelease
          /\ Merged(p, e).family = e.family
        BY <2>2, <2>4, MergedFacts
    <2> QED
        BY <2>1, <2>5, <2>6
<1> QED
    BY <1>1, <1>2

----------------------------------------------------------------------------
(* Types.                                                                  *)

\* What binding a row to a family's revision changes, and what it leaves.
LEMMA BoundFacts ==
    ASSUME NEW row \in RowType, NEW v \in RevisionType
    PROVE  /\ Bound(row, v) \in RowType
           /\ Bound(row, v).revision = row.revision
           /\ Bound(row, v).released = row.released
           /\ Bound(row, v).kind = row.kind
           /\ Bound(row, v).qrelease = row.qrelease
           /\ Bound(row, v).bindings = row.bindings
           /\ Bound(row, v).family = v.family
           /\ Bound(row, v).hash = v.hash
           /\ Bound(row, v).availability = v.availability
           /\ Bound(row, v).runnable = (row.runnable /\ v.availability = "runnable")
<1>1. /\ v.family \in FamilyKey \cup {"none"} /\ v.hash \in Name
      /\ v.availability \in Availabilities
    BY DEF RevisionType
<1>2. Bound(row, v) \in RowType
    BY <1>1 DEF Bound, RowType
<1> QED
    BY <1>1, <1>2 DEF Bound, RowType

\* The revision that BindRevision comes to.
LEMMA NextRevision ==
    ASSUME TypeOK, Len(projection) < Len(families.revisions)
    PROVE  /\ Len(projection) \in Nat /\ Len(families.revisions) \in Nat
           /\ Len(projection) + 1 \in DOMAIN families.revisions
           /\ families.revisions[Len(projection) + 1] \in RevisionType
BY FileTypes DEF TypeOK

\* A binding keeps the types and lengthens the projection by one.
LEMMA BindTypes ==
    ASSUME TypeOK, NEW v \in RevisionType, Bind(v)
    PROVE  /\ table' \in [Task -> RowType]
           /\ projection' \in Seq(ProjectedType)
           /\ Len(projection') = Len(projection) + 1
<1>1. v.task \in Task /\ v.family \in FamilyKey
    BY DEF RevisionType
<1>2. table[v.task] \in RowType
    BY <1>1 DEF TypeOK
<1>3. Bound(table[v.task], v) \in RowType /\ Bound(table[v.task], v).family = v.family
    BY <1>2, BoundFacts
<1>4. Projected(v.task, Bound(table[v.task], v)) \in ProjectedType
    BY <1>1, <1>3 DEF Projected, ProjectedType, RowType
<1>5. table' \in [Task -> RowType]
    BY <1>1, <1>3 DEF Bind, TypeOK
<1> QED
    BY <1>4, <1>5 DEF Bind, TypeOK

\* The empty table and projection have their types.
LEMMA NoTypes ==
    /\ [t \in Task |-> NoRow] \in [Task -> RowType]
    /\ <<>> \in Seq(ProjectedType)
    /\ Len(<<>>) = 0
<1>1. NoRow \in RowType
    BY PackAssumption DEF NoRow, RowType, Availabilities
<1> QED
    BY <1>1

\* Every step keeps the types.
LEMMA TypesKept ==
    ASSUME TypeOK, Early, [Next]_vars
    PROVE  TypeOK'
<1> USE DEF TypeOK
<1>1. CASE LoadTaskFamilyManifest
    <2>1. projection' = <<>> /\ Len(projection') = 0
        BY <1>1, NoTypes DEF LoadTaskFamilyManifest, Proceed, Early
    <2>2. families' \in FamilyRelease \cup {NoFamilies}
        BY <1>1 DEF LoadTaskFamilyManifest
    <2>3. Len(families'.revisions) \in Nat
        BY <2>2, FileAssumption DEF FamilyReleaseType, NoFamilies
    <2> QED
        BY <1>1, <2>1, <2>2, <2>3 DEF LoadTaskFamilyManifest, Proceed, files
<1>2. CASE LoadReleaseManifest
    BY <1>2 DEF LoadReleaseManifest, Proceed, files
<1>3. CASE ListTasks
    BY <1>3 DEF ListTasks, Proceed, files
<1>4. ASSUME NEW t \in Task, LoadTask(t)
      PROVE  TypeOK'
    <2>1. CASE Loadable(t, disk[t])
        <3>1. disk[t] \in PackType
            BY <2>1, SoundPack DEF Loadable
        <3>2. Row(t, disk[t]) \in RowType
            BY <2>1, <3>1, RowFacts
        <3> QED
            BY <1>4, <2>1, <3>2 DEF LoadTask, Proceed, files
    <2>2. CASE ~Loadable(t, disk[t])
        BY <1>4, <2>2 DEF LoadTask, Proceed, files
    <2> QED
        BY <2>1, <2>2
<1>5. ASSUME NEW t \in Task, Expose(t)
      PROVE  TypeOK'
    <2>1. disk[t].content \in Name
        BY PackTypes, PackAssumption DEF PackType, NoPack
    <2> QED
        BY <1>5, <2>1 DEF Expose, files, memory
<1>6. CASE EndTasks
    BY <1>6 DEF EndTasks, Proceed, files, memory
<1>7. CASE BindRevision
    <2> DEFINE v == families.revisions[Len(projection) + 1]
    <2>1. v \in RevisionType /\ Len(projection) \in Nat /\ Len(families.revisions) \in Nat
        BY <1>7, NextRevision DEF BindRevision
    <2>2. CASE Agrees(v)
        <3>1. Bind(v)
            BY <1>7, <2>2 DEF BindRevision
        <3>2. /\ table' \in [Task -> RowType] /\ projection' \in Seq(ProjectedType)
              /\ Len(projection') = Len(projection) + 1
            BY <2>1, <3>1, BindTypes
        <3>3. families' = families /\ Len(projection) < Len(families.revisions)
            BY <1>7 DEF BindRevision
        <3>4. Len(projection') <= Len(families'.revisions)
            BY <2>1, <3>2, <3>3
        <3> QED
            BY <1>7, <3>2, <3>4 DEF BindRevision, Proceed, files
    <2>3. CASE ~Agrees(v)
        BY <1>7, <2>3 DEF BindRevision, Proceed, files
    <2> QED
        BY <2>2, <2>3
<1>8. CASE EndBind
    BY <1>8 DEF EndBind, Proceed, files, memory
<1>9. CASE Stop
    <2>1. Len(projection') <= Len(families'.revisions)
        BY <1>9, NoTypes, FileTypes DEF Stop
    <2> QED
        BY <1>9, <2>1, NoTypes DEF Stop, files
<1>10. ASSUME NEW t \in Task, NEW p \in NewPack \cup {NoPack}, ReplacePack(t, p)
       PROVE  TypeOK'
    <2>1. edits' \in 0..MaxEdits
        BY <1>10, FileAssumption DEF ReplacePack, Edit
    <2> QED
        BY <1>10, <2>1, FileAssumption DEF ReplacePack, Edit, memory
<1>11. ASSUME NEW R \in NewRelease \cup {NoRelease}, PublishRelease(R)
       PROVE  TypeOK'
    <2>1. edits' \in 0..MaxEdits
        BY <1>11, FileAssumption DEF PublishRelease, Edit
    <2> QED
        BY <1>11, <2>1, FileAssumption DEF PublishRelease, Edit, memory
<1>12. ASSUME NEW F \in NewFamilies \cup {NoFamilies}, PublishFamilies(F)
       PROVE  TypeOK'
    <2>1. edits' \in 0..MaxEdits
        BY <1>12, FileAssumption DEF PublishFamilies, Edit
    <2> QED
        BY <1>12, <2>1, FileAssumption DEF PublishFamilies, Edit, memory
<1>13. CASE UNCHANGED vars
    BY <1>13 DEF vars, files, memory
<1> QED
    BY <1>1, <1>2, <1>3, <1>4, <1>5, <1>6, <1>7, <1>8, <1>9, <1>10, <1>11, <1>12, <1>13 DEF Next

----------------------------------------------------------------------------
(* The join.                                                               *)

\* A step that leaves the memory of the process alone keeps the rows.
LEMMA RowsKept ==
    ASSUME JoinInv, UNCHANGED memory
    PROVE  /\ \A t \in Task : RowFromEntry(t)'
           /\ \A i \in DOMAIN projection' : RowFromRevision(i)'
           /\ EveryEntryLoaded => EveryEntryLoaded'
BY DEF JoinInv, memory, RowFromEntry, RowFromRevision, EveryEntryLoaded, Entries,
       ReleaseBound, Seen

\* With an empty table nothing can be wrong with a row.
LEMMA NoRows ==
    ASSUME table' = [t \in Task |-> NoRow], projection' = <<>>
    PROVE  /\ \A t \in Task : RowFromEntry(t)'
           /\ \A i \in DOMAIN projection' : RowFromRevision(i)'
<1>1. ~NoRow.runnable /\ ~NoRow.released
    BY DEF NoRow
<1>2. DOMAIN projection' = {}
    OBVIOUS
<1> QED
    BY <1>1, <1>2 DEF RowFromEntry

\* The row of a directory is tied to its manifest entry when it is loaded, and disturbs none before it.
LEMMA LoadTaskKeeps ==
    ASSUME JoinInv, NEW t \in Task, LoadTask(t)
    PROVE  /\ Early' /\ ManifestsValid' /\ Complete'
           /\ \A s \in Task : RowFromEntry(s)'
           /\ \A i \in DOMAIN projection' : RowFromRevision(i)'
<1>1. phase = "tasks" /\ phase' \in {"tasks", "failed"} /\ projection' = <<>> /\ projection = <<>>
    BY DEF LoadTask, Proceed, JoinInv, Early
<1>2. Early' /\ Complete'
    BY <1>1 DEF Early, Complete
<1>3. release' = release /\ families' = families
    BY DEF LoadTask
<1>4. ManifestsValid'
    BY <1>1, <1>3 DEF ManifestsValid, JoinInv, ValidRelease, ValidFamilies, ExecutionKind
<1>5. \A i \in DOMAIN projection' : RowFromRevision(i)'
    BY <1>1
<1>6. CASE ~Loadable(t, disk[t])
    <2>1. table' = table
        BY <1>6 DEF LoadTask
    <2>2. \A s \in Task : RowFromEntry(s)'
        BY <1>1, <1>3, <2>1 DEF JoinInv, RowFromEntry, Entries, ReleaseBound, Seen
    <2> QED
        BY <1>2, <1>4, <1>5, <2>2
<1>7. CASE Loadable(t, disk[t])
    <2>1. table' = [table EXCEPT ![t] = Row(t, disk[t])]
        BY <1>7 DEF LoadTask
    <2>2. disk[t] \in PackType
        BY <1>7, SoundPack DEF Loadable, JoinInv
    <2>3. ASSUME NEW s \in Task
          PROVE  RowFromEntry(s)'
        <3>1. CASE s # t
            <4>1. table'[s] = table[s]
                BY <2>1, <3>1 DEF JoinInv, TypeOK
            <4> QED
                BY <1>1, <1>3, <4>1 DEF JoinInv, RowFromEntry, Entries, ReleaseBound, Seen
        <3>2. CASE s = t
            <4> DEFINE row == Row(t, disk[t])
            <4>1. table'[s] = row
                BY <2>1, <3>2 DEF JoinInv, TypeOK
            <4>2. /\ row.revision = disk[t].revision
                  /\ row.runnable => row.released /\ ReleaseBound
                  /\ row.released /\ ReleaseBound =>
                       \E e \in Entries(t, disk[t].revision) :
                           /\ row.qrelease = release.qrelease
                           /\ row.bindings = e.bindings
                           /\ e.family \in {"none", row.family}
                  /\ row.released /\ ReleaseBound =>
                       row.runnable /\ row.availability = "runnable"
                BY <1>7, <2>2, RowFacts DEF JoinInv
            <4>3. \A n : Entries(t, n)' = Entries(t, n)
                BY <1>3 DEF Entries
            <4>4. ReleaseBound' = ReleaseBound
                BY <1>3 DEF ReleaseBound
            <4> HIDE DEF row
            <4> QED
                BY <1>3, <3>2, <4>1, <4>2, <4>3, <4>4 DEF RowFromEntry
        <3> QED
            BY <3>1, <3>2
    <2> QED
        BY <1>2, <1>4, <1>5, <2>3
<1> QED
    BY <1>6, <1>7

\* A binding ties its row to the revision and disturbs no revision bound before.
LEMMA BindKeeps ==
    ASSUME JoinInv, BindRevision
    PROVE  /\ Early' /\ ManifestsValid' /\ Complete'
           /\ \A s \in Task : RowFromEntry(s)'
           /\ \A i \in DOMAIN projection' : RowFromRevision(i)'
<1> DEFINE v == families.revisions[Len(projection) + 1]
<1>1. phase = "bind" /\ phase' \in {"bind", "failed"}
    BY DEF BindRevision, Proceed
<1>2. release' = release /\ families' = families
    BY DEF BindRevision
<1>3. Early' /\ ManifestsValid'
    BY <1>1, <1>2 DEF JoinInv, Early, ManifestsValid, ValidRelease, ValidFamilies, ExecutionKind
<1>4. CASE ~Agrees(v)
    <2>1. table' = table /\ projection' = projection /\ phase' = "failed"
        BY <1>4 DEF BindRevision, Proceed
    <2> QED
        BY <1>2, <1>3, <2>1
        DEF JoinInv, RowFromEntry, RowFromRevision, Entries, ReleaseBound, Complete, Seen
<1>5. CASE Agrees(v)
    <2>1. v \in RevisionType /\ v.task \in Task
        BY NextRevision DEF BindRevision, JoinInv, RevisionType
    <2>2. Bind(v)
        BY <1>5 DEF BindRevision
    <2> DEFINE old == table[v.task]
               new == Bound(old, v)
    <2>3. old \in RowType
        BY <2>1 DEF JoinInv, TypeOK
    <2>4. /\ new.revision = old.revision /\ new.released = old.released
          /\ new.kind = old.kind /\ new.qrelease = old.qrelease
          /\ new.bindings = old.bindings /\ new.family = v.family /\ new.hash = v.hash
          /\ new.availability = v.availability
          /\ new.runnable = (old.runnable /\ v.availability = "runnable")
        BY <2>1, <2>3, BoundFacts
    <2>5. /\ old.revision = v.revision /\ old.kind = v.kind
          /\ old.family \in {"none", v.family}
          /\ ~Seen(v.task, v.revision)
        BY <1>5 DEF Agrees
    <2>6. table'[v.task] = new /\ \A s \in Task \ {v.task} : table'[s] = table[s]
        BY <2>1, <2>2 DEF Bind, JoinInv, TypeOK
    <2>7. projection' = Append(projection, Projected(v.task, new))
        BY <2>2 DEF Bind
    <2> HIDE DEF new, old, v
    <2>8. \A s \in Task : table'[s].revision = table[s].revision
        BY <2>4, <2>6 DEF old
    <2>9. Complete'
        <3>1. EveryEntryLoaded
            BY <1>1 DEF JoinInv, Complete
        <3>2. release.tasks \in Seq(EntryType)
            BY FileTypes DEF JoinInv
        <3>3. \A i \in DOMAIN release.tasks : release.tasks[i].task \in Task
            <4>1. \A i \in DOMAIN release.tasks : release.tasks[i] \in EntryType
                BY <3>2
            <4> QED
                BY <4>1 DEF EntryType
        <3>4. EveryEntryLoaded'
            BY <1>2, <2>8, <3>1, <3>3 DEF EveryEntryLoaded
        <3> QED
            BY <1>1, <3>4 DEF Complete
    <2>10. /\ \A s, n : Seen(s, n) => Seen(s, n)'
           /\ \A s, n : s = v.task /\ n = v.revision => Seen(s, n)'
        <3>1. Len(projection) \in Nat /\ projection \in Seq(ProjectedType)
            BY DEF JoinInv, TypeOK
        <3>2. \A i \in DOMAIN projection : i \in DOMAIN projection' /\ projection'[i] = projection[i]
            BY <2>7, <3>1
        <3>3. /\ Len(projection) + 1 \in DOMAIN projection'
              /\ projection'[Len(projection) + 1] = Projected(v.task, new)
            BY <2>7, <3>1
        <3>4. Projected(v.task, new).task = v.task /\ Projected(v.task, new).revision = v.revision
            BY <2>4, <2>5 DEF Projected
        <3>5. \A s, n : Seen(s, n) => Seen(s, n)'
            BY <3>2 DEF Seen
        <3>6. \A s, n : s = v.task /\ n = v.revision => Seen(s, n)'
            BY <3>3, <3>4 DEF Seen
        <3> QED
            BY <3>5, <3>6
    <2>11. ASSUME NEW s \in Task
           PROVE  RowFromEntry(s)'
        <3>1. \A n : Entries(s, n)' = Entries(s, n)
            BY <1>2 DEF Entries
        <3>2. ReleaseBound' = ReleaseBound
            BY <1>2 DEF ReleaseBound
        <3>3. CASE s # v.task
            <4>1. Seen(s, table[s].revision) => Seen(s, table[s].revision)'
                BY <2>6, <2>10, <3>3
            <4> QED
                BY <1>2, <2>6, <3>1, <3>2, <3>3, <4>1 DEF JoinInv, RowFromEntry
        <3>4. CASE s = v.task
            <4>1. /\ old.runnable => old.released /\ ReleaseBound
                  /\ old.released /\ ReleaseBound =>
                       \E e \in Entries(s, old.revision) :
                           /\ old.qrelease = release.qrelease
                           /\ old.bindings = e.bindings
                           /\ e.family \in {"none", old.family}
                  /\ old.released /\ ReleaseBound => old.runnable
                BY <2>5, <3>4 DEF JoinInv, RowFromEntry, old
            <4>2. Seen(s, table[s].revision)'
                BY <2>4, <2>5, <2>6, <2>10, <3>4
            <4>3. table'[s] = new
                BY <2>6, <3>4
            <4>4. \A e \in Entries(s, old.revision) :
                      e.family \in {"none", old.family} => e.family \in {"none", new.family}
                BY <2>4, <2>5
            <4> HIDE DEF RowFromEntry
            <4>5. /\ new.runnable => new.released /\ ReleaseBound
                  /\ new.released /\ ReleaseBound =>
                       /\ new.runnable <=> new.availability = "runnable"
                       /\ \E e \in Entries(s, new.revision) :
                             /\ new.qrelease = release.qrelease
                             /\ new.bindings = e.bindings
                             /\ e.family \in {"none", new.family}
                BY <2>4, <4>1, <4>4
            <4> QED
                BY <1>2, <3>1, <3>2, <4>2, <4>3, <4>5 DEF RowFromEntry
        <3> QED
            BY <3>3, <3>4
    <2>12. ASSUME NEW i \in DOMAIN projection'
           PROVE  RowFromRevision(i)'
        <3>1. Len(projection) \in Nat /\ projection \in Seq(ProjectedType)
            BY DEF JoinInv, TypeOK
        <3>2. CASE i = Len(projection) + 1
            <4>1. projection'[i] = Projected(v.task, new)
                BY <2>7, <3>1, <3>2
            <4>2. families'.revisions[i] = v
                BY <1>2, <3>2 DEF v
            <4> QED
                BY <2>4, <2>5, <2>6, <4>1, <4>2 DEF RowFromRevision, Projected
        <3>3. CASE i # Len(projection) + 1
            <4> DEFINE u == families.revisions[i]
            <4>1. i \in DOMAIN projection /\ projection'[i] = projection[i]
                BY <2>7, <3>1, <3>3
            <4>2. RowFromRevision(i)
                BY <4>1 DEF JoinInv
            <4>3. projection[i].task = u.task /\ projection[i].revision = u.revision
                BY <4>2 DEF RowFromRevision, Projected
            <4>4. table[u.task].revision = u.revision
                BY <4>2 DEF RowFromRevision
            <4>5. u.task # v.task
                BY <2>5, <4>1, <4>3, <4>4 DEF Seen, old
            <4>6. u.task \in Task
                <5>1. projection[i] \in ProjectedType
                    BY <3>1, <4>1
                <5> QED
                    BY <4>3, <5>1 DEF ProjectedType
            <4>7. table'[u.task] = table[u.task]
                BY <2>6, <4>5, <4>6
            <4> QED
                BY <1>2, <4>1, <4>2, <4>7 DEF RowFromRevision
        <3> QED
            BY <3>2, <3>3
    <2> QED
        BY <1>3, <2>9, <2>11, <2>12
<1> QED
    BY <1>4, <1>5

\* Every step keeps the invariant of the join.
LEMMA JoinKept ==
    ASSUME JoinInv, [Next]_vars
    PROVE  JoinInv'
<1>0. TypeOK'
    BY TypesKept DEF JoinInv
<1>1. CASE LoadTaskFamilyManifest
    <2>1. /\ table' = [t \in Task |-> NoRow] /\ projection' = <<>>
          /\ phase = "down" /\ phase' \in {"release", "failed"}
        BY <1>1 DEF LoadTaskFamilyManifest, Proceed, JoinInv, Early
    <2>2. phase' = "release" => families' = NoFamilies \/ ValidFamilies(families')
        BY <1>1 DEF LoadTaskFamilyManifest, Proceed
    <2>3. ValidFamilies(families)' = ValidFamilies(families')
        BY DEF ValidFamilies, ExecutionKind
    <2> QED
        BY <1>0, <2>1, <2>2, <2>3, NoRows DEF JoinInv, Early, ManifestsValid, Complete, NoFamilies
<1>2. CASE LoadReleaseManifest
    <2>1. /\ table' = [t \in Task |-> NoRow] /\ projection' = <<>>
          /\ phase = "release" /\ phase' \in {"list", "failed"}
          /\ families' = families
        BY <1>2 DEF LoadReleaseManifest, Proceed, JoinInv, Early
    <2>2. phase' = "list" => release' = NoRelease \/ ValidRelease(release')
        BY <1>2 DEF LoadReleaseManifest, Proceed
    <2>3. ValidRelease(release)' = ValidRelease(release')
        BY DEF ValidRelease
    <2>4. ValidFamilies(families)' = ValidFamilies(families)
        BY <2>1 DEF ValidFamilies, ExecutionKind
    <2>5. ManifestsValid'
        BY <2>1, <2>2, <2>3, <2>4 DEF JoinInv, ManifestsValid, NoFamilies
    <2> QED
        BY <1>0, <2>1, <2>5, NoRows DEF JoinInv, Early, Complete
<1>3. CASE ListTasks
    <2>1. /\ table' = [t \in Task |-> NoRow] /\ projection' = <<>>
          /\ phase = "list" /\ phase' = "tasks"
          /\ families' = families /\ release' = release
        BY <1>3 DEF ListTasks, Proceed, JoinInv, Early
    <2>2. ManifestsValid'
        BY <2>1 DEF JoinInv, ManifestsValid, ValidRelease, ValidFamilies, ExecutionKind, NoFamilies
    <2> QED
        BY <1>0, <2>1, <2>2, NoRows DEF JoinInv, Early, Complete
<1>4. ASSUME NEW t \in Task, LoadTask(t)
      PROVE  JoinInv'
    BY <1>0, <1>4, LoadTaskKeeps DEF JoinInv
<1>5. CASE EndTasks
    <2>1. /\ phase = "tasks" /\ UNCHANGED memory
          /\ phase' \in {"bind", "serving", "failed"}
          /\ phase' = "serving" => families = NoFamilies
          /\ phase' # "failed" => EveryEntryLoaded
        BY <1>5 DEF EndTasks, Proceed
    <2>2. ManifestsValid'
        BY <2>1 DEF JoinInv, ManifestsValid, memory, ValidRelease, ValidFamilies, ExecutionKind, NoFamilies
    <2>3. EveryEntryLoaded => EveryEntryLoaded'
        BY <2>1, RowsKept
    <2>4. projection' = <<>> /\ NoFamilies.revisions = <<>> /\ families' = families
        BY <2>1, FileTypes DEF JoinInv, Early, memory
    <2>5. Complete'
        BY <2>1, <2>3, <2>4 DEF Complete, NoFamilies
    <2> QED
        BY <1>0, <2>1, <2>2, <2>5, RowsKept DEF JoinInv, Early
<1>6. CASE BindRevision
    BY <1>0, <1>6, BindKeeps DEF JoinInv
<1>7. CASE EndBind
    <2>1. /\ phase = "bind" /\ UNCHANGED memory /\ phase' \in {"serving", "failed"}
          /\ Len(projection) = Len(families.revisions)
          /\ phase' = "serving" => \A t \in Task : table[t].released => Seen(t, table[t].revision)
        BY <1>7 DEF EndBind, Proceed
    <2>2. ManifestsValid'
        BY <2>1 DEF JoinInv, ManifestsValid, memory, ValidRelease, ValidFamilies, ExecutionKind, NoFamilies
    <2>3. EveryEntryLoaded'
        BY <2>1, RowsKept DEF JoinInv, Complete
    <2>4. Complete'
        BY <2>1, <2>3 DEF Complete, memory, Seen
    <2> QED
        BY <1>0, <2>1, <2>2, <2>4, RowsKept DEF JoinInv, Early
<1>8. CASE Stop
    BY <1>0, <1>8, NoRows DEF Stop, JoinInv, Early, ManifestsValid, Complete
<1>9. CASE UNCHANGED <<phase, memory>>
    <2>1. ManifestsValid'
        BY <1>9 DEF JoinInv, ManifestsValid, memory, ValidRelease, ValidFamilies, ExecutionKind, NoFamilies
    <2>2. Complete'
        BY <1>9, RowsKept DEF JoinInv, Complete, memory, Seen, NoFamilies
    <2> QED
        BY <1>0, <1>9, <2>1, <2>2, RowsKept DEF JoinInv, Early, memory
<1>10. ASSUME NEW t \in Task, Expose(t)
       PROVE  UNCHANGED <<phase, memory>>
    BY <1>10 DEF Expose
<1>11. ASSUME NEW t \in Task, NEW p \in NewPack \cup {NoPack}, ReplacePack(t, p)
       PROVE  UNCHANGED <<phase, memory>>
    BY <1>11 DEF ReplacePack, Edit
<1>12. ASSUME NEW R \in NewRelease \cup {NoRelease}, PublishRelease(R)
       PROVE  UNCHANGED <<phase, memory>>
    BY <1>12 DEF PublishRelease, Edit
<1>13. ASSUME NEW F \in NewFamilies \cup {NoFamilies}, PublishFamilies(F)
       PROVE  UNCHANGED <<phase, memory>>
    BY <1>13 DEF PublishFamilies, Edit
<1>14. CASE UNCHANGED vars
    BY <1>14, <1>9 DEF vars
<1> QED
    BY <1>1, <1>2, <1>3, <1>4, <1>5, <1>6, <1>7, <1>8, <1>9, <1>10, <1>11, <1>12, <1>13, <1>14
    DEF Next

----------------------------------------------------------------------------
(* Theorems.                                                               *)

\* The invariant behind them: every state of the runtime satisfies it.
THEOREM JoinInvariant == Spec => []JoinInv
<1>1. Init => JoinInv
    <2> SUFFICES ASSUME Init PROVE JoinInv
        OBVIOUS
    <2>1. TypeOK
        <3>1. Len(projection) <= Len(families.revisions)
            BY NoTypes DEF Init, NoFamilies
        <3> QED
            BY <3>1, NoTypes, FileAssumption DEF Init, TypeOK
    <2>2. NoRow.runnable = FALSE /\ NoRow.released = FALSE
        BY DEF NoRow
    <2> QED
        BY <2>1, <2>2 DEF Init, JoinInv, Early, ManifestsValid, RowFromEntry, Complete
<1>2. JoinInv /\ [Next]_vars => JoinInv'
    BY JoinKept
<1> QED
    BY <1>1, <1>2, PTL DEF Spec

\* A runnable task is what both manifests say of it, whatever was replaced when:
\* only a released revision that the release manifest lists, and the families
\* offer as runnable, passes the gates of the workspace and of the run.
THEOREM RunnableTasksAreReleased == Spec => []RunnableIsReleased
<1>1. ASSUME JoinInv, NEW t \in Task, phase = "serving", table[t].runnable
      PROVE  table[t].released /\ ReleaseBound /\ OnlyEntryAgrees(t)
    <2>1. table[t].released /\ ReleaseBound
        BY <1>1 DEF JoinInv, RowFromEntry
    <2>2. PICK e \in Entries(t, table[t].revision) :
              /\ table[t].qrelease = release.qrelease
              /\ table[t].bindings = e.bindings
              /\ e.family \in {"none", table[t].family}
        BY <1>1, <2>1 DEF JoinInv, RowFromEntry
    <2>3. ValidRelease(release)
        BY <1>1, <2>1 DEF JoinInv, ManifestsValid, ReleaseBound
    <2>4. Entries(t, table[t].revision) = {e}
        BY <2>2, <2>3 DEF Entries, ValidRelease
    <2> QED
        BY <2>1, <2>2, <2>4 DEF OnlyEntryAgrees
<1>2. ASSUME JoinInv, NEW t \in Task, phase = "serving", table[t].runnable,
             families # NoFamilies
      PROVE  OnlyRevisionAgrees(t)
    <2>1. table[t].released
        BY <1>1, <1>2
    <2>2. PICK i \in DOMAIN projection :
              projection[i].task = t /\ projection[i].revision = table[t].revision
        BY <1>2, <2>1 DEF JoinInv, Complete, Seen
    <2> DEFINE v == families.revisions[i]
    <2>3. RowFromRevision(i)
        BY <1>2, <2>2 DEF JoinInv
    <2>4. v.task = t
        BY <2>2, <2>3 DEF RowFromRevision, Projected
    <2>5. /\ v.availability = "runnable"
          /\ <<v.task, v.revision, v.family, v.kind, v.hash>>
               = <<t, table[t].revision, table[t].family, table[t].kind, table[t].hash>>
        BY <1>2, <2>3, <2>4 DEF RowFromRevision
    <2>6. i \in DOMAIN families.revisions
        BY <1>2, <2>2, FileTypes DEF JoinInv, TypeOK
    <2>7. ValidFamilies(families)
        BY <1>2 DEF JoinInv, ManifestsValid
    <2>8. \A j \in DOMAIN families.revisions \ {i} :
              <<families.revisions[j].task, families.revisions[j].revision>> # <<v.task, v.revision>>
        BY <2>6, <2>7 DEF ValidFamilies
    <2> QED
        BY <2>5, <2>6, <2>8 DEF OnlyRevisionAgrees
<1>3. JoinInv => RunnableIsReleased
    BY <1>1, <1>2 DEF RunnableIsReleased
<1> QED
    BY <1>3, JoinInvariant, PTL

\* A release is served whole or not at all.
THEOREM ReleasesAreComplete == Spec => []ReleaseIsComplete
<1>1. JoinInv => ReleaseIsComplete
    <2> SUFFICES ASSUME JoinInv, phase = "serving" PROVE ReleaseIsComplete
        BY DEF ReleaseIsComplete
    <2>1. EveryEntryLoaded
        BY DEF JoinInv, Complete
    <2>2. \A t \in Task : table[t].released /\ ReleaseBound =>
              Entries(t, table[t].revision) # {}
        BY DEF JoinInv, RowFromEntry
    <2>3. families # NoFamilies =>
              \A t \in Task : table[t].released => Seen(t, table[t].revision)
        BY DEF JoinInv, Complete
    <2> QED
        BY <2>1, <2>2, <2>3 DEF ReleaseIsComplete, EveryEntryLoaded
<1> QED
    BY <1>1, JoinInvariant, PTL

\* /v1/task-families and /v1/tasks agree on every revision.
THEOREM ProjectionsMatch == Spec => []ProjectionMatchesTable
<1>1. JoinInv => ProjectionMatchesTable
    <2> SUFFICES ASSUME JoinInv, phase = "serving", NEW i \in DOMAIN projection
                 PROVE  projection[i] = Projected(projection[i].task, table[projection[i].task])
        BY DEF ProjectionMatchesTable, JoinInv, Complete
    <2>1. RowFromRevision(i)
        BY DEF JoinInv
    <2>2. projection[i].task = families.revisions[i].task
        BY <2>1 DEF RowFromRevision, Projected
    <2> QED
        BY <2>1, <2>2 DEF RowFromRevision
<1> QED
    BY <1>1, JoinInvariant, PTL

\* What learners are shown is what they get, task by task and family by family.
THEOREM FlagsAreTrue == Spec => []AdvertisedIsServable
<1>1. ASSUME JoinInv, NEW t \in Task
      PROVE  /\ table[t].runnable => Servable(t)
             /\ WorkspaceServes(t) => table[t].runnable
    BY <1>1 DEF JoinInv, RowFromEntry, Servable, WorkspaceServes
<1>2. ASSUME JoinInv, NEW k \in FamilyKey, FamilyRunnable(k)
      PROVE  \E t \in Task : table[t].family = k /\ Servable(t)
    <2>1. PICK i \in DOMAIN projection : projection[i].family = k /\ projection[i].runnable
        BY <1>2 DEF FamilyRunnable
    <2> DEFINE t == families.revisions[i].task
    <2>2. projection[i] = Projected(t, table[t])
        BY <1>2, <2>1 DEF JoinInv, RowFromRevision
    <2>3. projection[i].task = t /\ table[t].family = k /\ table[t].runnable
        BY <2>1, <2>2 DEF Projected
    <2>4. projection[i] \in ProjectedType
        BY <1>2, <2>1 DEF JoinInv, TypeOK
    <2>5. t \in Task
        BY <2>3, <2>4 DEF ProjectedType
    <2> QED
        BY <1>1, <1>2, <2>3, <2>5
<1>3. ASSUME JoinInv, NEW t \in Task, phase = "serving", families # NoFamilies, Servable(t)
      PROVE  FamilyRunnable(table[t].family)
    <2>1. PICK i \in DOMAIN projection :
              projection[i].task = t /\ projection[i].revision = table[t].revision
        BY <1>3 DEF JoinInv, Complete, Seen, Servable
    <2> DEFINE u == families.revisions[i].task
    <2>2. projection[i] = Projected(u, table[u])
        BY <1>3 DEF JoinInv, RowFromRevision
    <2>3. u = t
        BY <2>1, <2>2 DEF Projected
    <2>4. projection[i].family = table[t].family /\ projection[i].runnable
        BY <1>3, <2>2, <2>3 DEF Projected, Servable
    <2> QED
        BY <2>4 DEF FamilyRunnable
<1>4. JoinInv => AdvertisedIsServable
    BY <1>1, <1>2, <1>3 DEF AdvertisedIsServable
<1> QED
    BY <1>4, JoinInvariant, PTL

----------------------------------------------------------------------------
(* Replacements of directories.                                            *)

\* The content a row was read from is carried along.
LEMMA SourceFacts ==
    ASSUME NEW t, NEW p \in PackType
    PROVE  Row(t, p).source = p.content
<1>1. Unlisted(p).source = p.content
    BY DEF Unlisted
<1>2. \A e : Merged(p, e).source = p.content
    BY DEF Merged, Unlisted
<1> QED
    BY <1>1, <1>2 DEF Row

\* Every step keeps the invariant of what the rows were read from.
LEMMA PinKept ==
    ASSUME JoinInv, JoinInv', PinInv, [Next]_vars
    PROVE  PinInv'
<1>1. CASE UNCHANGED <<phase, table, projection, exposed, dirty, disk>>
    BY <1>1 DEF PinInv, SourceIsRead, HashIsSource, ExposedIsSource
<1>2. ASSUME NEW t \in Task, LoadTask(t)
      PROVE  PinInv'
    <2>1. /\ phase = "tasks" /\ phase' # "serving" /\ UNCHANGED <<disk, dirty, exposed>>
          /\ projection = <<>> /\ projection' = <<>>
        BY <1>2 DEF LoadTask, Proceed, files, JoinInv, Early
    <2>2. exposed' = {}
        BY <2>1 DEF PinInv, ExposedIsSource
    <2>3. ASSUME NEW s \in Task
          PROVE  SourceIsRead(s)'
        <3>1. CASE ~Loadable(t, disk[t])
            BY <1>2, <2>1, <3>1 DEF LoadTask, PinInv, SourceIsRead
        <3>2. CASE Loadable(t, disk[t])
            <4>1. disk[t] \in PackType
                BY <3>2, SoundPack DEF Loadable, JoinInv
            <4>2. table' = [table EXCEPT ![t] = Row(t, disk[t])]
                BY <1>2, <3>2 DEF LoadTask
            <4>3. s = t => table'[s].source = disk[s].content
                BY <4>1, <4>2, SourceFacts DEF JoinInv, TypeOK
            <4>4. s # t => table'[s] = table[s]
                BY <4>2 DEF JoinInv, TypeOK
            <4> QED
                BY <2>1, <4>3, <4>4 DEF PinInv, SourceIsRead
        <3> QED
            BY <3>1, <3>2
    <2> QED
        BY <2>1, <2>2, <2>3 DEF PinInv, HashIsSource, ExposedIsSource
<1>3. CASE BindRevision
    <2> DEFINE v == families.revisions[Len(projection) + 1]
    <2>1. /\ phase = "bind" /\ phase' # "serving" /\ UNCHANGED <<disk, dirty, exposed>>
        BY <1>3 DEF BindRevision, Proceed, files
    <2>2. exposed' = {}
        BY <2>1 DEF PinInv, ExposedIsSource
    <2>3. CASE ~Agrees(v)
        BY <1>3, <2>1, <2>2, <2>3 DEF BindRevision, PinInv, SourceIsRead, HashIsSource, ExposedIsSource
    <2>4. CASE Agrees(v)
        <3>1. v \in RevisionType /\ v.task \in Task
            BY <1>3, NextRevision DEF BindRevision, JoinInv, RevisionType
        <3> DEFINE old == table[v.task]
                   new == Bound(old, v)
        <3>2. old \in RowType
            BY <3>1 DEF JoinInv, TypeOK
        <3>3. new.hash = v.hash /\ new.source = old.source
            BY <3>1, <3>2 DEF Bound, RowType
        <3>4. table' = [table EXCEPT ![v.task] = new]
              /\ projection' = Append(projection, Projected(v.task, new))
            BY <1>3, <2>4 DEF BindRevision, Bind
        <3>5. /\ disk[v.task].content = v.hash
              /\ old.revision = v.revision
              /\ ~Seen(v.task, v.revision)
            BY <2>4 DEF Agrees
        <3>6. old # NoRow
            BY <3>1, <3>5 DEF NoRow, RevisionType
        <3>7. table'[v.task] = new /\ \A s \in Task \ {v.task} : table'[s] = table[s]
            BY <3>1, <3>4 DEF JoinInv, TypeOK
        <3> HIDE DEF new, v
        <3>8. ASSUME NEW s \in Task
              PROVE  SourceIsRead(s)'
            BY <2>1, <3>3, <3>6, <3>7 DEF PinInv, SourceIsRead
        <3>9. v.task \notin dirty => new.hash = new.source
            BY <3>1, <3>3, <3>5, <3>6 DEF PinInv, SourceIsRead
        <3>10. ASSUME NEW i \in DOMAIN projection'
               PROVE  HashIsSource(i)'
            <4>1. Len(projection) \in Nat /\ projection \in Seq(ProjectedType)
                BY DEF JoinInv, TypeOK
            <4>2. CASE i = Len(projection) + 1
                <5>1. projection'[i] = Projected(v.task, new)
                    BY <3>4, <4>1, <4>2
                <5>2. projection'[i].task = v.task
                    BY <5>1 DEF Projected
                <5> QED
                    BY <2>1, <3>7, <3>9, <5>2 DEF HashIsSource
            <4>3. CASE i # Len(projection) + 1
                <5>1. i \in DOMAIN projection /\ projection'[i] = projection[i]
                    BY <3>4, <4>1, <4>3
                <5>2. projection[i].task \in Task
                    <6>1. projection[i] \in ProjectedType
                        BY <4>1, <5>1
                    <6> QED
                        BY <6>1 DEF ProjectedType
                <5>3. CASE projection[i].task = v.task
                    BY <2>1, <3>7, <3>9, <5>1, <5>3 DEF HashIsSource
                <5>4. CASE projection[i].task # v.task
                    BY <2>1, <3>7, <5>1, <5>2, <5>4 DEF PinInv, HashIsSource
                <5> QED
                    BY <5>3, <5>4
            <4> QED
                BY <4>2, <4>3
        <3> QED
            BY <2>2, <3>8, <3>10 DEF PinInv, ExposedIsSource
    <2> QED
        BY <2>3, <2>4
<1>4. ASSUME NEW t \in Task, Expose(t)
      PROVE  PinInv'
    <2>1. /\ UNCHANGED <<disk, dirty, phase, table, projection>> /\ phase = "serving"
          /\ table[t].released
          /\ exposed' = exposed \cup {[task |-> t, content |-> disk[t].content]}
        BY <1>4 DEF Expose, Servable, memory, files
    <2>2. table[t] # NoRow
        BY <2>1 DEF NoRow
    <2>3. t \notin dirty => disk[t].content = table[t].source
        BY <2>2 DEF PinInv, SourceIsRead
    <2>4. ASSUME NEW x \in exposed'
          PROVE  table[x.task].released /\ (x.task \notin dirty => x.content = table[x.task].source)
        BY <2>1, <2>3 DEF PinInv, ExposedIsSource
    <2> QED
        BY <2>1, <2>4 DEF PinInv, SourceIsRead, HashIsSource, ExposedIsSource
<1>5. CASE Stop
    BY <1>5 DEF Stop, files, PinInv, SourceIsRead, HashIsSource, ExposedIsSource
<1>6. ASSUME NEW t \in Task, NEW p \in NewPack \cup {NoPack}, ReplacePack(t, p)
      PROVE  PinInv'
    <2>1. /\ UNCHANGED <<phase, table, projection, exposed>>
          /\ disk' = [disk EXCEPT ![t] = p]
          /\ dirty' = IF table[t] = NoRow THEN dirty ELSE dirty \cup {t}
        BY <1>6 DEF ReplacePack, Edit, memory
    <2>2. dirty \subseteq dirty'
        BY <2>1
    <2>3. \A s \in Task : s # t => disk'[s] = disk[s]
        BY <2>1 DEF JoinInv, TypeOK
    <2>4. ASSUME NEW s \in Task
          PROVE  SourceIsRead(s)'
        BY <2>1, <2>2, <2>3 DEF PinInv, SourceIsRead
    <2> QED
        BY <2>1, <2>2, <2>4 DEF PinInv, HashIsSource, ExposedIsSource
<1>7. CASE LoadTaskFamilyManifest \/ LoadReleaseManifest \/ ListTasks \/ EndTasks \/ EndBind
    <2>1. /\ UNCHANGED <<disk, dirty, table, projection, exposed>> /\ phase # "serving"
        BY <1>7 DEF LoadTaskFamilyManifest, LoadReleaseManifest, ListTasks, EndTasks, EndBind,
                    Proceed, files, memory
    <2> QED
        BY <2>1 DEF PinInv, SourceIsRead, HashIsSource, ExposedIsSource
<1>8. ASSUME NEW R \in NewRelease \cup {NoRelease}, PublishRelease(R)
      PROVE  UNCHANGED <<phase, table, projection, exposed, dirty, disk>>
    BY <1>8 DEF PublishRelease, Edit, memory
<1>9. ASSUME NEW F \in NewFamilies \cup {NoFamilies}, PublishFamilies(F)
      PROVE  UNCHANGED <<phase, table, projection, exposed, dirty, disk>>
    BY <1>9 DEF PublishFamilies, Edit, memory
<1>10. CASE UNCHANGED vars
    BY <1>1, <1>10 DEF vars, files, memory
<1> QED
    BY <1>1, <1>2, <1>3, <1>4, <1>5, <1>6, <1>7, <1>8, <1>9, <1>10 DEF Next

\* No replacement of a directory that happens before its hash is compared goes
\* unnoticed, and none after it is served without being known as one.
THEOREM ContentIsPinned == Spec => []PinnedUnlessReplaced
<1>1. Init => PinInv
    BY DEF Init, PinInv, SourceIsRead, HashIsSource, ExposedIsSource
<1>2. JoinInv /\ JoinInv' /\ PinInv /\ [Next]_vars => PinInv'
    BY PinKept
<1>3. ASSUME JoinInv, PinInv, phase = "serving", families # NoFamilies,
             NEW t \in Task, table[t].released, t \notin dirty
      PROVE  table[t].hash = table[t].source
    <2>1. PICK i \in DOMAIN projection : projection[i].task = t
        BY <1>3 DEF JoinInv, Complete, Seen
    <2> QED
        BY <1>3, <2>1 DEF PinInv, HashIsSource
<1>4. JoinInv /\ PinInv => PinnedUnlessReplaced
    <2> SUFFICES ASSUME JoinInv, PinInv, phase = "serving", families # NoFamilies
                 PROVE  PinnedUnlessReplaced
        BY DEF PinnedUnlessReplaced
    <2>1. ASSUME NEW x \in exposed, x.task \notin dirty
          PROVE  x.content = table[x.task].hash
        <3>1. x.task \in Task
            BY DEF JoinInv, TypeOK
        <3> QED
            BY <1>3, <2>1, <3>1 DEF PinInv, ExposedIsSource
    <2> QED
        BY <1>3, <2>1 DEF PinnedUnlessReplaced
<1> QED
    BY <1>1, <1>2, <1>4, JoinInvariant, PTL DEF Spec

\* Every state of the runtime and its files has its type.
THEOREM TypeCorrect == Spec => []TypeOK
<1>1. JoinInv => TypeOK
    BY DEF JoinInv
<1> QED
    BY <1>1, JoinInvariant, PTL
=============================================================================
