----------------------------- MODULE StartProofs -----------------------------
(***************************************************************************)
(* The start of the runtime is exact for every deployment: left alone, it  *)
(* serves what is Consistent and refuses what is not.  From the same       *)
(* invariant follows that the release generator's manifest is one that the *)
(* runtime starts with.                                                    *)
(***************************************************************************)
EXTENDS CatalogueProofs, ReleaseGenerator

\* A row of the directory as it is.  Until a revision is bound to it, its family
\* is that of the entry it was merged with.
RowOfPack(t) ==
    /\ Loadable(t, disk[t])
    /\ <<table[t].revision, table[t].kind, table[t].released>>
         = <<disk[t].revision, disk[t].kind, disk[t].released>>
    /\ ~Seen(t, table[t].revision) =>
         \/ table[t].family = "none" /\ Entries(t, disk[t].revision) = {}
         \/ \E e \in Entries(t, disk[t].revision) : table[t].family = e.family

\* A revision that was bound fits the directory as it is, and its entries.
RevisionOfPack(i) ==
    LET v == families.revisions[i]
    IN  /\ <<v.revision, v.kind, v.hash>>
             = <<disk[v.task].revision, disk[v.task].kind, disk[v.task].content>>
        /\ \A e \in Entries(v.task, v.revision) : e.family \in {"none", v.family}

\* What a process has in memory is what it was given, as long as that stays the same.
Loaded ==
    /\ phase \in {"release", "list", "tasks", "bind", "serving"} => families = familyFile
    /\ phase \in {"tasks", "bind", "serving"} =>
         \A t \in Task : /\ disk[t] = NoPack \/ t \in todo => table[t] = NoRow
                         /\ disk[t] # NoPack /\ t \notin todo => RowOfPack(t)
    /\ phase = "tasks" => \A t \in todo : disk[t] # NoPack
    /\ phase = "bind" => families # NoFamilies
    /\ phase \in {"bind", "serving"} => todo = {} /\ \E t \in Task : disk[t] # NoPack
    /\ phase \in {"bind", "serving"} => \A i \in DOMAIN projection : RevisionOfPack(i)

----------------------------------------------------------------------------
(* Facts about entries, rows and the projection.                           *)

\* A valid manifest has one entry for a revision.
LEMMA OneEntry ==
    ASSUME JoinInv, phase \in {"list", "tasks", "bind", "serving"},
           NEW t, NEW n, NEW e \in Entries(t, n), NEW f \in Entries(t, n)
    PROVE  e = f
<1>1. release # NoRelease
  BY FileTypes DEF Entries, JoinInv
<1>2. ValidRelease(release)
  BY <1>1 DEF JoinInv, ManifestsValid
<1>3. PICK i \in DOMAIN release.tasks :
        e = release.tasks[i] /\ release.tasks[i].task = t /\ release.tasks[i].revision = n
  BY DEF Entries
<1>4. PICK j \in DOMAIN release.tasks :
        f = release.tasks[j] /\ release.tasks[j].task = t /\ release.tasks[j].revision = n
  BY DEF Entries
<1>5. j \notin DOMAIN release.tasks \ {i}
  BY <1>2, <1>3, <1>4 DEF ValidRelease
<1> QED
  BY <1>3, <1>4, <1>5

\* An entry of the release is typed, and one of the entries of its task and revision.
LEMMA EntryFacts ==
    ASSUME JoinInv, NEW i \in DOMAIN release.tasks
    PROVE  /\ release.tasks[i] \in EntryType
           /\ release.tasks[i].task \in Task
           /\ release.tasks[i].revision \in Nat \ {0}
           /\ release.tasks[i] \in Entries(release.tasks[i].task, release.tasks[i].revision)
<1>1. release.tasks[i] \in EntryType
  BY FileTypes DEF JoinInv
<1> QED
  BY <1>1 DEF EntryType, Entries

\* A revision of the families is typed and names a task.
LEMMA RevisionFacts ==
    ASSUME JoinInv, NEW i \in DOMAIN families.revisions
    PROVE  /\ families.revisions[i] \in RevisionType
           /\ families.revisions[i].task \in Task
           /\ families.revisions[i].revision \in Nat \ {0}
<1>1. families.revisions[i] \in RevisionType
  BY FileTypes DEF JoinInv
<1> QED
  BY <1>1 DEF RevisionType

\* The projection is a prefix of the manifest's revisions, in their order.
LEMMA ProjectionFacts ==
    ASSUME JoinInv, NEW i \in DOMAIN projection
    PROVE  /\ i \in DOMAIN families.revisions
           /\ projection[i].task = families.revisions[i].task
           /\ projection[i].revision = families.revisions[i].revision
           /\ projection[i].family = families.revisions[i].family
<1>1. i \in DOMAIN families.revisions
  <2>1. Len(projection) \in Nat /\ DOMAIN projection = 1..Len(projection)
    BY DEF JoinInv, TypeOK
  <2>2. DOMAIN families.revisions = 1..Len(families.revisions) /\ Len(families.revisions) \in Nat
    BY FileTypes DEF JoinInv
  <2> QED
    BY <2>1, <2>2 DEF JoinInv, TypeOK
<1>2. RowFromRevision(i)
  BY DEF JoinInv
<1> QED
  BY <1>1, <1>2 DEF RowFromRevision, Projected

\* What a row has from its directory, and that its family is that of an entry, if there is one.
LEMMA RowSource ==
    ASSUME TypeOK, NEW t, NEW p \in PackType
    PROVE  /\ Row(t, p).kind = p.kind /\ Row(t, p).released = p.released
           /\ Row(t, p).revision = p.revision
           /\ \/ Row(t, p).family = "none" /\ Entries(t, p.revision) = {}
              \/ \E e \in Entries(t, p.revision) : Row(t, p).family = e.family
<1>1. /\ Unlisted(p).kind = p.kind /\ Unlisted(p).released = p.released
      /\ Unlisted(p).revision = p.revision /\ Unlisted(p).family = "none"
  BY DEF Unlisted
<1>2. \A e : /\ Merged(p, e).kind = p.kind /\ Merged(p, e).released = p.released
             /\ Merged(p, e).revision = p.revision /\ Merged(p, e).family = e.family
  BY DEF Merged, Unlisted
<1>3. CASE Entries(t, p.revision) = {}
  BY <1>1, <1>3 DEF Row
<1>4. CASE Entries(t, p.revision) # {}
  <2>1. PICK e \in Entries(t, p.revision) : Row(t, p) = Merged(p, e)
    BY <1>4 DEF Row
  <2> QED
    BY <1>2, <2>1
<1> QED
  BY <1>3, <1>4

\* A directory that is there has a revision.
LEMMA PresentFacts ==
    ASSUME JoinInv, NEW t \in Task
    PROVE  /\ disk[t] # NoPack => disk[t] \in PackType /\ disk[t].revision \in Nat \ {0}
           /\ disk[t] = NoPack => disk[t].revision = 0 /\ ~disk[t].released
<1>1. disk[t] = NoPack \/ disk[t] \in PackType
  BY PackTypes DEF JoinInv
<1>2. \A p \in PackType : p.revision \in Nat \ {0}
  BY DEF PackType
<1>3. NoPack.revision = 0 /\ ~NoPack.released
  BY DEF NoPack
<1> QED
  BY <1>1, <1>2, <1>3

----------------------------------------------------------------------------
(* Loaded is kept as long as directories and families are.                 *)

\* What a step does not change of the memory and the directories it does not change
\* of rows and revisions either.
LEMMA RowsFramed ==
    ASSUME disk' = disk, families' = families, release' = release, table' = table,
           projection' = projection
    PROVE  /\ \A s \in Task : RowOfPack(s)' <=> RowOfPack(s)
           /\ \A i \in DOMAIN projection : RevisionOfPack(i)' <=> RevisionOfPack(i)
<1>1. \A s, n : Entries(s, n)' = Entries(s, n) /\ Seen(s, n)' = Seen(s, n)
  BY DEF Entries, Seen
<1>2. \A s, p : Loadable(s, p)' = Loadable(s, p)
  BY <1>1 DEF Loadable
<1> QED
  BY <1>1, <1>2 DEF RowOfPack, RevisionOfPack

\* Loading a directory makes its row that of the directory.
LEMMA LoadTaskLoads ==
    ASSUME JoinInv, Loaded, NEW t \in Task, LoadTask(t), disk' = disk, familyFile' = familyFile
    PROVE  Loaded'
<1>1. /\ phase = "tasks" /\ phase' \in {"tasks", "failed"} /\ t \in todo
      /\ families' = families /\ release' = release /\ projection' = projection
  BY DEF LoadTask, Proceed
<1>2. CASE phase' = "failed"
  BY <1>2 DEF Loaded
<1>3. CASE phase' = "tasks"
  <2>1. Loadable(t, disk[t])
    BY <1>3 DEF LoadTask, Proceed
  <2>2. table' = [table EXCEPT ![t] = Row(t, disk[t])] /\ todo' = todo \ {t}
    BY <2>1 DEF LoadTask
  <2>3. disk[t] \in PackType /\ disk[t] # NoPack
    BY <1>1, PresentFacts DEF Loaded
  <2>4. \A s, n : Entries(s, n)' = Entries(s, n) /\ Seen(s, n)' = Seen(s, n)
    BY <1>1 DEF Entries, Seen
  <2>5. \A s, p : Loadable(s, p)' = Loadable(s, p)
    BY <1>1, <2>4 DEF Loadable
  <2>6. ASSUME NEW s \in Task
        PROVE  /\ disk[s] = NoPack \/ s \in todo' => table'[s] = NoRow
               /\ disk[s] # NoPack /\ s \notin todo' => RowOfPack(s)'
    <3>1. CASE s # t
      <4>1. table'[s] = table[s] /\ (s \in todo' <=> s \in todo)
        BY <2>2, <3>1 DEF JoinInv, TypeOK
      <4>2. RowOfPack(s) => RowOfPack(s)'
        BY <4>1, <2>4, <2>5 DEF RowOfPack
      <4> QED
        BY <1>1, <4>1, <4>2 DEF Loaded
    <3>2. CASE s = t
      <4>1. table'[t] = Row(t, disk[t])
        BY <2>2 DEF JoinInv, TypeOK
      <4>2. RowOfPack(t)'
        BY <2>1, <2>3, <2>4, <2>5, <4>1, RowSource DEF RowOfPack, JoinInv
      <4> QED
        BY <2>2, <2>3, <3>2, <4>2
    <3> QED
      BY <3>1, <3>2
  <2>7. \A s \in todo' : disk'[s] # NoPack
    BY <1>1, <2>2 DEF Loaded
  <2> QED
    BY <1>1, <1>3, <2>6, <2>7 DEF Loaded
<1> QED
  BY <1>1, <1>2, <1>3

\* Binding a revision makes its row that of the revision.
LEMMA BindLoads ==
    ASSUME JoinInv, Loaded, BindRevision, disk' = disk, familyFile' = familyFile
    PROVE  Loaded'
<1> DEFINE m == Len(projection) + 1
           v == families.revisions[m]
<1>1. /\ phase = "bind" /\ phase' \in {"bind", "failed"}
      /\ families' = families /\ release' = release /\ todo' = todo
  BY DEF BindRevision, Proceed
<1>2. CASE phase' = "failed"
  BY <1>2 DEF Loaded
<1>3. CASE phase' = "bind"
  <2>1. Agrees(v) /\ Bind(v)
    BY <1>3 DEF BindRevision, Proceed
  <2>2. m \in DOMAIN families.revisions /\ v \in RevisionType /\ v.task \in Task
    BY NextRevision, RevisionFacts DEF BindRevision, JoinInv
  <2>3. /\ table[v.task].revision = v.revision /\ ~Seen(v.task, v.revision)
        /\ table[v.task].family \in {"none", v.family} /\ table[v.task].kind = v.kind
        /\ disk[v.task].content = v.hash
    BY <2>1 DEF Agrees
  <2>4. v.revision \in Nat \ {0}
    BY <2>2, RevisionFacts
  <2>5. disk[v.task] # NoPack /\ v.task \notin todo /\ RowOfPack(v.task)
    <3>1. table[v.task] # NoRow
      BY <2>3, <2>4 DEF NoRow
    <3> QED
      BY <1>1, <2>2, <3>1 DEF Loaded
  <2>6. /\ <<v.revision, v.kind, v.hash>>
             = <<disk[v.task].revision, disk[v.task].kind, disk[v.task].content>>
        /\ \A e \in Entries(v.task, v.revision) : e.family \in {"none", v.family}
    <3>1. /\ v.revision = disk[v.task].revision /\ v.kind = disk[v.task].kind
          /\ \/ Entries(v.task, v.revision) = {}
             \/ \E e \in Entries(v.task, v.revision) : table[v.task].family = e.family
      BY <2>3, <2>5 DEF RowOfPack
    <3>2. \A e \in Entries(v.task, v.revision) : table[v.task].family = e.family
      BY <1>1, <3>1, OneEntry
    <3> QED
      BY <2>3, <3>1, <3>2
  <2> DEFINE new == Bound(table[v.task], v)
  <2>7. /\ new.revision = table[v.task].revision /\ new.kind = table[v.task].kind
        /\ new.released = table[v.task].released
    BY <2>2, BoundFacts DEF JoinInv, TypeOK
  <2>8. table'[v.task] = new /\ \A s \in Task \ {v.task} : table'[s] = table[s]
    BY <2>1, <2>2 DEF Bind, JoinInv, TypeOK
  <2>9. projection' = Append(projection, Projected(v.task, new))
    BY <2>1 DEF Bind
  <2>10. Projected(v.task, new).task = v.task /\ Projected(v.task, new).revision = v.revision
    BY <2>3, <2>7 DEF Projected
  <2> HIDE DEF new
  <2>11. /\ Len(projection) \in Nat /\ m \in DOMAIN projection' /\ projection'[m] = Projected(v.task, new)
         /\ \A i \in DOMAIN projection : i \in DOMAIN projection' /\ projection'[i] = projection[i]
         /\ \A i \in DOMAIN projection' : i \in DOMAIN projection \/ i = m
    BY <2>9 DEF JoinInv, TypeOK
  <2> HIDE DEF m, v
  <2>12. /\ \A s, n : Seen(s, n) => Seen(s, n)'
         /\ \A s, n : s = v.task /\ n = v.revision => Seen(s, n)'
    <3>1. \A s, n : Seen(s, n) => Seen(s, n)'
      BY <2>11 DEF Seen
    <3>2. \A s, n : s = v.task /\ n = v.revision => Seen(s, n)'
      BY <2>10, <2>11 DEF Seen
    <3> QED
      BY <3>1, <3>2
  <2>13. \A s, n : Entries(s, n)' = Entries(s, n)
    BY <1>1 DEF Entries
  <2>14. \A s, p : Loadable(s, p)' = Loadable(s, p)
    BY <1>1, <2>13 DEF Loadable
  <2>15. ASSUME NEW s \in Task
         PROVE  /\ disk[s] = NoPack \/ s \in todo' => table'[s] = NoRow
                /\ disk[s] # NoPack /\ s \notin todo' => RowOfPack(s)'
    <3>1. CASE s # v.task
      <4>1. table'[s] = table[s]
        BY <2>8, <3>1
      <4>2. ~Seen(s, table[s].revision)' => ~Seen(s, table[s].revision)
        BY <2>12, <4>1
      <4>3. RowOfPack(s) => RowOfPack(s)'
        BY <4>1, <4>2, <2>13, <2>14 DEF RowOfPack
      <4> QED
        BY <1>1, <4>1, <4>3 DEF Loaded
    <3>2. CASE s = v.task
      <4>1. Seen(s, table[s].revision)'
        BY <2>3, <2>7, <2>8, <2>12, <3>2
      <4>2. /\ Loadable(s, disk[s])'
            /\ <<table'[s].revision, table'[s].kind, table'[s].released>>
                 = <<disk[s].revision, disk[s].kind, disk[s].released>>
        BY <2>5, <2>7, <2>8, <2>14, <3>2 DEF RowOfPack
      <4>3. RowOfPack(s)'
        BY <4>1, <4>2 DEF RowOfPack
      <4> QED
        BY <1>1, <2>5, <3>2, <4>3
    <3> QED
      BY <3>1, <3>2
  <2>16. ASSUME NEW i \in DOMAIN projection' PROVE RevisionOfPack(i)'
    <3>1. CASE i = m
      BY <1>1, <2>6, <2>13, <3>1 DEF RevisionOfPack, v
    <3>2. CASE i \in DOMAIN projection
      <4>1. RevisionOfPack(i)
        BY <1>1, <3>2 DEF Loaded
      <4> QED
        BY <1>1, <2>13, <4>1 DEF RevisionOfPack
    <3> QED
      BY <2>11, <3>1, <3>2
  <2> QED
    BY <1>1, <1>3, <2>15, <2>16 DEF Loaded
<1> QED
  BY <1>1, <1>2, <1>3

\* Every step keeps the rows those of the files, while the files stay.
LEMMA LoadedKept ==
    ASSUME JoinInv, Loaded, [Next]_vars, disk' = disk, familyFile' = familyFile
    PROVE  Loaded'
<1>1. ASSUME UNCHANGED <<phase, memory>> PROVE Loaded'
  <2>1. /\ phase' = phase /\ families' = families /\ todo' = todo /\ table' = table
        /\ projection' = projection /\ release' = release
    BY <1>1 DEF memory
  <2> QED
    BY <2>1, RowsFramed DEF Loaded
<1>2. CASE LoadTaskFamilyManifest
  BY <1>2 DEF LoadTaskFamilyManifest, Proceed, Loaded
<1>3. CASE LoadReleaseManifest
  BY <1>3 DEF LoadReleaseManifest, Proceed, Loaded
<1>4. CASE ListTasks
  <2>1. /\ phase = "list" /\ phase' = "tasks" /\ families' = families /\ table' = table
        /\ todo' = {t \in Task : disk[t] # NoPack}
    BY <1>4 DEF ListTasks, Proceed
  <2>2. \A t \in Task : table'[t] = NoRow
    BY <2>1 DEF JoinInv, Early
  <2> QED
    BY <2>1, <2>2 DEF Loaded
<1>5. ASSUME NEW t \in Task, LoadTask(t) PROVE Loaded'
  BY <1>5, LoadTaskLoads
<1>6. CASE EndTasks
  <2>1. /\ phase = "tasks" /\ phase' \in {"bind", "serving", "failed"} /\ todo = {}
        /\ families' = families /\ todo' = todo /\ table' = table
        /\ projection' = projection /\ release' = release
    BY <1>6 DEF EndTasks, Proceed, memory
  <2>2. CASE phase' = "failed"
    BY <2>2 DEF Loaded
  <2>3. CASE phase' # "failed"
    <3>1. PICK t \in Task : table[t] # NoRow
      BY <1>6, <2>3 DEF EndTasks, Proceed
    <3>2. disk[t] # NoPack
      BY <2>1, <3>1 DEF Loaded
    <3>3. projection' = <<>>
      BY <2>1 DEF JoinInv, Early
    <3> QED
      BY <1>6, <2>1, <2>3, <3>2, <3>3, RowsFramed DEF Loaded, EndTasks, Proceed
  <2> QED
    BY <2>2, <2>3
<1>7. CASE BindRevision
  BY <1>7, BindLoads
<1>8. CASE EndBind
  <2>1. /\ phase = "bind" /\ phase' \in {"serving", "failed"}
        /\ families' = families /\ todo' = todo /\ table' = table
        /\ projection' = projection /\ release' = release
    BY <1>8 DEF EndBind, Proceed, memory
  <2> QED
    BY <2>1, RowsFramed DEF Loaded
<1>9. CASE Stop
  BY <1>9 DEF Stop, Loaded
<1>10. ASSUME NEW t \in Task, Expose(t) PROVE Loaded'
  BY <1>1, <1>10 DEF Expose, memory
<1>11. ASSUME NEW t \in Task, NEW p \in NewPack \cup {NoPack}, ReplacePack(t, p) PROVE Loaded'
  BY <1>1, <1>11 DEF ReplacePack, Edit, memory
<1>12. ASSUME NEW R \in NewRelease \cup {NoRelease}, PublishRelease(R) PROVE Loaded'
  BY <1>1, <1>12 DEF PublishRelease, Edit, memory
<1>13. ASSUME NEW F \in NewFamilies \cup {NoFamilies}, PublishFamilies(F) PROVE Loaded'
  BY <1>1, <1>13 DEF PublishFamilies, Edit, memory
<1>14. CASE UNCHANGED vars
  BY <1>1, <1>14 DEF vars, memory
<1> QED
  BY <1>2, <1>3, <1>4, <1>5, <1>6, <1>7, <1>8, <1>9, <1>10, <1>11, <1>12, <1>13, <1>14 DEF Next

----------------------------------------------------------------------------
(* The start is exact.                                                     *)

Listed(F) == {F.revisions[i] : i \in DOMAIN F.revisions}

\* What Consistent asks of directories and families, and of a release above them.
Joinable(D, F) ==
    LET present == {t \in Task : D[t] # NoPack}
    IN  /\ present # {}
        /\ \A t \in present : D[t].sound
        /\ F # NoFamilies =>
             /\ ValidFamilies(F)
             /\ \A v \in Listed(F) : <<v.revision, v.kind, v.hash>>
                                       = <<D[v.task].revision, D[v.task].kind, D[v.task].content>>
             /\ \A t \in present : D[t].released => \E v \in Listed(F) : v.task = t

EntryFits(e, D, R, F) ==
    /\ e.revision = D[e.task].revision
    /\ D[e.task].bindings # {} =>
         /\ D[e.task].bindings = e.bindings
         /\ D[e.task].qrelease \in {"none", R.qrelease}
    /\ \A v \in Listed(F) : v.task = e.task => e.family \in {"none", v.family}

Releasable(D, R, F) ==
    /\ ValidRelease(R)
    /\ FamiliesPinned(R, F)
    /\ \A i \in DOMAIN R.tasks : EntryFits(R.tasks[i], D, R, F)
    /\ \A t \in Task : D[t] # NoPack /\ D[t].released =>
         \E i \in DOMAIN R.tasks : R.tasks[i].task = t

\* Consistent files can be joined and, with a release, released.
LEMMA ConsistentParts ==
    ASSUME NEW D, NEW R, NEW F
    PROVE  Consistent(D, R, F) <=> Joinable(D, F) /\ (R # NoRelease => Releasable(D, R, F))
<1> DEFINE entry == {R.tasks[i] : i \in DOMAIN R.tasks}
<1>1. (\A i \in DOMAIN R.tasks : EntryFits(R.tasks[i], D, R, F))
        <=> \A e \in entry : EntryFits(e, D, R, F)
  OBVIOUS
<1>2. \A t : (\E i \in DOMAIN R.tasks : R.tasks[i].task = t) <=> \E e \in entry : e.task = t
  OBVIOUS
<1>3. Releasable(D, R, F) <=>
        /\ ValidRelease(R)
        /\ FamiliesPinned(R, F)
        /\ \A e \in entry : EntryFits(e, D, R, F)
        /\ \A t \in Task : D[t] # NoPack /\ D[t].released => \E e \in entry : e.task = t
  BY <1>1, <1>2 DEF Releasable
<1>4. Consistent(D, R, F) <=>
        /\ Joinable(D, F)
        /\ R # NoRelease =>
             /\ ValidRelease(R)
             /\ FamiliesPinned(R, F)
             /\ \A e \in entry : EntryFits(e, D, R, F)
             /\ \A t \in Task : D[t] # NoPack /\ D[t].released => \E e \in entry : e.task = t
  BY DEF Consistent, Joinable, Listed, EntryFits
<1> QED
  BY <1>3, <1>4

\* What serves has directories and families that fit.
LEMMA ServingIsJoinable ==
    ASSUME JoinInv, Loaded, phase = "serving"
    PROVE  Joinable(disk, families)
<1>1. /\ todo = {}
      /\ \A t \in Task : disk[t] # NoPack => RowOfPack(t)
  BY DEF Loaded
<1>2. {t \in Task : disk[t] # NoPack} # {} /\ \A t \in Task : disk[t] # NoPack => disk[t].sound
  BY <1>1 DEF Loaded, RowOfPack, Loadable
<1>3. ASSUME families # NoFamilies
      PROVE  /\ ValidFamilies(families)
             /\ \A v \in Listed(families) :
                  <<v.revision, v.kind, v.hash>>
                    = <<disk[v.task].revision, disk[v.task].kind, disk[v.task].content>>
             /\ \A t \in Task : disk[t] # NoPack /\ disk[t].released =>
                  \E v \in Listed(families) : v.task = t
  <2>1. ValidFamilies(families)
    BY <1>3 DEF JoinInv, ManifestsValid
  <2>2. DOMAIN families.revisions = DOMAIN projection
    <3>1. Len(projection) = Len(families.revisions)
      BY DEF JoinInv, Complete
    <3>2. families.revisions \in Seq(RevisionType) /\ projection \in Seq(ProjectedType)
      BY FileTypes DEF JoinInv, TypeOK
    <3> QED
      BY <3>1, <3>2
  <2>3. \A i \in DOMAIN families.revisions : RevisionOfPack(i)
    BY <2>2 DEF Loaded
  <2>4. ASSUME NEW t \in Task, disk[t] # NoPack, disk[t].released
        PROVE  \E v \in Listed(families) : v.task = t
    <3>1. table[t].released
      BY <1>1, <2>4 DEF RowOfPack
    <3>2. Seen(t, table[t].revision)
      BY <1>3, <3>1 DEF JoinInv, Complete
    <3>3. PICK i \in DOMAIN projection : projection[i].task = t
      BY <3>2 DEF Seen
    <3>4. i \in DOMAIN families.revisions /\ families.revisions[i].task = t
      BY <3>3, ProjectionFacts
    <3> QED
      BY <3>4 DEF Listed
  <2> QED
    BY <2>1, <2>3, <2>4 DEF Listed, RevisionOfPack
<1> QED
  BY <1>2, <1>3 DEF Joinable

\* A release that was checked against the table fits the directories and families.
LEMMA ServingIsReleasable ==
    ASSUME JoinInv, Loaded, phase = "serving", release # NoRelease,
           FamiliesPinned(release, families)
    PROVE  Releasable(disk, release, families)
<1>1. ValidRelease(release) /\ EveryEntryLoaded
  BY DEF JoinInv, ManifestsValid, Complete
<1>2. \A t \in Task : disk[t] # NoPack => RowOfPack(t)
  BY DEF Loaded
<1>3. \A t \in Task : disk[t] = NoPack => table[t].revision = 0
  BY DEF Loaded, NoRow
<1>4. ASSUME NEW i \in DOMAIN release.tasks
      PROVE  EntryFits(release.tasks[i], disk, release, families)
  <2> DEFINE e == release.tasks[i]
  <2>1. e.task \in Task /\ e.revision \in Nat \ {0} /\ e \in Entries(e.task, e.revision)
    BY EntryFacts
  <2>2. table[e.task].revision = e.revision
    BY <1>1 DEF EveryEntryLoaded
  <2> HIDE DEF e
  <2>3. disk[e.task] # NoPack /\ RowOfPack(e.task)
    BY <1>2, <1>3, <2>1, <2>2
  <2>4. e.revision = disk[e.task].revision /\ Loadable(e.task, disk[e.task])
    BY <2>2, <2>3 DEF RowOfPack
  <2>5. disk[e.task].bindings # {} =>
          disk[e.task].bindings = e.bindings /\ disk[e.task].qrelease \in {"none", release.qrelease}
    BY <2>1, <2>4 DEF Loadable
  <2>6. ASSUME NEW v \in Listed(families), v.task = e.task PROVE e.family \in {"none", v.family}
    <3>1. PICK j \in DOMAIN families.revisions : v = families.revisions[j]
      BY DEF Listed
    <3>2. j \in DOMAIN projection
      <4>1. Len(projection) = Len(families.revisions)
        BY DEF JoinInv, Complete
      <4>2. families.revisions \in Seq(RevisionType) /\ projection \in Seq(ProjectedType)
        BY FileTypes DEF JoinInv, TypeOK
      <4> QED
        BY <3>1, <4>1, <4>2
    <3>3. RevisionOfPack(j)
      BY <3>2 DEF Loaded
    <3>4. v.revision = e.revision /\ \A f \in Entries(v.task, v.revision) : f.family \in {"none", v.family}
      BY <2>4, <2>6, <3>1, <3>3 DEF RevisionOfPack
    <3> QED
      BY <2>1, <2>6, <3>4
  <2> QED
    BY <2>4, <2>5, <2>6 DEF e, EntryFits
<1>5. ASSUME NEW t \in Task, disk[t] # NoPack, disk[t].released
      PROVE  \E i \in DOMAIN release.tasks : release.tasks[i].task = t
  BY <1>2, <1>5 DEF RowOfPack, Loadable, Entries
<1> QED
  BY <1>1, <1>4, <1>5 DEF Releasable

\* A step that ends the start found something that does not fit.
LEMMA FailureIsFound ==
    ASSUME JoinInv, Loaded, Next, phase' = "failed", phase # "failed",
           phase \in {"list", "tasks", "bind", "serving"} => release = releaseFile,
           Joinable(disk, familyFile),
           releaseFile # NoRelease => Releasable(disk, releaseFile, familyFile)
    PROVE  FALSE
<1>1. ASSUME LoadTaskFamilyManifest PROVE FALSE
  BY <1>1 DEF LoadTaskFamilyManifest, Proceed, Joinable
<1>2. ASSUME LoadReleaseManifest PROVE FALSE
  BY <1>2 DEF LoadReleaseManifest, Proceed, Releasable, Loaded
<1>3. ASSUME ListTasks PROVE FALSE
  BY <1>3 DEF ListTasks, Proceed
<1>4. ASSUME NEW t \in Task, LoadTask(t) PROVE FALSE
  <2>1. phase = "tasks" /\ ~Loadable(t, disk[t]) /\ disk[t] # NoPack /\ release = releaseFile
    BY <1>4 DEF LoadTask, Proceed, Loaded
  <2>2. disk[t].sound
    BY <2>1 DEF Joinable
  <2>3. release # NoRelease /\ Releasable(disk, release, familyFile)
    BY <2>1, <2>2 DEF Loadable
  <2>4. CASE disk[t].released /\ Entries(t, disk[t].revision) = {}
    <3>1. PICK i \in DOMAIN release.tasks : release.tasks[i].task = t
      BY <2>1, <2>3, <2>4 DEF Releasable
    <3>2. release.tasks[i].revision = disk[t].revision
      BY <2>3, <3>1 DEF Releasable, EntryFits
    <3> QED
      BY <2>4, <3>1, <3>2 DEF Entries
  <2>5. ASSUME NEW e \in Entries(t, disk[t].revision),
               ~(/\ disk[t].bindings \in {{}, e.bindings}
                 /\ disk[t].bindings # {} => disk[t].qrelease \in {"none", release.qrelease})
        PROVE  FALSE
    <3>1. PICK i \in DOMAIN release.tasks : e = release.tasks[i] /\ e.task = t
      BY DEF Entries
    <3> QED
      BY <2>3, <2>5, <3>1 DEF Releasable, EntryFits
  <2> QED
    BY <2>1, <2>2, <2>4, <2>5 DEF Loadable
<1>5. ASSUME EndTasks PROVE FALSE
  <2>1. /\ phase = "tasks" /\ todo = {} /\ release = releaseFile
        /\ ~EveryEntryLoaded \/ \A t \in Task : table[t] = NoRow
    BY <1>5 DEF EndTasks, Proceed
  <2>2. PICK t \in Task : disk[t] # NoPack
    BY DEF Joinable
  <2>3. \A s \in Task : table[s].revision = disk[s].revision
    <3> TAKE s \in Task
    <3>1. CASE disk[s] = NoPack
      BY <2>1, <3>1, PresentFacts DEF Loaded, NoRow
    <3>2. CASE disk[s] # NoPack
      BY <2>1, <3>2 DEF Loaded, RowOfPack
    <3> QED
      BY <3>1, <3>2
  <2>4. table[t] # NoRow
    BY <2>2, <2>3, PresentFacts DEF NoRow
  <2>5. PICK i \in DOMAIN release.tasks :
          table[release.tasks[i].task].revision # release.tasks[i].revision
    BY <2>1, <2>4 DEF EveryEntryLoaded
  <2>6. release # NoRelease
    BY FileTypes DEF JoinInv
  <2>7. release.tasks[i].revision = disk[release.tasks[i].task].revision
    BY <2>1, <2>6 DEF Releasable, EntryFits
  <2> QED
    BY <2>3, <2>5, <2>7, EntryFacts
<1>6. ASSUME BindRevision PROVE FALSE
  <2> DEFINE v == families.revisions[Len(projection) + 1]
  <2>1. phase = "bind" /\ ~Agrees(v) /\ families = familyFile /\ todo = {} /\ release = releaseFile
    BY <1>6 DEF BindRevision, Proceed, Loaded
  <2>2. Len(projection) + 1 \in DOMAIN families.revisions /\ Len(projection) \in Nat
    BY <1>6, NextRevision DEF BindRevision, JoinInv
  <2>3. v \in Listed(families) /\ v.task \in Task /\ v.revision \in Nat \ {0}
    BY <2>2, RevisionFacts DEF Listed
  <2>4. families # NoFamilies
    BY <2>2, FileTypes DEF JoinInv
  <2>5. /\ ValidFamilies(families)
        /\ <<v.revision, v.kind, v.hash>>
             = <<disk[v.task].revision, disk[v.task].kind, disk[v.task].content>>
    BY <2>1, <2>3, <2>4 DEF Joinable
  <2>6. disk[v.task] # NoPack
    BY <2>3, <2>5, PresentFacts
  <2>7. RowOfPack(v.task)
    BY <2>1, <2>3, <2>6 DEF Loaded
  <2>8. table[v.task].revision = v.revision /\ table[v.task].kind = v.kind
    BY <2>5, <2>7 DEF RowOfPack
  <2>9. ~Seen(v.task, v.revision)
    <3> SUFFICES ASSUME NEW i \in DOMAIN projection, projection[i].task = v.task,
                        projection[i].revision = v.revision
                 PROVE  FALSE
      BY DEF Seen
    <3>1. i \in DOMAIN families.revisions /\ i # Len(projection) + 1
      BY ProjectionFacts DEF JoinInv, TypeOK
    <3>2. <<families.revisions[i].task, families.revisions[i].revision>> = <<v.task, v.revision>>
      BY ProjectionFacts
    <3> QED
      BY <2>2, <2>5, <3>1, <3>2 DEF ValidFamilies
  <2>10. table[v.task].family \in {"none", v.family}
    <3> SUFFICES ASSUME NEW e \in Entries(v.task, disk[v.task].revision),
                        table[v.task].family = e.family
                 PROVE  e.family \in {"none", v.family}
      BY <2>7, <2>8, <2>9 DEF RowOfPack
    <3>1. PICK i \in DOMAIN release.tasks : e = release.tasks[i] /\ e.task = v.task
      BY DEF Entries
    <3>2. release # NoRelease
      BY FileTypes DEF JoinInv
    <3> QED
      BY <2>1, <2>3, <3>1, <3>2 DEF Releasable, EntryFits
  <2> QED
    BY <2>1, <2>5, <2>8, <2>9, <2>10 DEF Agrees
<1>7. ASSUME EndBind PROVE FALSE
  <2>1. PICK t \in Task : table[t].released /\ ~Seen(t, table[t].revision)
    BY <1>7 DEF EndBind, Proceed
  <2>2. /\ phase = "bind" /\ families = familyFile /\ todo = {}
        /\ Len(projection) = Len(families.revisions)
    BY <1>7 DEF EndBind, Proceed, Loaded
  <2>3. disk[t] # NoPack /\ RowOfPack(t)
    BY <2>1, <2>2 DEF Loaded, NoRow
  <2>4. families # NoFamilies
    BY <2>2 DEF Loaded
  <2>5. PICK v \in Listed(families) : v.task = t
    BY <2>1, <2>2, <2>3, <2>4 DEF Joinable, RowOfPack
  <2>6. PICK i \in DOMAIN families.revisions : v = families.revisions[i]
    BY DEF Listed
  <2>7. i \in DOMAIN projection
    <3>1. families.revisions \in Seq(RevisionType) /\ projection \in Seq(ProjectedType)
      BY FileTypes DEF JoinInv, TypeOK
    <3> QED
      BY <2>2, <2>6, <3>1
  <2>8. v.revision = table[t].revision
    BY <2>2, <2>3, <2>4, <2>5 DEF Joinable, RowOfPack
  <2> QED
    BY <2>1, <2>5, <2>6, <2>7, <2>8, ProjectionFacts DEF Seen
<1>8. ASSUME Stop PROVE FALSE
  BY <1>8 DEF Stop
<1>9. ASSUME NEW t \in Task, Expose(t) PROVE FALSE
  BY <1>9 DEF Expose
<1>10. ASSUME Edit PROVE FALSE
  BY <1>10 DEF Edit
<1> QED
  BY <1>1, <1>2, <1>3, <1>4, <1>5, <1>6, <1>7, <1>8, <1>9, <1>10
  DEF Next, ReplacePack, PublishRelease, PublishFamilies

\* While nothing is replaced: memory and files agree, and a failure has a reason.
StartInv ==
    edits = 0 =>
        /\ Loaded
        /\ phase \in {"list", "tasks", "bind", "serving"} =>
             release = releaseFile /\ (release = NoRelease \/ FamiliesPinned(release, families))
        /\ phase = "failed" => ~Consistent(disk, releaseFile, familyFile)

\* Without an edit counted, no file has changed.
LEMMA EditsAreCounted ==
    ASSUME TypeOK, [Next]_vars, edits' = 0
    PROVE  UNCHANGED files
<1>1. edits \in Nat
  BY FileAssumption DEF TypeOK
<1>2. ~Edit
  BY <1>1 DEF Edit
<1> QED
  BY <1>2 DEF Next, vars, files, LoadTaskFamilyManifest, LoadReleaseManifest, ListTasks, LoadTask,
              EndTasks, BindRevision, EndBind, Expose, Stop, ReplacePack, PublishRelease,
              PublishFamilies

\* What is read of the release is what is in its file, and was checked.
LEMMA ReleaseIsRead ==
    ASSUME [Next]_vars, UNCHANGED files,
           phase \in {"list", "tasks", "bind", "serving"} =>
             release = releaseFile /\ (release = NoRelease \/ FamiliesPinned(release, families)),
           phase' \in {"list", "tasks", "bind", "serving"}
    PROVE  release' = releaseFile' /\ (release' = NoRelease \/ FamiliesPinned(release', families'))
<1>1. CASE LoadReleaseManifest
  BY <1>1 DEF LoadReleaseManifest, Proceed, files
<1>2. CASE ~LoadReleaseManifest
  <2>1. /\ phase \in {"list", "tasks", "bind", "serving"}
        /\ release' = release /\ families' = families
    BY <1>2 DEF Next, vars, memory, Proceed, LoadTaskFamilyManifest, ListTasks, LoadTask,
                EndTasks, BindRevision, EndBind, Expose, Stop, ReplacePack, PublishRelease,
                PublishFamilies, Edit
  <2> QED
    BY <2>1 DEF files, FamiliesPinned
<1> QED
  BY <1>1, <1>2

\* Every step keeps the invariant of the start.
LEMMA StartKept ==
    ASSUME JoinInv, StartInv, [Next]_vars
    PROVE  StartInv'
<1> SUFFICES ASSUME edits' = 0 PROVE StartInv'
  BY DEF StartInv
<1>1. UNCHANGED files
  BY EditsAreCounted DEF JoinInv
<1>2. edits = 0
  BY <1>1 DEF files
<1>3. disk' = disk /\ familyFile' = familyFile /\ releaseFile' = releaseFile
  BY <1>1 DEF files
<1>4. Loaded'
  BY <1>2, <1>3, LoadedKept DEF StartInv
<1>5. phase' \in {"list", "tasks", "bind", "serving"} =>
        release' = releaseFile' /\ (release' = NoRelease \/ FamiliesPinned(release', families'))
  BY <1>1, <1>2, ReleaseIsRead DEF StartInv
<1>6. ASSUME phase' = "failed" PROVE ~Consistent(disk, releaseFile, familyFile)
  <2>1. CASE phase = "failed"
    BY <1>2, <2>1 DEF StartInv
  <2>2. CASE phase # "failed"
    <3>1. Next
      BY <1>6, <2>2 DEF vars
    <3> QED
      BY <1>2, <1>6, <2>2, <3>1, FailureIsFound, ConsistentParts DEF StartInv
  <2> QED
    BY <2>1, <2>2
<1>7. (phase = "failed" => ~Consistent(disk, releaseFile, familyFile))'
  BY <1>3, <1>6
<1> QED
  BY <1>4, <1>5, <1>7 DEF StartInv

\* NewCatalogue accepts a deployment that nobody touches exactly when the three
\* sources fit together, for any directories and manifests.
THEOREM StartIsExact == Spec => []StartsExactlyWhenConsistent
<1>1. Init => StartInv
  BY DEF Init, StartInv, Loaded
<1>2. JoinInv /\ StartInv /\ [Next]_vars => StartInv'
  BY StartKept
<1>3. JoinInv /\ StartInv => StartsExactlyWhenConsistent
  <2> SUFFICES ASSUME JoinInv, StartInv, edits = 0, phase = "serving"
               PROVE  Consistent(disk, releaseFile, familyFile)
    BY DEF StartInv, StartsExactlyWhenConsistent
  <2>1. Loaded /\ release = releaseFile /\ families = familyFile
    BY DEF StartInv, Loaded
  <2>2. Joinable(disk, familyFile)
    BY <2>1, ServingIsJoinable
  <2>3. releaseFile # NoRelease => Releasable(disk, releaseFile, familyFile)
    BY <2>1, ServingIsReleasable DEF StartInv
  <2> QED
    BY <2>2, <2>3, ConsistentParts
<1> QED
  BY <1>1, <1>2, <1>3, JoinInvariant, PTL DEF Spec

----------------------------------------------------------------------------
(* The generator.                                                          *)

\* The composition lets the runtime do nothing that it does not do alone, so that
\* what is proved of Catalogue holds beside the generator.
THEOREM GeneratorOnlyReads == GenSpec => Spec
<1>1. GenInit => Init
  BY DEF GenInit
<1>2. [GenNext]_<<vars, genVars>> => [Next]_vars
  BY DEF GenNext, Runtime, Generate
<1> QED
  BY <1>1, <1>2, PTL DEF GenSpec, Spec

\* What the script does not check is all that may be wrong with what it writes.
LEMMA GeneratedFits ==
    ASSUME JoinInv, Loaded, phase = "serving", families # NoFamilies,
           NEW S \in History, NEW B \in Brain, B.capabilities # {},
           \A i \in DOMAIN S.tasks : Joins(S.tasks[i], B)
    PROVE  Consistent(disk, Joined(S, B), families) <=> ~Unchecked(Joined(S, B))
<1> DEFINE M == Joined(S, B)
<1>1. /\ M.version = 3 /\ M.sound = (S.sound /\ B.sound) /\ M.qrelease = B.qrelease
      /\ M.familyRelease = families.release /\ M.capabilities = B.capabilities
      /\ DOMAIN M.tasks = DOMAIN S.tasks
      /\ \A i \in DOMAIN M.tasks : M.tasks[i] = Copied(S.tasks[i], B)
  BY DEF Joined
<1>2. \A i \in DOMAIN S.tasks : S.tasks[i] \in EntryType
  <2>1. S.tasks \in Seq(EntryType)
    BY HistoryAssumption DEF ReleaseType
  <2> QED
    BY <2>1
<1>3. ASSUME NEW i \in DOMAIN M.tasks
      PROVE  LET e == S.tasks[i]
                 c == M.tasks[i]
             IN  /\ c.task = e.task /\ c.revision = e.revision /\ c.family = e.family
                 /\ c.qrelease = "none" /\ c.capabilities = families.capabilities[e.family]
                 /\ c = Copied(e, B)
  <2> DEFINE e == S.tasks[i]
  <2>1. e \in EntryType /\ M.tasks[i] = Copied(e, B)
    BY <1>1, <1>2
  <2> HIDE DEF e
  <2>2. /\ Copied(e, B).task = e.task /\ Copied(e, B).revision = e.revision
        /\ Copied(e, B).family = e.family /\ Copied(e, B).qrelease = "none"
        /\ Copied(e, B).capabilities = families.capabilities[e.family]
    BY <2>1 DEF Copied, EntryType
  <2> QED
    BY <2>1, <2>2 DEF e
<1>4. M # NoRelease
  BY <1>1 DEF NoRelease
<1>5. Joinable(disk, families)
  BY ServingIsJoinable
<1>6. ValidFamilies(families) /\ families.release # "none"
  <2>1. families \in FamilyRelease /\ ValidFamilies(families)
    BY <1>5 DEF Joinable, JoinInv, TypeOK
  <2> QED
    BY <2>1, FileAssumption DEF ValidFamilies
<1> HIDE DEF M
<1>7. ASSUME NEW i \in DOMAIN M.tasks
      PROVE  /\ M.tasks[i].task \in Task
             /\ M.tasks[i].family \in FamilyKey
             /\ M.tasks[i].revision = disk[M.tasks[i].task].revision
             /\ M.tasks[i].capabilities \subseteq M.capabilities
             /\ M.tasks[i].bindings # {} \/ M.tasks[i].capabilities # {}
             /\ \A v \in Listed(families) :
                  v.task = M.tasks[i].task => M.tasks[i].family = v.family
  <2> DEFINE e == S.tasks[i]
  <2>1. Joins(e, B) /\ e \in EntryType
    BY <1>1, <1>2
  <2>2. /\ M.tasks[i].task = e.task /\ M.tasks[i].revision = e.revision
        /\ M.tasks[i].family = e.family /\ M.tasks[i] = Copied(e, B)
        /\ M.tasks[i].capabilities = families.capabilities[e.family]
    BY <1>3
  <2> HIDE DEF e
  <2>3. PICK j \in DOMAIN projection :
          projection[j].task = e.task /\ projection[j].revision = e.revision
            /\ projection[j].family = e.family
    BY <2>1 DEF Joins
  <2> DEFINE u == families.revisions[j]
  <2>4. /\ j \in DOMAIN families.revisions
        /\ u.task = e.task /\ u.revision = e.revision /\ u.family = e.family
    BY <2>3, ProjectionFacts
  <2>5. u \in RevisionType /\ u.family \in FamilyKey /\ u.task \in Task
    BY <2>4, RevisionFacts DEF RevisionType
  <2>6. u.revision = disk[u.task].revision
    BY <1>5, <2>4 DEF Joinable, Listed
  <2>7. ASSUME NEW v \in Listed(families), v.task = e.task PROVE v.family = e.family
    <3>1. PICK k \in DOMAIN families.revisions : v = families.revisions[k]
      BY DEF Listed
    <3>2. v.revision = disk[v.task].revision
      BY <1>5 DEF Joinable
    <3>3. <<families.revisions[k].task, families.revisions[k].revision>> = <<u.task, u.revision>>
      BY <2>4, <2>6, <2>7, <3>1, <3>2
    <3>4. k = j
      BY <1>6, <2>4, <3>1, <3>3 DEF ValidFamilies
    <3> QED
      BY <2>4, <3>1, <3>4
  <2> HIDE DEF u
  <2> QED
    BY <1>1, <2>1, <2>2, <2>4, <2>5, <2>6, <2>7 DEF Joins
<1>8. FamiliesPinned(M, families)
  BY <1>1 DEF FamiliesPinned
<1>9. ValidRelease(M) <=>
        /\ M.sound
        /\ \A i, j \in DOMAIN M.tasks :
             i # j => <<M.tasks[i].task, M.tasks[i].revision>> # <<M.tasks[j].task, M.tasks[j].revision>>
  BY <1>1, <1>3, <1>6, <1>7, PackAssumption DEF ValidRelease
<1>10. \A i \in DOMAIN M.tasks :
         EntryFits(M.tasks[i], disk, M, families) <=>
           LET p == disk[M.tasks[i].task]
           IN  p.bindings # {} => p.bindings = M.tasks[i].bindings /\ p.qrelease \in {"none", M.qrelease}
  BY <1>7 DEF EntryFits
<1>11. \A t \in Task : disk[t].released => disk[t] # NoPack
  BY DEF NoPack
<1>12. Releasable(disk, M, families) <=> ~Unchecked(M)
  BY <1>8, <1>9, <1>10, <1>11 DEF Releasable, Unchecked
<1> QED
  BY <1>4, <1>5, <1>12, ConsistentParts DEF M

\* Unless something was replaced since it began, the serving process is the one
\* that the files describe; and a draft is good until something is replaced.
GeneratorInv ==
    /\ draft = [manifest |-> draft.manifest, stale |-> draft.stale]
    /\ draft.stale \in BOOLEAN /\ moved \in BOOLEAN
    /\ ~moved => Loaded
    /\ ~draft.stale =>
         (Consistent(disk, draft.manifest, familyFile) <=> ~Unchecked(draft.manifest))

\* A run of the generator keeps its invariant.
LEMMA GenerateKeeps ==
    ASSUME JoinInv, GeneratorInv, NEW S \in History, NEW B \in Brain, Generate(S, B)
    PROVE  GeneratorInv'
<1>1. /\ draft' = [manifest |-> Joined(S, B), stale |-> moved \/ familyFile # families]
      /\ moved' = moved /\ UNCHANGED vars
  BY DEF Generate
<1>2. Loaded <=> Loaded'
  <2>1. /\ phase' = phase /\ families' = families /\ todo' = todo /\ table' = table
        /\ projection' = projection /\ release' = release /\ disk' = disk /\ familyFile' = familyFile
    BY <1>1 DEF vars, files, memory
  <2> QED
    BY <2>1, RowsFramed DEF Loaded
<1>3. ASSUME ~draft'.stale
      PROVE  Consistent(disk, draft'.manifest, familyFile) <=> ~Unchecked(draft'.manifest)
  <2>1. ~moved /\ familyFile = families /\ draft'.manifest = Joined(S, B)
    BY <1>1, <1>3
  <2>2. /\ phase = "serving" /\ families # NoFamilies /\ B.capabilities # {}
        /\ \A i \in DOMAIN S.tasks : Joins(S.tasks[i], B)
    BY DEF Generate
  <2> QED
    BY <2>1, <2>2, GeneratedFits DEF GeneratorInv
<1>4. disk' = disk /\ familyFile' = familyFile
  BY <1>1 DEF vars, files
<1>5. (~draft.stale =>
        (Consistent(disk, draft.manifest, familyFile) <=> ~Unchecked(draft.manifest)))'
  BY <1>3, <1>4 DEF Unchecked
<1> QED
  BY <1>1, <1>2, <1>5 DEF GeneratorInv

\* A step of the runtime keeps the generator's invariant.
LEMMA RuntimeKeeps ==
    ASSUME JoinInv, GeneratorInv, Runtime
    PROVE  GeneratorInv'
<1> DEFINE replaced == <<disk, familyFile>>' # <<disk, familyFile>>
<1>1. /\ Next /\ draft' = [draft EXCEPT !.stale = @ \/ replaced]
      /\ moved' = (phase' # "down" /\ (moved \/ (phase # "down" /\ replaced)))
  BY DEF Runtime
<1> HIDE DEF replaced
<1>2. /\ draft' = [manifest |-> draft.manifest, stale |-> draft.stale \/ replaced]
      /\ draft'.manifest = draft.manifest /\ draft'.stale = (draft.stale \/ replaced)
  BY <1>1 DEF GeneratorInv
<1>3. ~replaced => disk' = disk /\ familyFile' = familyFile
  BY DEF replaced
<1>4. ASSUME ~moved' PROVE Loaded'
  <2>1. CASE phase' = "down"
    BY <2>1 DEF Loaded
  <2>2. CASE phase' # "down" /\ phase = "down"
    <3>1. LoadTaskFamilyManifest
      BY <1>1, <2>2 DEF Next, Proceed, LoadReleaseManifest, ListTasks, LoadTask, EndTasks,
                        BindRevision, EndBind, Expose, Stop, ReplacePack, PublishRelease,
                        PublishFamilies, Edit
    <3> QED
      BY <3>1 DEF LoadTaskFamilyManifest, Proceed, files, Loaded
  <2>3. CASE phase' # "down" /\ phase # "down"
    <3>1. ~moved /\ ~replaced
      BY <1>1, <1>4, <2>3
    <3> QED
      BY <1>1, <1>3, <3>1, LoadedKept DEF GeneratorInv
  <2> QED
    BY <2>1, <2>2, <2>3
<1>5. (~draft.stale =>
        (Consistent(disk, draft.manifest, familyFile) <=> ~Unchecked(draft.manifest)))'
  <2>1. ASSUME ~draft'.stale
        PROVE  Consistent(disk, draft.manifest, familyFile) <=> ~Unchecked(draft.manifest)
    BY <1>2, <2>1 DEF GeneratorInv
  <2>2. ~draft'.stale => disk' = disk /\ familyFile' = familyFile
    BY <1>2, <1>3
  <2>3. disk' = disk => (Unchecked(draft.manifest)' <=> Unchecked(draft.manifest))
    BY <1>2 DEF Unchecked
  <2> QED
    BY <1>2, <2>1, <2>2, <2>3
<1>6. moved' \in BOOLEAN /\ draft'.stale \in BOOLEAN
  BY <1>1, <1>2 DEF GeneratorInv
<1> QED
  BY <1>2, <1>4, <1>5, <1>6 DEF GeneratorInv

\* Whatever the script is given, the manifest it writes is one that the runtime
\* starts with as long as directories and families stay as they are, except where
\* the script is known not to check.
THEOREM GeneratedReleasesStart == GenSpec => []GeneratedReleaseStarts
<1>1. GenInit => GeneratorInv
  <2> SUFFICES ASSUME GenInit PROVE GeneratorInv
    OBVIOUS
  <2>1. draft.stale = TRUE /\ draft = [manifest |-> draft.manifest, stale |-> draft.stale]
    BY DEF GenInit, NoDraft
  <2>2. Loaded
    BY DEF GenInit, Init, Loaded
  <2> QED
    BY <2>1, <2>2 DEF GenInit, GeneratorInv
<1>2. JoinInv /\ GeneratorInv /\ [GenNext]_<<vars, genVars>> => GeneratorInv'
  <2> SUFFICES ASSUME JoinInv, GeneratorInv, [GenNext]_<<vars, genVars>> PROVE GeneratorInv'
    OBVIOUS
  <2>1. CASE Runtime
    BY <2>1, RuntimeKeeps
  <2>2. ASSUME NEW S \in History, NEW B \in Brain, Generate(S, B) PROVE GeneratorInv'
    BY <2>2, GenerateKeeps
  <2>3. CASE UNCHANGED <<vars, genVars>>
    <3>1. /\ phase' = phase /\ families' = families /\ todo' = todo /\ table' = table
          /\ projection' = projection /\ release' = release /\ disk' = disk
          /\ familyFile' = familyFile /\ draft' = draft /\ moved' = moved
      BY <2>3 DEF vars, files, memory, genVars
    <3>2. ~moved => Loaded'
      BY <2>3, <3>1, LoadedKept DEF GeneratorInv
    <3>3. (~draft.stale =>
            (Consistent(disk, draft.manifest, familyFile) <=> ~Unchecked(draft.manifest)))'
      BY SMTT(30), <3>1 DEF GeneratorInv, Unchecked
    <3> QED
      BY <3>1, <3>2, <3>3 DEF GeneratorInv
  <2> QED
    BY <2>1, <2>2, <2>3 DEF GenNext
<1>3. GeneratorInv => GeneratedReleaseStarts
  BY DEF GeneratorInv, GeneratedReleaseStarts
<1>4. GenSpec => []JoinInv
  BY GeneratorOnlyReads, JoinInvariant, PTL
<1> QED
  BY <1>1, <1>2, <1>3, <1>4, PTL DEF GenSpec
=============================================================================
