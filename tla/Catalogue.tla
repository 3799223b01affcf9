------------------------------ MODULE Catalogue ------------------------------
(***************************************************************************)
(* The start of the runtime: NewCatalogue (engine/catalogue.go) reads the  *)
(* TaskFamily manifest, the release manifest, every task directory and the *)
(* directories again to hash them, and either refuses to start (main.go    *)
(* exits) or serves what it has joined.  The files belong to a deployment  *)
(* and may be replaced between two of these reads, or while the runtime    *)
(* serves: nothing is locked, and nothing is read again but the directory  *)
(* of the task that a workspace or a run needs.                            *)
(*                                                                         *)
(* A directory's hash is its `content`, one per directory tree.  What      *)
(* concerns one file alone (decoding, patterns, required fields, duplicate *)
(* keys in a list) is the file's flag `sound`.                             *)
(***************************************************************************)
EXTENDS Naturals, Sequences

CONSTANTS
    Name,           \* "none", and every other name or hash in the files
    Task,           \* names of task directories
    FamilyKey,      \* keys of task families
    Pack,           \* what a task directory may hold, see PackType
    Layout,         \* the task directories a deployment may start with
    Release,        \* release manifests
    FamilyRelease,  \* TaskFamily manifests
    NewPack, NewRelease, NewFamilies,  \* those of them that others are replaced with
    Historic,       \* the one family release older than executionKind
    MaxEdits        \* bound on the replacements of files

PackType ==
    [sound : BOOLEAN, revision : Nat \ {0}, released : BOOLEAN, kind : Name,
     bindings : SUBSET Name, qrelease : Name, content : Name]

EntryType ==
    [task : Task, revision : Nat \ {0}, family : FamilyKey \cup {"none"},
     qrelease : Name, bindings : SUBSET Name, capabilities : SUBSET Name]

ReleaseType ==
    [version : 1..3, sound : BOOLEAN, qrelease : Name, familyRelease : Name,
     capabilities : SUBSET Name, tasks : Seq(EntryType)]

Availabilities ==
    {"runnable", "brief_only", "profile_unavailable", "superseded", "unreleased"}

RevisionType ==
    [family : FamilyKey, task : Task, revision : Nat \ {0}, kind : Name,
     availability : Availabilities, hash : Name]

FamilyReleaseType ==
    [sound : BOOLEAN, release : Name,
     execution : [FamilyKey -> {"none", "code", "sql", "legacy"}],
     capabilities : [FamilyKey -> SUBSET Name],
     revisions : Seq(RevisionType)]

\* No directory, and no file at all.
NoPack == [sound |-> FALSE, revision |-> 0, released |-> FALSE, kind |-> "none",
           bindings |-> {}, qrelease |-> "none", content |-> "none"]
NoRelease == [version |-> 0, sound |-> FALSE, qrelease |-> "none",
              familyRelease |-> "none", capabilities |-> {}, tasks |-> <<>>]
NoFamilies == [sound |-> FALSE, release |-> "none",
               execution |-> [k \in FamilyKey |-> "none"],
               capabilities |-> [k \in FamilyKey |-> {}], revisions |-> <<>>]

ASSUME PackAssumption ==
    /\ "none" \in Name /\ "none" \notin FamilyKey
    /\ Pack \subseteq PackType
    /\ \A p, q \in Pack : p.content = q.content => p = q
    /\ \A p \in Pack : p.content # "none"
ASSUME FileAssumption ==
    /\ Layout \subseteq [Task -> Pack \cup {NoPack}]
    /\ Release \subseteq ReleaseType
    /\ FamilyRelease \subseteq FamilyReleaseType
    /\ \A F \in FamilyRelease : F.sound => F.release # "none"
    /\ NewPack \subseteq Pack
    /\ NewRelease \subseteq Release
    /\ NewFamilies \subseteq FamilyRelease
    /\ MaxEdits \in Nat

VARIABLES
    disk, releaseFile, familyFile,  \* the files of the deployment
    phase,       \* how far the process has come
    families,    \* the TaskFamily manifest it has read, or NoFamilies
    release,     \* the release manifest it has read, or NoRelease
    todo,        \* directories listed and not yet loaded
    table,       \* the task table: a row for each directory loaded
    projection,  \* the revisions of /v1/task-families, in the manifest's order
    exposed,     \* history: what workspaces and runs were given, and of which row
    dirty,       \* history: tasks replaced since the process read their descriptor
    edits        \* replacements so far

files == <<disk, releaseFile, familyFile, edits>>
memory == <<families, release, todo, table, projection>>
vars == <<files, phase, memory, exposed, dirty>>

NoRow == [revision |-> 0, released |-> FALSE, runnable |-> FALSE,
          availability |-> "unreleased", family |-> "none", qrelease |-> "none",
          bindings |-> {}, kind |-> "none", hash |-> "none", source |-> "none"]

RowType ==
    [revision : Nat, released : BOOLEAN, runnable : BOOLEAN,
     availability : Availabilities, family : FamilyKey \cup {"none"},
     qrelease : Name, bindings : SUBSET Name, kind : Name, hash : Name,
     source : Name]      \* source: history, the content the descriptor was read from

ProjectedType ==
    [task : Task, revision : Nat, family : FamilyKey, kind : Name,
     released : BOOLEAN, availability : Availabilities, runnable : BOOLEAN,
     hash : Name]

TypeOK ==
    /\ disk \in [Task -> Pack \cup {NoPack}]
    /\ releaseFile \in Release \cup {NoRelease}
    /\ familyFile \in FamilyRelease \cup {NoFamilies}
    /\ phase \in {"down", "release", "list", "tasks", "bind", "serving", "failed"}
    /\ release \in Release \cup {NoRelease}
    /\ families \in FamilyRelease \cup {NoFamilies}
    /\ todo \subseteq Task
    /\ table \in [Task -> RowType]
    /\ projection \in Seq(ProjectedType)
    /\ Len(projection) <= Len(families.revisions)
    /\ exposed \subseteq [task : Task, content : Name]
    /\ dirty \subseteq Task
    /\ edits \in 0..MaxEdits

Init ==
    /\ disk \in Layout
    /\ releaseFile \in Release \cup {NoRelease}
    /\ familyFile \in FamilyRelease \cup {NoFamilies}
    /\ phase = "down"
    /\ families = NoFamilies
    /\ release = NoRelease
    /\ todo = {}
    /\ table = [t \in Task |-> NoRow]
    /\ projection = <<>>
    /\ exposed = {}
    /\ dirty = {}
    /\ edits = 0

\* One fallible step of NewCatalogue: any error ends the start.
Proceed(from, ok, to) == phase = from /\ phase' = IF ok THEN to ELSE "failed"

----------------------------------------------------------------------------
(* The two manifests.                                                      *)

ExecutionKind(F, k) ==
    IF F.execution[k] # "none" THEN F.execution[k]
    ELSE IF F.release = Historic THEN "legacy" ELSE "code"

\* validateTaskFamilyManifest: each revision has the kind of its family and
\* belongs to one family only.
ValidFamilies(F) ==
    /\ F.sound
    /\ \A i \in DOMAIN F.revisions :
         LET v == F.revisions[i]
         IN  /\ ExecutionKind(F, v.family) = "sql" => v.kind = "postgres"
             /\ ExecutionKind(F, v.family) = "code" => v.kind # "postgres"
             /\ \A j \in DOMAIN F.revisions \ {i} :
                  <<F.revisions[j].task, F.revisions[j].revision>> # <<v.task, v.revision>>

LoadTaskFamilyManifest ==
    /\ Proceed("down", familyFile = NoFamilies \/ ValidFamilies(familyFile), "release")
    /\ families' = familyFile
    /\ UNCHANGED <<files, release, todo, table, projection, exposed, dirty>>

ValidRelease(R) ==
    /\ R.sound
    /\ R.version \in {2, 3} => R.familyRelease # "none"
    /\ R.version = 3 => R.capabilities # {}
    /\ \A i \in DOMAIN R.tasks :
         LET e == R.tasks[i]
         IN  /\ \A j \in DOMAIN R.tasks \ {i} :
                  <<R.tasks[j].task, R.tasks[j].revision>> # <<e.task, e.revision>>
             /\ e.qrelease \in {"none", R.qrelease}
             /\ R.version \in {2, 3} => e.family # "none"
             /\ R.version = 3 => e.capabilities \subseteq R.capabilities
             /\ e.bindings # {} \/ e.capabilities # {}

\* NewCatalogue compares the family release for contract v2, and for v2 alone.
FamiliesPinned(R, F) == R.version = 2 => F # NoFamilies /\ R.familyRelease = F.release

LoadReleaseManifest ==
    /\ Proceed("release", \/ releaseFile = NoRelease
                          \/ ValidRelease(releaseFile) /\ FamiliesPinned(releaseFile, families),
               "list")
    /\ release' = releaseFile
    /\ UNCHANGED <<files, families, todo, table, projection, exposed, dirty>>

----------------------------------------------------------------------------
(* loadTasks.                                                              *)

ListTasks ==
    /\ Proceed("list", TRUE, "tasks")
    /\ todo' = {t \in Task : disk[t] # NoPack}
    /\ UNCHANGED <<files, families, release, table, projection, exposed, dirty>>

Entries(t, n) ==
    {release.tasks[i] : i \in {j \in DOMAIN release.tasks :
                                   release.tasks[j].task = t /\ release.tasks[j].revision = n}}

\* Mutant: a descriptor's release pin counts even when it carries no bindings.
LoadableUnderOwnRelease(t, p) ==
    /\ p.sound
    /\ release # NoRelease =>
         /\ p.released => Entries(t, p.revision) # {}
         /\ \A e \in Entries(t, p.revision) :
              /\ p.bindings \in {{}, e.bindings}
              /\ p.qrelease \in {"none", release.qrelease}

\* The checks of a descriptor, mergeReleaseEntry's among them: immutable
\* bindings in a descriptor must agree with the manifest, an old pin need not.
Loadable(t, p) ==
    /\ p.sound
    /\ release # NoRelease =>
         /\ p.released => Entries(t, p.revision) # {}
         /\ \A e \in Entries(t, p.revision) :
              /\ p.bindings \in {{}, e.bindings}
              /\ p.bindings # {} => p.qrelease \in {"none", release.qrelease}

Unlisted(p) ==
    [revision |-> p.revision, released |-> p.released,
     runnable |-> release # NoRelease /\ p.released,
     availability |-> "unreleased", family |-> "none", qrelease |-> p.qrelease,
     bindings |-> p.bindings, kind |-> p.kind, hash |-> "none", source |-> p.content]

\* Mutant: the availability is taken from the descriptor's status.
MergedByStatus(p, e) ==
    [Unlisted(p) EXCEPT
        !.availability = IF p.released THEN "released" ELSE "declared",
        !.family = e.family,
        !.qrelease = release.qrelease,
        !.bindings = IF p.bindings = {} THEN e.bindings ELSE p.bindings]

\* Even a declared task becomes "runnable" in availability when it is listed.
Merged(p, e) ==
    [Unlisted(p) EXCEPT
        !.availability = "runnable",
        !.family = e.family,
        !.qrelease = release.qrelease,
        !.bindings = IF p.bindings = {} THEN e.bindings ELSE p.bindings]

Row(t, p) ==
    IF Entries(t, p.revision) = {} THEN Unlisted(p)
    ELSE Merged(p, CHOOSE e \in Entries(t, p.revision) : TRUE)

LoadTask(t) ==
    /\ t \in todo
    /\ Proceed("tasks", Loadable(t, disk[t]), "tasks")
    /\ IF Loadable(t, disk[t])
       THEN table' = [table EXCEPT ![t] = Row(t, disk[t])] /\ todo' = todo \ {t}
       ELSE UNCHANGED <<table, todo>>
    /\ UNCHANGED <<files, families, release, projection, exposed, dirty>>

\* Mutant: a manifest entry without a directory is not noticed.
EveryEntryAnywhere == TRUE

EveryEntryLoaded ==
    \A i \in DOMAIN release.tasks :
        table[release.tasks[i].task].revision = release.tasks[i].revision

EndTasks ==
    /\ todo = {}
    /\ Proceed("tasks", EveryEntryLoaded /\ \E t \in Task : table[t] # NoRow,
               IF families = NoFamilies THEN "serving" ELSE "bind")
    /\ UNCHANGED <<files, memory, exposed, dirty>>

----------------------------------------------------------------------------
(* bindTaskFamilies, one revision of the manifest after the other.         *)

Seen(t, n) ==
    \E i \in DOMAIN projection : projection[i].task = t /\ projection[i].revision = n

\* Mutant: the hash of the directory is not compared.
AgreesButForHash(v) ==
    LET row == table[v.task]
    IN  /\ row.revision = v.revision
        /\ ~Seen(v.task, v.revision)
        /\ row.family \in {"none", v.family}
        /\ row.kind = v.kind

Agrees(v) ==
    LET row == table[v.task]
    IN  /\ row.revision = v.revision
        /\ ~Seen(v.task, v.revision)
        /\ row.family \in {"none", v.family}
        /\ row.kind = v.kind
        /\ disk[v.task].content = v.hash

\* Mutant: the availability of the family manifest alone decides.
BoundByAvailability(row, v) ==
    [row EXCEPT !.family = v.family, !.hash = v.hash, !.availability = v.availability,
                !.runnable = (v.availability = "runnable")]

\* Mutant: the family manifest's availability changes nothing for runs.
BoundForListsOnly(row, v) ==
    [row EXCEPT !.family = v.family, !.hash = v.hash, !.availability = v.availability]

Bound(row, v) ==
    [row EXCEPT !.family = v.family, !.hash = v.hash, !.availability = v.availability,
                !.runnable = @ /\ v.availability = "runnable"]

Projected(t, row) ==
    [task |-> t, revision |-> row.revision, family |-> row.family, kind |-> row.kind,
     released |-> row.released, availability |-> row.availability,
     runnable |-> row.runnable, hash |-> row.hash]

\* Mutant: the projection is made before the row takes the family's word.
BindAfterProjecting(v) ==
    /\ table' = [table EXCEPT ![v.task] = Bound(@, v)]
    /\ projection' = Append(projection, [Projected(v.task, table[v.task]) EXCEPT
                                            !.family = v.family, !.hash = v.hash])

Bind(v) ==
    /\ table' = [table EXCEPT ![v.task] = Bound(@, v)]
    /\ projection' = Append(projection, Projected(v.task, Bound(table[v.task], v)))

BindRevision ==
    /\ Len(projection) < Len(families.revisions)
    /\ LET v == families.revisions[Len(projection) + 1]
       IN  /\ Proceed("bind", Agrees(v), "bind")
           /\ IF Agrees(v) THEN Bind(v) ELSE UNCHANGED <<table, projection>>
    /\ UNCHANGED <<files, families, release, todo, exposed, dirty>>

EndBind ==
    /\ Len(projection) = Len(families.revisions)
    /\ Proceed("bind", \A t \in Task : table[t].released => Seen(t, table[t].revision),
               "serving")
    /\ UNCHANGED <<files, memory, exposed, dirty>>

----------------------------------------------------------------------------
(* Serving, restarts, and the deployment.                                  *)

ReleaseBound == release # NoRelease

\* The gate of the workspace and of the run: server.go, 242 and 282.
Servable(t) ==
    /\ ReleaseBound
    /\ table[t].released
    /\ table[t].runnable
    /\ table[t].availability = "runnable"

\* TaskWorkspace's own gate does not look at the runnable flag.
WorkspaceServes(t) ==
    ReleaseBound /\ table[t].released /\ table[t].availability = "runnable"

\* TaskWorkspace and prepareTask read the directory as it is at that time.
Expose(t) ==
    /\ phase = "serving"
    /\ Servable(t) /\ WorkspaceServes(t)
    /\ disk[t] # NoPack
    /\ exposed' = exposed \cup {[task |-> t, content |-> disk[t].content]}
    /\ UNCHANGED <<files, phase, memory, dirty>>

\* The process is stopped, crashes, or exits because it cannot start.
Stop ==
    /\ phase # "down"
    /\ phase' = "down"
    /\ families' = NoFamilies
    /\ release' = NoRelease
    /\ todo' = {}
    /\ table' = [t \in Task |-> NoRow]
    /\ projection' = <<>>
    /\ exposed' = {}
    /\ dirty' = {}
    /\ UNCHANGED files

Edit ==
    /\ edits < MaxEdits
    /\ edits' = edits + 1
    /\ UNCHANGED <<phase, memory, exposed>>

ReplacePack(t, p) ==
    /\ Edit
    /\ p # disk[t]
    /\ disk' = [disk EXCEPT ![t] = p]
    /\ dirty' = IF table[t] = NoRow THEN dirty ELSE dirty \cup {t}
    /\ UNCHANGED <<releaseFile, familyFile>>

PublishRelease(R) ==
    /\ Edit
    /\ R # releaseFile
    /\ releaseFile' = R
    /\ UNCHANGED <<disk, familyFile, dirty>>

PublishFamilies(F) ==
    /\ Edit
    /\ F # familyFile
    /\ familyFile' = F
    /\ UNCHANGED <<disk, releaseFile, dirty>>

Next ==
    \/ LoadTaskFamilyManifest \/ LoadReleaseManifest \/ ListTasks
    \/ \E t \in Task : LoadTask(t) \/ Expose(t)
    \/ EndTasks \/ BindRevision \/ EndBind
    \/ Stop
    \/ \E t \in Task, p \in NewPack \cup {NoPack} : ReplacePack(t, p)
    \/ \E R \in NewRelease \cup {NoRelease} : PublishRelease(R)
    \/ \E F \in NewFamilies \cup {NoFamilies} : PublishFamilies(F)

Spec == Init /\ [][Next]_vars

----------------------------------------------------------------------------
(* Properties.                                                             *)

OnlyEntryAgrees(t) ==
    \E e \in Entries(t, table[t].revision) :
        /\ Entries(t, table[t].revision) = {e}
        /\ table[t].qrelease = release.qrelease
        /\ table[t].bindings = e.bindings
        /\ e.family \in {"none", table[t].family}

OnlyRevisionAgrees(t) ==
    \E i \in DOMAIN families.revisions :
        LET v == families.revisions[i]
        IN  /\ v.availability = "runnable"
            /\ <<v.task, v.revision, v.family, v.kind, v.hash>>
                 = <<t, table[t].revision, table[t].family, table[t].kind, table[t].hash>>
            /\ \A j \in DOMAIN families.revisions \ {i} :
                 <<families.revisions[j].task, families.revisions[j].revision>>
                     # <<t, table[t].revision>>

\* A runnable task is what both manifests say: its exact revision is a released
\* one, the only entry for it in the release manifest gives its question release
\* and bindings, and, if families are loaded, the only revision for it there is
\* runnable, of its kind, of its family (the entry's own, if it has one).
RunnableIsReleased ==
    \A t \in Task : phase = "serving" /\ table[t].runnable =>
        /\ table[t].released
        /\ OnlyEntryAgrees(t)
        /\ families # NoFamilies => OnlyRevisionAgrees(t)

\* A release is served whole: each entry is in the table, each released task has
\* an entry, and, if families are loaded, a place in one of them.
ReleaseIsComplete ==
    phase = "serving" =>
        /\ \A i \in DOMAIN release.tasks :
             table[release.tasks[i].task].revision = release.tasks[i].revision
        /\ \A t \in Task : table[t].released =>
             /\ ReleaseBound => Entries(t, table[t].revision) # {}
             /\ families # NoFamilies => Seen(t, table[t].revision)

\* With families loaded, a workspace or a run is given the pinned content, and
\* the table describes it, unless the directory was replaced after the process
\* had read its descriptor: no replacement before that goes unnoticed.
PinnedUnlessReplaced ==
    phase = "serving" /\ families # NoFamilies =>
        /\ \A x \in exposed : x.content # table[x.task].hash => x.task \in dirty
        /\ \A t \in Task : table[t].released /\ table[t].source # table[t].hash => t \in dirty

\* /v1/task-families and /v1/tasks never disagree about a revision, whichever
\* order the manifest lists them in.
ProjectionMatchesTable ==
    phase = "serving" =>
        /\ Len(projection) = Len(families.revisions)
        /\ \A i \in DOMAIN projection :
             projection[i] = Projected(projection[i].task, table[projection[i].task])

\* The runnable flag of a family in /v1/task-families.
FamilyRunnable(k) == \E i \in DOMAIN projection : projection[i].family = k /\ projection[i].runnable

\* The flags that learners see decide what they get: a task shown as runnable is
\* given a workspace and a run, no other is, and a family is shown as runnable
\* exactly when one of its tasks is.  Three gates ask three different questions
\* (server.go:242 and 282, TaskWorkspace without the flag) of a row that two
\* manifests have written; they never differ.
AdvertisedIsServable ==
    phase = "serving" =>
        /\ \A t \in Task :
             /\ table[t].runnable => Servable(t)
             /\ WorkspaceServes(t) => table[t].runnable
        /\ families # NoFamilies => \A k \in FamilyKey :
             FamilyRunnable(k) <=> \E t \in Task : table[t].family = k /\ Servable(t)

\* A reference definition of the deployments the runtime should start with: the
\* join of the three sources, with no order and no intermediate table.
Consistent(D, R, F) ==
    LET present == {t \in Task : D[t] # NoPack}
        entry == {R.tasks[i] : i \in DOMAIN R.tasks}
        listed == {F.revisions[i] : i \in DOMAIN F.revisions}
    IN  /\ present # {}
        /\ \A t \in present : D[t].sound
        /\ F # NoFamilies =>
             /\ ValidFamilies(F)
             /\ \A v \in listed : <<v.revision, v.kind, v.hash>>
                                    = <<D[v.task].revision, D[v.task].kind, D[v.task].content>>
             /\ \A t \in present : D[t].released => \E v \in listed : v.task = t
        /\ R # NoRelease =>
             /\ ValidRelease(R)
             /\ FamiliesPinned(R, F)
             /\ \A e \in entry :
                  /\ e.revision = D[e.task].revision
                  /\ D[e.task].bindings # {} =>
                       /\ D[e.task].bindings = e.bindings
                       /\ D[e.task].qrelease \in {"none", R.qrelease}
                  /\ \A v \in listed : v.task = e.task => e.family \in {"none", v.family}
             /\ \A t \in present : D[t].released => \E e \in entry : e.task = t

\* Left alone, the runtime starts with a deployment exactly when it is consistent:
\* the load neither lets a bad one pass nor refuses a good one.
StartsExactlyWhenConsistent ==
    edits = 0 =>
        /\ phase = "serving" => Consistent(disk, releaseFile, familyFile)
        /\ phase = "failed" => ~Consistent(disk, releaseFile, familyFile)

\* docs/contracts/task-release.v3.md:98-100: the TaskFamily release that the
\* summary reports, the manifest's, is that of the families really loaded.
ReportedFamiliesAreLoaded ==
    phase = "serving" /\ release.version \in {2, 3} =>
        families.release = release.familyRelease

----------------------------------------------------------------------------
(* The inductive invariant behind the safety properties.                   *)

\* The table and the projection are built up from nothing.
Early ==
    /\ phase \in {"down", "release", "list"} => table = [t \in Task |-> NoRow]
    /\ phase \in {"down", "release", "list", "tasks"} => projection = <<>>

\* Nothing goes on from a manifest that is not valid.
ManifestsValid ==
    /\ phase \in {"list", "tasks", "bind", "serving"} =>
         release = NoRelease \/ ValidRelease(release)
    /\ phase \in {"release", "list", "tasks", "bind", "serving"} =>
         families = NoFamilies \/ ValidFamilies(families)

\* A row and the entry it was merged with.
RowFromEntry(t) ==
    /\ table[t].runnable => table[t].released /\ ReleaseBound
    /\ table[t].released /\ ReleaseBound =>
         \E e \in Entries(t, table[t].revision) :
             /\ table[t].qrelease = release.qrelease
             /\ table[t].bindings = e.bindings
             /\ e.family \in {"none", table[t].family}
    /\ table[t].released /\ ReleaseBound =>
         /\ table[t].runnable <=> table[t].availability = "runnable"
         /\ table[t].runnable \/ Seen(t, table[t].revision)

\* A row, the revision that was bound to it, and its projection.
RowFromRevision(i) ==
    LET v == families.revisions[i]
        row == table[v.task]
    IN  /\ projection[i] = Projected(v.task, row)
        /\ <<row.revision, row.family, row.kind, row.hash>>
              = <<v.revision, v.family, v.kind, v.hash>>
        /\ row.runnable => v.availability = "runnable"

Complete ==
    /\ phase \in {"bind", "serving"} => EveryEntryLoaded
    /\ phase = "serving" => Len(projection) = Len(families.revisions)
    /\ phase = "serving" /\ families # NoFamilies =>
         \A t \in Task : table[t].released => Seen(t, table[t].revision)

JoinInv ==
    /\ TypeOK
    /\ Early
    /\ ManifestsValid
    /\ \A t \in Task : RowFromEntry(t)
    /\ \A i \in DOMAIN projection : RowFromRevision(i)
    /\ Complete

\* A row is what its directory held, until that is replaced.
SourceIsRead(t) ==
    table[t] # NoRow /\ t \notin dirty => table[t].source = disk[t].content

\* A hash was compared with the directory that the row was read from.
HashIsSource(i) ==
    LET t == projection[i].task
    IN  t \notin dirty => table[t].hash = table[t].source

\* Only a serving process exposes, and it exposes directories as they are.
ExposedIsSource ==
    /\ phase # "serving" => exposed = {}
    /\ \A x \in exposed :
         /\ table[x.task].released
         /\ x.task \notin dirty => x.content = table[x.task].source

PinInv ==
    /\ \A t \in Task : SourceIsRead(t)
    /\ \A i \in DOMAIN projection : HashIsSource(i)
    /\ ExposedIsSource
=============================================================================
