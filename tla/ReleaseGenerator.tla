--------------------------- MODULE ReleaseGenerator ---------------------------
(***************************************************************************)
(* scripts/release/generate-question-release.py, run by an operator beside *)
(* a serving runtime: it joins an earlier release manifest, the release    *)
(* that Question Brain publishes and the runtime's own /v1/task-families   *)
(* to the next release manifest (contract v3), or refuses.  What it writes *)
(* is deployed later (PublishRelease of Catalogue) and read at a restart.  *)
(***************************************************************************)
EXTENDS Catalogue

CONSTANTS
    History,   \* the earlier manifests it may be given (--source)
    Brain      \* the releases of Question Brain, see BrainType

\* `card` gives each question's current identity, or "none" when the card is
\* missing, unpublished or no production card.  `sound`: a source snapshot and a
\* release id in the spelling that the runtime, unlike the script, insists on.
BrainType ==
    [sound : BOOLEAN, qrelease : Name, capabilities : SUBSET Name, card : [Name -> Name]]

ASSUME HistoryAssumption == History \subseteq ReleaseType
ASSUME BrainAssumption == Brain \subseteq BrainType

VARIABLES
    draft,   \* the manifest written last, and whether its inputs changed since
    moved    \* history: directories or families replaced since the process began

genVars == <<draft, moved>>

NoDraft == [manifest |-> NoRelease, stale |-> TRUE]

GenInit == Init /\ draft = NoDraft /\ moved = FALSE

----------------------------------------------------------------------------
\* An entry of the source, with its questions' current identities and with the
\* capabilities of its family; its own are only a fallback.
Copied(e, B) ==
    [e EXCEPT !.qrelease = "none",
              !.bindings = {B.card[b] : b \in e.bindings},
              !.capabilities = families.capabilities[e.family]]

\* Mutant: any family that has the key will do.
JoinsByFamilyKey(e, B) ==
    /\ \E i \in DOMAIN projection : projection[i].family = e.family
    /\ families.capabilities[e.family] \subseteq B.capabilities
    /\ \A b \in e.bindings : B.card[b] # "none"
    /\ Copied(e, B).bindings # {} \/ Copied(e, B).capabilities # {}

\* What may stop the script at an entry: its revision in another family or in
\* none, an inactive capability, a missing card, or nothing left to ask.
Joins(e, B) ==
    /\ \E i \in DOMAIN projection :
         <<projection[i].task, projection[i].revision, projection[i].family>>
           = <<e.task, e.revision, e.family>>
    /\ families.capabilities[e.family] \subseteq B.capabilities
    /\ \A b \in e.bindings : B.card[b] # "none"
    /\ Copied(e, B).bindings # {} \/ Copied(e, B).capabilities # {}

Joined(S, B) ==
    [version |-> 3, sound |-> S.sound /\ B.sound, qrelease |-> B.qrelease,
     familyRelease |-> families.release, capabilities |-> B.capabilities,
     tasks |-> [i \in DOMAIN S.tasks |-> Copied(S.tasks[i], B)]]

Generate(S, B) ==
    /\ phase = "serving"
    /\ families # NoFamilies
    /\ B.capabilities # {}
    /\ \A i \in DOMAIN S.tasks : Joins(S.tasks[i], B)
    /\ draft' = [manifest |-> Joined(S, B), stale |-> moved \/ familyFile # families]
    /\ UNCHANGED <<vars, moved>>

----------------------------------------------------------------------------
\* A step of the runtime or of the deployment, and what it does to the history.
Runtime ==
    /\ Next
    /\ LET replaced == <<disk, familyFile>>' # <<disk, familyFile>>
       IN  /\ draft' = [draft EXCEPT !.stale = @ \/ replaced]
           /\ moved' = (phase' # "down" /\ (moved \/ (phase # "down" /\ replaced)))

GenNext == Runtime \/ \E S \in History, B \in Brain : Generate(S, B)

GenSpec == GenInit /\ [][GenNext]_<<vars, genVars>>

----------------------------------------------------------------------------
(* Properties.                                                             *)

\* What the script leaves to be found at the next start: an unsound input, an
\* entry twice, a released directory without an entry, a descriptor whose own
\* immutable bindings or release pin are not those of the new release.
Unchecked(R) ==
    \/ ~R.sound
    \/ \E i, j \in DOMAIN R.tasks :
         i # j /\ <<R.tasks[i].task, R.tasks[i].revision>> = <<R.tasks[j].task, R.tasks[j].revision>>
    \/ \E t \in Task : disk[t].released /\ \A i \in DOMAIN R.tasks : R.tasks[i].task # t
    \/ \E i \in DOMAIN R.tasks :
         LET p == disk[R.tasks[i].task]
         IN  p.bindings # {} /\ \/ p.bindings # R.tasks[i].bindings
                                \/ p.qrelease \notin {"none", R.qrelease}

\* generate-question-release.py:2, "a fail-closed Task Runtime release join": the
\* manifest it writes is one the runtime starts with, for as long as directories
\* and families stay as they are, but for the inputs it is known not to check.
GeneratedReleaseStarts ==
    draft # NoDraft /\ ~draft.stale =>
        (Consistent(disk, draft.manifest, familyFile) <=> ~Unchecked(draft.manifest))
=============================================================================
