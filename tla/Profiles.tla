------------------------------ MODULE Profiles ------------------------------
(***************************************************************************)
(* Profiles of one owner and one Environment that applies them: mutable    *)
(* Capsule tags, the versions of a Profile, the profile.apply and          *)
(* profile.resolve workflows, the Capsule Locks they create, and the       *)
(* targets in the Environment's guest, which its User may edit.            *)
(*                                                                         *)
(* A step of a workflow is one restate.Run: it is repeated until it is     *)
(* journaled.  An error that is neither classified as permanent nor        *)
(* terminal is retried for ever.  The guest plans, backs up, writes and    *)
(* rolls back one Component after the other, and goes on with a batch      *)
(* whose caller has left.                                                  *)
(***************************************************************************)
EXTENDS Naturals, FiniteSets, Sequences, SequencesExt

CONSTANTS
    None,
    Components, Layers, Edited,   \* Component IDs, their contents, a User's edit
    Capsules, Contents,           \* digests, and the Components under each
    Tags,
    Executables,                  \* Components whose changes need consent
    FirstComposition,             \* the Capsule Refs of the first version
    Compositions,                 \* the Capsule Refs a later one may have
    ProjectCapsule,               \* digest in the first lock
    ApprovalSets,                 \* approvedReviewItems a request may carry
    MaxVersions, MaxOperations, MaxKeys,
    MaxCalls,                     \* batches in the guest at once
    MaxMoves, MaxEdits, MaxFaults, \* tags moved, edits, lost answers and I/O errors
    MaxForeign                    \* locks of other Environments

Operations == 1..MaxOperations
PublicationKeys == 1..MaxKeys
Calls == 1..MaxCalls

(* A Capsule Ref: a tag or an exact digest, its freshness and exclusions.  *)
CapsuleRefs == [name : Tags \cup Capsules, freshness : {"pin", "review", "track"},
                exclusions : SUBSET Components]

ASSUME ContentsAssumption ==
    \A d \in Capsules : /\ DOMAIN Contents[d] \subseteq Components
                        /\ \A c \in DOMAIN Contents[d] : Contents[d][c] \in Layers
ASSUME CompositionsAssumption ==
    Compositions \cup {FirstComposition} \subseteq Seq(CapsuleRefs)
(* The first lock has what the first version names.                        *)
ASSUME FirstAssumption ==
    \A i \in DOMAIN FirstComposition : FirstComposition[i].name \in Capsules
(* An edit makes of a target what no layer holds.                          *)
ASSUME EditedAssumption == Edited \notin Layers \cup {None}
ASSUME BoundsAssumption == MaxOperations \in Nat /\ MaxCalls \in Nat

VARIABLES
    tags,         \* capsule_tags
    versions,     \* profile_versions of the Profile, oldest first
    publications, \* profile_publication_registrations
    locks,        \* capsule_locks of the Environment
    foreign,      \* digests of the capsule_locks of others
    environment,  \* its pin and its environment_materializations
    operations,   \* its profile Operations
    workflows,    \* and their workflows
    targets,      \* what the guest holds for each Component
    calls,        \* the batches in the guest
    strays,       \* Components that a batch without a caller has touched
    moves, edits, faults

storeVars == <<tags, versions, publications, locks, foreign, environment, operations>>
guestVars == <<targets, calls, strays>>
profileVars == <<tags, versions, publications, locks, foreign, environment, operations,
                 workflows, targets, calls, strays, moves, edits, faults>>

----------------------------------------------------------------------------
(* Resolution.                                                             *)

(* Resolver.Resolve: a tag names the digest it points to now.              *)
Resolve(ref) == IF ref.name \in Tags THEN tags[ref.name] ELSE ref.name

(* The Components a source contributes, its exclusions left out.           *)
Contribution(digest, exclusions) ==
    [c \in DOMAIN Contents[digest] \ exclusions |-> Contents[digest][c]]

(* The sources of a version in order, the project Capsule last.  The       *)
(* digest of the empty tree stands for an Environment without one.         *)
SourcesOf(refs, digests, project) ==
    [i \in DOMAIN refs |-> Contribution(digests[i], refs[i].exclusions)]
        \o (IF project \in Capsules THEN <<Contribution(project, {})>> ELSE <<>>)

Contributors(sources, c) == {i \in DOMAIN sources : c \in DOMAIN sources[i]}

(* composeContributions: the resolver leaves contents out, so that two     *)
(* contributions agree only if their digests do.                           *)
ComponentConflict(sources) ==
    \E c \in Components : \E i, j \in Contributors(sources, c) :
        sources[i][c] # sources[j][c]

(* ResolveCapsuleComposition: one layer for every Component there is.      *)
Composition(sources) ==
    [c \in {x \in Components : Contributors(sources, x) # {}} |->
        sources[CHOOSE i \in Contributors(sources, c) : TRUE][c]]

(* CreateCapsuleLock: everything a lock says but its ID is in its digest.  *)
Lock(id, version, project, digests) ==
    [id |-> id, version |-> version, project |-> project, digests |-> digests]
LockDigest(lock) == <<lock.version, lock.project, lock.digests>>
LockSources(lock) == SourcesOf(versions[lock.version].refs, lock.digests, lock.project)
LockComponents(lock) == Composition(LockSources(lock))

LockOf(id) == CHOOSE l \in locks : l.id = id
AtTarget(version, project) == {l \in locks : l.version = version /\ l.project = project}

(* A pin needs an exact digest.                                            *)
PinMoves(refs) == \E i \in DOMAIN refs : refs[i].freshness = "pin" /\ refs[i].name \in Tags

(* Capsules that do not conflict as the tags are now.                      *)
Composable(refs, project) ==
    ~ComponentConflict(SourcesOf(refs, [i \in DOMAIN refs |-> Resolve(refs[i])], project))

(* ResolveManifest: profile.apply fetches the project Capsule of the       *)
(* previous lock like any other, the placeholder of an Environment without *)
(* one too, which the store does not have.                                 *)
Resolvable(refs, project) == project \in Capsules /\ Composable(refs, project)

(* Review refs whose digest is not the one of the pinned lock.             *)
DiffSinceLastApproval(refs, digests, pinned) ==
    LET before == versions[pinned.version].refs
        approved(name) == {pinned.digests[i] : i \in {j \in DOMAIN before : before[j].name = name}}
    IN  {refs[i].name : i \in {j \in DOMAIN refs : /\ refs[j].freshness = "review"
                                                   /\ digests[j] \notin approved(refs[j].name)}}

missingReviewApprovals(refs, digests, pinned, approved) ==
    DiffSinceLastApproval(refs, digests, pinned) \ approved

----------------------------------------------------------------------------
(* The guest.                                                              *)

(* resolvedComponentContent: a Component with several sources must be a    *)
(* config whose merge has the digest of the lock; a layer's digest is the  *)
(* one of its archive, which no merge has.                                 *)
ContentInvalid(lock) ==
    \E c \in Components : Cardinality(Contributors(LockSources(lock), c)) > 1

(* prepareProfileMaterialization: a target must hold what was recorded.    *)
ObservationChanged(lock, installed) ==
    \E c \in Components : /\ targets[c] # installed[c]
                          /\ c \in DOMAIN LockComponents(lock) \/ installed[c] # None

(* Components that change, and need the consent of an approval marker.     *)
Transitions(lock, installed) ==
    LET desired == LockComponents(lock)
    IN  {c \in DOMAIN desired : desired[c] # installed[c]}
RequiresInput(lock, installed, approved) ==
    \E c \in Transitions(lock, installed) \cap Executables : c \notin approved

Blocked(lock, installed, approved) ==
    \/ ContentInvalid(lock)
    \/ ObservationChanged(lock, installed)
    \/ RequiresInput(lock, installed, approved)

(* validateEnvironmentMaterializationResults: an orphan is a result too    *)
(* many, and an approved Component is still one that requires approval.    *)
ResultsConverge(lock, installed) ==
    /\ \A c \in Components : installed[c] # None => c \in DOMAIN LockComponents(lock)
    /\ Transitions(lock, installed) \cap Executables = {}

----------------------------------------------------------------------------
(* Tags and versions.                                                      *)

Workflow == [pc : {"none", "record", "load", "resolve", "lock", "materialize", "persist",
                   "complete", "fail", "succeeded", "failed"},
             pinned : 0..MaxOperations, installed : [Components -> Layers \cup {None}],
             digests : Seq(Capsules), call : 0..MaxCalls, lost : BOOLEAN]

(* A batch: whose it is, what its plan saw, its backups, what it has       *)
(* written and restored, and what was edited since the backups.            *)
Held == Layers \cup {Edited, None}
Call == [op : 0..MaxOperations, pc : {"none", "snapshot", "observe", "write", "rollback"},
         seen : [Components -> Held], backups : [Components -> Held],
         written : SUBSET Components, restored : SUBSET Components, item : Components \cup {None},
         overtaken : SUBSET Components, outcome : {"done", "blocked", "error"}]

NoCall == [op |-> 0, pc |-> "none", seen |-> [c \in Components |-> None],
           backups |-> [c \in Components |-> None], written |-> {}, restored |-> {}, item |-> None,
           overtaken |-> {}, outcome |-> "done"]

InitialInstalled(components) ==
    [c \in Components |-> IF c \in DOMAIN components THEN components[c] ELSE None]

(* An Environment that environment.create made from the first version.     *)
ProfileInit ==
    /\ tags \in [Tags -> Capsules]
    /\ versions = <<[refs |-> FirstComposition, parent |-> 0]>>
    /\ publications = [k \in PublicationKeys |-> [input |-> None, version |-> 0]]
    /\ locks = {Lock(0, 1, ProjectCapsule, [i \in DOMAIN FirstComposition |-> FirstComposition[i].name])}
    /\ environment = [version |-> 1, lock |-> 0,
                      installed |-> InitialInstalled(LockComponents(LockOf(0)))]
    /\ operations = [o \in Operations |-> [kind |-> "none", version |-> 0, approved |-> {}, status |-> "none"]]
    /\ workflows = [o \in Operations |-> [pc |-> "none", pinned |-> 0, digests |-> <<>>, call |-> 0, lost |-> FALSE,
                                          installed |-> [c \in Components |-> None]]]
    /\ targets = environment.installed /\ calls = [k \in Calls |-> NoCall]
    /\ foreign = {} /\ strays = {}
    /\ moves = 0 /\ edits = 0 /\ faults = 0

(* Store.PutCapsuleTag.                                                    *)
PutCapsuleTag ==
    /\ moves < MaxMoves /\ moves' = moves + 1
    /\ \E t \in Tags, d \in Capsules : d # tags[t] /\ tags' = [tags EXCEPT ![t] = d]
    /\ UNCHANGED <<versions, publications, locks, foreign, environment, operations, workflows,
                   targets, calls, strays, edits, faults>>

(* publishProfileVersion: the parent of a version is the head it extends.  *)
NextParent == Len(versions)

(* Profile.PublishVersion: the publisher must have seen the head.          *)
ExpectsHead(expected) == expected = Len(versions)

(* Store.PublishProfileVersion: a key that is known replays its version or *)
(* conflicts, and changes nothing; keys are numbered as they are first     *)
(* used.                                                                   *)
PublishProfileVersion ==
    /\ Len(versions) < MaxVersions
    /\ \E k \in PublicationKeys, expected \in DOMAIN versions, refs \in Compositions :
          /\ publications[k].input = None
          /\ \A j \in 1..(k - 1) : publications[j].input # None
          /\ ExpectsHead(expected)
          /\ versions' = Append(versions, [refs |-> refs, parent |-> NextParent])
          /\ publications' = [publications EXCEPT ![k] =
                [input |-> [expected |-> expected, refs |-> refs], version |-> Len(versions) + 1]]
    /\ UNCHANGED <<tags, locks, foreign, environment, operations, workflows,
                   targets, calls, strays, moves, edits, faults>>

(* Another Environment of the owner is locked to a version: the digest of a *)
(* lock does not name its Environment.                                     *)
LockElsewhere ==
    /\ Cardinality(foreign) < MaxForeign
    /\ \E v \in DOMAIN versions :
          LET refs == versions[v].refs
              lock == Lock(0, v, ProjectCapsule, [i \in DOMAIN refs |-> Resolve(refs[i])])
          IN  /\ refs # <<>> /\ \A l \in locks : LockDigest(l) # LockDigest(lock)
              /\ foreign' = foreign \cup {LockDigest(lock)}
    /\ UNCHANGED <<tags, versions, publications, locks, environment, operations, workflows,
                   targets, calls, strays, moves, edits, faults>>

----------------------------------------------------------------------------
(* The workflows.                                                          *)

Active == \E o \in Operations : operations[o].status \in {"queued", "running"}
Unused(o) == workflows[o].pc = "none" /\ \A p \in 1..(o - 1) : workflows[p].pc # "none"
At(o, kind, pc) == operations[o].kind = kind /\ workflows[o].pc = pc
Goto(o, pc) == workflows' = [workflows EXCEPT ![o].pc = pc]
ProjectOf(o) == LockOf(workflows[o].pinned).project
RefsOf(o) == versions[operations[o].version].refs
Candidate(o) == Lock(o, operations[o].version, ProjectOf(o), workflows[o].digests)

unchangedProfiles == UNCHANGED <<tags, versions, publications, foreign, moves, edits>>

(* The answer of a step is journaled, or the step will be run again.       *)
Journaled(o, next) ==
    \/ Goto(o, next) /\ UNCHANGED faults
    \/ faults < MaxFaults /\ faults' = faults + 1 /\ UNCHANGED workflows

(* ApplyProfile: one active Operation per Environment.                     *)
ApplyProfile ==
    /\ ~Active
    /\ \E o \in Operations, v \in DOMAIN versions, a \in ApprovalSets :
          /\ Unused(o) /\ Goto(o, "load")
          /\ operations' = [operations EXCEPT ![o] =
                [kind |-> "apply", version |-> v, approved |-> a, status |-> "queued"]]
    /\ unchangedProfiles /\ UNCHANGED <<locks, environment, guestVars, faults>>

(* LoadProfileApplyOperation: the pin and the Materializations as they are.*)
LoadProfileApplyOperation(o) ==
    /\ At(o, "apply", "load")
    /\ operations' = [operations EXCEPT ![o].status = "running"]
    /\ workflows' = [workflows EXCEPT ![o].pc = "resolve", ![o].pinned = environment.lock,
                                      ![o].installed = environment.installed]
    /\ unchangedProfiles /\ UNCHANGED <<locks, environment, guestVars, faults>>

(* resolve-profile-version and what is decided on its answer: a pin that   *)
(* moves and a missing review fail; what cannot be resolved is retried.    *)
ResolveProfileVersion(o) ==
    LET digests == [i \in DOMAIN RefsOf(o) |-> Resolve(RefsOf(o)[i])]
    IN  /\ At(o, "apply", "resolve")
        /\ PinMoves(RefsOf(o)) \/ Resolvable(RefsOf(o), ProjectOf(o))
        /\ IF \/ PinMoves(RefsOf(o))
              \/ missingReviewApprovals(RefsOf(o), digests, LockOf(workflows[o].pinned),
                                        operations[o].approved) # {}
           THEN Goto(o, "fail")
           ELSE workflows' = [workflows EXCEPT ![o].pc = "lock", ![o].digests = digests]
        /\ unchangedProfiles /\ UNCHANGED <<locks, environment, operations, guestVars, faults>>

(* create-candidate-lock: a lock without Capsules is an error, which is    *)
(* retried for ever.                                                       *)
CreateCandidateLock(o) ==
    /\ At(o, "apply", "lock")
    /\ RefsOf(o) # <<>>
    /\ Goto(o, "materialize")
    /\ unchangedProfiles /\ UNCHANGED <<locks, environment, operations, guestVars, faults>>

Fault == faults < MaxFaults /\ faults' = faults + 1

(* A read of the poll: the guest plans the batch as its targets are, or    *)
(* refuses it, which is final; or the request is lost.                     *)
EnsureEnvironmentCapsuleMaterialized(o) ==
    /\ At(o, "apply", "materialize") /\ workflows[o].call = 0
    /\ \/ /\ Blocked(Candidate(o), workflows[o].installed, operations[o].approved)
          /\ Goto(o, "fail")
          /\ UNCHANGED <<calls, faults>>
       \/ /\ ~Blocked(Candidate(o), workflows[o].installed, operations[o].approved)
          /\ \E k \in Calls :
                /\ calls[k].pc = "none" /\ \A j \in 1..(k - 1) : calls[j].pc # "none"
                /\ calls' = [calls EXCEPT ![k] = [NoCall EXCEPT !.op = o, !.pc = "snapshot", !.seen = targets]]
                /\ workflows' = [workflows EXCEPT ![o].call = k]
          /\ UNCHANGED faults
       \/ /\ workflows' = [workflows EXCEPT ![o].lost = TRUE]
          /\ Fault /\ UNCHANGED calls
    /\ unchangedProfiles /\ UNCHANGED <<locks, environment, operations, targets, strays>>

(* The connection or the workflow's process is gone: the guest goes on.    *)
LoseAnswer(o) ==
    /\ At(o, "apply", "materialize") /\ workflows[o].call # 0
    /\ workflows' = [workflows EXCEPT ![o].call = 0, ![o].lost = TRUE]
    /\ Fault
    /\ unchangedProfiles /\ UNCHANGED <<locks, environment, operations, guestVars>>

----------------------------------------------------------------------------
(* A batch in the guest.                                                   *)

Changes(k) == Transitions(Candidate(calls[k].op), workflows[calls[k].op].installed)
Awaited(k) == \E o \in Operations : workflows[o].call = k
Desired(k) == LockComponents(Candidate(calls[k].op))

(* Component c gets a content, in a batch that somebody waits for or not.  *)
Put(k, c, content) ==
    /\ targets' = [targets EXCEPT ![c] = content]
    /\ strays' = IF Awaited(k) THEN strays ELSE strays \cup {c}

(* What the other batches backed up is no longer what is there.            *)
Overtaken(c) ==
    [j \in Calls |-> IF calls[j].pc \in {"observe", "write", "rollback"} /\ c \in Changes(j)
                     THEN [calls[j] EXCEPT !.overtaken = @ \cup {c}] ELSE calls[j]]

unchangedOutside == UNCHANGED <<storeVars, moves, edits>>

(* snapshotMaterializationPlans: every target that will change.            *)
SnapshotBatch(k) ==
    /\ calls[k].pc = "snapshot"
    /\ calls' = [calls EXCEPT ![k].pc = "observe",
                     ![k].backups = [c \in Components |-> IF c \in Changes(k) THEN targets[c] ELSE None]]
    /\ unchangedOutside /\ UNCHANGED <<workflows, targets, strays, faults>>

(* Mutant: what was planned is written, whatever is there now.             *)
WritesPlanned(k, c) == TRUE

HoldsPlanned(k, c) == targets[c] = calls[k].seen[c]

(* plan.apply: a target that is not what was planned ends the batch.       *)
ObserveItem(k) ==
    /\ calls[k].pc = "observe"
    /\ \E c \in Changes(k) \ calls[k].written :
          calls' = IF HoldsPlanned(k, c)
                   THEN [calls EXCEPT ![k].pc = "write", ![k].item = c]
                   ELSE [calls EXCEPT ![k].pc = "rollback", ![k].outcome = "blocked"]
    /\ unchangedOutside /\ UNCHANGED <<workflows, targets, strays, faults>>

(* writeMaterializedFile: a new file is renamed into place, or an error    *)
(* leaves what is there.                                                   *)
WriteItem(k) ==
    LET c == calls[k].item IN
    /\ calls[k].pc = "write"
    /\ \/ /\ Put(k, c, Desired(k)[c])
          /\ calls' = [calls EXCEPT ![k].pc = "observe", ![k].item = None, ![k].written = @ \cup {c}]
          /\ UNCHANGED faults
       \/ /\ calls' = [calls EXCEPT ![k].pc = "rollback", ![k].item = None, ![k].outcome = "error"]
          /\ Fault /\ UNCHANGED <<targets, strays>>
    /\ unchangedOutside /\ UNCHANGED workflows

(* rollbackMaterializations: every backup is restored, also of a target    *)
(* that was not written; a restore that fails has removed its target.      *)
RestoreBackup(k) ==
    /\ calls[k].pc = "rollback"
    /\ \E c \in Changes(k) \ calls[k].restored :
          LET others == IF calls[k].backups[c] = Edited THEN Overtaken(c) ELSE calls IN
          \/ /\ Put(k, c, calls[k].backups[c])
             /\ calls' = [others EXCEPT ![k].restored = @ \cup {c}]
             /\ UNCHANGED faults
          \/ /\ Put(k, c, None)
             /\ calls' = [calls EXCEPT ![k].restored = @ \cup {c}]
             /\ Fault
    /\ unchangedOutside /\ UNCHANGED workflows

BatchIsOver(k) ==
    \/ calls[k].pc = "observe" /\ Changes(k) = calls[k].written
    \/ calls[k].pc = "rollback" /\ Changes(k) = calls[k].restored

(* The answer: results that are validated, a refusal that is final, or an  *)
(* error, after which the poll goes on.                                    *)
AnswerBatch(k) ==
    /\ BatchIsOver(k)
    /\ calls' = [calls EXCEPT ![k] = NoCall]
    /\ workflows' = [o \in Operations |->
          IF workflows[o].call # k THEN workflows[o]
          ELSE [workflows[o] EXCEPT !.call = 0, !.lost = @ \/ calls[k].outcome = "error",
                   !.pc = CASE calls[k].outcome = "error" -> @
                            [] calls[k].outcome = "blocked" -> "fail"
                            [] OTHER -> IF ResultsConverge(Candidate(o), workflows[o].installed)
                                        THEN "complete" ELSE "fail"]]
    /\ unchangedOutside /\ UNCHANGED <<targets, strays, faults>>

GuestStep(k) ==
    \/ SnapshotBatch(k) \/ ObserveItem(k) \/ WriteItem(k) \/ RestoreBackup(k) \/ AnswerBatch(k)

(* The User edits a target in the guest.                                   *)
EditTarget ==
    /\ edits < MaxEdits /\ edits' = edits + 1
    /\ \E c \in Components :
          /\ targets[c] # Edited
          /\ targets' = [targets EXCEPT ![c] = Edited]
          /\ calls' = Overtaken(c)
    /\ UNCHANGED <<storeVars, workflows, strays, moves, faults>>

----------------------------------------------------------------------------
(* The rest of the workflows.                                              *)

(* Mutant: a poll that runs out of time counts as done.                    *)
DeadlineCompletes == "complete"

DeadlineOutcome == "fail"

(* The deadline of the poll passes after reads that failed.                *)
MaterializationTimesOut(o) ==
    /\ At(o, "apply", "materialize") /\ workflows[o].call = 0 /\ workflows[o].lost
    /\ Goto(o, DeadlineOutcome)
    /\ unchangedProfiles /\ UNCHANGED <<locks, environment, operations, guestVars, faults>>

(* Mutant: a lock of the same target with other contents is inserted too.  *)
InsertsAnyway(lock) == TRUE

(* PersistCapsuleLock: a target has one lock, which a replay must match.   *)
Persistable(lock) ==
    \A l \in AtTarget(lock.version, lock.project) : LockDigest(l) = LockDigest(lock)

(* capsule_locks_digest_key: the digest of a lock to insert is taken by    *)
(* another Environment.                                                    *)
DigestIsTaken(lock) == AtTarget(lock.version, lock.project) = {} /\ LockDigest(lock) \in foreign

PersistedId(lock) ==
    IF \E l \in AtTarget(lock.version, lock.project) : LockDigest(l) = LockDigest(lock)
    THEN (CHOOSE l \in AtTarget(lock.version, lock.project) : LockDigest(l) = LockDigest(lock)).id
    ELSE lock.id

(* The records of a lock: one for every Component it has.                  *)
InstalledBy(lock) == InitialInstalled(LockComponents(lock))

(* CompleteProfileApply: an Operation that has ended replays if its lock   *)
(* is still pinned; the pin must be the one the workflow loaded, and the   *)
(* records carry the ID of the candidate, so that a lock of the target     *)
(* with another ID refuses them.  A digest that is taken is an error of    *)
(* the database, which is retried for ever.                                *)
CompleteProfileApply(o) ==
    LET lock == Candidate(o) IN
    /\ At(o, "apply", "complete")
    /\ CASE operations[o].status = "succeeded" ->
              /\ Goto(o, IF environment.lock = o THEN "succeeded" ELSE "fail")
              /\ UNCHANGED <<locks, environment, operations, faults>>
         [] operations[o].status = "running" /\ environment.lock = workflows[o].pinned
            /\ Persistable(lock) /\ PersistedId(lock) = o ->
              /\ ~DigestIsTaken(lock)
              /\ locks' = locks \cup {lock}
              /\ environment' = [version |-> lock.version, lock |-> o, installed |-> InstalledBy(lock)]
              /\ operations' = [operations EXCEPT ![o].status = "succeeded"]
              /\ Journaled(o, "succeeded")
         [] OTHER ->
              /\ Goto(o, "fail")
              /\ UNCHANGED <<locks, environment, operations, faults>>
    /\ unchangedProfiles /\ UNCHANGED guestVars

(* Mutant: the workflow ends and its Operation is left as it is.           *)
FailureStays(o) ==
    /\ At(o, "apply", "fail")
    /\ Goto(o, "failed")
    /\ unchangedProfiles /\ UNCHANGED <<operations, locks, environment, guestVars, faults>>

(* RecordProfileApplyFailure: an Operation that succeeded is left alone.   *)
RecordProfileApplyFailure(o) ==
    /\ At(o, "apply", "fail")
    /\ operations' = [operations EXCEPT ![o].status =
                          IF @ \in {"queued", "running"} THEN "failed" ELSE @]
    /\ Journaled(o, "failed")
    /\ unchangedProfiles /\ UNCHANGED <<locks, environment, guestVars>>

(* profile.resolve is invoked at the workflow service itself.              *)
SendProfileResolve ==
    /\ \E o \in Operations, v \in DOMAIN versions :
          /\ Unused(o) /\ Goto(o, "record")
          /\ operations' = [operations EXCEPT ![o].kind = "resolve", ![o].version = v]
    /\ unchangedProfiles /\ UNCHANGED <<locks, environment, guestVars, faults>>

(* RecordProfileResolveInvocation inserts the Operation, once no other is  *)
(* active in the Environment; then the version and the pin are loaded.     *)
RecordProfileResolveInvocation(o) ==
    /\ At(o, "resolve", "record")
    /\ ~Active
    /\ operations' = [operations EXCEPT ![o].status = "queued"]
    /\ workflows' = [workflows EXCEPT ![o].pc = "resolve", ![o].pinned = environment.lock]
    /\ unchangedProfiles /\ UNCHANGED <<locks, environment, guestVars, faults>>

(* The request names the project Capsule or leaves it out.  A terminal     *)
(* error ends the workflow and leaves its Operation queued.                *)
ResolveCapsules(o) ==
    /\ At(o, "resolve", "resolve")
    /\ PinMoves(RefsOf(o)) \/ Composable(RefsOf(o), ProjectOf(o))
    /\ IF PinMoves(RefsOf(o))
       THEN Goto(o, "failed")
       ELSE workflows' = [workflows EXCEPT ![o].pc = "persist",
                ![o].digests = [i \in DOMAIN RefsOf(o) |-> Resolve(RefsOf(o)[i])]]
    /\ unchangedProfiles /\ UNCHANGED <<locks, environment, operations, guestVars, faults>>

(* create-lock and persist-lock: no step of profile.resolve classifies its *)
(* errors before it returns, so that a lock without Capsules, a target     *)
(* with other contents and a digest that is taken are retried for ever.    *)
PersistCapsuleLock(o) ==
    LET lock == Candidate(o) IN
    /\ At(o, "resolve", "persist")
    /\ RefsOf(o) # <<>> /\ Persistable(lock) /\ ~DigestIsTaken(lock)
    /\ locks' = IF PersistedId(lock) = o THEN locks \cup {lock} ELSE locks
    /\ Journaled(o, "complete")
    /\ unchangedProfiles /\ UNCHANGED <<environment, operations, guestVars>>

CompleteProfileResolve(o) ==
    /\ At(o, "resolve", "complete")
    /\ operations' = [operations EXCEPT ![o].status = "succeeded"]
    /\ Journaled(o, "succeeded")
    /\ unchangedProfiles /\ UNCHANGED <<locks, environment, guestVars>>

WorkflowStep(o) ==
    \/ LoadProfileApplyOperation(o) \/ ResolveProfileVersion(o) \/ CreateCandidateLock(o)
    \/ EnsureEnvironmentCapsuleMaterialized(o) \/ LoseAnswer(o) \/ MaterializationTimesOut(o)
    \/ CompleteProfileApply(o) \/ RecordProfileApplyFailure(o)
    \/ RecordProfileResolveInvocation(o) \/ ResolveCapsules(o)
    \/ PersistCapsuleLock(o) \/ CompleteProfileResolve(o)

ProfileNext ==
    \/ PutCapsuleTag \/ PublishProfileVersion \/ LockElsewhere \/ EditTarget
    \/ ApplyProfile \/ SendProfileResolve
    \/ \E o \in Operations : WorkflowStep(o)
    \/ \E k \in Calls : GuestStep(k)

(* Restate runs a workflow until it ends, and the guest a batch.           *)
ProfileFairness ==
    /\ \A o \in Operations : WF_profileVars(WorkflowStep(o))
    /\ \A k \in Calls : WF_profileVars(GuestStep(k))

ProfileSpec == ProfileInit /\ [][ProfileNext]_profileVars /\ ProfileFairness

----------------------------------------------------------------------------
(* Properties.                                                             *)

(* Every row, workflow and target is of its type: the tables the store     *)
(* reads and the journal of each workflow.                                 *)
ProfileTypeOK ==
    /\ tags \in [Tags -> Capsules]
    /\ \A i \in DOMAIN versions : versions[i].parent = i - 1
    /\ \A l \in locks : l.version \in DOMAIN versions /\ l.id \in 0..MaxOperations
    /\ environment.lock \in {l.id : l \in locks}
    /\ environment.installed \in [Components -> Layers \cup {None}]
    /\ \A o \in Operations : workflows[o] \in Workflow
    /\ targets \in [Components -> Held] /\ calls \in [Calls -> Call] /\ strays \subseteq Components

(* CompleteProfileApply: the pinned version, the pinned lock and the       *)
(* recorded Materializations always belong together, and no two locks of a *)
(* target say different things.                                            *)
PinIsWhole ==
    /\ environment.version = LockOf(environment.lock).version
    /\ environment.installed = InstalledBy(LockOf(environment.lock))
    /\ \A l, m \in locks : l.version = m.version /\ l.project = m.project => l = m

(* profile.apply: a lock becomes the pin only when the guest holds every   *)
(* Component of it, except what the User has edited and what a batch       *)
(* without a caller has touched, and only if what it changes under a       *)
(* review ref was approved by ref (missingReviewApprovals).                *)
PinIsEarned ==
    [][environment'.lock # environment.lock =>
          /\ \A c \in Components : \/ environment'.installed[c] = None
                                   \/ targets[c] \in {environment'.installed[c], Edited}
                                   \/ c \in strays
          /\ \A o \in Operations : environment'.lock = o =>
                DiffSinceLastApproval(RefsOf(o), workflows[o].digests, LockOf(environment.lock))
                    \subseteq operations[o].approved]_profileVars

(* ApplyProfileMaterializations: what the User made of a target is         *)
(* overwritten only by a batch that had its backups when the edit was made *)
(* (or another rollback brought it back), or lost to a restore that fails. *)
EditsStay ==
    [][\A c \in Components : targets[c] = Edited =>
          \/ targets'[c] = Edited
          \/ \E k \in Calls : c \in calls[k].overtaken
          \/ faults' > faults]_profileVars

(* The errors of profile.apply that are retried for ever: a version that   *)
(* cannot be resolved, a lock without Capsules, a digest that another      *)
(* Environment's lock has.                                                 *)
ApplyIsHeld(o) ==
    \/ At(o, "apply", "resolve") /\ ~Resolvable(RefsOf(o), ProjectOf(o))
    \/ At(o, "apply", "lock") /\ RefsOf(o) = <<>>
    \/ At(o, "apply", "complete") /\ DigestIsTaken(Candidate(o))

(* profile.apply: an Operation ends, through lost answers, I/O errors and  *)
(* edits, unless one of these errors holds it.                             *)
AppliesEnd ==
    \A o \in Operations :
        (operations[o].kind = "apply") ~>
            operations[o].status \in {"succeeded", "failed"} \/ ApplyIsHeld(o)
=============================================================================
