---------------------------- MODULE GuestControl ----------------------------
(***************************************************************************)
(* The guest supervisor of one Runtime: its boot on a durable Data Volume, *)
(* the control server, which counts mutations but does not serialize them, *)
(* the Project Seed, the batches of Materializations with their rollback,  *)
(* and the preparation of a shutdown.                                      *)
(*                                                                         *)
(* What the guest keeps in memory is lost when it stops; what is on disk   *)
(* stays.  The User works in the workspace and edits targets meanwhile.    *)
(***************************************************************************)
EXTENDS Naturals, FiniteSets, Sequences

CONSTANTS
    None, ImageKey,     \* no key, and the one a new system disk has
    BatchSize, FileOf,  \* items of a batch, and the file each is part of
    Requests,           \* slots for requests of the control plane
    Kinds,              \* the kinds of request that are sent
    MaxStops,           \* crashes, stops and restarts of the guest
    MaxEdits, MaxFaults \* edits by the User, operations that fail

ASSUME BatchAssumption == BatchSize \in Nat \ {0} /\ DOMAIN FileOf = 1..BatchSize
ASSUME KindsAssumption == Kinds \subseteq {"seed", "identity", "materialize", "managed", "shutdown"}
ASSUME GuestAssumption == IsFiniteSet(Requests) /\ MaxStops \in Nat /\ MaxEdits \in Nat /\ MaxFaults \in Nat

VARIABLES
    guest,      \* the supervisor's memory
    disk,       \* the Data Volume, and the key on the system disk
    targets,    \* what the selection of each item holds
    requests,
    stops, edits, faults

guestVars == <<guest, disk, targets, requests, stops, edits, faults>>

Items == 1..BatchSize

(* A target holds what was recorded, what the batch desires or an edit, or *)
(* its file is gone.                                                       *)
TargetContents == {"recorded", "desired", "edited", "removed"}
HostKeys == 0..MaxStops

(* readinessOrder, with 0 for a supervisor that does not run.              *)
DataMounted == 2
SSHReady == 3
ProjectReady == 4
AgentsValidated == 5

Down == [phase |-> "down", level |-> 0, key |-> None, quiescing |-> FALSE, inFlight |-> 0, applied |-> FALSE]
Unsent == [kind |-> "none", pc |-> "none", index |-> 0, observed |-> <<>>, backups |-> <<>>]

GuestInit ==
    /\ guest = Down
    /\ disk = [identity |-> None, sshd |-> ImageKey, workspace |-> "absent", private |-> TRUE, staging |-> {}]
    /\ targets = [i \in Items |-> "recorded"]
    /\ requests = [r \in Requests |-> Unsent]
    /\ stops = 0 /\ edits = 0 /\ faults = 0

----------------------------------------------------------------------------
(* Boot: run of cmd/guest.                                                 *)

(* validateStateRootEntries: the root of the volume has no other entries.  *)
StateRootIsValid == disk.staging = {}

(* ensureSecureDirectory: a directory that is missing is made, one that is *)
(* there must be open to its owner only.  The User owns the workspace.     *)
LayoutIsUsable == disk.workspace = "absent" \/ disk.private

(* BootstrapPersistentState, and the first levels of readiness; the volume *)
(* is the one it was bound to.                                             *)
BootstrapPersistentState ==
    /\ guest.phase = "down"
    /\ StateRootIsValid /\ LayoutIsUsable
    /\ disk' = [disk EXCEPT !.workspace = IF @ = "absent" THEN "empty" ELSE @, !.private = TRUE]
    /\ guest' = [guest EXCEPT !.phase = "mounted", !.level = DataMounted]
    /\ UNCHANGED <<targets, requests, stops, edits, faults>>

(* The durable identity is missing.                                        *)
IdentityIsMissing == disk.identity = None

(* ReconcileSSHHostIdentity: the identity is generated once and published  *)
(* with a rename.                                                          *)
PersistHostIdentity ==
    /\ guest.phase = "mounted"
    /\ disk' = IF IdentityIsMissing THEN [disk EXCEPT !.identity = stops] ELSE disk
    /\ guest' = [guest EXCEPT !.phase = "identified"]
    /\ UNCHANGED <<targets, requests, stops, edits, faults>>

(* Reporter.Advance after LocalOperations.advance: one level at a time.    *)
Advanced(level) == IF guest.level + 1 = level THEN level ELSE guest.level

(* replaceAtomicFile: sshd gets the durable key.                           *)
MaterializedHostKey == disk.identity

(* ActivateAndVerify: sshd is reloaded and must answer with the key.       *)
ActivateHostIdentity ==
    /\ disk' = [disk EXCEPT !.sshd = MaterializedHostKey]
    /\ guest' = [guest EXCEPT !.key = MaterializedHostKey, !.level = Advanced(SSHReady), !.phase = "serving"]

(* The identity is restored before the control server is constructed.      *)
RestoreSSHHostIdentity ==
    /\ guest.phase = "identified"
    /\ ActivateHostIdentity
    /\ UNCHANGED <<targets, requests, stops, edits, faults>>

(* The guest crashes or is stopped: its handlers are gone, and what they   *)
(* had on disk stays.  It comes back with its system disk or a new one.    *)
Stop ==
    /\ guest.phase # "down" /\ stops < MaxStops /\ stops' = stops + 1
    /\ guest' = Down
    /\ \E system \in {disk.sshd, ImageKey} : disk' = [disk EXCEPT !.sshd = system]
    /\ requests' = [r \in Requests |->
                       IF requests[r].pc = "none" THEN Unsent ELSE [Unsent EXCEPT !.pc = "over"]]
    /\ UNCHANGED <<targets, edits, faults>>

----------------------------------------------------------------------------
(* The control server.                                                     *)

Mutating == {"seed", "identity", "materialize", "managed"}
Running == {"prepare", "stage", "publish", "restore", "plan", "snapshot", "observe", "write",
            "rollback", "advance"}
FirstStep == [seed |-> "prepare", identity |-> "restore", materialize |-> "plan", managed |-> "plan"]

Goto(r, pc) == requests' = [requests EXCEPT ![r].pc = pc]
unchangedGuest == UNCHANGED <<stops, edits, faults>>

(* ServeHTTP: a mutation is refused while the guest is quiescing.  Slots   *)
(* are used in order.                                                      *)
ServeHTTP(r) ==
    /\ guest.phase = "serving" /\ requests[r].pc = "none"
    /\ \A q \in Requests : q < r => requests[q].pc # "none"
    /\ \E kind \in Kinds :
          requests' = [requests EXCEPT ![r].kind = kind,
                          ![r].pc = IF kind \in Mutating /\ guest.quiescing THEN "refused" ELSE "admitted"]
    /\ UNCHANGED <<guest, disk, targets>> /\ unchangedGuest

(* Mutant: what ServeHTTP found is not tested again under the lock.        *)
BeginsUnchecked == TRUE

MayBegin == ~guest.quiescing

beginMutation(r) ==
    /\ requests[r].pc = "admitted" /\ requests[r].kind \in Mutating
    /\ IF MayBegin
       THEN /\ guest' = [guest EXCEPT !.inFlight = @ + 1]
            /\ Goto(r, FirstStep[requests[r].kind])
       ELSE Goto(r, "refused") /\ UNCHANGED guest
    /\ UNCHANGED <<disk, targets>> /\ unchangedGuest

endMutation(g) == [g EXCEPT !.inFlight = @ - 1]

(* A handler answers, and endMutation runs as it returns.                  *)
Answer(r, outcome) == guest' = endMutation(guest) /\ Goto(r, outcome)

(* An operation of the file system or of git fails.                        *)
Fault == faults < MaxFaults /\ faults' = faults + 1 /\ UNCHANGED <<stops, edits>>

(* canAdvance: the level before is there.                                  *)
CanAdvance(level) == guest.level + 1 >= level

Advance(r) ==
    /\ requests[r].pc = "advance"
    /\ LET level == IF requests[r].kind = "seed" THEN ProjectReady ELSE AgentsValidated
       IN  guest' = endMutation([guest EXCEPT !.level = Advanced(level), !.applied = @ \/ level = AgentsValidated])
    /\ Goto(r, "done")
    /\ UNCHANGED <<disk, targets>> /\ unchangedGuest

(* The identity once more, on request.                                     *)
RestoreOnRequest(r) ==
    /\ requests[r].pc = "restore"
    /\ disk' = [disk EXCEPT !.sshd = MaterializedHostKey]
    /\ guest' = endMutation([guest EXCEPT !.key = MaterializedHostKey])
    /\ Goto(r, "done")
    /\ UNCHANGED targets /\ unchangedGuest

----------------------------------------------------------------------------
(* The Project Seed.                                                       *)

(* replayed: the marker of this Seed is in the workspace.                  *)
Replayed == disk.workspace \in {"seeded", "worked"}

(* prepareWorkspace: the empty directory of the bootstrap is removed, and  *)
(* any other content without the marker refuses the Seed for good.         *)
PrepareWorkspace(r) ==
    /\ requests[r].pc = "prepare"
    /\ IF Replayed THEN Goto(r, "advance") /\ UNCHANGED <<guest, disk>>
       ELSE IF disk.workspace = "foreign" THEN Answer(r, "failed") /\ UNCHANGED disk
       ELSE /\ Goto(r, "stage")
            /\ disk' = [disk EXCEPT !.workspace = "absent"]
            /\ UNCHANGED guest
    /\ UNCHANGED targets /\ unchangedGuest

(* A directory beside the workspace takes the clone, the bundle, the patch,*)
(* the untracked files and the marker; it is removed if one of them fails. *)
StageSeed(r) ==
    /\ requests[r].pc = "stage"
    /\ \/ /\ disk' = [disk EXCEPT !.staging = @ \cup {r}]
          /\ Goto(r, "publish")
          /\ UNCHANGED guest /\ unchangedGuest
       \/ Answer(r, "failed") /\ UNCHANGED disk /\ Fault
    /\ UNCHANGED targets

(* Mutant: the rename replaces what is there.                              *)
RenameReplaces == TRUE

(* RENAME_NOREPLACE.                                                       *)
MayRename == disk.workspace = "absent"

PublishSeed(r) ==
    /\ requests[r].pc = "publish"
    /\ disk' = [disk EXCEPT !.staging = @ \ {r}, !.workspace = IF MayRename THEN "seeded" ELSE @,
                            !.private = @ \/ MayRename]
    /\ IF MayRename \/ Replayed THEN Goto(r, "advance") /\ UNCHANGED guest
       ELSE Answer(r, "failed")
    /\ UNCHANGED targets /\ unchangedGuest

----------------------------------------------------------------------------
(* A batch of Materializations.                                            *)

(* recordMaterializationOwnership: items may share a file, each with its   *)
(* own selection.                                                          *)
SameFile(i, j) == FileOf[i] = FileOf[j]

(* observeMaterialization: what the file has under the item's selector.    *)
Observed(i) == targets[i]

(* prepareProfileMaterialization for every item: the level must allow the  *)
(* Lock, and every target must hold what was recorded.                     *)
PlanBatch(r) ==
    /\ requests[r].pc = "plan"
    /\ IF /\ requests[r].kind = "materialize" => CanAdvance(AgentsValidated)
          /\ \A i \in Items : Observed(i) = "recorded"
       THEN requests' = [requests EXCEPT ![r].pc = "snapshot", ![r].observed = targets] /\ UNCHANGED guest
       ELSE Answer(r, "blocked")
    /\ UNCHANGED <<disk, targets>> /\ unchangedGuest

(* snapshotMaterializationPlans: a backup of every file of the batch.      *)
SnapshotBatch(r) ==
    /\ requests[r].pc = "snapshot"
    /\ requests' = [requests EXCEPT ![r].pc = "observe", ![r].index = 1, ![r].backups = targets]
    /\ UNCHANGED <<guest, disk, targets>> /\ unchangedGuest

(* plan.apply: a target that is not what was planned ends the batch, and   *)
(* all backups are restored.                                               *)
ObserveItem(r) ==
    LET i == requests[r].index IN
    /\ requests[r].pc = "observe"
    /\ IF Observed(i) = requests[r].observed[i] THEN Goto(r, "write")
       ELSE requests' = [requests EXCEPT ![r].pc = "rollback", ![r].index = BatchSize]
    /\ UNCHANGED <<guest, disk, targets>> /\ unchangedGuest

(* mergeJSONSelection, mergeTOMLSelection: the selection is replaced in    *)
(* the file as it is now, which is then renamed into place.                *)
Merged(i) == [targets EXCEPT ![i] = "desired"]

WriteItem(r) ==
    LET i == requests[r].index IN
    /\ requests[r].pc = "write"
    /\ \/ /\ targets' = Merged(i)
          /\ \/ i + 1 \in Items
                /\ requests' = [requests EXCEPT ![r].pc = "observe", ![r].index = i + 1]
                /\ UNCHANGED guest
             \/ i + 1 \notin Items
                /\ IF requests[r].kind = "materialize" THEN Goto(r, "advance") /\ UNCHANGED guest
                   ELSE Answer(r, "done")
          /\ unchangedGuest
       \/ /\ requests' = [requests EXCEPT ![r].pc = "rollback", ![r].index = BatchSize]
          /\ UNCHANGED <<guest, targets>> /\ Fault
    /\ UNCHANGED disk

(* Mutant: the first target of the batch is not restored.                  *)
StopsBeforeFirst(index) == index = 2

(* rollbackMaterializations: from the last backup to the first.            *)
IsLastBackup(index) == index = 1

(* materializationBackup.restore: the whole file, as it was.               *)
Restored(i, backups) == [j \in Items |-> IF SameFile(i, j) THEN backups[j] ELSE targets[j]]

(* The file is removed first: an error after that leaves it so.            *)
Removed(i) == [j \in Items |-> IF SameFile(i, j) THEN "removed" ELSE targets[j]]

(* The rollback goes on after a restore that fails.                        *)
RestoreBackup(r) ==
    LET i == requests[r].index IN
    /\ requests[r].pc = "rollback"
    /\ \/ targets' = Restored(i, requests[r].backups) /\ unchangedGuest
       \/ targets' = Removed(i) /\ Fault
    /\ IF IsLastBackup(i) THEN Answer(r, "failed")
       ELSE requests' = [requests EXCEPT ![r].index = i - 1] /\ UNCHANGED guest
    /\ UNCHANGED disk

----------------------------------------------------------------------------
(* Shutdown.                                                               *)

(* quiesce: no mutation begins any more; the guest serves no others until  *)
(* it is started again.                                                    *)
Quiesce(r) ==
    /\ requests[r].pc = "admitted" /\ requests[r].kind = "shutdown"
    /\ guest' = [guest EXCEPT !.quiescing = TRUE]
    /\ Goto(r, IF guest.inFlight = 0 THEN "sync" ELSE "waiting")
    /\ UNCHANGED <<disk, targets>> /\ unchangedGuest

(* The last mutation closes idle, or the wait times out.                   *)
QuiesceEnds(r) ==
    /\ requests[r].pc = "waiting"
    /\ \/ guest.inFlight = 0 /\ Goto(r, "sync")
       \/ guest.inFlight > 0 /\ Goto(r, "failed")
    /\ UNCHANGED <<guest, disk, targets>> /\ unchangedGuest

PrepareShutdown(r) ==
    /\ requests[r].pc = "sync" /\ Goto(r, "done")
    /\ UNCHANGED <<guest, disk, targets>> /\ unchangedGuest

----------------------------------------------------------------------------
(* The User, who is let in once SSH is ready.                              *)

EditTarget ==
    /\ guest.level >= SSHReady /\ edits < MaxEdits /\ edits' = edits + 1
    /\ \E i \in Items : targets[i] # "edited" /\ targets' = [targets EXCEPT ![i] = "edited"]
    /\ UNCHANGED <<guest, disk, requests, stops, faults>>

WorkInWorkspace ==
    /\ guest.level >= SSHReady
    /\ disk.workspace \in {"empty", "seeded"}
    /\ disk' = [disk EXCEPT !.workspace = IF @ = "empty" THEN "foreign" ELSE "worked"]
    /\ UNCHANGED <<guest, targets, requests, stops, edits, faults>>

(* chmod of the workspace, which chownTree gave to the User.               *)
OpenWorkspace ==
    /\ guest.level >= SSHReady /\ edits < MaxEdits /\ edits' = edits + 1
    /\ disk.workspace # "absent" /\ disk.private
    /\ disk' = [disk EXCEPT !.private = FALSE]
    /\ UNCHANGED <<guest, targets, requests, stops, faults>>

Boot == BootstrapPersistentState \/ PersistHostIdentity \/ RestoreSSHHostIdentity

Handle(r) ==
    \/ beginMutation(r) \/ Advance(r) \/ RestoreOnRequest(r)
    \/ PrepareWorkspace(r) \/ StageSeed(r) \/ PublishSeed(r)
    \/ PlanBatch(r) \/ SnapshotBatch(r) \/ ObserveItem(r) \/ WriteItem(r) \/ RestoreBackup(r)
    \/ Quiesce(r) \/ QuiesceEnds(r) \/ PrepareShutdown(r)

GuestNext ==
    \/ Boot \/ Stop
    \/ \E r \in Requests : ServeHTTP(r) \/ Handle(r)
    \/ EditTarget \/ WorkInWorkspace \/ OpenWorkspace

(* systemd starts the supervisor again whenever it fails.                  *)
GuestSpec == GuestInit /\ [][GuestNext]_guestVars

----------------------------------------------------------------------------
(* Properties.                                                             *)

(* What the supervisor, the volume and the handlers hold is of its type.   *)
GuestTypeOK ==
    /\ guest.phase \in {"down", "mounted", "identified", "serving"}
    /\ guest.level \in 0..AgentsValidated /\ guest.key \in HostKeys \cup {None, ImageKey}
    /\ guest.inFlight = Cardinality({r \in Requests : requests[r].pc \in Running})
    /\ disk.workspace \in {"absent", "empty", "foreign", "seeded", "worked"}
    /\ disk.staging \subseteq Requests /\ disk.private \in BOOLEAN
    /\ targets \in [Items -> TargetContents]
    /\ \A r \in Requests : requests[r].index \in Items \cup {0}

(* quiesce and beginMutation: once a shutdown is prepared no mutation is   *)
(* in flight, also none whose request was admitted before.                 *)
ShutdownIsQuiet ==
    (\E r \in Requests : requests[r].kind = "shutdown" /\ requests[r].pc \in {"sync", "done"}) =>
        \A r \in Requests : requests[r].pc \notin Running

KeepsDurableState ==
    /\ disk.identity # None => disk'.identity = disk.identity
    /\ disk.workspace \in {"foreign", "worked"} => disk'.workspace = disk.workspace

(* What is durable stays: the identity of the Environment never changes    *)
(* once it is on the Data Volume, whatever becomes of the system disk      *)
(* (ReconcileSSHHostIdentity), and what the User made of the workspace is  *)
(* never replaced, however often and from how many requests a Seed is      *)
(* applied (ProjectSeedApplication.Apply).                                 *)
DurableStateStays == [][KeepsDurableState]_guestVars

(* rollbackMaterializations: after a batch that failed alone every target  *)
(* holds what it held before, or is gone with a file that could not be     *)
(* restored; none keeps what the batch wrote.                              *)
FailedBatchRestores ==
    \A r \in Requests :
        /\ requests[r].pc = "failed" /\ requests[r].backups # <<>> /\ edits = 0
        /\ \A q \in Requests \ {r} : requests[q].backups = <<>>
        => \A i \in Items : targets[i] \in {requests[r].backups[i], "removed"}
=============================================================================
