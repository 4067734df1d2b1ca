------------------------- MODULE EnvironmentCreate -------------------------
(***************************************************************************)
(* The creation of an Environment: the command of the control plane, the   *)
(* reservation that names everything the Environment will own, its outbox  *)
(* row and the recovery loop, and the environment.create workflow with the *)
(* provider, the guest and the projection it writes.                       *)
(*                                                                         *)
(* An Environment and the Operation that creates it are reserved together  *)
(* and share a number.  A step of the workflow is one restate.Run: its     *)
(* effect is committed and its answer is journaled, or the process dies in *)
(* between and the step is run again by the next attempt.  Whatever the    *)
(* workflow computes outside a step it computes again, with the clock of   *)
(* that attempt.  Transient errors are retried by Restate and change       *)
(* nothing; a permanent error is counted by MaxFaults.                     *)
(***************************************************************************)
EXTENDS Runtime, FiniteSets

CONSTANTS
    MaxKeys,          \* Idempotency-Keys
    Inputs,           \* commands: [name, seed, version]
    Lockable,         \* Profile Versions that resolve to a Capsule Lock
    MaxRequests, MaxOperations,
    MaxLosses,        \* requests that are lost and sends that fail
    MaxCrashes,       \* steps whose effect is committed but not journaled
    MaxFaults,        \* permanent errors of dependencies
    MaxForeign,       \* Runtime Operations reserved for active Environments
    BatchSize         \* Operations the recovery sends in a round

Requests == 1..MaxRequests
Keys == 1..MaxKeys
Operations == 1..MaxOperations
Seeds == {i.seed : i \in Inputs}

ASSUME TokensAssumption == MaxCrashes \in Nat /\ 0..MaxCrashes \subseteq Refs
ASSUME InputsAssumption == \A i \in Inputs : DOMAIN i = {"name", "seed", "version"}
ASSUME ImageAssumption == Cardinality(Images) = 1

VARIABLES
    requests,      \* handlers of POST /environments
    operations,    \* rows of operations
    environments,  \* rows of environments, their state inventory and pin
    seeds,         \* environment_id of each Project Seed
    started,       \* workflow_outbox rows whose started_at is set
    runtimes,      \* the initial Runtime of each Environment
    flows,         \* the workflow of each Operation
    cloud,         \* volumes and instances tagged with the Environment
    guests,        \* the guest of the initial Runtime
    losses, crashes, faults

vars == <<requests, operations, environments, seeds, started,
          runtimes, flows, cloud, guests, losses, crashes, faults>>

Steps == {"record-invocation", "ensure-data-volume", "inventory-data-volume",
          "reserve-initial-runtime", "ensure-runtime-provider",
          "persist-provisioning", "ensure-attachment", "persist-starting",
          "prepare-guest", "apply-seed", "resolve-version", "materialize",
          "persist-capsule-state", "bind-credentials", "persist-ready",
          "complete", "mark-error", "record-outcome"}

Flow ==
    [pc      : Steps \cup {"none", "succeeded", "failed"},
     attempt : 0..MaxCrashes,
     current : RuntimeSnapshot \cup {None},    \* runtimeState, nil before it is reserved
     volume  : Refs \cup {None},
     ref     : Refs \cup {None},               \* ensured.Runtime.ProviderID
     lock    : Nat,                            \* state.CapsuleLock.ID
     outcome : {"none", "failed", "blocked"}]

Unreserved == [kind |-> "none", key |-> None, input |-> None, status |-> "none"]

(* Every value has its type, and a Runtime row is a valid snapshot.        *)
CreateTypeOK ==
    /\ requests \in [Requests -> [pc : {"unsent", "dispatch", "answered", "refused", "lost"},
                                  key : Keys \cup {None}, input : Inputs \cup {None},
                                  op : Operations \cup {None}]]
    /\ operations \in [Operations ->
          [kind : {"none", "create", "runtime"}, key : Keys \cup {None},
           input : Inputs \cup {None},
           status : {"none", "queued", "succeeded", "failed", "blocked"}]]
    /\ environments \in [Operations ->
          [lifecycle : {"none", "creating", "active"}, volume : Refs \cup {None},
           runtime : BOOLEAN, lock : Nat]]
    /\ seeds \in [Seeds -> Operations \cup {None}]
    /\ started \subseteq Operations
    /\ \A o \in Operations : runtimes[o] = None \/ ValidRuntime(runtimes[o])
    /\ flows \in [Operations -> Flow]
    /\ cloud \in [Operations -> [volumes : SUBSET Refs, instances : SUBSET Refs,
                                 attached : BOOLEAN]]
    /\ guests \in [Operations -> [identity : BOOLEAN,
                                  seed : Seeds \cup {None}, lock : Nat, whole : BOOLEAN]]
    /\ losses \in 0..MaxLosses /\ crashes \in 0..MaxCrashes /\ faults \in 0..MaxFaults

CreateInit ==
    /\ requests = [q \in Requests |-> [pc |-> "unsent", key |-> None, input |-> None, op |-> None]]
    /\ operations = [o \in Operations |-> Unreserved]
    /\ environments = [o \in Operations |-> [lifecycle |-> "none", volume |-> None,
                                             runtime |-> FALSE, lock |-> 0]]
    /\ seeds = [s \in Seeds |-> None]
    /\ started = {}
    /\ runtimes = [o \in Operations |-> None]
    /\ flows = [o \in Operations |->
          [pc |-> "none", attempt |-> 0, current |-> None, volume |-> None,
           ref |-> None, lock |-> 0, outcome |-> "none"]]
    /\ cloud = [o \in Operations |-> [volumes |-> {}, instances |-> {}, attached |-> FALSE]]
    /\ guests = [o \in Operations |-> [identity |-> FALSE, seed |-> None,
                                       lock |-> 0, whole |-> FALSE]]
    /\ losses = 0 /\ crashes = 0 /\ faults = 0

-----------------------------------------------------------------------------
(* The command. *)

OfKey(key) == {o \in Operations : operations[o].key = key}
Free == {o \in Operations : operations[o].kind = "none"}
OfKind(kind) == {o \in Operations : operations[o].kind = kind}
Least(S) == CHOOSE o \in S : \A p \in S : o <= p

sameJSON(o, input) == operations[o].input = input

(* The names the unique index of environments knows: nothing deletes the   *)
(* Environment of a creation that failed, so its name stays taken.         *)
NameIsTaken(name) ==
    \E o \in OfKind("create") : operations[o].input.name = name

(* insertEnvironmentCreation refuses a taken name and a Seed that belongs  *)
(* to an Environment (SSH Keys: module Assets); nothing of it is kept.     *)
Insertable(input) == ~NameIsTaken(input.name) /\ seeds[input.seed] = None

insertEnvironmentCreation(o, key, input) ==
    /\ operations' = [operations EXCEPT ![o] = [kind |-> "create", key |-> key,
                                                input |-> input, status |-> "queued"]]
    /\ environments' = [environments EXCEPT ![o].lifecycle = "creating"]
    /\ seeds' = [seeds EXCEPT ![input.seed] = o]

(* ReserveEnvironmentCreation, one transaction under the lock of its key.  *)
(* Requests are numbered in their order, and so are the keys they use.     *)
ReserveEnvironmentCreation(q, key, input) ==
    /\ requests[q].pc = "unsent"
    /\ \A p \in Requests : p < q => requests[p].pc # "unsent"
    /\ \A k \in Keys : k < key => \E p \in Requests : requests[p].key = k
    /\ LET answer(pc, o) ==
             requests' = [requests EXCEPT ![q] = [pc |-> pc, key |-> key, input |-> input, op |-> o]]
           reserved == OfKey(key)
       IN  IF reserved # {}
           THEN /\ \E o \in reserved : IF sameJSON(o, input) THEN answer("dispatch", o)
                                                             ELSE answer("refused", None)
                /\ UNCHANGED <<operations, environments, seeds>>
           ELSE IF Insertable(input)
                THEN /\ Free # {}
                     /\ answer("dispatch", Least(Free))
                     /\ insertEnvironmentCreation(Least(Free), key, input)
                ELSE answer("refused", None) /\ UNCHANGED <<operations, environments, seeds>>
    /\ UNCHANGED <<started, runtimes, flows, cloud, guests,
                   losses, crashes, faults>>

(* The control plane dies, or the client leaves, before the dispatch.      *)
LoseRequest(q) ==
    /\ requests[q].pc = "dispatch"
    /\ losses < MaxLosses /\ losses' = losses + 1
    /\ requests' = [requests EXCEPT ![q].pc = "lost"]
    /\ UNCHANGED <<operations, environments, seeds, started, runtimes,
                   flows, cloud, guests, crashes, faults>>

(* Every row of workflow_outbox that no workflow has started, of whatever  *)
(* kind: ListPendingEnvironmentCreates does not look at it.                *)
Pending == {o \in Operations : operations[o].kind # "none"} \ started

(* The oldest rows, at most a batch.                                       *)
Batch == {o \in Pending : Cardinality({p \in Pending : p < o}) < BatchSize}

(* SendEnvironmentCreate: Restate starts one workflow for a key.           *)
Send(S) ==
    flows' = [o \in Operations |->
                 IF o \in S /\ flows[o].pc = "none"
                 THEN [flows[o] EXCEPT !.pc = "record-invocation"] ELSE flows[o]]

DispatchEnvironmentCreate(q) ==
    /\ requests[q].pc = "dispatch"
    /\ LET o == requests[q].op
       IN  \/ /\ requests' = [requests EXCEPT ![q].pc = "answered"]
              /\ Send({o} \ started)
              /\ UNCHANGED losses
           \/ /\ o \notin started
              /\ losses < MaxLosses /\ losses' = losses + 1
              /\ requests' = [requests EXCEPT ![q].pc = "lost"]
              /\ UNCHANGED flows
    /\ UNCHANGED <<operations, environments, seeds, started, runtimes,
                   cloud, guests, crashes, faults>>

(* Mutant: the rows are closed when they are sent, not when they run.      *)
RoundClosesRows ==
    /\ Batch # {}
    /\ started' = started \cup Batch
    /\ \/ Send(Batch) /\ UNCHANGED losses
       \/ losses < MaxLosses /\ losses' = losses + 1 /\ UNCHANGED flows
    /\ UNCHANGED <<requests, operations, environments, seeds, runtimes, cloud, guests,
                   crashes, faults>>

(* A round of the recovery in the order of its rows.  A send that fails *)
(* ends it: the rows behind wait for the next round.  A row that a         *)
(* workflow starts while the round runs is sent again, to no effect.       *)
DispatchPendingEnvironmentCreates ==
    /\ Batch # {}
    /\ \/ Send(Batch) /\ UNCHANGED losses
       \/ /\ losses < MaxLosses /\ losses' = losses + 1
          /\ \E failing \in Batch : Send({o \in Batch : o < failing})
    /\ UNCHANGED <<requests, operations, environments, seeds, started, runtimes, cloud,
                   guests, crashes, faults>>

(* The owner starts or stops an Environment that is active: an Operation   *)
(* and an outbox row of another kind, whose workflow starts it.            *)
ReserveRuntimeOperation ==
    /\ Cardinality(OfKind("runtime")) < MaxForeign
    /\ Free # {} /\ \E o \in Operations : environments[o].lifecycle = "active"
    /\ operations' = [operations EXCEPT ![Least(Free)].kind = "runtime",
                                        ![Least(Free)].status = "queued"]
    /\ UNCHANGED <<requests, environments, seeds, started, runtimes,
                   flows, cloud, guests, losses, crashes, faults>>

RunRuntimeOperation(o) ==
    /\ operations[o].kind = "runtime" /\ operations[o].status = "queued"
    /\ operations' = [operations EXCEPT ![o].status = "succeeded"]
    /\ started' = started \cup {o}
    /\ UNCHANGED <<requests, environments, seeds, runtimes,
                   flows, cloud, guests, losses, crashes, faults>>

-----------------------------------------------------------------------------
(* Steps of the workflow. *)

unchangedOutside ==
    UNCHANGED <<requests, seeds, losses>>

(* The clock of the attempt that takes the step.                           *)
Now(o, s) == s.updatedAt + 1 + flows[o].attempt

Journal(o, flow) ==
    \/ flows' = [flows EXCEPT ![o] = flow] /\ UNCHANGED crashes
    \/ /\ crashes < MaxCrashes /\ crashes' = crashes + 1
       /\ flows' = [flows EXCEPT ![o].attempt = @ + 1]

At(o, step) == flows[o].pc = step
Goto(o, step) == [flows[o] EXCEPT !.pc = step]

(* failEnvironmentCreation with the Runtime the caller passes: it is       *)
(* marked unless it is nil or failed already, then the outcome recorded.   *)
failEnvironmentCreation(o, current) ==
    [flows[o] EXCEPT !.pc = IF current # None /\ current.status # "error"
                            THEN "mark-error" ELSE "record-outcome",
                     !.current = current, !.outcome = "failed"]

(* Steps that a permanent error of a dependency can end, with the Runtime  *)
(* handed to failEnvironmentCreation: nil until it is reserved.            *)
StepFails(o) ==
    /\ flows[o].pc \in Steps \ {"mark-error", "record-outcome"}
    /\ faults < MaxFaults /\ faults' = faults + 1
    /\ flows' = [flows EXCEPT ![o] = failEnvironmentCreation(o, flows[o].current)]
    /\ UNCHANGED <<operations, environments, started, runtimes, cloud, guests, crashes>>
    /\ unchangedOutside

(* An Operation of another kind is not found: a permanent error.           *)
RecordEnvironmentCreateInvocation(o) ==
    /\ At(o, "record-invocation")
    /\ IF operations[o].kind = "create"
       THEN started' = started \cup {o} /\ Journal(o, Goto(o, "ensure-data-volume"))
       ELSE /\ flows' = [flows EXCEPT ![o] = failEnvironmentCreation(o, None)]
            /\ UNCHANGED <<started, crashes>>
    /\ UNCHANGED <<operations, environments, runtimes, cloud, guests, faults>>
    /\ unchangedOutside

(* The client token of a volume or instance: one for each Environment and  *)
(* Runtime.  The provider answers a repeated token with what it created.   *)
providerToken(o) == 0

(* EnsureDataVolume: what is tagged with the Environment is taken, unless  *)
(* there is more than one; nothing found is created under the token.  A    *)
(* listing may not show yet what was just created.                         *)
EnsureDataVolume(o) ==
    /\ At(o, "ensure-data-volume")
    /\ \E found \in {cloud[o].volumes, {}} :
          IF Cardinality(found) > 1
          THEN /\ flows' = [flows EXCEPT ![o] = failEnvironmentCreation(o, None)]
               /\ UNCHANGED <<cloud, crashes>>
          ELSE LET volume == IF found = {} THEN providerToken(o)
                             ELSE CHOOSE v \in found : TRUE
               IN  /\ cloud' = [cloud EXCEPT ![o].volumes = @ \cup {volume}]
                   /\ Journal(o, [flows[o] EXCEPT !.pc = "inventory-data-volume", !.volume = volume])
    /\ UNCHANGED <<operations, environments, started, runtimes, guests, faults>>
    /\ unchangedOutside

(* InventoryEnvironmentState: recorded once; a replay must name the same.  *)
(* The identities it and the Runtime get are journaled by the step before, *)
(* reserve-creation-identities: they are the same on every attempt.        *)
InventoryEnvironmentState(o) ==
    /\ At(o, "inventory-data-volume")
    /\ IF environments[o].volume \in {None, flows[o].volume}
       THEN /\ environments' = [environments EXCEPT ![o].volume = flows[o].volume]
            /\ Journal(o, Goto(o, "reserve-initial-runtime"))
       ELSE /\ flows' = [flows EXCEPT ![o] = failEnvironmentCreation(o, None)]
            /\ UNCHANGED <<environments, crashes>>
    /\ UNCHANGED <<operations, started, runtimes, cloud, guests, faults>>
    /\ unchangedOutside

Reservation == ReserveRuntime(1, CHOOSE i \in Images : TRUE, 0)

ReserveInitialRuntime(o) ==
    /\ At(o, "reserve-initial-runtime")
    /\ environments[o].volume # None
    /\ runtimes' = [runtimes EXCEPT ![o] = IF @ = None THEN Reservation ELSE @]
    /\ environments' = [environments EXCEPT ![o].runtime = TRUE]
    /\ Journal(o, [flows[o] EXCEPT !.pc = "ensure-runtime-provider", !.current = Reservation])
    /\ UNCHANGED <<operations, started, cloud, guests, faults>>
    /\ unchangedOutside

(* EnsureRuntime: the instance of this Runtime is taken; an Environment    *)
(* that shows another is diverged; else one is launched under the token.   *)
EnsureRuntime(o) ==
    /\ At(o, "ensure-runtime-provider")
    /\ \E found \in {cloud[o].instances, {}} :
          IF Cardinality(found) > 1
          THEN /\ flows' = [flows EXCEPT ![o] = failEnvironmentCreation(o, flows[o].current)]
               /\ UNCHANGED <<cloud, crashes>>
          ELSE LET instance == IF found = {} THEN providerToken(o)
                               ELSE CHOOSE i \in found : TRUE
               IN  /\ cloud' = [cloud EXCEPT ![o].instances = @ \cup {instance}]
                   /\ Journal(o, [flows[o] EXCEPT !.pc = "persist-provisioning",
                                                  !.ref = instance])
    /\ UNCHANGED <<operations, environments, started, runtimes, guests, faults>>
    /\ unchangedOutside

(* PersistEnvironmentCreateRuntimeTransition: the update is guarded by the *)
(* version and the Operation; a row equal to next in every column is a     *)
(* replay; anything else is stale, and the caller fails with before.       *)
Accepts(o, before, next) ==
    /\ operations[o].status = "queued"
    /\ environments[o].runtime
    /\ \/ runtimes[o].version = before.version /\ next.version = before.version + 1
       \/ runtimes[o] = next

PersistTransition(o, next, step) ==
    LET before == flows[o].current
    IN  /\ IF Accepts(o, before, next)
           THEN /\ runtimes' = [runtimes EXCEPT ![o] = next]
                /\ Journal(o, [flows[o] EXCEPT !.pc = step, !.current = next])
           ELSE /\ flows' = [flows EXCEPT ![o] = failEnvironmentCreation(o, before)]
                /\ UNCHANGED <<runtimes, crashes>>
        /\ UNCHANGED <<operations, environments, started, cloud, guests, faults>>
        /\ unchangedOutside

(* The time of this transition is the journaled one of the observation.    *)
PersistProvisioning(o) ==
    /\ At(o, "persist-provisioning")
    /\ PersistTransition(o, Provision(flows[o].current, flows[o].ref,
                                      flows[o].current.updatedAt + 1), "ensure-attachment")

EnsureAttachment(o) ==
    /\ At(o, "ensure-attachment")
    /\ cloud' = [cloud EXCEPT ![o].attached = TRUE]
    /\ Journal(o, Goto(o, "persist-starting"))
    /\ UNCHANGED <<operations, environments, started, runtimes, guests, faults>>
    /\ unchangedOutside

(* BeginStart reads the clock outside a step.                              *)
PersistStarting(o) ==
    /\ At(o, "persist-starting")
    /\ LET s == flows[o].current IN PersistTransition(o, BeginStart(s, Now(o, s)), "prepare-guest")

(* The steps up to reconcile-environment-ssh-keys, which read the provider *)
(* and the guest or repeat without a trace: waitForProviderState, its      *)
(* networking check, RestoreEnvironmentSSHIdentity,                        *)
(* waitForRuntimeGuestReadiness and ReconcileRuntimeSSHKeys.               *)
PrepareGuest(o) ==
    /\ At(o, "prepare-guest")
    /\ guests' = [guests EXCEPT ![o].identity = TRUE]
    /\ Journal(o, Goto(o, "apply-seed"))
    /\ UNCHANGED <<operations, environments, started, runtimes, cloud, faults>>
    /\ unchangedOutside

EnsureEnvironmentProjectSeedApplied(o) ==
    /\ At(o, "apply-seed")
    /\ guests' = [guests EXCEPT ![o].seed = operations[o].input.seed]
    /\ Journal(o, Goto(o, "resolve-version"))
    /\ UNCHANGED <<operations, environments, started, runtimes, cloud, faults>>
    /\ unchangedOutside

(* ResolvePinnedProfileVersion: a lock with a new identity on each attempt.*)
(* A version without Capsule Refs, with a ref that is not an exact digest, *)
(* does not resolve to it or does not compose is an error that is not      *)
(* classified: the step is retried for ever.                               *)
ResolvePinnedProfileVersion(o) ==
    /\ At(o, "resolve-version")
    /\ operations[o].input.version \in Lockable
    /\ Journal(o, [flows[o] EXCEPT !.pc = "materialize", !.lock = flows[o].attempt + 1])
    /\ UNCHANGED <<operations, environments, started, runtimes, cloud, guests, faults>>
    /\ unchangedOutside

(* Mutant: whatever the targets hold is overwritten or kept.               *)
NothingBlocks(o, foreign) == FALSE

(* prepareProfileMaterialization: no Materialization is recorded yet, so a *)
(* target that holds anything blocks the batch: content of the image, or   *)
(* what an attempt wrote whose answer was not journaled.                   *)
TargetsBlock(o, foreign) == foreign \/ guests[o].lock # 0

(* EnsureEnvironmentCapsuleMaterialized: a batch that is blocked changes   *)
(* nothing and fails for good, the replay of one that succeeded included.  *)
MaterializeCapsuleLock(o) ==
    /\ At(o, "materialize")
    /\ \E foreign \in BOOLEAN :
          IF TargetsBlock(o, foreign)
          THEN /\ Journal(o, failEnvironmentCreation(o, flows[o].current))
               /\ UNCHANGED guests
          ELSE /\ guests' = [guests EXCEPT ![o].lock = flows[o].lock, ![o].whole = ~foreign]
               /\ Journal(o, Goto(o, "persist-capsule-state"))
    /\ UNCHANGED <<operations, environments, started, runtimes, cloud, faults>>
    /\ unchangedOutside

(* The digest of a lock is that of its version and what that resolves to,  *)
(* whatever the Environment, and capsule_locks_digest_key is unique over   *)
(* all of them.                                                            *)
DigestIsTaken(o) ==
    \E p \in OfKind("create") \ {o} :
       environments[p].lock # 0 /\ operations[p].input.version = operations[o].input.version

(* PersistEnvironmentCapsuleState: lock, pin and materializations in one   *)
(* transaction; a replay finds the lock it inserted.  An insertion that    *)
(* meets the digest of another Environment's lock is an error that is not  *)
(* classified, and is retried for ever.                                    *)
PersistEnvironmentCapsuleState(o) ==
    /\ At(o, "persist-capsule-state")
    /\ environments[o].lock # 0 \/ ~DigestIsTaken(o)
    /\ environments' = [environments EXCEPT ![o].lock = flows[o].lock]
    /\ Journal(o, Goto(o, "bind-credentials"))
    /\ UNCHANGED <<operations, started, runtimes, cloud, guests, faults>>
    /\ unchangedOutside

(* A binder that needs the User blocks the Operation; its Runtime stays.   *)
(* Otherwise the toolchain is validated, which changes nothing.            *)
BindEnvironmentCredentials(o) ==
    /\ At(o, "bind-credentials")
    /\ \/ Journal(o, Goto(o, "persist-ready"))
       \/ Journal(o, [flows[o] EXCEPT !.pc = "record-outcome", !.outcome = "blocked"])
    /\ UNCHANGED <<operations, environments, started, runtimes, cloud, guests, faults>>
    /\ unchangedOutside

(* MarkReady reads the clock outside a step.                               *)
PersistReady(o) ==
    /\ At(o, "persist-ready")
    /\ LET s == flows[o].current
       IN  PersistTransition(o, MarkReady(s, flows[o].ref, flows[o].ref, Now(o, s)), "complete")

(* CompleteEnvironmentCreation: publishes the Environment and ends the     *)
(* Operation in one transaction; replays of an ended one change nothing.   *)
CompleteEnvironmentCreation(o) ==
    /\ At(o, "complete")
    /\ operations[o].status = "succeeded" \/ environments[o].volume # None
    /\ operations' = [operations EXCEPT ![o].status = "succeeded"]
    /\ environments' = [environments EXCEPT ![o].lifecycle = "active"]
    /\ Journal(o, Goto(o, "succeeded"))
    /\ UNCHANGED <<started, runtimes, cloud, guests, faults>>
    /\ unchangedOutside

(* mark-environment-create-runtime-error: its clock is not journaled; when *)
(* it is refused the outcome is recorded all the same.                     *)
MarkRuntimeError(o) ==
    /\ At(o, "mark-error")
    /\ LET s == flows[o].current
           next == IF s.status = "absent" THEN MarkProvisionError(s, Now(o, s))
                                          ELSE MarkError(s, Now(o, s))
       IN  IF Accepts(o, s, next)
           THEN runtimes' = [runtimes EXCEPT ![o] = next] /\ Journal(o, Goto(o, "record-outcome"))
           ELSE /\ flows' = [flows EXCEPT ![o].pc = "record-outcome"]
                /\ UNCHANGED <<runtimes, crashes>>
    /\ UNCHANGED <<operations, environments, started, cloud, guests, faults>>
    /\ unchangedOutside

(* FinishEnvironmentCreateOperation: only an Operation that has not ended. *)
(* One of another kind is never found, which is no permanent error: the    *)
(* step is retried for ever.                                               *)
RecordEnvironmentCreateOutcome(o) ==
    /\ At(o, "record-outcome")
    /\ operations[o].kind = "create"
    /\ operations' = [operations EXCEPT ![o].status =
                         IF @ = "queued" THEN flows[o].outcome ELSE @]
    /\ Journal(o, Goto(o, "failed"))
    /\ UNCHANGED <<environments, started, runtimes, cloud, guests, faults>>
    /\ unchangedOutside

WorkflowStep(o) ==
    \/ RecordEnvironmentCreateInvocation(o) \/ EnsureDataVolume(o)
    \/ InventoryEnvironmentState(o) \/ ReserveInitialRuntime(o) \/ EnsureRuntime(o)
    \/ PersistProvisioning(o) \/ EnsureAttachment(o) \/ PersistStarting(o) \/ PrepareGuest(o)
    \/ EnsureEnvironmentProjectSeedApplied(o)
    \/ ResolvePinnedProfileVersion(o) \/ MaterializeCapsuleLock(o)
    \/ PersistEnvironmentCapsuleState(o) \/ BindEnvironmentCredentials(o) \/ PersistReady(o)
    \/ CompleteEnvironmentCreation(o) \/ MarkRuntimeError(o) \/ RecordEnvironmentCreateOutcome(o)

CreateNext ==
    \/ \E q \in Requests :
          \/ \E key \in Keys, input \in Inputs : ReserveEnvironmentCreation(q, key, input)
          \/ LoseRequest(q) \/ DispatchEnvironmentCreate(q)
    \/ DispatchPendingEnvironmentCreates
    \/ ReserveRuntimeOperation
    \/ \E o \in Operations : WorkflowStep(o) \/ StepFails(o) \/ RunRuntimeOperation(o)

(* Restate retries what it accepted and the recovery loop runs for ever;   *)
(* clients owe nothing.                                                    *)
CreateFairness ==
    /\ WF_vars(DispatchPendingEnvironmentCreates)
    /\ \A o \in Operations : WF_vars(WorkflowStep(o)) /\ WF_vars(RunRuntimeOperation(o))

CreateSpec == CreateInit /\ [][CreateNext]_vars /\ CreateFairness

-----------------------------------------------------------------------------
(* Properties. *)

(* A creation is whole or marked.  When the Environment is active its      *)
(* Operation succeeded, its Runtime is ready on the only instance and      *)
(* volume tagged with it, and the guest holds its Seed and all of the lock *)
(* it is pinned to, whatever was run twice on the way                      *)
(* (CompleteEnvironmentCreation).  A failed one has, unless a process      *)
(* died, no Runtime that still looks alive (failEnvironmentCreation).  And *)
(* none owns two volumes or instances, although steps are repeated while   *)
(* listings are stale: client tokens make the provider's calls repeatable. *)
CreationIsWhole ==
    \A o \in Operations :
       /\ operations[o].kind = "create" =>
             (environments[o].lifecycle = "active" <=> operations[o].status = "succeeded")
       /\ operations[o].kind = "create" /\ environments[o].lifecycle = "active" =>
             /\ runtimes[o].status = "ready" /\ cloud[o].attached
             /\ cloud[o].instances = {runtimes[o].provider}
             /\ cloud[o].volumes = {environments[o].volume}
             /\ guests[o].identity /\ guests[o].seed = operations[o].input.seed
             /\ guests[o].lock = environments[o].lock /\ guests[o].whole
       /\ operations[o].status = "failed" /\ flows[o].attempt = 0 =>
             runtimes[o] = None \/ runtimes[o].status = "error"
       /\ Cardinality(cloud[o].volumes) <= 1 /\ Cardinality(cloud[o].instances) <= 1

(* A creation retried for ever: nothing resolves its Profile Version, or   *)
(* another Environment of that version has the lock's digest.              *)
HeldByLock(o) ==
    \/ At(o, "resolve-version") /\ operations[o].input.version \notin Lockable
    \/ At(o, "persist-capsule-state") /\ environments[o].lock = 0 /\ DigestIsTaken(o)

(* Every creation that was reserved ends or is held at its lock, although  *)
(* its request may be lost before or during the dispatch and sends of the  *)
(* recovery may fail: no row stays behind a failing one for ever           *)
(* (DispatchPendingEnvironmentCreates), and no other step holds one.       *)
CreationsEnd ==
    \A o \in Operations :
       operations[o].status = "queued" ~>
          operations[o].status \in {"succeeded", "failed", "blocked"} \/ HeldByLock(o)
=============================================================================
