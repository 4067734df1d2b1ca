------------------------------ MODULE Commands ------------------------------
(***************************************************************************)
(* How a command becomes a workflow: the requests of one User to the       *)
(* control plane (start, stop, apply a Profile, create a Connection        *)
(* Intent), the reservation of Operations under Idempotency-Keys, the      *)
(* workflow outbox and its recovery, and the part of the workflows that    *)
(* the requests can see.                                                   *)
(*                                                                         *)
(* A step of a request is one database transaction or one call to Restate; *)
(* between two steps the request may be lost with the process or the       *)
(* connection.  A transaction is atomic: it holds the advisory lock of its *)
(* key and the locks of the rows it decides on (SeenActive is the one      *)
(* exception).  The key of a start that a Connection Intent asks for is    *)
(* derived from the request and its reading of the clock: no two requests  *)
(* share one.                                                              *)
(***************************************************************************)
EXTENDS Naturals, FiniteSets

CONSTANTS
    Environments,
    Keys,             \* Idempotency-Keys clients use
    Kinds,            \* kinds of requests clients send
    None,
    MaxRequests,      \* requests sent
    MaxOperations,    \* Operations reserved
    MaxTime,          \* ticks of the clock; an Intent lives for one
    MaxLosses,        \* requests lost and sends to Restate that fail
    MaxSkews,         \* workflows whose clock is behind the control plane's
    MaxReplacements,  \* starts fulfilled by a replacement
    BatchSize         \* Operations the recovery dispatches in a round

Requests == 1..MaxRequests
Operations == 1..MaxOperations

ASSUME BoundsAssumption ==
    /\ MaxRequests \in Nat /\ MaxOperations \in Nat /\ MaxTime \in Nat
    /\ MaxLosses \in Nat /\ MaxSkews \in Nat /\ MaxReplacements \in Nat
ASSUME NoneAssumption ==
    /\ None \notin Environments /\ None \notin Keys
    /\ None \notin Operations /\ None \notin Requests
ASSUME KindsAssumption == Kinds \subseteq {"start", "stop", "apply", "connect"}
ASSUME BatchAssumption == BatchSize \in Nat \ {0}
ASSUME KeysAssumption == Keys \cap Requests = {}

VARIABLES
    requests,     \* the handlers, by request
    operations,   \* rows of operations and runtime_operation_targets
    outbox,       \* rows of workflow_outbox
    intents,      \* rows of connection_intent_idempotency, by key
    minted,       \* Intent identities handed out so far
    runtime,      \* the current Runtime of each Environment and its status
    invocations,  \* what Restate knows of the workflow of each Operation
    recovery,     \* the batch the recovery loop is dispatching
    now,
    losses, skews

vars == <<requests, operations, outbox, intents, minted, runtime, invocations,
          recovery, now, losses, skews>>

-----------------------------------------------------------------------------
(* Types. *)

Types == {"start", "stop", "apply"}
RuntimeStatuses == {"absent", "starting", "ready", "stopping", "stopped",
                    "replacing", "error"}

Refusals == {"conflict", "credits", "state", "busy", "unavailable", "lost"}

Request ==
    [kind   : Kinds \cup {None},
     env    : Environments \cup {None},
     key    : Keys \cup {None},
     pc     : {"unsent", "replay", "credits", "reserve", "pending", "send", "defer",
               "environment", "runtime", "intent", "prepare", "join", "again",
               "rejoin", "persist", "answered", "refused"},
     at     : 0..MaxTime,                        \* observedAt
     op     : Operations \cup {None},            \* Operation reserved or joined
     active : Operations \cup {None},            \* detail.ActiveOperationID
     read   : Nat,                               \* detail.Environment.CurrentRuntimeID
     status : RuntimeStatuses \cup {None, "retired"},   \* detail.Runtime.Status
     intent : Nat,                               \* Intent answered, or 0
     why    : Refusals \cup {None}]

OperationRow ==
    [type    : Types \cup {None},
     env     : Environments \cup {None},
     runtime : Nat,
     key     : Keys \cup Requests \cup {None},
     status  : {"none", "queued", "running", "succeeded", "failed"}]

OutboxRow == [attempts : Nat, due : BOOLEAN, started : BOOLEAN]

IntentRow ==
    [id : Nat \ {0}, env : Environments, op : Operations \cup {None},
     expires : Nat, used : BOOLEAN]

ASSUME RowsAssumption == None \notin IntentRow

TypeOK ==
    /\ requests \in [Requests -> Request]
    /\ operations \in [Operations -> OperationRow]
    /\ outbox \in [Operations -> OutboxRow]
    /\ intents \in [Keys -> IntentRow \cup {None}]
    /\ minted \in Nat
    /\ runtime \in [Environments -> [id : Nat, status : RuntimeStatuses]]
    /\ invocations \in [Operations -> {"none", "accepted", "begun", "returned"}]
    /\ recovery \subseteq Operations
    /\ now \in 0..MaxTime /\ losses \in 0..MaxLosses /\ skews \in 0..MaxSkews

-----------------------------------------------------------------------------

Unsent ==
    [kind |-> None, env |-> None, key |-> None, pc |-> "unsent", at |-> 0,
     op |-> None, active |-> None, read |-> 0, status |-> None, intent |-> 0,
     why |-> None]

Init ==
    /\ requests = [q \in Requests |-> Unsent]
    /\ operations = [o \in Operations |-> [type |-> None, env |-> None, runtime |-> 0,
                                           key |-> None, status |-> "none"]]
    /\ outbox = [o \in Operations |-> [attempts |-> 0, due |-> TRUE, started |-> FALSE]]
    /\ intents = [k \in Keys |-> None]
    /\ minted = 0
    /\ runtime \in [Environments -> [id : {0}, status : {"stopped", "ready"}]]
    /\ invocations = [o \in Operations |-> "none"]
    /\ recovery = {}
    /\ now = 0 /\ losses = 0 /\ skews = 0

-----------------------------------------------------------------------------
(* Reads. *)

(* Mutant: the index forgets that a queued Operation is active.            *)
RunningOnly(e) ==
    {o \in Operations : operations[o].env = e /\ operations[o].status = "running"}

Active(e) ==
    {o \in Operations : operations[o].env = e
                        /\ operations[o].status \in {"queued", "running"}}
ActiveOperation(e) ==
    IF Active(e) = {} THEN None ELSE CHOOSE o \in Active(e) : TRUE

OfKey(key) == {o \in Operations : operations[o].key = key}

(* acceptsRuntimeState of an Operation about to be queued.                 *)
acceptsRuntimeState(type, status) ==
    \/ type \in {"start", "stop"} /\ status \in {"ready", "stopped"}
    \/ type = "apply" /\ status = "ready"

Live(key, time) ==
    key \in Keys /\ intents[key] # None /\ intents[key].expires > time

(* PendingRuntimeOperation and PendingRuntimeOperations: in the outbox,    *)
(* not started, and due.                                                   *)
Pending ==
    {o \in Operations : operations[o].status # "none"
                        /\ ~outbox[o].started /\ outbox[o].due}

-----------------------------------------------------------------------------
(* The steps of a request. *)

(* What the request read is forgotten once it is decided on.               *)
Forgets(r) ==
    IF r.pc \in {"runtime", "intent", "prepare", "rejoin", "join"} THEN r
    ELSE [r EXCEPT !.active = None, !.read = 0, !.status = None]
Goes(q, next) == requests' = [requests EXCEPT ![q] = Forgets(next)]
GoesTo(q, pc) == Goes(q, [requests[q] EXCEPT !.pc = pc])
Refuses(q, why) == Goes(q, [requests[q] EXCEPT !.pc = "refused", !.why = why])

(* The type and the key under which a request reserves an Operation.       *)
CommandOf(q) == IF requests[q].kind = "connect" THEN "start" ELSE requests[q].kind
KeyOf(q) == IF requests[q].kind = "connect" THEN q ELSE requests[q].key

Submit(q, kind, e, key) ==
    /\ requests[q].pc = "unsent"
    /\ \A p \in Requests : p < q => requests[p].pc # "unsent"
    /\ Goes(q, [requests[q] EXCEPT !.kind = kind, !.env = e, !.key = key,
                   !.pc = IF kind = "connect" THEN "environment"
                          ELSE IF kind = "start" THEN "replay" ELSE "reserve"])
    /\ UNCHANGED <<operations, outbox, intents, minted, runtime, invocations,
                   recovery, now, losses, skews>>

(* The client, or the process, is gone.                                    *)
RequestLost(q) ==
    /\ requests[q].pc \notin {"unsent", "answered", "refused"}
    /\ losses < MaxLosses /\ losses' = losses + 1
    /\ Refuses(q, "lost")
    /\ UNCHANGED <<operations, outbox, intents, minted, runtime, invocations,
                   recovery, now, skews>>

SameCommand(o, q) ==
    operations[o].env = requests[q].env /\ operations[o].type = CommandOf(q)

(* replayRuntimeOperation, with the Operation of the key that is there.    *)
Replays(q) ==
    IF \E o \in OfKey(KeyOf(q)) : SameCommand(o, q)
    THEN Goes(q, [requests[q] EXCEPT !.pc = "pending", !.op = CHOOSE o \in OfKey(KeyOf(q)) : TRUE])
    ELSE Refuses(q, "conflict")

ReplayRuntimeOperation(q) ==
    /\ requests[q].pc = "replay"
    /\ IF OfKey(KeyOf(q)) # {} THEN Replays(q) ELSE GoesTo(q, "credits")
    /\ UNCHANGED <<operations, outbox, intents, minted, runtime, invocations,
                   recovery, now, losses, skews>>

CreditBalance(q) ==
    /\ requests[q].pc = "credits"
    /\ GoesTo(q, "reserve") \/ Refuses(q, "credits")
    /\ UNCHANGED <<operations, outbox, intents, minted, runtime, invocations,
                   recovery, now, losses, skews>>

(* The state of the Runtime, and then the index that admits one active     *)
(* Operation per Environment.                                              *)
InsertRuntimeOperation(q) ==
    LET e == requests[q].env IN
    \/ /\ ~acceptsRuntimeState(CommandOf(q), runtime[e].status)
       /\ Refuses(q, "state") /\ UNCHANGED operations
    \/ /\ acceptsRuntimeState(CommandOf(q), runtime[e].status) /\ Active(e) # {}
       /\ IF requests[q].kind = "connect" THEN GoesTo(q, "again") ELSE Refuses(q, "busy")
       /\ UNCHANGED operations
    \/ /\ acceptsRuntimeState(CommandOf(q), runtime[e].status) /\ Active(e) = {}
       /\ \E o \in Operations :
             /\ operations[o].status = "none"
             /\ \A p \in Operations : p < o => operations[p].status # "none"
             /\ operations' = [operations EXCEPT ![o] =
                   [type |-> CommandOf(q), env |-> e, runtime |-> runtime[e].id,
                    key |-> KeyOf(q), status |-> "queued"]]
             /\ Goes(q, [requests[q] EXCEPT !.pc = "pending", !.op = o])

(* Mutant: the key is not looked up under the lock.                        *)
ReserveUnlocked(q) ==
    /\ requests[q].pc = "reserve"
    /\ InsertRuntimeOperation(q)
    /\ UNCHANGED <<outbox, intents, minted, runtime, invocations, recovery, now,
                   losses, skews>>

(* One transaction, under the lock of the key.                             *)
ReserveRuntimeOperation(q) ==
    /\ requests[q].pc = "reserve"
    /\ IF Live(KeyOf(q), now) THEN Refuses(q, "conflict") /\ UNCHANGED operations
       ELSE IF OfKey(KeyOf(q)) # {} THEN Replays(q) /\ UNCHANGED operations
       ELSE InsertRuntimeOperation(q)
    /\ UNCHANGED <<outbox, intents, minted, runtime, invocations, recovery, now,
                   losses, skews>>

(* The Operation is accepted, or joined by the Connection Intent.          *)
Dispatched(q) == GoesTo(q, IF requests[q].kind = "connect" THEN "persist" ELSE "answered")

PendingRuntimeOperation(q) ==
    /\ requests[q].pc = "pending"
    /\ IF requests[q].op \in Pending THEN GoesTo(q, "send") ELSE Dispatched(q)
    /\ UNCHANGED <<operations, outbox, intents, minted, runtime, invocations,
                   recovery, now, losses, skews>>

(* SendRuntimeOperation: the workflow is keyed by the Operation, so that   *)
(* sending it again changes nothing.                                       *)
Accept(o) ==
    invocations' = [invocations EXCEPT ![o] = IF @ = "none" THEN "accepted" ELSE @]

(* A send that fails may have been received all the same.                  *)
SendFails(o) ==
    /\ losses < MaxLosses /\ losses' = losses + 1
    /\ Accept(o) \/ UNCHANGED invocations

SendRuntimeOperation(q) ==
    /\ requests[q].pc = "send"
    /\ \/ Accept(requests[q].op) /\ Dispatched(q) /\ UNCHANGED losses
       \/ SendFails(requests[q].op) /\ GoesTo(q, "defer")
    /\ UNCHANGED <<operations, outbox, intents, minted, runtime, recovery, now, skews>>

(* Mutant: an Operation that was deferred is not found again.              *)
DeferredForGood(o) == outbox' = [outbox EXCEPT ![o].started = TRUE]

Deferred(o) ==
    outbox' = [outbox EXCEPT ![o] =
        IF @.started THEN @ ELSE [@ EXCEPT !.attempts = outbox[o].attempts + 1, !.due = FALSE]]

DeferRuntimeOperationDispatch(q) ==
    /\ requests[q].pc = "defer"
    /\ Deferred(requests[q].op)
    /\ Refuses(q, "unavailable")
    /\ UNCHANGED <<operations, intents, minted, runtime, invocations, recovery,
                   now, losses, skews>>

-----------------------------------------------------------------------------
(* Connection Intents. *)

(* GetOwnedEnvironment reads the Environment with its active Operation,    *)
(* and then the Runtime that row named: two statements.                    *)
ReadEnvironment(q) ==
    /\ requests[q].pc \in {"environment", "again"}
    /\ Goes(q, [requests[q] EXCEPT !.active = ActiveOperation(requests[q].env),
                                   !.read = runtime[requests[q].env].id,
                                   !.pc = IF @ = "again" THEN "rejoin" ELSE "runtime"])
    /\ UNCHANGED <<operations, outbox, intents, minted, runtime, invocations,
                   recovery, now, losses, skews>>

(* CreateConnectionIntent then reads the clock.                            *)
ReadRuntime(q) ==
    LET current == runtime[requests[q].env]
        status == IF current.id = requests[q].read THEN current.status ELSE "retired" IN
    /\ \/ /\ requests[q].pc = "runtime"
          /\ Goes(q, [requests[q] EXCEPT !.status = status, !.at = now, !.pc = "intent"])
       \/ /\ requests[q].pc = "rejoin"        \* after ErrOperationConflict
          /\ IF requests[q].active # None THEN GoesTo(q, "join")
             ELSE IF status = "ready" THEN GoesTo(q, "persist") ELSE Refuses(q, "state")
    /\ UNCHANGED <<operations, outbox, intents, minted, runtime, invocations,
                   recovery, now, losses, skews>>

(* The stored Intent of the key, for the Environment it was created for.   *)
ReplaysIntent(q) ==
    LET row == intents[requests[q].key] IN
    IF row.env = requests[q].env
    THEN Goes(q, [requests[q] EXCEPT !.pc = "answered", !.intent = row.id, !.op = row.op])
    ELSE Refuses(q, "conflict")

replayConnectionIntent(q) ==
    LET key == requests[q].key IN
    /\ requests[q].pc = "intent"
    /\ IF Live(key, requests[q].at) THEN ReplaysIntent(q)
       ELSE IF OfKey(key) # {} THEN Refuses(q, "conflict")
       ELSE GoesTo(q, "prepare")
    /\ UNCHANGED <<operations, outbox, intents, minted, runtime, invocations,
                   recovery, now, losses, skews>>

prepareConnectionIntentStart(q) ==
    /\ requests[q].pc = "prepare"
    /\ IF requests[q].active # None THEN GoesTo(q, "join")
       ELSE CASE requests[q].status = "ready" -> GoesTo(q, "persist")
              [] requests[q].status = "starting" -> Refuses(q, "state")
              [] OTHER -> GoesTo(q, "replay")
    /\ UNCHANGED <<operations, outbox, intents, minted, runtime, invocations,
                   recovery, now, losses, skews>>

joinConnectionStart(q) ==
    /\ requests[q].pc = "join"
    /\ IF operations[requests[q].active].type = "start"
       THEN Goes(q, [requests[q] EXCEPT !.pc = "persist", !.op = requests[q].active])
       ELSE Refuses(q, "busy")
    /\ UNCHANGED <<operations, outbox, intents, minted, runtime, invocations,
                   recovery, now, losses, skews>>

(* Mutant: what was prepared is taken for granted.                         *)
TrustedEnvironment(q, seen) == "mint"

(* lockConnectionIntentEnvironment: what was prepared still is.            *)
LockedEnvironment(q, seen) ==
    LET e == requests[q].env
        op == requests[q].op IN
    IF op # None
    THEN IF op \in Active(e) /\ operations[op].runtime = runtime[e].id THEN "mint" ELSE "busy"
    ELSE IF seen # {} THEN "busy"
    ELSE IF runtime[e].status = "ready" THEN "mint" ELSE "state"

(* The statement that locks the Environment joins its active Operation as  *)
(* of when it began: while it waits for the lock, the transaction that     *)
(* holds it may reserve one.                                               *)
SeenActive(e) ==
    {Active(e)} \cup {seen \in {{}} : \A o \in Active(e) : operations[o].status = "queued"}

(* The Intent expires one tick after the request's reading of the clock.   *)
InsertConnectionIntent(q) ==
    \E seen \in SeenActive(requests[q].env) :
       IF LockedEnvironment(q, seen) # "mint"
       THEN Refuses(q, LockedEnvironment(q, seen)) /\ UNCHANGED <<intents, minted>>
       ELSE /\ minted' = minted + 1
            /\ intents' = [intents EXCEPT ![requests[q].key] =
                  [id |-> minted + 1, env |-> requests[q].env, op |-> requests[q].op,
                   expires |-> requests[q].at + 1, used |-> FALSE]]
            /\ Goes(q, [requests[q] EXCEPT !.pc = "answered", !.intent = minted + 1])

(* One transaction; an expired row of the key is replaced.                 *)
persistPreparedConnectionIntent(q) ==
    LET key == requests[q].key IN
    /\ requests[q].pc = "persist"
    /\ IF Live(key, requests[q].at) THEN ReplaysIntent(q) /\ UNCHANGED <<intents, minted>>
       ELSE IF OfKey(key) # {} THEN Refuses(q, "conflict") /\ UNCHANGED <<intents, minted>>
       ELSE InsertConnectionIntent(q)
    /\ UNCHANGED <<operations, outbox, runtime, invocations, recovery, now, losses, skews>>

ConsumeConnectionIntent(key) ==
    /\ Live(key, now) /\ ~intents[key].used
    /\ intents' = [intents EXCEPT ![key].used = TRUE]
    /\ UNCHANGED <<requests, operations, outbox, minted, runtime, invocations,
                   recovery, now, losses, skews>>

PruneConnectionIntents ==
    /\ \E k \in Keys : intents[k] # None /\ ~Live(k, now)
    /\ intents' = [k \in Keys |-> IF Live(k, now) THEN intents[k] ELSE None]
    /\ UNCHANGED <<requests, operations, outbox, minted, runtime, invocations,
                   recovery, now, losses, skews>>

-----------------------------------------------------------------------------
(* The recovery loop and the backoff of an Operation deferred. *)

(* ListPendingRuntimeOperations: those attempted least come first.         *)
RecoveryBegins ==
    /\ recovery = {} /\ Pending # {}
    /\ \E batch \in SUBSET Pending :
          /\ batch = Pending \/ Cardinality(batch) = BatchSize
          /\ Cardinality(batch) <= BatchSize
          /\ \A o \in batch, p \in Pending \ batch : outbox[o].attempts <= outbox[p].attempts
          /\ recovery' = batch
    /\ UNCHANGED <<requests, operations, outbox, intents, minted, runtime,
                   invocations, now, losses, skews>>

(* A failure is deferred, if the outbox can be written, and the round goes *)
(* on.                                                                     *)
RecoverySends(o) ==
    /\ o \in recovery /\ recovery' = recovery \ {o}
    /\ \/ Accept(o) /\ UNCHANGED <<outbox, losses>>
       \/ SendFails(o) /\ (Deferred(o) \/ UNCHANGED outbox)
    /\ UNCHANGED <<requests, operations, intents, minted, runtime, now, skews>>

BackoffElapses(o) ==
    /\ ~outbox[o].due /\ outbox' = [outbox EXCEPT ![o].due = TRUE]
    /\ UNCHANGED <<requests, operations, intents, minted, runtime, invocations,
                   recovery, now, losses, skews>>

-----------------------------------------------------------------------------
(* The workflow of an Operation, as far as requests see it; what it does   *)
(* in between is RuntimeWorkflows.                                         *)

(* LoadRuntimeWorkflowOperation: the Operation runs and leaves the outbox. *)
(* A workflow whose clock is behind the creation of the Operation returns. *)
WorkflowLoads(o) ==
    /\ invocations[o] = "accepted"
    /\ \/ /\ operations' = [operations EXCEPT ![o].status = "running"]
          /\ outbox' = [outbox EXCEPT ![o].started = TRUE]
          /\ invocations' = [invocations EXCEPT ![o] = "begun"]
          /\ UNCHANGED skews
       \/ /\ skews < MaxSkews /\ skews' = skews + 1
          /\ invocations' = [invocations EXCEPT ![o] = "returned"]
          /\ UNCHANGED <<operations, outbox>>
    /\ UNCHANGED <<requests, intents, minted, runtime, recovery, now, losses>>

Moves ==
    [start |-> {<<"stopped", "starting">>, <<"stopped", "replacing">>,
                <<"absent", "starting">>, <<"starting", "ready">>},
     stop  |-> {<<"ready", "stopping">>, <<"stopping", "stopped">>},
     apply |-> {}]

WorkflowWorks(o) ==
    LET e == operations[o].env IN
    /\ invocations[o] = "begun"
    /\ \/ \E move \in Moves[operations[o].type] :
             /\ runtime[e].status = move[1]
             /\ move[2] = "replacing" => runtime[e].id < MaxReplacements
             /\ runtime' = [runtime EXCEPT ![e].status = move[2]]
       \/ /\ runtime[e].status = "replacing"      \* PersistRuntimeReplacement
          /\ runtime' = [runtime EXCEPT ![e] = [id |-> @.id + 1, status |-> "absent"]]
    /\ UNCHANGED <<requests, operations, outbox, intents, minted, invocations,
                   recovery, now, losses, skews>>

WorkflowEnds(o) ==
    LET e == operations[o].env
        goal == [start |-> {"ready"}, stop |-> {"stopped"}, apply |-> RuntimeStatuses] IN
    /\ invocations[o] = "begun"
    /\ \/ /\ runtime[e].status \in goal[operations[o].type]
          /\ operations' = [operations EXCEPT ![o].status = "succeeded"]
          /\ UNCHANGED runtime
       \/ /\ operations' = [operations EXCEPT ![o].status = "failed"]
          /\ \/ UNCHANGED runtime
             \/ /\ runtime[e].status \in {"starting", "stopping"}
                /\ runtime' = [runtime EXCEPT ![e].status = "error"]
    /\ invocations' = [invocations EXCEPT ![o] = "returned"]
    /\ UNCHANGED <<requests, outbox, intents, minted, recovery, now, losses, skews>>

Tick ==
    /\ now < MaxTime /\ now' = now + 1
    /\ UNCHANGED <<requests, operations, outbox, intents, minted, runtime,
                   invocations, recovery, losses, skews>>

-----------------------------------------------------------------------------

RequestStep(q) ==
    \/ ReplayRuntimeOperation(q) \/ CreditBalance(q) \/ ReserveRuntimeOperation(q)
    \/ PendingRuntimeOperation(q) \/ SendRuntimeOperation(q)
    \/ DeferRuntimeOperationDispatch(q)
    \/ ReadEnvironment(q) \/ ReadRuntime(q) \/ replayConnectionIntent(q)
    \/ prepareConnectionIntentStart(q) \/ joinConnectionStart(q)
    \/ persistPreparedConnectionIntent(q)

WorkflowStep(o) == WorkflowLoads(o) \/ WorkflowWorks(o) \/ WorkflowEnds(o)

Next ==
    \/ \E q \in Requests :
          \/ \E kind \in Kinds, e \in Environments, key \in Keys : Submit(q, kind, e, key)
          \/ RequestStep(q) \/ RequestLost(q)
    \/ \E o \in Operations : RecoverySends(o) \/ BackoffElapses(o) \/ WorkflowStep(o)
    \/ \E key \in Keys : ConsumeConnectionIntent(key)
    \/ RecoveryBegins \/ PruneConnectionIntents \/ Tick

Spec == Init /\ [][Next]_vars

(* The recovery loop runs for as long as a control plane does, a backoff   *)
(* is at most an hour, and Restate runs what it has accepted until it      *)
(* returns.  Nobody finishes a request.                                    *)
Fairness ==
    /\ WF_vars(RecoveryBegins)
    /\ \A o \in Operations :
          WF_vars(RecoverySends(o)) /\ WF_vars(BackoffElapses(o)) /\ WF_vars(WorkflowStep(o))

FairSpec == Spec /\ Fairness

-----------------------------------------------------------------------------
(* Properties. *)

Answered(q) == requests[q].pc = "answered"

(* "Same key and identical canonical input returns the existing Operation" *)
(* (docs/spec/09-api.md): two accepted requests with one Idempotency-Key   *)
(* are one command and one Operation, also when both were in flight before *)
(* either had reserved, or one was lost and sent again.  Connection        *)
(* Intents share the scope: the key of a live one names no Operation,      *)
(* although that is tested by the database's clock and by the request's.   *)
KeyNamesOneCommand ==
    /\ \A p, q \in Requests :
        (/\ Answered(p) /\ Answered(q)
         /\ requests[p].key = requests[q].key
         /\ requests[p].kind \in Types /\ requests[q].kind \in Types)
        => /\ requests[p].kind = requests[q].kind /\ requests[p].env = requests[q].env
           /\ requests[p].op = requests[q].op
    /\ \A k \in Keys : Live(k, now) => OfKey(k) = {}

(* An Environment never has two Operations that could both have workflows, *)
(* whatever requests, recoveries and duplicate sends interleave.           *)
OneWorkflowPerEnvironment ==
    \A o, p \in Operations :
        (/\ invocations[o] = "begun" /\ invocations[p] = "begun"
         /\ operations[o].env = operations[p].env) => o = p

KeepsIntents ==
    /\ minted' # minted =>
          \A k \in Keys : intents'[k] # None /\ intents'[k].id = minted' =>
             LET e == intents'[k].env
                 op == intents'[k].op IN
             IF op = None
             THEN runtime[e].status = "ready" /\ \A o \in Active(e) : operations[o].status = "queued"
             ELSE /\ op \in Active(e) /\ operations[op].type = "start"
                  /\ operations[op].runtime = runtime[e].id
    /\ \A k \in Keys : Live(k, now) =>
          /\ intents'[k] # None /\ intents'[k].id = intents[k].id
          /\ intents[k].used => intents'[k].used

(* An Intent is minted on what is true when it is stored, not on what the  *)
(* request read before: without an Operation only for a ready Runtime that *)
(* no running Operation works on, otherwise for an active start of the     *)
(* current Runtime.  And while it lives it stays what it was, but for its  *)
(* use: no request with an older reading of the clock replaces it.         *)
IntentsHold == [][KeepsIntents]_vars

(* An Operation reserved is run to its end, although the request may be    *)
(* lost at once, sends fail and the client never asks again.               *)
OperationsAreRun ==
    \A o \in Operations :
        operations[o].status = "queued" ~> operations[o].status \in {"succeeded", "failed"}
=============================================================================
