------------------------------ MODULE AutoStop ------------------------------
(***************************************************************************)
(* Auto-stop of one Environment: the Restate object that coordinates it,   *)
(* the policy and the outbox of its refreshes, the Activity Snapshots, and *)
(* the workflows as far as they meet the object.                           *)
(*                                                                         *)
(* The object runs one handler at a time.  Observe, Suppress and Resume    *)
(* touch only its state and are one step; Refresh and Expire read the      *)
(* database in between, step by journaled step, while the object is taken. *)
(*                                                                         *)
(* Time is left out.  A delayed message arrives at any later time; a       *)
(* Snapshot is younger than a reading of the clock if it was sampled after *)
(* it, and whether one is older than five minutes is a free choice.        *)
(***************************************************************************)
EXTENDS Naturals, Sequences, FiniteSets

CONSTANTS
    Modes,            \* modes of policies users choose
    Activities,       \* what goes on in a Runtime: sets of classes of activity
    Types,            \* Operations users ask for
    MaxRuntimes,
    MaxGenerations,   \* generations of the policy
    MaxSamples,       \* Activity Snapshots of a Runtime
    MaxObservations,  \* observations sent to the object
    MaxOperations,    \* Operations users reserve
    MaxCrashes,       \* crashes before a dispatch or a refresh is recorded
    MaxFaults         \* permanent failures

Runtimes == 1..MaxRuntimes
Generations == 1..MaxGenerations

(* The classes of activity that keep a Runtime up, by mode.                *)
Protects ==
    [when_disconnected  |-> {"connections"},
     when_agents_finish |-> {"agents"},
     when_fully_idle    |-> {"connections", "agents", "other"}]

ASSUME ModesAssumption == Modes \subseteq DOMAIN Protects \cup {"manual"}
ASSUME ActivitiesAssumption ==
    Activities \subseteq SUBSET {"connections", "agents", "other"}
ASSUME TypesAssumption == Types \subseteq {"start", "stop", "apply"}
ASSUME BoundsAssumption ==
    /\ MaxRuntimes \in Nat \ {0} /\ MaxGenerations \in Nat \ {0} /\ MaxSamples \in Nat
    /\ MaxObservations \in Nat /\ MaxOperations \in Nat
    /\ MaxCrashes \in Nat /\ MaxFaults \in Nat

VARIABLES
    coord,        \* AutoStopCoordinationState
    handler,      \* the Refresh or Expire that has the object
    sent, fired,  \* delayed sends of Expire, and those delivered
    observations, \* observations sent and not delivered
    observed,     \* observations sent so far
    policy,       \* row of auto_stop_policies
    modes,        \* the mode of each generation of the policy
    refresher,    \* the dispatcher of policy refreshes
    signals, refreshed,  \* refreshes sent, and those delivered
    runtime,      \* current_runtime_id and its status
    op,           \* the active Operation
    stops,        \* keys of automatic stops
    ops,          \* Operations users have reserved so far
    samples, stored,     \* Activity Snapshots by Runtime, and those stored
    crashes, faults

vars == <<coord, handler, sent, fired, observations, observed, policy, modes,
          refresher, signals, refreshed, runtime, op, stops, ops,
          samples, stored, crashes, faults>>
objectVars == <<coord, handler, sent>>
inputVars == <<fired, observations, observed>>
policyVars == <<policy, modes, refresher, signals, refreshed>>
workVars == <<runtime, op, stops, ops>>
guestVars == <<samples, stored>>
chanceVars == <<crashes, faults>>

-----------------------------------------------------------------------------
(* Types. *)

Timer == Runtimes \X Nat

CoordinationState ==
    [runtime : Runtimes \cup {0}, policy : Generations \cup {0}, timer : Nat,
     pending : BOOLEAN, last : Nat, dispatched : Nat,
     suppressed : Runtimes \cup {0}, grace : Nat]

(* The Snapshot is named by its sequence, 0 if there is none.              *)
Observation ==
    [runtime : Runtimes, policy : Generations, sample : Nat, fresh : BOOLEAN,
     conflict : BOOLEAN]

NoObservation ==
    [runtime |-> 1, policy |-> 1, sample |-> 0, fresh |-> FALSE, conflict |-> FALSE]

Handler ==
    [kind : {"none", "Refresh", "Expire"}, pc : {"idle", "before", "poll", "after", "dispatch"},
     since : Nat,             \* samples taken when the handler read the clock
     seen : Observation]

Idle == [kind |-> "none", pc |-> "idle", since |-> 0, seen |-> NoObservation]

Operation ==
    [type : {"none", "start", "stop", "apply"}, runtime : Runtimes,
     pc : {"queued", "suppress", "work", "resume"}, auto : BOOLEAN]

NoOperation == [type |-> "none", runtime |-> 1, pc |-> "queued", auto |-> FALSE]

TypeOK ==
    /\ coord \in CoordinationState
    /\ handler \in Handler
    /\ sent \subseteq Timer /\ fired \subseteq sent
    /\ observations \subseteq Observation /\ observed \in 0..MaxObservations
    /\ policy \in [generation : Generations, acknowledged : Nat]
    /\ modes \in [Generations -> Modes]
    /\ refresher \in [generation : Generations \cup {0}, sent : BOOLEAN]
    /\ signals \subseteq Generations /\ refreshed \subseteq signals
    /\ runtime \in [id : Runtimes, status : {"ready", "stopping", "stopped", "starting", "replacing"}]
    /\ op \in Operation
    /\ stops \subseteq Timer /\ ops \in 0..MaxOperations
    /\ samples \in [Runtimes -> Seq(Activities)]
    /\ stored \in [Runtimes -> SUBSET (1..MaxSamples)]
    /\ crashes \in 0..MaxCrashes /\ faults \in 0..MaxFaults

-----------------------------------------------------------------------------
(* The coordinator. *)

Bigger(m, n) == IF m > n THEN m ELSE n

coordinationChanged(c, o) == c.runtime # o.runtime \/ c.policy # o.policy

(* Evaluate: the policy of the observation, on its Snapshot.               *)
Judged(o) == modes[o.policy] # "manual" /\ o.sample # 0
Qualifies(c, o) ==
    /\ Judged(o) /\ o.sample > c.last /\ o.fresh /\ ~o.conflict
    /\ samples[o.runtime][o.sample] \cap Protects[modes[o.policy]] = {}

Counted(c, o) == IF Judged(o) THEN [c EXCEPT !.last = Bigger(@, o.sample)] ELSE c

Cancel(c) ==
    IF c.pending THEN [c EXCEPT !.timer = @ + 1, !.pending = FALSE, !.grace = 0] ELSE c

Suppress(c, r) ==
    [c EXCEPT !.timer = IF c.pending THEN @ + 1 ELSE @, !.pending = FALSE,
              !.grace = 0, !.suppressed = r]

Resume(c, r) ==
    IF c.suppressed = r THEN [c EXCEPT !.suppressed = 0, !.dispatched = 0] ELSE c

Coordinated(c, o) ==
    IF ~coordinationChanged(c, o) THEN c
    ELSE [c EXCEPT !.timer = IF c.pending THEN @ + 1 ELSE @, !.pending = FALSE,
                   !.runtime = o.runtime, !.policy = o.policy, !.last = 0,
                   !.dispatched = 0, !.grace = 0,
                   !.suppressed = IF c.runtime # o.runtime THEN 0 ELSE @]

Observe(c, o) ==
    LET base == Coordinated(c, o)
        next == Counted(base, o) IN
    IF base.suppressed = o.runtime THEN Cancel(base)
    ELSE IF ~Qualifies(base, o) THEN Cancel(next)
    ELSE IF base.pending \/ (base.dispatched # 0 /\ base.dispatched = base.timer) THEN next
    ELSE [next EXCEPT !.timer = @ + 1, !.pending = TRUE, !.grace = o.sample]

(* Mutant: generations of timers begin anew with the next Runtime.         *)
AbandonedAnew(c) ==
    [c EXCEPT !.timer = 0, !.pending = FALSE, !.runtime = 0, !.policy = 0, !.last = 0,
              !.dispatched = 0, !.suppressed = 0, !.grace = 0]

abandonAutoStopRuntime(c) ==
    [c EXCEPT !.timer = IF c.pending THEN @ + 1 ELSE @, !.pending = FALSE,
              !.runtime = 0, !.policy = 0, !.last = 0, !.dispatched = 0,
              !.suppressed = 0, !.grace = 0]

-----------------------------------------------------------------------------
(* The object. *)

Init ==
    /\ coord = [runtime |-> 0, policy |-> 0, timer |-> 0, pending |-> FALSE,
                last |-> 0, dispatched |-> 0, suppressed |-> 0, grace |-> 0]
    /\ handler = Idle
    /\ sent = {} /\ fired = {} /\ observations = {} /\ observed = 0
    /\ policy = [generation |-> 1, acknowledged |-> 1]
    /\ modes \in [Generations -> Modes]
    /\ refresher = [generation |-> 0, sent |-> FALSE]
    /\ signals = {} /\ refreshed = {}
    /\ runtime = [id |-> 1, status |-> "ready"]
    /\ op = NoOperation /\ stops = {} /\ ops = 0
    /\ samples = [r \in Runtimes |-> <<>>] /\ stored = [r \in Runtimes |-> {}]
    /\ crashes = 0 /\ faults = 0

(* Set, and schedule: a timer is sent once for its Runtime and generation. *)
SetState(c) ==
    /\ coord' = c
    /\ sent' = IF c.pending /\ ~(coord.pending /\ coord.timer = c.timer)
               THEN sent \cup {<<c.runtime, c.timer>>} ELSE sent

Done(c) == SetState(c) /\ handler' = Idle

Latest(r) ==
    IF stored[r] = {} THEN 0 ELSE CHOOSE s \in stored[r] : \A t \in stored[r] : t <= s

(* environment.create and profile.resolve do not run beside the rest.      *)
Conflict == op.type = "start"

(* LatestAutoStopSnapshot, as the sender of an observation reads it when a *)
(* Snapshot was stored.                                                    *)
SendAutoStopObservation ==
    /\ Latest(runtime.id) # 0
    /\ observed < MaxObservations /\ observed' = observed + 1
    /\ observations' = observations \cup
          {[runtime |-> runtime.id, policy |-> policy.generation,
            sample |-> Latest(runtime.id), fresh |-> TRUE, conflict |-> Conflict]}
    /\ UNCHANGED <<objectVars, fired, policyVars, workVars, guestVars, chanceVars>>

ObserveHandler(o) ==
    /\ handler = Idle /\ o \in observations
    /\ observations' = observations \ {o}
    /\ Done(Observe(coord, o))
    /\ UNCHANGED <<fired, observed, policyVars, workVars, guestVars, chanceVars>>

(* Refresh begins with a reading of the clock, unless nothing is known.    *)
RefreshBegins(g) ==
    /\ handler = Idle /\ g \in signals \ refreshed
    /\ refreshed' = refreshed \cup {g}
    /\ handler' = IF coord.runtime = 0 THEN Idle
                  ELSE [Idle EXCEPT !.kind = "Refresh", !.pc = "before"]
    /\ UNCHANGED <<coord, sent, inputVars, policy, modes, refresher, signals, workVars,
                   guestVars, chanceVars>>

currentAutoStopTimer(t) == coord.pending /\ coord.runtime = t[1] /\ coord.timer = t[2]

ExpireBegins(t) ==
    /\ handler = Idle /\ t \in sent \ fired
    /\ fired' = fired \cup {t}
    /\ handler' = IF ~currentAutoStopTimer(t) THEN Idle
                  ELSE [Idle EXCEPT !.kind = "Expire", !.pc = "before",
                                    !.since = Len(samples[coord.runtime])]
    /\ UNCHANGED <<coord, sent, observations, observed, policyVars, workVars, guestVars,
                   chanceVars>>

(* ReadAutoStopState knows the Runtime no more: ErrReferenceNotOwned.      *)
Abandons ==
    /\ runtime.id # coord.runtime
    /\ Done(abandonAutoStopRuntime(coord))

ReadsBefore ==
    /\ handler.pc = "before"
    /\ \/ Abandons
       \/ /\ runtime.id = coord.runtime
          /\ handler' = [handler EXCEPT !.pc = "poll"] /\ UNCHANGED <<coord, sent>>
    /\ UNCHANGED <<inputVars, policyVars, workVars, guestVars, chanceVars>>

(* Mutant: a Snapshot is fresh if the coordinator has not seen it.         *)
UnseenSample(s) == s > coord.last

FreshSample(s) == s > handler.since

(* The poll ends with a Snapshot that will do, or at its deadline with the *)
(* latest there is.                                                        *)
PollsSnapshot ==
    /\ handler.pc = "poll"
    /\ LET s == Latest(coord.runtime) IN
       \E fresh \in (IF handler.kind = "Expire" THEN {FreshSample(s)} ELSE BOOLEAN) :
          handler' = [handler EXCEPT !.pc = "after", !.seen.sample = s, !.seen.fresh = fresh]
    /\ UNCHANGED <<coord, sent, inputVars, policyVars, workVars, guestVars, chanceVars>>

(* Expire of the coordinator, on what was read.                            *)
Expires(o) ==
    \/ /\ coordinationChanged(coord, o)
       /\ Done(Observe(coord, o))
    \/ /\ ~coordinationChanged(coord, o) /\ ~Qualifies(coord, o)
       /\ Done([Counted(coord, o) EXCEPT !.pending = FALSE, !.grace = 0])
    \/ /\ ~coordinationChanged(coord, o) /\ Qualifies(coord, o)
       /\ handler' = [handler EXCEPT !.pc = "dispatch", !.seen = o]
       /\ UNCHANGED <<coord, sent>>

ReadsAfter ==
    /\ handler.pc = "after"
    /\ \/ Abandons
       \/ /\ runtime.id = coord.runtime
          /\ LET o == [handler.seen EXCEPT !.runtime = runtime.id, !.policy = policy.generation,
                                           !.conflict = Conflict] IN
             IF handler.kind = "Expire" THEN Expires(o) ELSE Done(Observe(coord, o))
    /\ UNCHANGED <<inputVars, policyVars, workVars, guestVars, chanceVars>>

(* A read fails for good, or the clock moved backwards: the handler ends   *)
(* without a word to the state.                                            *)
HandlerFails ==
    /\ handler.pc \in {"before", "poll", "after"}
    /\ faults < MaxFaults /\ faults' = faults + 1
    /\ handler' = Idle
    /\ UNCHANGED <<coord, sent, inputVars, policyVars, workVars, guestVars, crashes>>

StopKey == <<coord.runtime, coord.timer>>
Dispatches == Done([Counted(coord, handler.seen) EXCEPT !.pending = FALSE, !.dispatched = coord.timer])

(* DispatchRuntimeStop: the Runtime is still current, and its key names a  *)
(* stop already, or a stop is reserved.  A conflict with another Operation *)
(* and a status that admits no stop are retried, with the object taken.    *)
DispatchRuntimeStop ==
    /\ handler.pc = "dispatch"
    /\ \/ /\ runtime.id # coord.runtime
          /\ Done([Counted(coord, handler.seen) EXCEPT !.pending = FALSE, !.dispatched = 0, !.grace = 0])
          /\ UNCHANGED <<workVars, crashes>>
       \/ /\ runtime.id = coord.runtime /\ StopKey \in stops
          /\ Dispatches
          /\ UNCHANGED <<workVars, crashes>>
       \/ /\ runtime.id = coord.runtime /\ StopKey \notin stops
          /\ op.type = "none" /\ runtime.status \in {"ready", "stopped"}
          /\ op' = [type |-> "stop", runtime |-> runtime.id, pc |-> "queued", auto |-> TRUE]
          /\ stops' = stops \cup {StopKey}
          /\ \/ Dispatches /\ UNCHANGED crashes
             \/ /\ crashes < MaxCrashes /\ crashes' = crashes + 1
                /\ UNCHANGED objectVars
          /\ UNCHANGED <<runtime, ops>>
    /\ UNCHANGED <<inputVars, policyVars, guestVars, faults>>

-----------------------------------------------------------------------------
(* The policy and its refreshes. *)

UpdateAutoStopPolicy ==
    /\ op.type = "none" /\ policy.generation < MaxGenerations
    /\ policy' = [policy EXCEPT !.generation = @ + 1]
    /\ UNCHANGED <<objectVars, inputVars, modes, refresher, signals, refreshed, workVars,
                   guestVars, chanceVars>>

(* PendingAutoStopPolicyRefresh, for a request or for the recovery.        *)
RefreshIsPending ==
    /\ refresher.generation = 0 /\ policy.acknowledged < policy.generation
    /\ refresher' = [generation |-> policy.generation, sent |-> FALSE]
    /\ UNCHANGED <<objectVars, inputVars, policy, modes, signals, refreshed, workVars,
                   guestVars, chanceVars>>

SendAutoStopPolicyRefresh ==
    /\ refresher.generation # 0 /\ ~refresher.sent
    /\ signals' = signals \cup {refresher.generation}
    /\ refresher' = [refresher EXCEPT !.sent = TRUE]
    /\ UNCHANGED <<objectVars, inputVars, policy, modes, refreshed, workVars, guestVars,
                   chanceVars>>

(* Mutant: what is acknowledged is the generation the row has by now.      *)
AcknowledgeCurrent ==
    /\ refresher.sent
    /\ policy' = [policy EXCEPT !.acknowledged = policy.generation]
    /\ refresher' = [generation |-> 0, sent |-> FALSE]
    /\ UNCHANGED <<objectVars, inputVars, modes, signals, refreshed, workVars, guestVars,
                   chanceVars>>

AcknowledgeAutoStopPolicyRefresh ==
    /\ refresher.sent
    /\ policy' = [policy EXCEPT !.acknowledged = Bigger(@, refresher.generation)]
    /\ refresher' = [generation |-> 0, sent |-> FALSE]
    /\ UNCHANGED <<objectVars, inputVars, modes, signals, refreshed, workVars, guestVars,
                   chanceVars>>

(* The send fails, or the process dies before it is acknowledged: deferred *)
(* or not, the generation stays pending.                                   *)
RefreshIsLost ==
    /\ refresher.generation # 0
    /\ crashes < MaxCrashes /\ crashes' = crashes + 1
    /\ refresher' = [generation |-> 0, sent |-> FALSE]
    /\ UNCHANGED <<objectVars, inputVars, policy, modes, signals, refreshed, workVars,
                   guestVars, faults>>

-----------------------------------------------------------------------------
(* The workflows, as far as they meet the object. *)

ReserveRuntimeOperation(type) ==
    /\ op.type = "none" /\ ops < MaxOperations /\ ops' = ops + 1
    /\ IF type = "apply" THEN runtime.status = "ready" ELSE runtime.status \in {"ready", "stopped"}
    /\ op' = [type |-> type, runtime |-> runtime.id, pc |-> "queued", auto |-> FALSE]
    /\ UNCHANGED <<objectVars, inputVars, policyVars, runtime, stops, guestVars, chanceVars>>

Ended == op' = NoOperation

(* A Runtime that is where it should be; profile.apply is one step.        *)
OperationLoads ==
    /\ op.type # "none" /\ op.pc = "queued"
    /\ \/ /\ \/ op.type = "apply"
             \/ op.type = "start" /\ runtime.status = "ready"
             \/ op.type = "stop" /\ runtime.status = "stopped"
          /\ Ended /\ UNCHANGED <<runtime, faults>>
       \/ /\ op.type = "stop" /\ runtime.status = "ready"
          /\ \/ op' = [op EXCEPT !.pc = "suppress"] /\ UNCHANGED faults
             \/ Ended /\ faults < MaxFaults /\ faults' = faults + 1
          /\ UNCHANGED runtime
       \/ /\ op.type = "start" /\ runtime.status = "stopped"
          /\ \/ /\ runtime' = [runtime EXCEPT !.status = "starting"]
                /\ op' = [op EXCEPT !.pc = "work"]
             \/ /\ runtime.id < MaxRuntimes             \* by a replacement
                /\ runtime' = [runtime EXCEPT !.status = "replacing"]
                /\ op' = [op EXCEPT !.pc = "suppress"]
          /\ UNCHANGED faults
    /\ UNCHANGED <<objectVars, inputVars, policyVars, stops, ops, guestVars, crashes>>

(* SuppressAutoStop and ResumeAutoStop wait for the object.                *)
SuppressHandler ==
    /\ handler = Idle /\ op.type # "none" /\ op.pc = "suppress"
    /\ Done(Suppress(coord, runtime.id))
    /\ op' = [op EXCEPT !.pc = "work"]
    /\ UNCHANGED <<inputVars, policyVars, runtime, stops, ops, guestVars, chanceVars>>

ResumeHandler ==
    /\ handler = Idle /\ op.type # "none" /\ op.pc = "resume"
    /\ Done(Resume(coord, runtime.id))
    /\ Ended
    /\ UNCHANGED <<inputVars, policyVars, runtime, stops, ops, guestVars, chanceVars>>

(* A stop without a fresh Snapshot fails and resumes Auto-stop.            *)
OperationWorks ==
    /\ op.type # "none" /\ op.pc = "work"
    /\ \/ /\ op.type = "stop" /\ runtime.status = "ready"
          /\ \/ runtime' = [runtime EXCEPT !.status = "stopping"] /\ UNCHANGED op
             \/ op' = [op EXCEPT !.pc = "resume"] /\ UNCHANGED runtime
       \/ /\ op.type = "stop" /\ runtime.status = "stopping"
          /\ runtime' = [runtime EXCEPT !.status = "stopped"] /\ Ended
       \/ /\ runtime.status = "replacing"
          /\ runtime' = [id |-> runtime.id + 1, status |-> "starting"] /\ UNCHANGED op
       \/ /\ runtime.status = "starting"
          /\ runtime' = [runtime EXCEPT !.status = "ready"]
          /\ op' = [op EXCEPT !.pc = "resume"]
    /\ UNCHANGED <<objectVars, inputVars, policyVars, stops, ops, guestVars, chanceVars>>

-----------------------------------------------------------------------------
(* The guest. *)

GuestSamples(activity) ==
    LET r == runtime.id IN
    /\ runtime.status = "ready" /\ Len(samples[r]) < MaxSamples
    /\ samples' = [samples EXCEPT ![r] = Append(@, activity)]
    /\ UNCHANGED <<objectVars, inputVars, policyVars, workVars, stored, chanceVars>>

(* Snapshots are stored in any order, for the current Runtime only.        *)
StoreActivitySnapshot(s) ==
    LET r == runtime.id IN
    /\ s \in DOMAIN samples[r] /\ s \notin stored[r]
    /\ stored' = [stored EXCEPT ![r] = @ \cup {s}]
    /\ UNCHANGED <<objectVars, inputVars, policyVars, workVars, samples, chanceVars>>

-----------------------------------------------------------------------------

HandlerStep == ReadsBefore \/ PollsSnapshot \/ ReadsAfter \/ DispatchRuntimeStop
WorkflowStep == OperationLoads \/ SuppressHandler \/ OperationWorks \/ ResumeHandler
RefresherStep ==
    RefreshIsPending \/ SendAutoStopPolicyRefresh \/ AcknowledgeAutoStopPolicyRefresh

Next ==
    \/ SendAutoStopObservation \/ \E o \in observations : ObserveHandler(o)
    \/ \E g \in signals : RefreshBegins(g)
    \/ \E t \in sent : ExpireBegins(t)
    \/ HandlerStep \/ HandlerFails
    \/ UpdateAutoStopPolicy \/ RefresherStep \/ RefreshIsLost
    \/ \E type \in Types : ReserveRuntimeOperation(type)
    \/ WorkflowStep
    \/ \E activity \in Activities : GuestSamples(activity)
    \/ \E s \in 1..MaxSamples : StoreActivitySnapshot(s)

Spec == Init /\ [][Next]_vars

(* Restate runs handlers, workflows and what is sent to the object until   *)
(* they return; the recovery loop dispatches refreshes for as long as a    *)
(* control plane runs.  A call that waits for the object has its turn.     *)
Fairness ==
    /\ WF_vars(HandlerStep) /\ WF_vars(OperationLoads) /\ WF_vars(OperationWorks)
    /\ SF_vars(SuppressHandler) /\ SF_vars(ResumeHandler)
    /\ \A g \in Generations : SF_vars(RefreshBegins(g))
    /\ WF_vars(RefresherStep)

FairSpec == Spec /\ Fairness

-----------------------------------------------------------------------------
(* Properties. *)

(* A grace period that is running ends, and can end in a stop: while the   *)
(* state says that a timer is pending, its Expire is still to come, or is  *)
(* being handled, the Snapshot it began with is known, and its Runtime and *)
(* generation are not those of an earlier stop, of which this one would be *)
(* taken for the replay.  A timer whose generation was used before would   *)
(* be dropped by Restate as a duplicate.  (An Expire that fails for good   *)
(* leaves a grace period without a timer.)                                 *)
GraceHasItsTimer ==
    coord.pending =>
        /\ faults = 0 => <<coord.runtime, coord.timer>> \in sent \ fired \/ handler.kind = "Expire"
        /\ coord.grace # 0
        /\ <<coord.runtime, coord.timer>> \in stops => handler.pc = "dispatch"

Reserves == op.type = "none" /\ op'.type = "stop" /\ op'.auto

(* "At expiry, the workflow requests a fresh snapshot" (docs/spec/06): an  *)
(* automatic stop is reserved on two Snapshots of the Runtime that is      *)
(* stopped, both idle by the policy, the second sampled after the timer    *)
(* had expired, whatever was cancelled, delayed or reordered in between.   *)
StopIsEvidenced ==
    [][Reserves =>
          LET r == op'.runtime
              idle(s) == samples[r][s] \cap Protects[modes[coord.policy]] = {} IN
          /\ r = coord.runtime
          /\ modes[coord.policy] # "manual"
          /\ idle(coord.grace) /\ idle(handler.seen.sample)
          /\ coord.grace < handler.seen.sample
          /\ handler.since < handler.seen.sample]_vars

(* A change of the policy reaches the coordinator, although the process    *)
(* that sends the refresh may die before or after it has, and the object   *)
(* may be taken when it arrives.  An observation read under an older       *)
(* policy and still on its way is excluded: it may arrive after the        *)
(* refresh and take the older generation back, until the next Snapshot.    *)
PolicyIsTaken ==
    \A g \in Generations :
        policy.generation = g /\ g \notin refreshed /\ (\A o \in observations : o.policy = g)
            ~> coord.policy >= g \/ coord.runtime # runtime.id

(* "A manual stop bypasses the policy" (docs/spec/06): a stop ends, in     *)
(* whatever state Auto-stop is.                                            *)
StopsEnd == op.type = "stop" /\ ~op.auto ~> op.type # "stop"
=============================================================================
