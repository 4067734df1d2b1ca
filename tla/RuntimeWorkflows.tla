-------------------------- MODULE RuntimeWorkflows --------------------------
(***************************************************************************)
(* The durable workflows runtime.start, runtime.stop and runtime.replace   *)
(* (apps/workflows/runtime_*.go) of one Environment, over the rows they    *)
(* write (libs/db), the provider they drive (libs/provideraws) and the     *)
(* crashes that replay them.                                               *)
(*                                                                         *)
(* wf is the journal of the running workflow: a step of the workflow is    *)
(* one journal entry (restate.Run), it takes effect and is journaled.  A   *)
(* crash between the two leaves the effect in place and wf as it was, so   *)
(* that the step runs again, with a new reading of the clock wherever the  *)
(* code reads dependencies.Now() outside the journal.  Now is the number   *)
(* of crashes: only readings of different attempts are told apart.         *)
(*                                                                         *)
(* An Environment has one active Operation at a time (RuntimeOperations),  *)
(* hence one workflow.  Permanent errors of a dependency are bounded by    *)
(* MaxFaults; a transient or unclassified error is retried, so the step    *)
(* is not taken while it lasts.                                            *)
(***************************************************************************)
EXTENDS Runtime

CONSTANTS
    MaxRuntimes,    \* Runtimes the Environment goes through
    MaxOperations,  \* Operations reserved
    MaxCrashes,     \* journal entries lost to a crash
    MaxFaults,      \* permanent dependency errors and expired deadlines
    MaxDrifts       \* instance state changes nobody here asked for

Runtimes == 1..MaxRuntimes
Operations == 1..MaxOperations

ASSUME BoundsAssumption ==
    /\ MaxRuntimes \in Nat \ {0} /\ MaxOperations \in Nat
    /\ MaxCrashes \in Nat /\ MaxFaults \in Nat /\ MaxDrifts \in Nat
ASSUME RefsAssumption == Runtimes \subseteq Refs
ASSUME ImagesAssumption == Images # {}

VARIABLES
    runtimes,    \* rows of runtimes, by sequence; None before reservation
    current,     \* environments.current_runtime_id
    operations,  \* rows of operations
    usage,       \* compute_usage_intervals, by the Operation that opens them
    suppressed,  \* SuppressedRuntimeID of the Auto-stop object
    wf,          \* journal of the workflow of the active Operation
    instance,    \* provider state of each Runtime's instance
    attached,    \* the Runtime whose instance holds the Data Volume
    crashes, faults, drifts

db == <<runtimes, current, operations, usage, suppressed>>
cloud == <<instance, attached, drifts>>
vars == <<db, wf, cloud, crashes, faults>>

-----------------------------------------------------------------------------
(* Types. *)

OperationTypes == {"start", "stop", "replace"}
ProviderStates == {"pending", "running", "stopping", "stopped", "terminated"}
ASSUME StatesAssumption == None \notin ProviderStates
InstanceStates == ProviderStates \cup {"none", "shutting-down"}

Steps == {"idle", "load",
    "start.observe", "start.close", "start.check", "start.begin",
    "start.provider", "start.open", "start.wait", "start.guest",
    "start.ready", "start.resume",
    "stop.observe", "stop.suppress", "stop.prepare", "stop.begin",
    "stop.resume", "stop.provider", "stop.wait", "stop.verify",
    "stop.close", "stop.mark",
    "rep.image", "rep.begin", "rep.suppress", "rep.observe", "rep.pending",
    "rep.stop", "rep.stopped", "rep.close", "rep.verify", "rep.retire",
    "rep.retired", "rep.detached", "rep.switch", "rep.ensure",
    "rep.provision", "rep.attach", "rep.start", "rep.open", "rep.wait",
    "rep.outcome", "rep.guest", "rep.ready", "rep.resume", "rep.error",
    "outcome", "error", "abandon", "fail", "complete", "refused"}

OperationRow ==
    [type    : OperationTypes \cup {None},
     status  : {"none", "queued", "running", "succeeded", "failed"},
     runtime : Runtimes \cup {None}]

UsageRow ==
    [runtime : Runtimes \cup {None}, status : {"none", "open", "closed"}]

Frame ==
    [pc         : Steps,
     op         : Operations \cup {None},
     subject    : Runtimes \cup {None},          \* the Runtime being worked on
     rt         : RuntimeSnapshot \cup {None},   \* and the snapshot held of it
     usage      : Operations \cup {0, None},     \* ComputeUsageIntervalID
     obs        : ProviderStates \cup {None},    \* last provider outcome
     at         : Nat,                           \* last journaled time
     image      : Images \cup {None},
     stored     : BOOLEAN,                       \* storedStopped
     postErr    : BOOLEAN,                       \* postStopErr # nil
     wasRunning : BOOLEAN]                       \* providerWasRunning

TypeOK ==
    /\ runtimes \in [Runtimes -> RuntimeSnapshot \cup {None}]
    /\ current \in Runtimes
    /\ operations \in [Operations -> OperationRow]
    /\ usage \in [Operations \cup {0} -> UsageRow]
    /\ suppressed \in Runtimes \cup {None}
    /\ wf \in Frame
    /\ instance \in [Runtimes -> InstanceStates]
    /\ attached \in Runtimes \cup {None}
    /\ crashes \in 0..MaxCrashes
    /\ faults \in 0..MaxFaults
    /\ drifts \in 0..MaxDrifts

-----------------------------------------------------------------------------
(* The Environment as environment.create leaves it: Runtime 1 ready. *)

IdleFrame ==
    [pc |-> "idle", op |-> None, subject |-> None, rt |-> None, usage |-> None,
     obs |-> None, at |-> 0, image |-> None, stored |-> FALSE,
     postErr |-> FALSE, wasRunning |-> FALSE]

FirstRuntime ==
    [ReserveRuntime(1, CHOOSE image \in Images : TRUE, 0) EXCEPT
        !.status = "ready", !.provider = 1, !.address = 1, !.boot = 1,
        !.startedAt = 0, !.version = 4]

Init ==
    /\ runtimes = [r \in Runtimes |-> IF r = 1 THEN FirstRuntime ELSE None]
    /\ current = 1
    /\ operations = [o \in Operations |->
                        [type |-> None, status |-> "none", runtime |-> None]]
    /\ usage = [i \in Operations \cup {0} |->
                    IF i = 0 THEN [runtime |-> 1, status |-> "open"]
                             ELSE [runtime |-> None, status |-> "none"]]
    /\ suppressed = None
    /\ wf = IdleFrame
    /\ instance = [r \in Runtimes |-> IF r = 1 THEN "running" ELSE "none"]
    /\ attached = 1
    /\ crashes = 0 /\ faults = 0 /\ drifts = 0

-----------------------------------------------------------------------------
(* The journal. *)

Now == crashes
To(step) == [wf EXCEPT !.pc = step]

(* An effect happens and is journaled, or the journal entry is lost.       *)
Journal(frame) ==
    \/ wf' = frame /\ UNCHANGED crashes
    \/ crashes < MaxCrashes /\ crashes' = crashes + 1 /\ UNCHANGED wf

Fault == faults < MaxFaults /\ faults' = faults + 1

(* A step that only reads: it succeeds or fails for good.                  *)
Check(passed, failed) ==
    /\ \/ wf' = passed /\ UNCHANGED faults
       \/ Fault /\ wf' = failed
    /\ UNCHANGED <<db, cloud, crashes>>

(* PersistRuntimeWorkflowTransition and PersistReplacementRuntimeTransition: *)
(* an update guarded by the version held, or the replay of that update.    *)
Persist(can, next, saved, refused) ==
    LET stored == runtimes[wf.subject] IN
    /\ IF ~(can /\ ValidRuntime(next))
       THEN wf' = To(refused) /\ UNCHANGED <<runtimes, crashes>>
       ELSE \/ /\ stored.version = wf.rt.version
               /\ runtimes' = [runtimes EXCEPT ![wf.subject] = next]
               /\ Journal([wf EXCEPT !.pc = saved, !.rt = next])
            \/ /\ stored.version # wf.rt.version
               /\ UNCHANGED runtimes
               /\ Journal(IF stored = next THEN [wf EXCEPT !.pc = saved, !.rt = next]
                                           ELSE To(refused))
    /\ UNCHANGED <<current, operations, usage, suppressed, cloud, faults>>

-----------------------------------------------------------------------------
(* Compute usage (libs/db/billing_usage.go) and Auto-stop calls. *)

OpenIntervals == {i \in DOMAIN usage : usage[i].status = "open"}

(* One open interval per Environment; a second insertion is retried.  When *)
(* the insertion is replayed, StartedAt in nanoseconds is compared with    *)
(* the stored microseconds: equal only if the reading had no nanoseconds.  *)
OpenComputeUsageInterval(opened, conflict) ==
    /\ current = wf.subject
    /\ IF usage[wf.op].status = "none"
       THEN /\ OpenIntervals = {}
            /\ usage' = [usage EXCEPT ![wf.op] =
                            [runtime |-> wf.subject, status |-> "open"]]
            /\ Journal(opened)
       ELSE UNCHANGED usage /\ (Journal(opened) \/ Journal(conflict))
    /\ UNCHANGED <<runtimes, current, operations, suppressed, cloud, faults>>

ClosesInterval(closed) ==
    /\ usage' = [usage EXCEPT ![wf.usage].status = "closed"]
    /\ Journal(closed)
    /\ UNCHANGED <<runtimes, current, operations, suppressed, cloud, faults>>

(* An open interval that ends no later than it began, has no rate in force *)
(* or comes to credits that are not whole is not closed: the error is not  *)
(* classified, so the workflow is retried at this step for ever.           *)
RefusesClosing ==
    /\ usage[wf.usage].status = "open"
    /\ wf' = To("refused")
    /\ UNCHANGED <<db, cloud, crashes, faults>>

CloseComputeUsageInterval(closed) == ClosesInterval(closed) \/ RefusesClosing

ComputeGone(state) == state \in {"stopped", "terminated"}

(* Mutant: every failure of the provider ends usage.                       *)
closeComputeUsageAlways(next) ==
    IF wf.usage # None
    THEN CloseComputeUsageInterval([wf EXCEPT !.pc = next, !.usage = None])
    ELSE wf' = To(next) /\ UNCHANGED <<db, cloud, crashes, faults>>

closeComputeUsageForProviderOutcome(next) ==
    IF ComputeGone(wf.obs) /\ wf.usage # None
    THEN CloseComputeUsageInterval([wf EXCEPT !.pc = next, !.usage = None])
    ELSE wf' = To(next) /\ UNCHANGED <<db, cloud, crashes, faults>>

SuppressAutoStop(next) ==
    /\ suppressed' = wf.subject
    /\ Journal(To(next))
    /\ UNCHANGED <<runtimes, current, operations, usage, cloud, faults>>

ResumeAutoStop(next) ==
    /\ suppressed' = IF suppressed = wf.subject THEN None ELSE suppressed
    /\ Journal(To(next))
    /\ UNCHANGED <<runtimes, current, operations, usage, cloud, faults>>

-----------------------------------------------------------------------------
(* The provider (libs/provideraws/runtime.go) and the waits on it. *)

Observed(r) == IF instance[r] = "shutting-down" THEN "stopping" ELSE instance[r]

(* What the workflow does next depends on the state the provider answers:  *)
(* a function from provider states to steps.                               *)
Waits(expected, transitional, done, wait, failed) ==
    [s \in ProviderStates |-> IF s = expected THEN done
                              ELSE IF s \in transitional THEN wait ELSE failed]

Answer(state, step) == [wf EXCEPT !.obs = state, !.pc = step, !.at = Now]
ProviderFailure(step) == Answer(None, step)

ObserveRuntime(stepFor, failed) ==
    LET s == Observed(wf.subject) IN
    Check(Answer(s, stepFor[s]), ProviderFailure(failed))

(* waitForProviderState: read until the verdict, or until the deadline.    *)
Poll(expected, transitional, done, failed) ==
    ObserveRuntime(Waits(expected, transitional, done, wf.pc, failed), failed)

(* A provider call fails for good, without an effect: by bad luck, or      *)
(* because it refuses the state the instance is in.                        *)
CallFails(refusedStates, step) ==
    /\ IF instance[wf.subject] \in refusedStates THEN UNCHANGED faults ELSE Fault
    /\ wf' = ProviderFailure(step)
    /\ UNCHANGED <<db, cloud, crashes>>

(* A provider call moves the instance, and answers seen.                   *)
CallMoves(from, to, seen, step) ==
    /\ instance[wf.subject] = from
    /\ instance' = [instance EXCEPT ![wf.subject] = to]
    /\ Journal(Answer(seen, step))
    /\ UNCHANGED <<db, attached, drifts, faults>>

(* Mutant: the instance state is reported as EC2 names it.                 *)
CallSettlesRaw(states, stepFor) ==
    /\ instance[wf.subject] \in states
    /\ wf' = Answer(instance[wf.subject], stepFor[Observed(wf.subject)])
    /\ UNCHANGED <<db, cloud, crashes, faults>>

(* A provider call finds the instance on its way, or there.                *)
CallSettles(states, stepFor) ==
    /\ instance[wf.subject] \in states
    /\ wf' = Answer(Observed(wf.subject), stepFor[Observed(wf.subject)])
    /\ UNCHANGED <<db, cloud, crashes, faults>>

Launched(next, failed) ==
    [s \in ProviderStates |-> IF s \in {"pending", "running"} THEN next ELSE failed]

(* While the instance is stopping the call is retried.                     *)
StartRuntime(next, failed) ==
    \/ CallFails({"shutting-down"}, failed)
    \/ CallMoves("stopped", "pending", "pending", next)
    \/ CallSettles({"pending", "running", "terminated"}, Launched(next, failed))

(* While the instance is pending the call is retried.  After StopInstances *)
(* the observation may still say running.                                  *)
StopRuntime(stepFor, failed) ==
    \/ CallFails({"shutting-down"}, failed)
    \/ \E seen \in {"running", "stopping"} :
           CallMoves("running", "stopping", seen, stepFor[seen])
    \/ CallSettles({"stopping", "stopped", "terminated"}, stepFor)

(* RetireRuntime detaches the Data Volume, waits, and then terminates.     *)
RetireRuntime(stepFor, failed) ==
    \/ CallFails({"pending", "running"}, failed)
    \/ /\ instance[wf.subject] = "stopped" /\ attached = wf.subject
       /\ attached' = None
       /\ UNCHANGED <<db, wf, instance, drifts, crashes, faults>>
    \/ /\ attached # wf.subject
       /\ \E seen \in {"stopped", "stopping"} :
              CallMoves("stopped", "shutting-down", seen, stepFor[seen])
    \/ CallSettles({"stopping", "shutting-down", "terminated"}, stepFor)

(* What findActiveRuntimes asks EC2 for: an instance that is shutting down *)
(* is not among them.                                                      *)
FoundActive(r) == instance[r] \in {"pending", "running", "stopping", "stopped"}

(* EnsureRuntime launches only when the Environment has no active instance *)
(* and the Data Volume is free; an instance of this Runtime is reused.     *)
EnsureRuntime(next, failed) ==
    LET sole == \A r \in Runtimes \ {wf.subject} : ~FoundActive(r) IN
    \/ CallFails(IF sole /\ (attached = None \/ instance[wf.subject] # "none")
                 THEN {} ELSE InstanceStates, failed)
    \/ /\ sole /\ attached = None
       /\ CallMoves("none", "pending", "pending", next)
    \/ /\ sole
       /\ CallSettles(InstanceStates \ {"none"}, Launched(next, failed))

(* The Data Volume goes to a Runtime only when no other holds it.  EC2     *)
(* attaches to a running or stopped instance; otherwise the call is        *)
(* retried.  The state answered was read first, perhaps while pending.     *)
EnsureRuntimeDataVolumeAttachment(next, failed) ==
    LET before == IF instance[wf.subject] = "running" THEN {"pending"} ELSE {} IN
    \/ CallFails(IF attached \in {None, wf.subject} THEN {} ELSE InstanceStates,
                 failed)
    \/ \E s \in {Observed(wf.subject)} \cup before :
          /\ \/ attached = wf.subject
             \/ attached = None /\ instance[wf.subject] \in {"running", "stopped"}
          /\ attached' = wf.subject
          /\ Journal(Answer(s, Launched(next, failed)[s]))
          /\ UNCHANGED <<db, instance, drifts, faults>>

(* The guest answers, with the Data Volume mounted.                        *)
GuestServes(r) == instance[r] = "running" /\ attached = r

-----------------------------------------------------------------------------
(* Reservation, load and end of an Operation. *)

acceptsRuntimeState(type, status) ==
    \/ status \in {"ready", "stopped"}
    \/ type = "replace" /\ status = "error"

ActiveOperations == {o \in Operations : operations[o].status \in {"queued", "running"}}

ReserveRuntimeOperation(o, type) ==
    /\ operations[o].status = "none"
    /\ \A p \in Operations : p < o => operations[p].status # "none"
    /\ ActiveOperations = {}
    /\ acceptsRuntimeState(type, runtimes[current].status)
    /\ operations' = [operations EXCEPT ![o] =
            [type |-> type, status |-> "queued", runtime |-> current]]
    /\ wf' = [IdleFrame EXCEPT !.pc = "load", !.op = o]
    /\ UNCHANGED <<runtimes, current, usage, suppressed, cloud, crashes, faults>>

FirstStep(type, status) ==
    IF type = "start"
    THEN IF status = "ready" THEN "complete"
         ELSE IF status = "stopped" THEN "start.observe" ELSE "fail"
    ELSE IF type = "stop"
    THEN IF status = "stopped" THEN "stop.observe"
         ELSE IF status = "ready" THEN "stop.suppress" ELSE "fail"
    ELSE "rep.image"

IntervalOf(r) ==
    LET open == {i \in OpenIntervals : usage[i].runtime = r} IN
    IF open = {} THEN None ELSE CHOOSE i \in open : TRUE

LoadRuntimeOperation ==
    LET operation == operations[wf.op]
        target == runtimes[operation.runtime] IN
    /\ wf.pc = "load"
    /\ operations' = [operations EXCEPT ![wf.op].status = "running"]
    /\ Journal([wf EXCEPT !.pc = FirstStep(operation.type, target.status),
                          !.subject = operation.runtime, !.rt = target,
                          !.usage = IntervalOf(operation.runtime),
                          !.stored = target.status = "stopped"])
    /\ UNCHANGED <<runtimes, current, usage, suppressed, cloud, faults>>

(* finishRuntimeWorkflowOperation, and the workflow returns.               *)
FinishOperation(step, status) ==
    /\ wf.pc = step
    /\ operations' = [operations EXCEPT ![wf.op].status = status]
    /\ Journal(IdleFrame)
    /\ UNCHANGED <<runtimes, current, usage, suppressed, cloud, faults>>

CompleteOperation == FinishOperation("complete", "succeeded")

(* Mutant: the terminal error is returned without being recorded.          *)
FailUnrecorded ==
    /\ wf.pc = "fail"
    /\ wf' = IdleFrame
    /\ UNCHANGED <<db, cloud, crashes, faults>>

FailOperation == FinishOperation("fail", "failed")

(* The workflow returns a terminal error it did not record.                *)
AbandonOperation ==
    /\ wf.pc = "abandon"
    /\ wf' = IdleFrame
    /\ UNCHANGED <<db, cloud, crashes, faults>>

(* failRuntimeOperationForProviderOutcome: the provider said compute is    *)
(* gone, so its usage ends; then the Runtime is in error.                  *)
ProviderOutcome ==
    wf.pc = "outcome" /\ closeComputeUsageForProviderOutcome("error")

MarkErrorAndFail ==
    /\ wf.pc = "error"
    /\ Persist(CanMarkError(wf.rt, wf.rt.provider, wf.rt.version, Now),
               MarkError(wf.rt, Now), "fail", "abandon")

-----------------------------------------------------------------------------
(* runtime.start *)

StartObserves ==
    /\ wf.pc = "start.observe"
    /\ ObserveRuntime([s \in ProviderStates |->
            IF s = "stopped" THEN "start.close" ELSE "outcome"], "outcome")

StartClosesStaleUsage ==
    wf.pc = "start.close" /\ closeComputeUsageForProviderOutcome("start.check")

(* Data Volume, credits and promoted image.                                *)
StartChecks ==
    /\ wf.pc = "start.check"
    /\ \E image \in Images :
          Check([wf EXCEPT !.pc = IF image = wf.rt.image THEN "start.begin"
                                                         ELSE "rep.begin",
                           !.image = image, !.at = Now], To("fail"))

StartBegins ==
    /\ wf.pc = "start.begin"
    /\ Persist(CanBeginStart(wf.rt, Now), BeginStart(wf.rt, Now),
               "start.provider", "fail")

StartCallsProvider ==
    wf.pc = "start.provider" /\ StartRuntime("start.open", "outcome")

WaitsToRun(done, wait, failed) == Waits("running", {"pending"}, done, wait, failed)

(* Mutant: the interval is not opened.                                     *)
StartOpensNoUsage ==
    /\ wf.pc = "start.open"
    /\ wf' = To(WaitsToRun("start.guest", "start.wait", "outcome")[wf.obs])
    /\ UNCHANGED <<db, cloud, crashes, faults>>

StartOpensUsage ==
    /\ wf.pc = "start.open"
    /\ OpenComputeUsageInterval(
          [wf EXCEPT !.usage = wf.op,
                     !.pc = WaitsToRun("start.guest", "start.wait", "outcome")[wf.obs]],
          To("error"))

StartWaits ==
    wf.pc = "start.wait" /\ Poll("running", {"pending"}, "start.guest", "outcome")

(* Readiness, SSH keys and managed configuration; no deadline: while the   *)
(* guest does not answer the calls are retried.                            *)
StartReachesGuest ==
    /\ wf.pc = "start.guest"
    /\ GuestServes(wf.subject)
    /\ Check(To("start.ready"), To("error"))

StartMarksReady ==
    /\ wf.pc = "start.ready"
    /\ Persist(CanMarkReady(wf.rt, wf.rt.provider, wf.rt.version, Now),
               MarkReady(wf.rt, wf.subject, wf.subject, Now), "start.resume", "fail")

StartResumesAutoStop == wf.pc = "start.resume" /\ ResumeAutoStop("complete")

-----------------------------------------------------------------------------
(* runtime.stop *)

StopObserves ==
    /\ wf.pc = "stop.observe"
    /\ ObserveRuntime([s \in ProviderStates |->
            IF s = "stopped" THEN "stop.verify"
            ELSE IF s = "terminated" THEN "outcome" ELSE "stop.suppress"], "outcome")

StopSuppressesAutoStop == wf.pc = "stop.suppress" /\ SuppressAutoStop("stop.prepare")

(* A fresh Activity Snapshot before a deadline, then the guest is prepared. *)
StopPrepares ==
    /\ wf.pc = "stop.prepare"
    /\ \/ /\ GuestServes(wf.subject)
          /\ wf' = To(IF wf.stored THEN "stop.provider" ELSE "stop.begin")
          /\ UNCHANGED faults
       \/ /\ IF GuestServes(wf.subject) THEN Fault ELSE UNCHANGED faults
          /\ wf' = To("stop.resume")
    /\ UNCHANGED <<db, cloud, crashes>>

StopBegins ==
    /\ wf.pc = "stop.begin"
    /\ Persist(CanBeginStop(wf.rt, Now), BeginStop(wf.rt, Now),
               "stop.provider", "stop.resume")

(* resumeAutoStopAndFailRuntimeStop: the snapshot held is ready or stopped. *)
StopResumesAutoStop == wf.pc = "stop.resume" /\ ResumeAutoStop("fail")

WaitsToStop(done, wait, failed) ==
    Waits("stopped", {"stopping", "running"}, done, wait, failed)

StopCallsProvider ==
    /\ wf.pc = "stop.provider"
    /\ StopRuntime(WaitsToStop("stop.verify", "stop.wait", "outcome"), "outcome")

StopWaits ==
    /\ wf.pc = "stop.wait"
    /\ Poll("stopped", {"stopping", "running"}, "stop.verify", "outcome")

StopVerifiesVolume ==
    LET verified == [wf EXCEPT !.pc = "stop.close",
                               !.postErr = wf.usage = None /\ ~wf.stored] IN
    /\ wf.pc = "stop.verify"
    /\ Check(verified, [verified EXCEPT !.postErr = TRUE])

StopOutcome == IF wf.postErr THEN "fail" ELSE "complete"

StopClosesUsage ==
    /\ wf.pc = "stop.close"
    /\ closeComputeUsageForProviderOutcome(IF wf.stored THEN StopOutcome ELSE "stop.mark")

StopMarksStopped ==
    /\ wf.pc = "stop.mark"
    /\ Persist(CanMarkStopped(wf.rt, wf.rt.provider, wf.rt.version, Now),
               MarkStopped(wf.rt, Now), StopOutcome, "fail")

-----------------------------------------------------------------------------
(* runtime.replace, and runtime.start when the promoted image is another.  *)
(* Its clock readings are journaled: transitions happen at wf.at.          *)

ReplaceResolvesImage ==
    /\ wf.pc = "rep.image"
    /\ \E image \in Images :
          Check([wf EXCEPT !.pc = "rep.begin", !.image = image, !.at = Now],
                To("fail"))

ReplaceBegins ==
    /\ wf.pc = "rep.begin"
    /\ Persist(CanBeginReplacement(wf.rt, wf.at), BeginReplacement(wf.rt, wf.at),
               "rep.suppress", "fail")

ReplaceSuppressesAutoStop ==
    wf.pc = "rep.suppress" /\ SuppressAutoStop("rep.observe")

ReplaceObserves ==
    LET s == Observed(wf.subject)
        step == [x \in ProviderStates |->
                    IF x = "pending" THEN "rep.pending"
                    ELSE IF x = "running" THEN "rep.stop"
                    ELSE IF x = "stopping" THEN "rep.stopped" ELSE "rep.close"] IN
    /\ wf.pc = "rep.observe"
    /\ Check([Answer(s, step[s]) EXCEPT !.wasRunning = s = "running"],
             ProviderFailure("fail"))

ReplaceWaitsForPending ==
    wf.pc = "rep.pending" /\ Poll("running", {"pending"}, "rep.stop", "fail")

ReplaceStopsRuntime ==
    /\ wf.pc = "rep.stop"
    /\ StopRuntime(WaitsToStop("rep.close", "rep.stopped", "fail"), "fail")

ReplaceWaitsForStop ==
    /\ wf.pc = "rep.stopped"
    /\ Poll("stopped", {"stopping", "running"}, "rep.close", "fail")

(* Mutant: the interval of the replaced Runtime is left open.              *)
ReplaceLeavesUsageOpen ==
    /\ wf.pc = "rep.close"
    /\ wf' = To("rep.verify")
    /\ UNCHANGED <<db, cloud, crashes, faults>>

(* Running compute without an open interval is not replaced.               *)
ReplaceClosesUsage ==
    /\ wf.pc = "rep.close"
    /\ IF wf.wasRunning /\ wf.usage = None
       THEN wf' = To("fail") /\ UNCHANGED <<db, cloud, crashes, faults>>
       ELSE closeComputeUsageForProviderOutcome("rep.verify")

ReplaceVerifiesVolume ==
    /\ wf.pc = "rep.verify"
    /\ Check(To(IF wf.obs = "terminated" THEN "rep.detached" ELSE "rep.retire"),
             To("fail"))

(* Mutant: an instance shutting down is taken for a terminated one.        *)
WaitsToShutDown(done, wait, failed) ==
    [s \in ProviderStates |-> IF s \in {"terminated", "stopping"} THEN done
                              ELSE IF s = "stopped" THEN wait ELSE failed]

WaitsToTerminate(done, wait, failed) ==
    Waits("terminated", {"stopping", "stopped"}, done, wait, failed)

ReplaceRetiresRuntime ==
    /\ wf.pc = "rep.retire"
    /\ RetireRuntime(WaitsToTerminate("rep.detached", "rep.retired", "fail"), "fail")

ReplaceWaitsForTermination ==
    /\ wf.pc = "rep.retired"
    /\ Poll("terminated", {"stopping", "stopped"}, "rep.detached", "fail")

(* Mutant: termination is taken for detachment.                            *)
ReplaceAssumesDetachment ==
    /\ wf.pc = "rep.detached"
    /\ wf' = To("rep.switch")
    /\ UNCHANGED <<db, cloud, crashes, faults>>

(* waitForOldDataVolumeDetachment: until the volume is free, or a deadline. *)
ReplaceWaitsForDetachment ==
    /\ wf.pc = "rep.detached"
    /\ \/ attached = None /\ wf' = To("rep.switch") /\ UNCHANGED faults
       \/ Fault /\ wf' = To("fail")
    /\ UNCHANGED <<db, cloud, crashes>>

(* PersistRuntimeReplacement: in one transaction the target is retired,    *)
(* its successor reserved and the current pointer moved; or the replay.    *)
ReplaceSwitchesRuntime ==
    LET old == wf.subject
        new == old + 1
        retired == Retire(wf.rt, wf.at)
        reserved == ReserveRuntime(new, wf.image, wf.at)
        switched == [wf EXCEPT !.pc = "rep.ensure", !.subject = new, !.rt = reserved] IN
    /\ wf.pc = "rep.switch"
    /\ new \in Runtimes
    /\ IF /\ CanRetire(wf.rt, wf.rt.provider, wf.rt.version, wf.at)
          /\ ValidRuntime(retired)
          /\ current = old /\ runtimes[old].version = wf.rt.version
       THEN /\ runtimes' = [runtimes EXCEPT ![old] = retired, ![new] = reserved]
            /\ current' = new
            /\ Journal(switched)
       ELSE /\ UNCHANGED <<runtimes, current>>
            /\ Journal(IF /\ current = new /\ runtimes[old] = retired
                          /\ runtimes[new] = reserved
                       THEN switched ELSE To("fail"))
    /\ UNCHANGED <<operations, usage, suppressed, cloud, faults>>

ReplaceEnsuresRuntime ==
    wf.pc = "rep.ensure" /\ EnsureRuntime("rep.provision", "fail")

ReplaceProvisions ==
    /\ wf.pc = "rep.provision"
    /\ Persist(CanProvision(wf.rt, wf.subject, wf.at),
               Provision(wf.rt, wf.subject, wf.at), "rep.attach", "fail")

(* The attachment, then the inventory of provider resources.               *)
ReplaceAttachesVolume ==
    /\ wf.pc = "rep.attach"
    /\ EnsureRuntimeDataVolumeAttachment("rep.start", "rep.error")

ReplaceBeginsStart ==
    /\ wf.pc = "rep.start"
    /\ Persist(CanBeginStart(wf.rt, wf.at), BeginStart(wf.rt, wf.at),
               "rep.open", "fail")

ReplaceOpensUsage ==
    /\ wf.pc = "rep.open"
    /\ OpenComputeUsageInterval(
          [wf EXCEPT !.usage = wf.op,
                     !.pc = WaitsToRun("rep.guest", "rep.wait", "rep.outcome")[wf.obs]],
          [wf EXCEPT !.pc = "rep.error", !.at = Now])

ReplaceWaitsForRunning ==
    wf.pc = "rep.wait" /\ Poll("running", {"pending"}, "rep.guest", "rep.outcome")

ReplaceProviderOutcome ==
    wf.pc = "rep.outcome" /\ closeComputeUsageForProviderOutcome("rep.error")

(* Readiness before a deadline, host identity, keys, configuration and     *)
(* toolchain.                                                              *)
ReplaceReachesGuest ==
    /\ wf.pc = "rep.guest"
    /\ \/ /\ GuestServes(wf.subject)
          /\ wf' = [wf EXCEPT !.pc = "rep.ready", !.at = Now]
          /\ UNCHANGED faults
       \/ /\ IF GuestServes(wf.subject) THEN Fault ELSE UNCHANGED faults
          /\ wf' = [wf EXCEPT !.pc = "rep.error", !.at = Now]
    /\ UNCHANGED <<db, cloud, crashes>>

ReplaceMarksReady ==
    /\ wf.pc = "rep.ready"
    /\ Persist(CanMarkReady(wf.rt, wf.rt.provider, wf.rt.version, wf.at),
               MarkReady(wf.rt, wf.subject, wf.subject, wf.at), "rep.resume", "fail")

ReplaceResumesAutoStop == wf.pc = "rep.resume" /\ ResumeAutoStop("complete")

(* failReplacementRuntimeAndOperation: its time is journaled.              *)
ReplaceMarksError ==
    /\ wf.pc = "rep.error"
    /\ Persist(CanMarkError(wf.rt, wf.rt.provider, wf.rt.version, wf.at),
               MarkError(wf.rt, wf.at), "fail", "abandon")

-----------------------------------------------------------------------------
(* The provider makes progress by itself, and drifts. *)

InstanceSettles(r) ==
    /\ \E move \in {<<"pending", "running">>, <<"stopping", "stopped">>,
                     <<"shutting-down", "terminated">>} :
          instance[r] = move[1] /\ instance' = [instance EXCEPT ![r] = move[2]]
    /\ UNCHANGED <<db, wf, attached, drifts, crashes, faults>>

VolumeDetaches(r) ==
    /\ instance[r] = "terminated" /\ attached = r
    /\ attached' = None
    /\ UNCHANGED <<db, wf, instance, drifts, crashes, faults>>

InstanceDrifts(r) ==
    /\ drifts < MaxDrifts /\ drifts' = drifts + 1
    /\ \E move \in {<<"running", "stopping">>, <<"stopped", "pending">>,
                     <<"running", "shutting-down">>, <<"stopped", "shutting-down">>,
                     <<"pending", "terminated">>} :
          instance[r] = move[1] /\ instance' = [instance EXCEPT ![r] = move[2]]
    /\ UNCHANGED <<db, wf, attached, crashes, faults>>

-----------------------------------------------------------------------------

StartStep ==
    \/ StartObserves \/ StartClosesStaleUsage \/ StartChecks \/ StartBegins
    \/ StartCallsProvider \/ StartOpensUsage \/ StartWaits
    \/ StartReachesGuest \/ StartMarksReady \/ StartResumesAutoStop

StopStep ==
    \/ StopObserves \/ StopSuppressesAutoStop \/ StopPrepares \/ StopBegins
    \/ StopResumesAutoStop \/ StopCallsProvider \/ StopWaits
    \/ StopVerifiesVolume \/ StopClosesUsage \/ StopMarksStopped

ReplaceStep ==
    \/ ReplaceResolvesImage \/ ReplaceBegins \/ ReplaceSuppressesAutoStop
    \/ ReplaceObserves \/ ReplaceWaitsForPending \/ ReplaceStopsRuntime
    \/ ReplaceWaitsForStop \/ ReplaceClosesUsage \/ ReplaceVerifiesVolume
    \/ ReplaceRetiresRuntime \/ ReplaceWaitsForTermination
    \/ ReplaceWaitsForDetachment \/ ReplaceSwitchesRuntime
    \/ ReplaceEnsuresRuntime \/ ReplaceProvisions \/ ReplaceAttachesVolume
    \/ ReplaceBeginsStart \/ ReplaceOpensUsage \/ ReplaceWaitsForRunning
    \/ ReplaceProviderOutcome \/ ReplaceReachesGuest \/ ReplaceMarksReady
    \/ ReplaceResumesAutoStop \/ ReplaceMarksError

WorkflowStep ==
    \/ LoadRuntimeOperation \/ StartStep \/ StopStep \/ ReplaceStep
    \/ ProviderOutcome \/ MarkErrorAndFail
    \/ FailOperation \/ CompleteOperation \/ AbandonOperation

ProviderStep(r) == InstanceSettles(r) \/ VolumeDetaches(r)

Next ==
    \/ \E o \in Operations, type \in OperationTypes : ReserveRuntimeOperation(o, type)
    \/ WorkflowStep
    \/ \E r \in Runtimes : ProviderStep(r) \/ InstanceDrifts(r)

Spec == Init /\ [][Next]_vars

(* Restate retries a workflow until it returns, and the provider finishes  *)
(* what it has begun.                                                      *)
Fairness ==
    /\ WF_vars(WorkflowStep)
    /\ \A r \in Runtimes : WF_vars(ProviderStep(r))

FairSpec == Spec /\ Fairness

-----------------------------------------------------------------------------
(* Properties. *)

(* Only the Environment's current Runtime has an instance that is neither  *)
(* absent nor terminated: fulfillRuntimeReplacement moves the pointer, and *)
(* launches the successor, only after the old instance is seen terminated, *)
(* whatever crashed, drifted or failed in between.                         *)
Active(r) == instance[r] \notin {"none", "terminated"}
OnlyCurrentComputes == \A r \in Runtimes : Active(r) => r = current

(* Usage follows the Runtime: one published as ready has an open Compute   *)
(* Usage Interval and, unless the provider drifts, a running instance that *)
(* holds the Data Volume; and every open interval is of the current        *)
(* Runtime.  No order of crash, failure and replay in start, stop and      *)
(* replace leaves a routable Runtime unbilled or a replaced one billed.    *)
UsageFollowsRuntime ==
    /\ \A r \in Runtimes : runtimes[r] # None /\ runtimes[r].status = "ready" =>
          IntervalOf(r) # None /\ (drifts = 0 => GuestServes(r))
    /\ \A i \in OpenIntervals : usage[i].runtime = current

(* Unless the provider drifts, usage ends only once compute is gone.       *)
UsageEndsWithCompute ==
    [][drifts = 0 => \A i \in DOMAIN usage :
          usage[i].status = "open" /\ usage'[i].status = "closed" =>
              instance[usage[i].runtime] \in {"stopped", "terminated"}]_vars

(* A workflow held for ever by a closing that is refused: the provider has *)
(* ended compute, the Operation stays running and its usage open.          *)
HeldByClosing ==
    /\ wf.pc = "refused"
    /\ operations[wf.op].status = "running"
    /\ ComputeGone(instance[wf.subject]) /\ usage[wf.usage].status = "open"

(* Every workflow returns, whatever fails and crashes, if the guest of a   *)
(* running instance answers, or it is held by CloseComputeUsageInterval.   *)
(* (An instance that stops by itself while a start waits for its guest,    *)
(* without a deadline, is excluded.)                                       *)
WorkflowsReturn ==
    wf.pc # "idle" ~> wf.pc = "idle" \/ HeldByClosing \/ drifts > 0

(* Unless a process dies, a workflow that has returned leaves nothing      *)
(* behind, whatever dependencies fail for good on whatever path: it        *)
(* "completes the Operation projection" (docs/spec/08-workflows.md), or    *)
(* the Operation would block its Environment for ever, and it has resumed  *)
(* Auto-stop, or a ready Runtime would never stop by itself again.         *)
NothingIsLeftBehind ==
    crashes = 0 /\ wf.pc = "idle" =>
        /\ \A o \in Operations : operations[o].status # "running"
        /\ runtimes[current].status = "ready" => suppressed # current

-----------------------------------------------------------------------------
(* The workflows implement the handover of the Data Volume. *)

Compute ==
    IF instance[current] = "none" THEN "none"
    ELSE IF instance[current] = "terminated" THEN "gone" ELSE "up"

Volume == INSTANCE VolumeHandover
            WITH generation <- current, compute <- Compute, holder <- attached

(* "Attach the existing data volume read-write only after old attachment   *)
(* is gone" (docs/spec/08-workflows.md): start, stop and replace, with     *)
(* every crash, failure and drift, only ever hand the volume over.         *)
VolumeIsHandedOver == Volume!Spec
=============================================================================
