----------------------- MODULE RuntimeWorkflowsProofs -----------------------
(***************************************************************************)
(* Proofs about RuntimeWorkflows, for every number of Runtimes, Operations,*)
(* crashes, faults and drifts: its types, that only the current Runtime    *)
(* computes, that the workflows implement VolumeHandover, and, on top of a *)
(* second invariant, that usage follows the Runtime and ends only once     *)
(* compute is gone, and that without a crash a workflow leaves nothing     *)
(* behind.                                                                 *)
(***************************************************************************)
EXTENDS RuntimeWorkflows, TLAPS

-----------------------------------------------------------------------------
(* The inductive invariant: TypeOK and what the journal knows of the rows  *)
(* and of the provider at each step.                                       *)

Ended == {"idle", "fail", "complete", "abandon"}

(* The workflow works for an Operation, on the current Runtime; only the   *)
(* switch may have to be repeated after the pointer has moved.             *)
SubjectIsCurrent ==
    /\ wf.pc # "idle" => wf.op \in Operations
    /\ wf.pc = "load" => operations[wf.op].runtime = current
    /\ wf.pc \notin Ended \cup {"load", "rep.switch"} => wf.subject = current
    /\ wf.pc = "rep.switch" =>
          wf.subject \in Runtimes /\ current \in {wf.subject, wf.subject + 1}

(* Runtimes before the current one are terminated, later ones not launched; *)
(* and the current one is launched before anything asks for its state.     *)
InstancesFollowCurrent ==
    /\ \A r \in Runtimes : r < current => instance[r] = "terminated"
    /\ \A r \in Runtimes : current < r => instance[r] = "none"
    /\ runtimes[current] \in RuntimeSnapshot
    /\ runtimes[current].status # "absent" => instance[current] # "none"
    /\ wf.pc \notin Ended \cup {"rep.ensure", "rep.switch"} =>
          instance[current] # "none"

(* Steps of a replacement that have decided on an image and not switched.  *)
Replacing == {"rep.begin", "rep.suppress", "rep.observe", "rep.pending",
    "rep.stop", "rep.stopped", "rep.close", "rep.verify", "rep.retire",
    "rep.retired", "rep.detached", "rep.switch"}

(* What is journaled is still so: termination is final, and the volume     *)
(* stays free until the successor asks for it.                             *)
JournalIsTrue ==
    /\ wf.pc = "load" => wf.obs = None
    /\ wf.pc \in Replacing => wf.image \in Images
    /\ wf.pc \in {"start.open", "rep.start", "rep.open"} => wf.obs \in ProviderStates
    /\ wf.pc \notin Ended \cup {"rep.ensure"} /\ wf.obs = "terminated" =>
          instance[wf.subject] = "terminated"
    /\ wf.pc \in {"rep.detached", "rep.switch"} => wf.obs = "terminated"
    /\ wf.pc = "rep.switch" => attached = None

Inv == TypeOK /\ SubjectIsCurrent /\ InstancesFollowCurrent /\ JournalIsTrue

-----------------------------------------------------------------------------
(* A step of a workflow between its load and its end, the switch aside,    *)
(* leaves the journal as it is or goes on with a frame that says nothing   *)
(* untrue.                                                                 *)

Working == wf.pc \notin Ended \cup {"load", "rep.switch"}

GoodFrame(f) ==
    /\ f \in Frame
    /\ f.op = wf.op /\ f.subject = wf.subject
    /\ f.pc \notin {"idle", "load", "rep.ensure"}
    /\ f.pc \in Replacing => f.image \in Images
    /\ f.pc \in {"start.open", "rep.start", "rep.open"} => f.obs \in ProviderStates
    /\ f.pc \notin Ended /\ f.obs = "terminated" => instance[wf.subject] = "terminated"
    /\ f.pc \in {"rep.detached", "rep.switch"} => f.obs = "terminated"
    /\ f.pc = "rep.switch" => attached = None

(* Going on with the snapshot that has been written.                       *)
GoodSave(step) ==
    \A n \in RuntimeSnapshot : GoodFrame([wf EXCEPT !.pc = step, !.rt = n])

(* Steps that assume nothing of the journal; a replacement may also go on. *)
Plain == Steps \ (Replacing \cup {"idle", "load", "rep.ensure",
                                  "start.open", "rep.start", "rep.open"})

Reachable ==
    Plain \cup (IF wf.pc \in Replacing THEN Replacing \ {"rep.detached", "rep.switch"}
                                       ELSE {})

(* What Inv says at such a step: the workflow has an Operation, and works  *)
(* on the current Runtime, whose instance has been launched.               *)
LEMMA WorkingFacts ==
    ASSUME Inv, Working
    PROVE  /\ wf \in Frame /\ wf.op \in Operations
           /\ wf.subject = current /\ current \in Runtimes
           /\ wf.pc # "rep.ensure" => instance[current] # "none"
           /\ wf.pc # "rep.ensure" => Observed(current) \in ProviderStates
<1>1. wf \in Frame /\ current \in Runtimes
  BY DEF Inv, TypeOK
<1>2. wf.op \in Operations /\ wf.subject = current
  BY DEF Inv, SubjectIsCurrent, Working, Ended
<1>3. wf.pc # "rep.ensure" => instance[current] # "none"
  BY DEF Inv, InstancesFollowCurrent, Working, Ended
<1>4. instance[current] # "none" => Observed(current) \in ProviderStates
  BY <1>1 DEF Inv, TypeOK, Observed, InstanceStates, ProviderStates
<1> QED
  BY <1>1, <1>2, <1>3, <1>4

(* Going on to another step with the rest of the journal as it is.         *)
LEMMA GoodTo ==
    ASSUME Inv, Working, wf.pc # "rep.ensure", NEW p \in Reachable
    PROVE  GoodFrame(To(p)) /\ GoodFrame([wf EXCEPT !.pc = p])
<1>1. wf \in Frame
  BY WorkingFacts
<1>2. p \in Steps
  BY DEF Reachable, Plain, Replacing, Steps
<1>3. /\ To(p) \in Frame /\ To(p) = [wf EXCEPT !.pc = p]
      /\ To(p).pc = p /\ To(p).op = wf.op /\ To(p).subject = wf.subject
      /\ To(p).image = wf.image /\ To(p).obs = wf.obs
  BY <1>1, <1>2 DEF To, Frame
<1>4. /\ p \notin {"idle", "load", "rep.ensure", "start.open", "rep.start", "rep.open"}
      /\ p \notin {"rep.detached", "rep.switch"}
      /\ p \in Replacing => wf.pc \in Replacing
  BY DEF Reachable, Plain, Replacing
<1>5. wf.pc \in Replacing => wf.image \in Images
  BY DEF Inv, JournalIsTrue
<1>6. wf.obs = "terminated" => instance[wf.subject] = "terminated"
  BY DEF Inv, JournalIsTrue, Working, Ended
<1> QED
  BY <1>3, <1>4, <1>5, <1>6 DEF GoodFrame

(* Going on once the instance is known to be terminated.                   *)
LEMMA GoodToTerminated ==
    ASSUME Inv, Working, wf.pc \in Replacing, wf.obs = "terminated",
           NEW p \in {"rep.detached", "rep.switch"},
           p = "rep.switch" => attached = None
    PROVE  GoodFrame(To(p))
<1>1. wf \in Frame /\ p \in Steps
  BY WorkingFacts DEF Steps
<1>2. /\ To(p) \in Frame /\ To(p).pc = p /\ To(p).op = wf.op
      /\ To(p).subject = wf.subject /\ To(p).image = wf.image /\ To(p).obs = wf.obs
  BY <1>1 DEF To, Frame
<1>3. wf.image \in Images /\ instance[wf.subject] = "terminated"
  BY DEF Inv, JournalIsTrue, Working, Ended, Replacing
<1> QED
  BY <1>2, <1>3 DEF GoodFrame

(* Going on with an answer of the provider.                                *)
LEMMA GoodAnswer ==
    ASSUME Inv, Working,
           NEW s \in ProviderStates \cup {None},
           s = "terminated" => instance[current] = "terminated",
           NEW p \in Reachable \cup {"start.open", "rep.start", "rep.detached"},
           p \in {"start.open", "rep.start"} => s \in ProviderStates,
           p = "rep.detached" => s = "terminated" /\ wf.pc \in Replacing
    PROVE  GoodFrame(Answer(s, p))
<1>1. wf \in Frame /\ wf.subject = current /\ crashes \in Nat
  BY WorkingFacts DEF Inv, TypeOK
<1>2. p \in Steps
  BY DEF Reachable, Plain, Replacing, Steps
<1>3. /\ Answer(s, p) \in Frame
      /\ Answer(s, p).pc = p /\ Answer(s, p).op = wf.op
      /\ Answer(s, p).subject = wf.subject
      /\ Answer(s, p).image = wf.image /\ Answer(s, p).obs = s
  BY <1>1, <1>2 DEF Answer, Now, Frame
<1>4. /\ p \notin {"idle", "load", "rep.ensure", "rep.open", "rep.switch"}
      /\ p \in Replacing => wf.pc \in Replacing
  BY DEF Reachable, Plain, Replacing
<1>5. wf.pc \in Replacing => wf.image \in Images
  BY DEF Inv, JournalIsTrue
<1> QED
  BY <1>1, <1>3, <1>4, <1>5 DEF GoodFrame

LEMMA GoodSaves ==
    ASSUME Inv, Working, wf.pc # "rep.ensure", NEW p,
           p \in Reachable \/ (p = "rep.open" /\ wf.obs \in ProviderStates)
    PROVE  GoodSave(p)
<1> SUFFICES ASSUME NEW n \in RuntimeSnapshot
             PROVE  GoodFrame([wf EXCEPT !.pc = p, !.rt = n])
  BY DEF GoodSave
<1> DEFINE f == [wf EXCEPT !.pc = p, !.rt = n]
<1>1. wf \in Frame /\ p \in Steps
  BY WorkingFacts DEF Reachable, Plain, Replacing, Steps
<1>2. /\ f \in Frame /\ f.pc = p /\ f.op = wf.op /\ f.subject = wf.subject
      /\ f.image = wf.image /\ f.obs = wf.obs
  BY <1>1 DEF Frame
<1>3. /\ p \notin {"idle", "load", "rep.ensure", "rep.detached", "rep.switch"}
      /\ p \in {"start.open", "rep.start", "rep.open"} => wf.obs \in ProviderStates
      /\ p \in Replacing => wf.pc \in Replacing
  BY DEF Reachable, Plain, Replacing
<1>4. wf.pc \in Replacing => wf.image \in Images
  BY DEF Inv, JournalIsTrue
<1>5. wf.obs = "terminated" => instance[wf.subject] = "terminated"
  BY DEF Inv, JournalIsTrue, Working, Ended
<1> HIDE DEF f
<1>6. GoodFrame(f)
  BY <1>2, <1>3, <1>4, <1>5 DEF GoodFrame
<1> QED BY <1>6 DEF f

(* Going on with the image decided, and with an interval opened.           *)
LEMMA GoodImage ==
    ASSUME Inv, Working, wf.pc # "rep.ensure",
           NEW p \in Reachable \cup {"rep.begin"}, NEW image \in Images
    PROVE  GoodFrame([wf EXCEPT !.pc = p, !.image = image, !.at = Now])
<1> DEFINE f == [wf EXCEPT !.pc = p, !.image = image, !.at = Now]
<1>1. wf \in Frame /\ p \in Steps /\ crashes \in Nat
  BY WorkingFacts DEF Reachable, Plain, Replacing, Steps, Inv, TypeOK
<1>2. /\ f \in Frame /\ f.pc = p /\ f.op = wf.op /\ f.subject = wf.subject
      /\ f.image = image /\ f.obs = wf.obs
  BY <1>1 DEF Frame, Now
<1>3. p \notin {"idle", "load", "rep.ensure", "rep.detached", "rep.switch",
               "start.open", "rep.start", "rep.open"}
  BY DEF Reachable, Plain, Replacing
<1>4. wf.obs = "terminated" => instance[wf.subject] = "terminated"
  BY DEF Inv, JournalIsTrue, Working, Ended
<1> HIDE DEF f
<1>5. GoodFrame(f)
  BY <1>2, <1>3, <1>4 DEF GoodFrame
<1> QED BY <1>5 DEF f

LEMMA GoodDated ==
    ASSUME Inv, Working, wf.pc # "rep.ensure", NEW p \in Reachable
    PROVE  GoodFrame([wf EXCEPT !.pc = p, !.at = Now])
<1> DEFINE f == [wf EXCEPT !.pc = p, !.at = Now]
<1>1. wf \in Frame /\ p \in Steps /\ GoodFrame(To(p))
  BY WorkingFacts, GoodTo DEF Reachable, Plain, Replacing, Steps
<1>2. /\ f \in Frame /\ f.pc = To(p).pc /\ f.op = To(p).op
      /\ f.subject = To(p).subject /\ f.image = To(p).image /\ f.obs = To(p).obs
  <2>1. crashes \in Nat
    BY DEF Inv, TypeOK
  <2> QED BY <1>1, <2>1 DEF Frame, To, Now
<1> HIDE DEF f
<1>3. GoodFrame(f)
  BY <1>1, <1>2 DEF GoodFrame
<1> QED BY <1>3 DEF f

LEMMA GoodOpened ==
    ASSUME Inv, Working, wf.pc # "rep.ensure", NEW p \in Reachable
    PROVE  GoodFrame([wf EXCEPT !.usage = wf.op, !.pc = p])
<1> DEFINE f == [wf EXCEPT !.usage = wf.op, !.pc = p]
<1>1. wf \in Frame /\ p \in Steps /\ GoodFrame(To(p))
  BY WorkingFacts, GoodTo DEF Reachable, Plain, Replacing, Steps
<1>2. /\ f \in Frame /\ f.pc = To(p).pc /\ f.op = To(p).op
      /\ f.subject = To(p).subject /\ f.image = To(p).image /\ f.obs = To(p).obs
  BY <1>1 DEF Frame, To
<1> HIDE DEF f
<1>3. GoodFrame(f)
  BY <1>1, <1>2 DEF GoodFrame
<1> QED BY <1>3 DEF f

(* The journal after a step that leaves the provider as it was.            *)
LEMMA GoesOn ==
    ASSUME Inv, Working, wf' = wf \/ GoodFrame(wf'),
           UNCHANGED <<current, operations, instance>>,
           attached' = attached \/ wf' = wf,
           wf.pc = "rep.ensure" /\ wf'.pc \notin Ended =>
               wf' = wf \/ instance[current] # "none",
           runtimes' = runtimes \/ (/\ wf.pc # "rep.ensure"
                                    /\ runtimes'[current] \in RuntimeSnapshot)
    PROVE  SubjectIsCurrent' /\ InstancesFollowCurrent' /\ JournalIsTrue'
<1>1. SubjectIsCurrent'
  <2>1. CASE wf' = wf
    BY <2>1 DEF Inv, SubjectIsCurrent
  <2>2. CASE GoodFrame(wf')
    BY <2>2, WorkingFacts DEF GoodFrame, SubjectIsCurrent, Ended, Inv, TypeOK, Runtimes
  <2> QED BY <2>1, <2>2
<1>2. InstancesFollowCurrent'
  <2>1. CASE wf' = wf
    BY <2>1, WorkingFacts DEF Inv, InstancesFollowCurrent, Ended
  <2>2. CASE GoodFrame(wf')
    BY <2>2, WorkingFacts DEF Inv, GoodFrame, InstancesFollowCurrent, Ended
  <2> QED BY <2>1, <2>2
<1>3. JournalIsTrue'
  <2>1. CASE wf' = wf
    BY <2>1 DEF Inv, JournalIsTrue, Working
  <2>2. CASE GoodFrame(wf') /\ attached' = attached
    BY <2>2 DEF GoodFrame, JournalIsTrue
  <2> QED BY <2>1, <2>2
<1> QED BY <1>1, <1>2, <1>3

-----------------------------------------------------------------------------
(* One lemma for each way a step is built. *)

(* Steps that only read: the provider is observed, the volume verified,    *)
(* credits, image and guest are asked.                                     *)
LEMMA QuietKeepsInv ==
    ASSUME Inv, Working, GoodFrame(wf'), UNCHANGED <<db, cloud, crashes>>,
           faults' = faults \/ Fault,
           wf.pc = "rep.ensure" /\ wf'.pc \notin Ended => instance[current] # "none"
    PROVE  Inv'
<1>1. TypeOK'
  BY BoundsAssumption DEF Inv, TypeOK, GoodFrame, db, cloud, Fault
<1> QED
  BY <1>1, GoesOn DEF Inv, db, cloud

LEMMA CheckKeepsInv ==
    ASSUME Inv, Working, wf.pc # "rep.ensure",
           NEW passed, NEW failed, Check(passed, failed),
           GoodFrame(passed), GoodFrame(failed)
    PROVE  Inv'
<1>1. wf' = passed \/ wf' = failed
  BY DEF Check
<1>2. GoodFrame(wf')
  BY <1>1
<1> QED
  BY <1>2, QuietKeepsInv DEF Check

(* The frame journaled, or the frame of before the crash.                  *)
LEMMA JournalOutcome ==
    ASSUME TypeOK, NEW f, Journal(f)
    PROVE  (wf' = f \/ wf' = wf) /\ crashes' \in 0..MaxCrashes
BY BoundsAssumption DEF Journal, TypeOK

(* Transitions of the Runtime row, refused, applied or replayed.           *)
LEMMA PersistKeepsInv ==
    ASSUME Inv, Working, wf.pc # "rep.ensure",
           NEW can, NEW next, NEW saved, NEW refused,
           Persist(can, next, saved, refused),
           GoodSave(saved), GoodFrame(To(refused))
    PROVE  Inv'
<1>1. /\ UNCHANGED <<current, operations, usage, suppressed, cloud, faults>>
      /\ wf.subject = current /\ current \in Runtimes
      /\ crashes \in 0..MaxCrashes
  BY WorkingFacts DEF Persist, Inv, TypeOK
<1>2. /\ runtimes' = runtimes \/ (/\ next \in RuntimeSnapshot
                                  /\ runtimes' = [runtimes EXCEPT ![current] = next])
      /\ GoodFrame(wf') \/ wf' = wf
      /\ crashes' \in 0..MaxCrashes
  <2>1. CASE ~(can /\ ValidRuntime(next))
    BY <2>1 DEF Persist, Inv, TypeOK
  <2>2. CASE can /\ ValidRuntime(next)
    <3>1. next \in RuntimeSnapshot
      BY <2>2 DEF ValidRuntime
    <3>2. GoodFrame([wf EXCEPT !.pc = saved, !.rt = next])
      BY <3>1 DEF GoodSave
    <3> DEFINE new == [wf EXCEPT !.pc = saved, !.rt = next]
               replayed == IF runtimes[wf.subject] = next THEN new ELSE To(refused)
    <3>3. GoodFrame(new) /\ GoodFrame(replayed)
      BY <3>2
    <3>4. \/ /\ runtimes' = [runtimes EXCEPT ![wf.subject] = next]
             /\ Journal(new)
          \/ UNCHANGED runtimes /\ Journal(replayed)
      BY <2>2 DEF Persist
    <3> HIDE DEF new, replayed
    <3>5. CASE runtimes' = [runtimes EXCEPT ![wf.subject] = next] /\ Journal(new)
      BY <1>1, <3>1, <3>3, <3>5, JournalOutcome DEF Inv
    <3>6. CASE UNCHANGED runtimes /\ Journal(replayed)
      BY <3>3, <3>6, JournalOutcome DEF Inv
    <3> QED BY <3>4, <3>5, <3>6
  <2> QED BY <2>1, <2>2
<1>3. /\ runtimes' \in [Runtimes -> RuntimeSnapshot \cup {None}]
      /\ runtimes' = runtimes \/ runtimes'[current] \in RuntimeSnapshot
  BY <1>1, <1>2 DEF Inv, TypeOK
<1>4. TypeOK'
  BY <1>1, <1>2, <1>3 DEF Inv, TypeOK, GoodFrame, cloud
<1> QED
  BY <1>1, <1>2, <1>3, <1>4, GoesOn DEF Inv, cloud

LEMMA PersistToKeepsInv ==
    ASSUME Inv, Working, wf.pc # "rep.ensure", NEW can, NEW next,
           NEW saved \in Reachable, NEW refused \in Reachable,
           Persist(can, next, saved, refused)
    PROVE  Inv'
BY GoodSaves, GoodTo, PersistKeepsInv

(* Steps that write a row no part of Inv but its types is about: usage,    *)
(* suppression.                                                            *)
LEMMA RowKeepsInv ==
    ASSUME Inv, Working, wf.pc # "rep.ensure",
           NEW frame, Journal(frame), GoodFrame(frame),
           usage' \in [Operations \cup {0} -> UsageRow],
           suppressed' \in Runtimes \cup {None},
           UNCHANGED <<runtimes, current, operations, cloud, faults>>
    PROVE  Inv'
<1>1. (wf' = frame \/ wf' = wf) /\ crashes' \in 0..MaxCrashes
  BY JournalOutcome DEF Inv
<1>2. GoodFrame(wf') \/ wf' = wf
  BY <1>1
<1>3. TypeOK'
  BY <1>1, <1>2 DEF Inv, TypeOK, GoodFrame, cloud
<1> QED
  BY <1>2, <1>3, GoesOn DEF Inv, cloud

LEMMA OpenKeepsInv ==
    ASSUME Inv, Working, wf.pc # "rep.ensure",
           NEW opened, NEW conflict, OpenComputeUsageInterval(opened, conflict),
           GoodFrame(opened), GoodFrame(conflict)
    PROVE  Inv'
<1>1. PICK frame : /\ Journal(frame) /\ GoodFrame(frame)
                   /\ usage' \in {usage, [usage EXCEPT ![wf.op] =
                                    [runtime |-> current, status |-> "open"]]}
  BY DEF OpenComputeUsageInterval
<1>2. usage' \in [Operations \cup {0} -> UsageRow]
  BY <1>1 DEF Inv, TypeOK, UsageRow
<1> QED
  BY <1>1, <1>2, RowKeepsInv DEF OpenComputeUsageInterval, Inv, TypeOK

LEMMA CloseKeepsInv ==
    ASSUME Inv, Working, wf.pc # "rep.ensure", NEW p \in Reachable,
           closeComputeUsageForProviderOutcome(p)
    PROVE  Inv'
<1>1. GoodFrame(To(p)) /\ GoodFrame([wf EXCEPT !.pc = p, !.usage = None])
  <2>1. GoodFrame(To(p)) /\ wf \in Frame
    BY GoodTo, WorkingFacts
  <2>2. p \in Steps
    BY DEF Reachable, Plain, Replacing, Steps
  <2> DEFINE f == [wf EXCEPT !.pc = p, !.usage = None]
  <2>3. /\ f \in Frame /\ f.pc = To(p).pc /\ f.op = To(p).op
        /\ f.subject = To(p).subject /\ f.image = To(p).image /\ f.obs = To(p).obs
    BY <2>1, <2>2 DEF To, Frame
  <2> HIDE DEF f
  <2>4. GoodFrame(f)
    BY <2>1, <2>3 DEF GoodFrame
  <2> QED BY <2>1, <2>4 DEF f
<1>2. CASE ClosesInterval([wf EXCEPT !.pc = p, !.usage = None])
  <2>1. usage' \in [Operations \cup {0} -> UsageRow]
    BY <1>2 DEF ClosesInterval, Inv, TypeOK, UsageRow
  <2>2. suppressed' \in Runtimes \cup {None}
    BY <1>2 DEF ClosesInterval, Inv, TypeOK
  <2> QED
    BY <1>1, <1>2, <2>1, <2>2, RowKeepsInv DEF ClosesInterval
<1>3. CASE wf' = To(p) /\ UNCHANGED <<db, cloud, crashes, faults>>
  BY <1>1, <1>3, QuietKeepsInv
<1>4. CASE RefusesClosing
  <2>1. "refused" \in Reachable
    BY DEF Reachable, Plain, Replacing, Steps
  <2>2. GoodFrame(To("refused"))
    BY <2>1, GoodTo
  <2> QED BY <1>4, <2>2, QuietKeepsInv DEF RefusesClosing
<1> QED
  BY <1>2, <1>3, <1>4 DEF closeComputeUsageForProviderOutcome, CloseComputeUsageInterval

LEMMA AutoStopKeepsInv ==
    ASSUME Inv, Working, wf.pc # "rep.ensure", NEW p \in Reachable,
           SuppressAutoStop(p) \/ ResumeAutoStop(p)
    PROVE  Inv'
<1>1. GoodFrame(To(p)) /\ Journal(To(p))
  BY GoodTo DEF SuppressAutoStop, ResumeAutoStop
<1>2. suppressed' \in Runtimes \cup {None} /\ usage' \in [Operations \cup {0} -> UsageRow]
  BY WorkingFacts DEF SuppressAutoStop, ResumeAutoStop, Inv, TypeOK
<1> QED
  BY <1>1, <1>2, RowKeepsInv DEF SuppressAutoStop, ResumeAutoStop

(* A step that moves the instance of the current Runtime or its volume.    *)
LEMMA MovesOn ==
    ASSUME Inv, Working, wf' = wf \/ GoodFrame(wf'), UNCHANGED db,
           instance' \in [Runtimes -> InstanceStates],
           \A r \in Runtimes : r # current => instance'[r] = instance[r],
           instance'[current] # "none",
           instance[current] = "terminated" => instance'[current] = "terminated",
           attached' = attached \/ wf'.pc # "rep.switch"
    PROVE  SubjectIsCurrent' /\ InstancesFollowCurrent' /\ JournalIsTrue'
<1> USE WorkingFacts
<1>1. SubjectIsCurrent'
  <2>1. CASE wf' = wf
    BY <2>1 DEF Inv, SubjectIsCurrent, db
  <2>2. CASE GoodFrame(wf')
    BY <2>2 DEF GoodFrame, SubjectIsCurrent, Ended, Inv, TypeOK, Runtimes, db
  <2> QED BY <2>1, <2>2
<1>2. InstancesFollowCurrent'
  <2>1. /\ \A r \in Runtimes : r < current => r # current
        /\ \A r \in Runtimes : current < r => r # current
    BY DEF Runtimes
  <2> QED
    BY <2>1 DEF Inv, InstancesFollowCurrent, db
<1>3. JournalIsTrue'
  <2>1. CASE wf' = wf
    BY <2>1 DEF Inv, JournalIsTrue, Working
  <2>2. CASE GoodFrame(wf')
    BY <2>2 DEF GoodFrame, JournalIsTrue
  <2> QED BY <2>1, <2>2
<1> QED BY <1>1, <1>2, <1>3

(* Which steps may follow the answers of the provider.                     *)
GoodSteps(stepFor) ==
    \A s \in ProviderStates :
        /\ stepFor[s] \in Reachable \cup {"start.open", "rep.start", "rep.detached"}
        /\ stepFor[s] = "rep.detached" => s = "terminated" /\ wf.pc \in Replacing

LEMMA GoodObservation ==
    ASSUME Inv, Working, instance[current] # "none", NEW stepFor, GoodSteps(stepFor)
    PROVE  GoodFrame(Answer(Observed(wf.subject), stepFor[Observed(wf.subject)]))
<1>1. wf.subject = current /\ current \in Runtimes
  BY WorkingFacts
<1>2. Observed(current) \in ProviderStates
  BY <1>1 DEF Inv, TypeOK, Observed, InstanceStates, ProviderStates
<1>3. Observed(current) = "terminated" => instance[current] = "terminated"
  BY DEF Observed
<1>4. /\ stepFor[Observed(current)] \in
            Reachable \cup {"start.open", "rep.start", "rep.detached"}
      /\ stepFor[Observed(current)] = "rep.detached" =>
            Observed(current) = "terminated" /\ wf.pc \in Replacing
  BY <1>2 DEF GoodSteps
<1> QED
  BY <1>1, <1>2, <1>3, <1>4, GoodAnswer

LEMMA GoodFailure ==
    ASSUME Inv, Working, NEW p \in Reachable
    PROVE  GoodFrame(ProviderFailure(p))
<1>1. p \notin {"start.open", "rep.start", "rep.detached"}
  BY DEF Reachable, Plain, Replacing
<1>2. None # "terminated"
  BY StatesAssumption DEF ProviderStates
<1> QED
  BY <1>1, <1>2, GoodAnswer DEF ProviderFailure

LEMMA ObserveKeepsInv ==
    ASSUME Inv, Working, wf.pc # "rep.ensure",
           NEW stepFor, NEW failed \in Reachable, GoodSteps(stepFor),
           ObserveRuntime(stepFor, failed)
    PROVE  Inv'
<1>1. GoodFrame(Answer(Observed(wf.subject), stepFor[Observed(wf.subject)]))
  BY GoodObservation, WorkingFacts
<1> QED
  BY <1>1, GoodFailure, CheckKeepsInv DEF ObserveRuntime

(* A poll that does not wait for termination.                              *)
LEMMA PollKeepsInv ==
    ASSUME Inv, Working, wf.pc \in Reachable, wf.pc # "rep.ensure",
           NEW expected, NEW transitional,
           NEW done \in Reachable, NEW failed \in Reachable,
           Poll(expected, transitional, done, failed)
    PROVE  Inv'
<1> DEFINE stepFor == Waits(expected, transitional, done, wf.pc, failed)
<1>1. \A s \in ProviderStates : stepFor[s] \in {done, wf.pc, failed}
  BY DEF Waits
<1>2. \A q \in {done, wf.pc, failed} : q \in Reachable /\ q # "rep.detached"
  BY DEF Reachable, Plain, Replacing
<1> HIDE DEF stepFor
<1>3. GoodSteps(stepFor)
  BY <1>1, <1>2 DEF GoodSteps
<1> QED
  BY <1>3, ObserveKeepsInv DEF Poll, stepFor

(* A call that fails, one that finds the instance on its way, and one that *)
(* moves it.                                                               *)
LEMMA CallFailsKeepsInv ==
    ASSUME Inv, Working, NEW states, NEW p \in Reachable, CallFails(states, p),
           wf.pc = "rep.ensure" => p \in Ended
    PROVE  Inv'
<1>1. wf' = ProviderFailure(p) /\ ProviderFailure(p).pc = p
  BY WorkingFacts DEF CallFails, ProviderFailure, Answer, Frame
<1>2. GoodFrame(wf')
  BY <1>1, GoodFailure
<1> QED
  BY <1>1, <1>2, QuietKeepsInv DEF CallFails

LEMMA CallSettlesKeepsInv ==
    ASSUME Inv, Working, NEW states, "none" \notin states,
           NEW stepFor, GoodSteps(stepFor), CallSettles(states, stepFor)
    PROVE  Inv'
<1>1. instance[current] # "none"
  BY WorkingFacts DEF CallSettles
<1>2. GoodFrame(wf')
  BY <1>1, GoodObservation DEF CallSettles
<1> QED
  BY <1>1, <1>2, QuietKeepsInv DEF CallSettles

LEMMA CallMovesKeepsInv ==
    ASSUME Inv, Working, NEW from, NEW to \in InstanceStates \ {"none"},
           from # "terminated",
           NEW seen \in ProviderStates \ {"terminated"},
           NEW p \in Reachable \cup {"start.open"}, CallMoves(from, to, seen, p)
    PROVE  Inv'
<1>1. wf.subject = current /\ current \in Runtimes
  BY WorkingFacts
<1>2. GoodFrame(Answer(seen, p))
  <2>1. p # "rep.detached"
    BY DEF Reachable, Plain, Replacing
  <2> QED BY <2>1, GoodAnswer
<1>3. /\ wf' = Answer(seen, p) \/ wf' = wf
      /\ crashes' \in 0..MaxCrashes
  BY JournalOutcome DEF CallMoves, Inv
<1>4. GoodFrame(wf') \/ wf' = wf
  BY <1>2, <1>3
<1>5. /\ instance' \in [Runtimes -> InstanceStates]
      /\ \A r \in Runtimes : r # current => instance'[r] = instance[r]
      /\ instance'[current] = to /\ instance[current] = from
  BY <1>1 DEF CallMoves, Inv, TypeOK
<1>6. TypeOK'
  BY <1>3, <1>4, <1>5 DEF CallMoves, Inv, TypeOK, GoodFrame, db
<1> QED
  BY <1>4, <1>5, <1>6, MovesOn DEF CallMoves, Inv

(* The provider calls of the workflows.                                    *)
LEMMA StartRuntimeKeepsInv ==
    ASSUME Inv, wf.pc = "start.provider", StartRuntime("start.open", "outcome")
    PROVE  Inv'
<1>1. Working /\ {"start.open", "outcome"} \subseteq Reachable \cup {"start.open"}
      /\ "outcome" \in Reachable
  BY DEF Working, Ended, Reachable, Plain, Steps, Replacing
<1>2. GoodSteps(Launched("start.open", "outcome"))
  BY <1>1 DEF GoodSteps, Launched, ProviderStates
<1>3. CASE CallFails({"shutting-down"}, "outcome")
  BY <1>1, <1>3, CallFailsKeepsInv
<1>4. CASE CallMoves("stopped", "pending", "pending", "start.open")
  BY <1>1, <1>4, CallMovesKeepsInv DEF InstanceStates, ProviderStates
<1>5. CASE CallSettles({"pending", "running", "terminated"},
                       Launched("start.open", "outcome"))
  BY <1>1, <1>2, <1>5, CallSettlesKeepsInv
<1> QED
  BY <1>3, <1>4, <1>5 DEF StartRuntime

LEMMA StopRuntimeKeepsInv ==
    ASSUME Inv, Working, wf.pc # "rep.ensure", NEW done \in Reachable,
           NEW wait \in Reachable, NEW failed \in Reachable,
           StopRuntime(WaitsToStop(done, wait, failed), failed)
    PROVE  Inv'
<1> DEFINE stepFor == WaitsToStop(done, wait, failed)
<1>1. \A s \in ProviderStates : stepFor[s] \in {done, wait, failed}
  BY DEF WaitsToStop, Waits
<1>2. \A q \in {done, wait, failed} : q \in Reachable /\ q # "rep.detached"
  BY DEF Reachable, Plain, Replacing
<1> HIDE DEF stepFor
<1>3. GoodSteps(stepFor)
  BY <1>1, <1>2 DEF GoodSteps
<1>4. CASE CallFails({"shutting-down"}, failed)
  BY <1>4, CallFailsKeepsInv
<1>5. ASSUME NEW seen \in {"running", "stopping"},
             CallMoves("running", "stopping", seen, stepFor[seen])
      PROVE  Inv'
  <2>1. /\ seen \in ProviderStates \ {"terminated"}
        /\ "stopping" \in InstanceStates \ {"none"}
    BY DEF ProviderStates, InstanceStates
  <2>2. stepFor[seen] \in Reachable
    BY <1>1, <1>2, <2>1
  <2> QED BY <1>5, <2>1, <2>2, CallMovesKeepsInv
<1>6. CASE CallSettles({"stopping", "stopped", "terminated"}, stepFor)
  BY <1>3, <1>6, CallSettlesKeepsInv
<1> QED
  BY <1>4, <1>5, <1>6 DEF StopRuntime, stepFor

LEMMA RetireRuntimeKeepsInv ==
    ASSUME Inv, wf.pc = "rep.retire",
           RetireRuntime(WaitsToTerminate("rep.detached", "rep.retired", "fail"), "fail")
    PROVE  Inv'
<1> DEFINE stepFor == WaitsToTerminate("rep.detached", "rep.retired", "fail")
<1>1. /\ Working /\ wf.pc \in Replacing
      /\ "fail" \in Reachable /\ "rep.retired" \in Reachable
  BY DEF Working, Ended, Reachable, Plain, Steps, Replacing
<1>2. /\ GoodSteps(stepFor)
      /\ stepFor["stopped"] = "rep.retired" /\ stepFor["stopping"] = "rep.retired"
  BY <1>1 DEF GoodSteps, WaitsToTerminate, Waits, ProviderStates
<1> HIDE DEF stepFor
<1>3. CASE CallFails({"pending", "running"}, "fail")
  BY <1>1, <1>3, CallFailsKeepsInv
<1>4. CASE /\ instance[wf.subject] = "stopped" /\ attached' = None
           /\ UNCHANGED <<db, wf, instance, drifts, crashes, faults>>
  <2>1. TypeOK'
    BY <1>4 DEF Inv, TypeOK, db
  <2>2. wf' = wf /\ UNCHANGED <<runtimes, current, operations, instance>>
    BY <1>4 DEF db
  <2> QED BY <1>1, <2>1, <2>2, GoesOn DEF Inv
<1>5. ASSUME NEW seen \in {"stopped", "stopping"},
             CallMoves("stopped", "shutting-down", seen, stepFor[seen])
      PROVE  Inv'
  <2>1. /\ seen \in ProviderStates \ {"terminated"}
        /\ "shutting-down" \in InstanceStates \ {"none"}
        /\ stepFor[seen] \in Reachable
    BY <1>1, <1>2 DEF ProviderStates, InstanceStates
  <2> QED BY <1>1, <1>5, <2>1, CallMovesKeepsInv
<1>6. CASE CallSettles({"stopping", "shutting-down", "terminated"}, stepFor)
  BY <1>1, <1>2, <1>6, CallSettlesKeepsInv
<1> QED
  BY <1>3, <1>4, <1>5, <1>6 DEF RetireRuntime, stepFor

LEMMA EnsureRuntimeKeepsInv ==
    ASSUME Inv, wf.pc = "rep.ensure", EnsureRuntime("rep.provision", "fail")
    PROVE  Inv'
<1>1. /\ Working /\ "fail" \in Reachable \cap Ended
      /\ "rep.provision" \in Reachable
  BY DEF Working, Ended, Reachable, Plain, Steps, Replacing
<1>2. GoodSteps(Launched("rep.provision", "fail"))
  BY <1>1 DEF GoodSteps, Launched, ProviderStates
<1>3. ASSUME NEW states, CallFails(states, "fail") PROVE Inv'
  BY <1>1, <1>3, CallFailsKeepsInv
<1>4. CASE CallMoves("none", "pending", "pending", "rep.provision")
  BY <1>1, <1>4, CallMovesKeepsInv DEF InstanceStates, ProviderStates
<1>5. CASE CallSettles(InstanceStates \ {"none"}, Launched("rep.provision", "fail"))
  BY <1>1, <1>2, <1>5, CallSettlesKeepsInv
<1> QED
  BY <1>3, <1>4, <1>5 DEF EnsureRuntime

LEMMA AttachKeepsInv ==
    ASSUME Inv, wf.pc = "rep.attach",
           EnsureRuntimeDataVolumeAttachment("rep.start", "rep.error")
    PROVE  Inv'
<1>1. Working /\ "rep.error" \in Reachable
  BY DEF Working, Ended, Reachable, Plain, Steps, Replacing
<1>2. ASSUME NEW states, CallFails(states, "rep.error") PROVE Inv'
  BY <1>1, <1>2, CallFailsKeepsInv
<1>3. ASSUME NEW s \in {Observed(current), "pending"},
             s = "pending" \/ s = Observed(current),
             attached' = wf.subject,
             Journal(Answer(s, Launched("rep.start", "rep.error")[s])),
             UNCHANGED <<db, instance, drifts, faults>>
      PROVE  Inv'
  <2>1. /\ s \in ProviderStates
        /\ s = "terminated" => instance[current] = "terminated"
        /\ wf.subject = current /\ current \in Runtimes /\ instance[current] # "none"
    BY <1>1, <1>3, WorkingFacts DEF Observed, ProviderStates
  <2> DEFINE p == Launched("rep.start", "rep.error")[s]
  <2>2. p \in {"rep.start", "rep.error"}
    BY <2>1 DEF Launched
  <2> HIDE DEF p
  <2>3. GoodFrame(Answer(s, p)) /\ Answer(s, p).pc = p
    BY <1>1, <2>1, <2>2, GoodAnswer, WorkingFacts DEF Answer, Frame
  <2>4. (wf' = Answer(s, p) \/ wf' = wf) /\ crashes' \in 0..MaxCrashes
    BY <1>3, JournalOutcome DEF Inv, p
  <2>5. /\ GoodFrame(wf') \/ wf' = wf
        /\ wf'.pc # "rep.switch"
    BY <2>2, <2>3, <2>4
  <2>6. TypeOK'
    BY <1>3, <2>1, <2>4, <2>5 DEF Inv, TypeOK, GoodFrame, db
  <2>7. instance' = instance /\ UNCHANGED db
    BY <1>3
  <2>8. instance \in [Runtimes -> InstanceStates]
    BY DEF Inv, TypeOK
  <2> QED BY <1>1, <2>1, <2>5, <2>6, <2>7, <2>8, MovesOn DEF Inv
<1> QED
  BY <1>1, <1>2, <1>3, WorkingFacts DEF EnsureRuntimeDataVolumeAttachment

-----------------------------------------------------------------------------
(* The beginning and the end of a workflow, and the switch. *)

LEMMA ReserveKeepsInv ==
    ASSUME Inv, NEW o \in Operations, NEW type \in OperationTypes,
           ReserveRuntimeOperation(o, type)
    PROVE  Inv'
<1>1. /\ wf' = [IdleFrame EXCEPT !.pc = "load", !.op = o]
      /\ operations' = [operations EXCEPT ![o] =
            [type |-> type, status |-> "queued", runtime |-> current]]
      /\ UNCHANGED <<runtimes, current, usage, suppressed, instance, attached,
                     drifts, crashes, faults>>
  BY DEF ReserveRuntimeOperation, cloud
<1>2. /\ wf' \in Frame /\ wf'.pc = "load" /\ wf'.op = o /\ wf'.obs = None
  BY <1>1 DEF IdleFrame, Frame, Steps
<1>3. /\ operations' \in [Operations -> OperationRow]
      /\ operations'[o].runtime = current
  BY <1>1 DEF Inv, TypeOK, OperationRow
<1>4. TypeOK'
  BY <1>1, <1>2, <1>3 DEF Inv, TypeOK
<1>5. instance[current] # "none"
  <2>1. runtimes[current].status # "absent"
    BY DEF ReserveRuntimeOperation, acceptsRuntimeState
  <2> QED BY <2>1 DEF Inv, InstancesFollowCurrent
<1>6. SubjectIsCurrent'
  BY <1>1, <1>2, <1>3 DEF SubjectIsCurrent, Ended
<1>7. InstancesFollowCurrent'
  BY <1>1, <1>5 DEF Inv, InstancesFollowCurrent
<1>8. JournalIsTrue'
  BY <1>2, StatesAssumption DEF JournalIsTrue, Replacing, ProviderStates
<1> QED
  BY <1>4, <1>6, <1>7, <1>8 DEF Inv

LEMMA LoadKeepsInv ==
    ASSUME Inv, LoadRuntimeOperation
    PROVE  Inv'
<1> DEFINE operation == operations[wf.op]
           target == runtimes[operation.runtime]
           step == FirstStep(operation.type, target.status)
           interval == IntervalOf(operation.runtime)
           stored == target.status = "stopped"
           frame == [wf EXCEPT !.pc = step, !.subject = operation.runtime,
                               !.rt = target, !.usage = interval,
                               !.stored = stored]
<1>1. /\ wf.pc = "load" /\ Journal(frame)
      /\ operations' = [operations EXCEPT ![wf.op].status = "running"]
      /\ UNCHANGED <<runtimes, current, usage, suppressed, instance, attached,
                     drifts, faults>>
  BY DEF LoadRuntimeOperation, cloud
<1>2. wf \in Frame /\ wf.op \in Operations /\ operation.runtime = current
      /\ current \in Runtimes
  BY <1>1 DEF Inv, TypeOK, SubjectIsCurrent
<1>3. target \in RuntimeSnapshot /\ instance[current] # "none" /\ wf.obs = None
  BY <1>1, <1>2 DEF Inv, InstancesFollowCurrent, JournalIsTrue, Ended
<1>4. interval \in Operations \cup {0, None} /\ stored \in BOOLEAN
  BY DEF IntervalOf, OpenIntervals, Inv, TypeOK
<1>5. step \in {"complete", "fail", "start.observe", "stop.observe",
               "stop.suppress", "rep.image"}
  BY DEF FirstStep
<1> HIDE DEF operation, target, step, interval, stored
<1>6. /\ frame \in Frame /\ frame.pc = step /\ frame.op = wf.op
      /\ frame.subject = current /\ frame.obs = None
  <2>1. step \in Steps
    BY <1>5 DEF Steps
  <2>2. frame \in Frame
    <3> DEFINE f == [wf EXCEPT !.pc = step, !.subject = operation.runtime,
                               !.rt = target, !.usage = interval]
    <3>1. f \in Frame
      BY <1>2, <1>3, <1>4, <2>1 DEF Frame
    <3>2. frame = [f EXCEPT !.stored = stored]
      OBVIOUS
    <3> HIDE DEF f, frame
    <3> QED BY <1>4, <3>1, <3>2 DEF Frame
  <2>3. frame.pc = step /\ frame.op = wf.op /\ frame.subject = operation.runtime /\ frame.obs = wf.obs
    BY <1>2 DEF Frame
  <2> QED BY <1>2, <1>3, <2>2, <2>3
<1> HIDE DEF frame
<1>7. (wf' = frame \/ wf' = wf) /\ crashes' \in 0..MaxCrashes
  BY <1>1, JournalOutcome DEF Inv
<1>8. /\ operations' \in [Operations -> OperationRow]
      /\ operations'[wf.op].runtime = current
  BY <1>1, <1>2 DEF Inv, TypeOK, OperationRow, operation
<1>9. TypeOK'
  BY <1>1, <1>2, <1>6, <1>7, <1>8 DEF Inv, TypeOK
<1>10. SubjectIsCurrent'
  BY <1>1, <1>2, <1>5, <1>6, <1>7, <1>8 DEF SubjectIsCurrent, Ended
<1>11. InstancesFollowCurrent'
  BY <1>1, <1>3 DEF Inv, InstancesFollowCurrent
<1>12. JournalIsTrue'
  BY <1>1, <1>3, <1>5, <1>6, <1>7, StatesAssumption
     DEF JournalIsTrue, Replacing, ProviderStates
<1> QED
  BY <1>9, <1>10, <1>11, <1>12 DEF Inv

LEMMA EndKeepsInv ==
    ASSUME Inv, FailOperation \/ CompleteOperation \/ AbandonOperation
    PROVE  Inv'
<1>1. /\ wf.pc \in {"fail", "complete", "abandon"}
      /\ wf' = IdleFrame \/ wf' = wf
      /\ \/ UNCHANGED operations
         \/ \E status \in {"failed", "succeeded"} :
               operations' = [operations EXCEPT ![wf.op].status = status]
      /\ crashes' \in 0..MaxCrashes
      /\ UNCHANGED <<runtimes, current, usage, suppressed, instance, attached,
                     drifts, faults>>
  <2>1. CASE FailOperation
    BY <2>1, JournalOutcome DEF FailOperation, FinishOperation, cloud, Inv
  <2>2. CASE CompleteOperation
    BY <2>2, JournalOutcome DEF CompleteOperation, FinishOperation, cloud, Inv
  <2>3. CASE AbandonOperation
    BY <2>3 DEF AbandonOperation, db, cloud, Inv, TypeOK
  <2> QED BY <2>1, <2>2, <2>3
<1>2. IdleFrame \in Frame /\ IdleFrame.pc = "idle"
  BY DEF IdleFrame, Frame, Steps
<1>3. operations' \in [Operations -> OperationRow]
  BY <1>1 DEF Inv, TypeOK, OperationRow
<1>4. TypeOK'
  BY <1>1, <1>2, <1>3 DEF Inv, TypeOK
<1>5. SubjectIsCurrent'
  BY <1>1, <1>2 DEF Inv, SubjectIsCurrent, Ended
<1>6. InstancesFollowCurrent'
  BY <1>1, <1>2 DEF Inv, InstancesFollowCurrent, Ended
<1>7. JournalIsTrue'
  BY <1>1, <1>2 DEF Inv, JournalIsTrue, Ended, Replacing
<1> QED
  BY <1>4, <1>5, <1>6, <1>7 DEF Inv

(* The switch: the old instance is terminated and the volume free, so the  *)
(* pointer moves on to a Runtime that has not been launched; repeated      *)
(* after a crash it finds its own rows, or fails.                          *)
LEMMA SwitchKeepsInv ==
    ASSUME Inv, ReplaceSwitchesRuntime
    PROVE  Inv'
<1> DEFINE old == wf.subject
           new == old + 1
           reserved == ReserveRuntime(new, wf.image, wf.at)
           switched == [wf EXCEPT !.pc = "rep.ensure", !.subject = new,
                                  !.rt = reserved]
           failed == To("fail")
<1>1. /\ wf \in Frame /\ wf.pc = "rep.switch" /\ wf.op \in Operations
      /\ old \in Runtimes /\ new \in Runtimes /\ current \in {old, new}
      /\ wf.image \in Images /\ wf.at \in Nat
      /\ instance[old] = "terminated" /\ wf.obs = "terminated" /\ attached = None
  BY DEF Inv, TypeOK, SubjectIsCurrent, JournalIsTrue, Frame, Replacing, Ended,
         ReplaceSwitchesRuntime
<1>2. /\ old \in Nat \ {0} /\ new = old + 1
      /\ \A r \in Runtimes : r \in Nat
  BY <1>1, BoundsAssumption DEF Runtimes
<1>3. reserved \in RuntimeSnapshot /\ reserved.status = "absent"
  BY <1>1, <1>2 DEF ReserveRuntime, RuntimeSnapshot, RuntimeStatuses,
                    OptionalTime, OptionalRef
<1>4. UNCHANGED <<operations, usage, suppressed, instance, attached, drifts, faults>>
  BY DEF ReplaceSwitchesRuntime, cloud
<1> HIDE DEF reserved
<1>5. /\ switched \in Frame /\ switched.pc = "rep.ensure" /\ switched.op = wf.op
      /\ switched.subject = new
  <2>1. PICK n \in Runtimes : n = new
    BY <1>1
  <2>2. "rep.ensure" \in Steps
    BY DEF Steps
  <2>3. [wf EXCEPT !.pc = "rep.ensure", !.subject = n, !.rt = reserved] \in Frame
    BY <1>1, <1>3, <2>2 DEF Frame
  <2>4. switched = [wf EXCEPT !.pc = "rep.ensure", !.subject = n, !.rt = reserved]
    BY <2>1
  <2>5. switched.pc = "rep.ensure" /\ switched.op = wf.op /\ switched.subject = n
    BY <1>1, <2>4 DEF Frame
  <2> QED BY <2>1, <2>3, <2>4, <2>5
<1>6. failed \in Frame /\ failed.pc = "fail" /\ failed.op = wf.op
  BY <1>1 DEF To, Frame, Steps
<1>7. \/ /\ current = old /\ current' = new
         /\ \E retired \in RuntimeSnapshot :
               runtimes' = [runtimes EXCEPT ![old] = retired, ![new] = reserved]
         /\ Journal(switched)
      \/ /\ current' = current /\ runtimes' = runtimes
         /\ Journal(switched) /\ current = new
      \/ /\ current' = current /\ runtimes' = runtimes /\ Journal(failed)
  BY DEF ReplaceSwitchesRuntime, ValidRuntime, reserved
<1> HIDE DEF switched, failed, old, new
<1>8. /\ crashes' \in 0..MaxCrashes
      /\ wf' \in {wf, switched, failed}
      /\ wf' = switched => current' = new
      /\ current' \in {old, new}
  <2>1. switched # failed /\ switched # wf
    BY <1>1, <1>5, <1>6
  <2> QED BY <1>1, <1>7, <2>1, JournalOutcome DEF Inv
<1>9. /\ runtimes' \in [Runtimes -> RuntimeSnapshot \cup {None}]
      /\ runtimes'[current'] \in RuntimeSnapshot
      /\ \/ runtimes' = runtimes /\ current' = current
         \/ current = old /\ current' = new /\ runtimes'[current'].status = "absent"
  <2>1. CASE current' = current /\ runtimes' = runtimes
    BY <2>1 DEF Inv, TypeOK, InstancesFollowCurrent
  <2>2. CASE ~(current' = current /\ runtimes' = runtimes)
    <3>1. PICK retired \in RuntimeSnapshot :
             runtimes' = [runtimes EXCEPT ![old] = retired, ![new] = reserved]
      BY <1>7, <2>2
    <3>2. current = old /\ current' = new
      BY <1>7, <2>2
    <3>3. runtimes \in [Runtimes -> RuntimeSnapshot \cup {None}]
      BY DEF Inv, TypeOK
    <3>4. old # new
      BY <1>2
    <3> QED BY <1>1, <1>3, <3>1, <3>2, <3>3, <3>4
  <2> QED BY <2>1, <2>2
<1>10. TypeOK'
  BY <1>1, <1>4, <1>5, <1>6, <1>8, <1>9 DEF Inv, TypeOK
<1>11. SubjectIsCurrent'
  BY <1>1, <1>5, <1>6, <1>8 DEF SubjectIsCurrent, Ended, old, new
<1>12. InstancesFollowCurrent'
  <2>1. wf'.pc \in Ended \cup {"rep.ensure", "rep.switch"}
    BY <1>1, <1>5, <1>6, <1>8 DEF Ended
  <2>2. /\ \A r \in Runtimes : r < current' => instance[r] = "terminated"
        /\ \A r \in Runtimes : current' < r => instance[r] = "none"
    <3>1. CASE current' = current
      BY <3>1 DEF Inv, InstancesFollowCurrent
    <3>2. CASE current = old /\ current' = new
      <4>1. \A r \in Runtimes : r < new => r < old \/ r = old
        BY <1>2
      <4>2. \A r \in Runtimes : new < r => old < r
        BY <1>2
      <4> QED BY <1>1, <3>2, <4>1, <4>2 DEF Inv, InstancesFollowCurrent
    <3> QED BY <1>9, <3>1, <3>2
  <2>3. runtimes'[current'].status # "absent" => instance[current'] # "none"
    BY <1>9 DEF Inv, InstancesFollowCurrent
  <2> QED BY <1>4, <1>9, <2>1, <2>2, <2>3 DEF InstancesFollowCurrent
<1>13. JournalIsTrue'
  <2>1. CASE wf' = wf
    BY <1>4, <2>1 DEF Inv, JournalIsTrue
  <2>2. CASE wf' \in {switched, failed}
    BY <1>5, <1>6, <2>2 DEF JournalIsTrue, Replacing, Ended
  <2> QED BY <1>8, <2>1, <2>2
<1> QED
  BY <1>10, <1>11, <1>12, <1>13 DEF Inv

-----------------------------------------------------------------------------
(* The provider by itself moves only an instance that is neither absent    *)
(* nor terminated: the current one.                                        *)

LEMMA ProviderKeepsInv ==
    ASSUME Inv, NEW r \in Runtimes, ProviderStep(r) \/ InstanceDrifts(r)
    PROVE  Inv'
<1>1. /\ UNCHANGED <<db, wf, crashes, faults>>
      /\ drifts' \in 0..MaxDrifts
      /\ \/ instance' = instance
         \/ \E to \in InstanceStates \ {"none"} :
               /\ instance[r] \notin {"none", "terminated"}
               /\ instance' = [instance EXCEPT ![r] = to]
      /\ attached' \in {attached, None}
  <2>1. CASE InstanceSettles(r)
    <3>1. \E to \in {"running", "stopped", "terminated"} :
             /\ instance[r] \in {"pending", "stopping", "shutting-down"}
             /\ instance' = [instance EXCEPT ![r] = to]
      <4>1. PICK move \in {<<"pending", "running">>, <<"stopping", "stopped">>,
                           <<"shutting-down", "terminated">>} :
               instance[r] = move[1] /\ instance' = [instance EXCEPT ![r] = move[2]]
        BY <2>1 DEF InstanceSettles
      <4>2. /\ move[1] \in {"pending", "stopping", "shutting-down"}
            /\ move[2] \in {"running", "stopped", "terminated"}
        OBVIOUS
      <4> QED BY <4>1, <4>2
    <3> QED
      BY <2>1, <3>1 DEF InstanceSettles, InstanceStates, ProviderStates, Inv, TypeOK
  <2>2. CASE VolumeDetaches(r)
    BY <2>2 DEF VolumeDetaches, Inv, TypeOK
  <2>3. CASE InstanceDrifts(r)
    <3>1. drifts' \in 0..MaxDrifts
      BY <2>3, BoundsAssumption DEF InstanceDrifts, Inv, TypeOK
    <3>2. \E to \in {"stopping", "pending", "shutting-down", "terminated"} :
             /\ instance[r] \in {"running", "stopped", "pending"}
             /\ instance' = [instance EXCEPT ![r] = to]
      <4>1. PICK move \in {<<"running", "stopping">>, <<"stopped", "pending">>,
                           <<"running", "shutting-down">>,
                           <<"stopped", "shutting-down">>, <<"pending", "terminated">>} :
               instance[r] = move[1] /\ instance' = [instance EXCEPT ![r] = move[2]]
        BY <2>3 DEF InstanceDrifts
      <4>2. /\ move[1] \in {"running", "stopped", "pending"}
            /\ move[2] \in {"stopping", "pending", "shutting-down", "terminated"}
        OBVIOUS
      <4> QED BY <4>1, <4>2
    <3> QED
      BY <2>3, <3>1, <3>2 DEF InstanceDrifts, InstanceStates, ProviderStates
  <2> QED BY <2>1, <2>2, <2>3 DEF ProviderStep
<1>2. /\ instance' \in [Runtimes -> InstanceStates]
      /\ \A q \in Runtimes : /\ instance[q] = "none" => instance'[q] = "none"
                             /\ instance[q] = "terminated" => instance'[q] = "terminated"
                             /\ instance[q] # "none" => instance'[q] # "none"
  BY <1>1 DEF Inv, TypeOK
<1>3. TypeOK'
  BY <1>1, <1>2 DEF Inv, TypeOK, db
<1>4. SubjectIsCurrent'
  BY <1>1 DEF Inv, SubjectIsCurrent, db
<1>5. InstancesFollowCurrent'
  BY <1>1, <1>2 DEF Inv, TypeOK, InstancesFollowCurrent, db
<1>6. JournalIsTrue'
  <2>1. wf.pc \notin Ended \cup {"rep.ensure"} /\ wf.obs = "terminated" =>
            wf.subject \in Runtimes
    BY StatesAssumption
       DEF Inv, TypeOK, SubjectIsCurrent, JournalIsTrue, Ended, ProviderStates
  <2> QED BY <1>1, <1>2, <2>1 DEF Inv, JournalIsTrue
<1> QED
  BY <1>3, <1>4, <1>5, <1>6 DEF Inv

-----------------------------------------------------------------------------
(* The steps of runtime.start. *)

LEMMA StartKeepsInv ==
    ASSUME Inv, StartStep
    PROVE  Inv'
<1>1. {"outcome", "error", "fail", "complete", "start.close", "start.check",
       "start.begin", "start.provider", "start.wait", "start.guest",
       "start.ready", "start.resume"} \subseteq Reachable
  BY DEF Reachable, Plain, Steps, Replacing
<1>2. CASE StartObserves
  <2>1. Working /\ wf.pc # "rep.ensure"
    BY <1>2 DEF StartObserves, Working, Ended
  <2> DEFINE stepFor == [s \in ProviderStates |->
            IF s = "stopped" THEN "start.close" ELSE "outcome"]
  <2>2. GoodSteps(stepFor)
    BY <1>1 DEF GoodSteps
  <2> HIDE DEF stepFor
  <2> QED BY <1>1, <1>2, <2>1, <2>2, ObserveKeepsInv DEF StartObserves, stepFor
<1>3. CASE StartClosesStaleUsage
  <2>1. Working /\ wf.pc # "rep.ensure"
    BY <1>3 DEF StartClosesStaleUsage, Working, Ended
  <2> QED BY <1>1, <1>3, <2>1, CloseKeepsInv DEF StartClosesStaleUsage
<1>4. CASE StartChecks
  <2>1. Working /\ wf.pc # "rep.ensure"
    BY <1>4 DEF StartChecks, Working, Ended
  <2>2. PICK image \in Images :
           Check([wf EXCEPT !.pc = IF image = wf.rt.image THEN "start.begin"
                                                          ELSE "rep.begin",
                            !.image = image, !.at = Now], To("fail"))
    BY <1>4 DEF StartChecks
  <2>3. \A p \in {"start.begin", "rep.begin"} :
           GoodFrame([wf EXCEPT !.pc = p, !.image = image, !.at = Now])
    BY <1>1, <2>1, GoodImage
  <2>4. GoodFrame(To("fail"))
    BY <1>1, <2>1, GoodTo
  <2> DEFINE frame == [wf EXCEPT !.pc = IF image = wf.rt.image THEN "start.begin"
                                                               ELSE "rep.begin",
                                 !.image = image, !.at = Now]
  <2>5. GoodFrame(frame)
    BY <2>3
  <2> HIDE DEF frame
  <2> QED BY <2>1, <2>2, <2>4, <2>5, CheckKeepsInv DEF frame
<1>5. CASE StartBegins
  <2>1. Working /\ wf.pc # "rep.ensure"
    BY <1>5 DEF StartBegins, Working, Ended
  <2> QED BY <1>1, <1>5, <2>1, PersistToKeepsInv DEF StartBegins
<1>6. CASE StartCallsProvider
  BY <1>6, StartRuntimeKeepsInv DEF StartCallsProvider
<1>7. CASE StartOpensUsage
  <2>1. Working /\ wf.pc # "rep.ensure" /\ wf.obs \in ProviderStates
    BY <1>7 DEF StartOpensUsage, Working, Ended, Inv, JournalIsTrue
  <2> DEFINE p == WaitsToRun("start.guest", "start.wait", "outcome")[wf.obs]
  <2>2. p \in Reachable
    BY <1>1, <2>1 DEF WaitsToRun, Waits
  <2> HIDE DEF p
  <2>3. GoodFrame([wf EXCEPT !.usage = wf.op, !.pc = p]) /\ GoodFrame(To("error"))
    BY <1>1, <2>1, <2>2, GoodOpened, GoodTo
  <2> QED BY <1>7, <2>1, <2>3, OpenKeepsInv DEF StartOpensUsage, p
<1>8. CASE StartWaits
  <2>1. Working /\ wf.pc = "start.wait"
    BY <1>8 DEF StartWaits, Working, Ended
  <2> QED BY <1>1, <1>8, <2>1, PollKeepsInv DEF StartWaits
<1>9. CASE StartReachesGuest
  <2>1. Working /\ wf.pc # "rep.ensure"
    BY <1>9 DEF StartReachesGuest, Working, Ended
  <2>2. GoodFrame(To("start.ready")) /\ GoodFrame(To("error"))
    BY <1>1, <2>1, GoodTo
  <2> QED BY <1>9, <2>1, <2>2, CheckKeepsInv DEF StartReachesGuest
<1>10. CASE StartMarksReady
  <2>1. Working /\ wf.pc # "rep.ensure"
    BY <1>10 DEF StartMarksReady, Working, Ended
  <2> QED BY <1>1, <1>10, <2>1, PersistToKeepsInv DEF StartMarksReady
<1>11. CASE StartResumesAutoStop
  <2>1. Working /\ wf.pc # "rep.ensure"
    BY <1>11 DEF StartResumesAutoStop, Working, Ended
  <2> QED BY <1>1, <1>11, <2>1, AutoStopKeepsInv DEF StartResumesAutoStop
<1> QED
  BY <1>2, <1>3, <1>4, <1>5, <1>6, <1>7, <1>8, <1>9, <1>10, <1>11 DEF StartStep

-----------------------------------------------------------------------------
(* The steps of runtime.stop. *)

LEMMA StopKeepsInv ==
    ASSUME Inv, StopStep
    PROVE  Inv'
<1>1. {"outcome", "fail", "complete", "stop.observe", "stop.suppress",
       "stop.prepare", "stop.begin", "stop.resume", "stop.provider", "stop.wait",
       "stop.verify", "stop.close", "stop.mark"} \subseteq Reachable
  BY DEF Reachable, Plain, Steps, Replacing
<1>2. CASE StopObserves
  <2>1. Working /\ wf.pc # "rep.ensure"
    BY <1>2 DEF StopObserves, Working, Ended
  <2> DEFINE stepFor == [s \in ProviderStates |->
            IF s = "stopped" THEN "stop.verify"
            ELSE IF s = "terminated" THEN "outcome" ELSE "stop.suppress"]
  <2>2. GoodSteps(stepFor)
    BY <1>1 DEF GoodSteps
  <2> HIDE DEF stepFor
  <2> QED BY <1>1, <1>2, <2>1, <2>2, ObserveKeepsInv DEF StopObserves, stepFor
<1>3. CASE StopSuppressesAutoStop
  <2>1. Working /\ wf.pc # "rep.ensure"
    BY <1>3 DEF StopSuppressesAutoStop, Working, Ended
  <2> QED BY <1>1, <1>3, <2>1, AutoStopKeepsInv DEF StopSuppressesAutoStop
<1>4. CASE StopPrepares
  <2>1. Working /\ wf.pc # "rep.ensure"
    BY <1>4 DEF StopPrepares, Working, Ended
  <2>2. \E p \in {"stop.provider", "stop.begin", "stop.resume"} : wf' = To(p)
    BY <1>4 DEF StopPrepares
  <2>3. GoodFrame(wf')
    BY <1>1, <2>1, <2>2, GoodTo
  <2> QED BY <1>4, <2>1, <2>3, QuietKeepsInv DEF StopPrepares
<1>5. CASE StopBegins
  <2>1. Working /\ wf.pc # "rep.ensure"
    BY <1>5 DEF StopBegins, Working, Ended
  <2> QED BY <1>1, <1>5, <2>1, PersistToKeepsInv DEF StopBegins
<1>6. CASE StopResumesAutoStop
  <2>1. Working /\ wf.pc # "rep.ensure"
    BY <1>6 DEF StopResumesAutoStop, Working, Ended
  <2> QED BY <1>1, <1>6, <2>1, AutoStopKeepsInv DEF StopResumesAutoStop
<1>7. CASE StopCallsProvider
  <2>1. Working /\ wf.pc # "rep.ensure"
    BY <1>7 DEF StopCallsProvider, Working, Ended
  <2> QED BY <1>1, <1>7, <2>1, StopRuntimeKeepsInv DEF StopCallsProvider
<1>8. CASE StopWaits
  <2>1. Working /\ wf.pc = "stop.wait"
    BY <1>8 DEF StopWaits, Working, Ended
  <2> QED BY <1>1, <1>8, <2>1, PollKeepsInv DEF StopWaits
<1>9. CASE StopVerifiesVolume
  <2>1. Working /\ wf.pc # "rep.ensure"
    BY <1>9 DEF StopVerifiesVolume, Working, Ended
  <2> DEFINE missing == wf.usage = None /\ ~wf.stored
             verified == [wf EXCEPT !.pc = "stop.close", !.postErr = missing]
             unverified == [verified EXCEPT !.postErr = TRUE]
  <2>2. Check(verified, unverified)
    BY <1>9 DEF StopVerifiesVolume
  <2>3. wf \in Frame /\ missing \in BOOLEAN /\ GoodFrame(To("stop.close"))
    BY <1>1, <2>1, WorkingFacts, GoodTo
  <2> HIDE DEF missing
  <2>4. /\ verified \in Frame
        /\ verified.pc = To("stop.close").pc /\ verified.op = To("stop.close").op
        /\ verified.subject = To("stop.close").subject
        /\ verified.image = To("stop.close").image
        /\ verified.obs = To("stop.close").obs
    <3>1. "stop.close" \in Steps
      BY DEF Steps
    <3>2. verified \in Frame
      BY <2>3, <3>1 DEF Frame
    <3> QED BY <2>3, <3>2 DEF Frame, To
  <2> HIDE DEF verified
  <2>5. /\ unverified \in Frame
        /\ unverified.pc = verified.pc /\ unverified.op = verified.op
        /\ unverified.subject = verified.subject
        /\ unverified.image = verified.image /\ unverified.obs = verified.obs
    BY <2>4 DEF Frame
  <2> HIDE DEF unverified
  <2>6. GoodFrame(verified) /\ GoodFrame(unverified)
    BY <2>3, <2>4, <2>5 DEF GoodFrame
  <2> QED BY <2>1, <2>2, <2>6, CheckKeepsInv
<1>10. CASE StopClosesUsage
  <2>1. Working /\ wf.pc # "rep.ensure"
    BY <1>10 DEF StopClosesUsage, Working, Ended
  <2>2. (IF wf.stored THEN StopOutcome ELSE "stop.mark") \in Reachable
    BY <1>1 DEF StopOutcome
  <2> QED BY <1>10, <2>1, <2>2, CloseKeepsInv DEF StopClosesUsage
<1>11. CASE StopMarksStopped
  <2>1. Working /\ wf.pc # "rep.ensure"
    BY <1>11 DEF StopMarksStopped, Working, Ended
  <2>2. StopOutcome \in Reachable
    BY <1>1 DEF StopOutcome
  <2> QED BY <1>1, <1>11, <2>1, <2>2, PersistToKeepsInv DEF StopMarksStopped
<1> QED
  BY <1>2, <1>3, <1>4, <1>5, <1>6, <1>7, <1>8, <1>9, <1>10, <1>11 DEF StopStep

-----------------------------------------------------------------------------
(* The steps of runtime.replace. *)

(* Up to the switch: the old Runtime is stopped, billed off and retired.   *)
RetirementStep ==
    \/ ReplaceResolvesImage \/ ReplaceBegins \/ ReplaceSuppressesAutoStop
    \/ ReplaceObserves \/ ReplaceWaitsForPending \/ ReplaceStopsRuntime
    \/ ReplaceWaitsForStop \/ ReplaceClosesUsage \/ ReplaceVerifiesVolume
    \/ ReplaceRetiresRuntime \/ ReplaceWaitsForTermination
    \/ ReplaceWaitsForDetachment

(* After the switch: the successor is launched and made ready.             *)
SuccessionStep ==
    \/ ReplaceEnsuresRuntime \/ ReplaceProvisions \/ ReplaceAttachesVolume
    \/ ReplaceBeginsStart \/ ReplaceOpensUsage \/ ReplaceWaitsForRunning
    \/ ReplaceProviderOutcome \/ ReplaceReachesGuest \/ ReplaceMarksReady
    \/ ReplaceResumesAutoStop \/ ReplaceMarksError

LEMMA SuccessionKeepsInv ==
    ASSUME Inv, SuccessionStep
    PROVE  Inv'
<1>1. {"fail", "complete", "abandon", "rep.attach", "rep.wait", "rep.guest",
       "rep.ready", "rep.resume", "rep.outcome", "rep.error"} \subseteq Reachable
  BY DEF Reachable, Plain, Steps, Replacing
<1>2. CASE ReplaceEnsuresRuntime
  BY <1>2, EnsureRuntimeKeepsInv DEF ReplaceEnsuresRuntime
<1>3. CASE ReplaceProvisions
  <2>1. Working /\ wf.pc # "rep.ensure"
    BY <1>3 DEF ReplaceProvisions, Working, Ended
  <2> QED BY <1>1, <1>3, <2>1, PersistToKeepsInv DEF ReplaceProvisions
<1>4. CASE ReplaceAttachesVolume
  BY <1>4, AttachKeepsInv DEF ReplaceAttachesVolume
<1>5. CASE ReplaceBeginsStart
  <2>1. Working /\ wf.pc # "rep.ensure" /\ wf.obs \in ProviderStates
    BY <1>5 DEF ReplaceBeginsStart, Working, Ended, Inv, JournalIsTrue
  <2>2. GoodSave("rep.open") /\ GoodFrame(To("fail"))
    BY <1>1, <2>1, GoodSaves, GoodTo
  <2> QED BY <1>5, <2>1, <2>2, PersistKeepsInv DEF ReplaceBeginsStart
<1>6. CASE ReplaceOpensUsage
  <2>1. Working /\ wf.pc # "rep.ensure" /\ wf.obs \in ProviderStates
    BY <1>6 DEF ReplaceOpensUsage, Working, Ended, Inv, JournalIsTrue
  <2> DEFINE p == WaitsToRun("rep.guest", "rep.wait", "rep.outcome")[wf.obs]
  <2>2. p \in Reachable
    BY <1>1, <2>1 DEF WaitsToRun, Waits
  <2> HIDE DEF p
  <2>3. /\ GoodFrame([wf EXCEPT !.usage = wf.op, !.pc = p])
        /\ GoodFrame([wf EXCEPT !.pc = "rep.error", !.at = Now])
    BY <1>1, <2>1, <2>2, GoodOpened, GoodDated
  <2> QED BY <1>6, <2>1, <2>3, OpenKeepsInv DEF ReplaceOpensUsage, p
<1>7. CASE ReplaceWaitsForRunning
  <2>1. Working /\ wf.pc = "rep.wait"
    BY <1>7 DEF ReplaceWaitsForRunning, Working, Ended
  <2> QED BY <1>1, <1>7, <2>1, PollKeepsInv DEF ReplaceWaitsForRunning
<1>8. CASE ReplaceProviderOutcome
  <2>1. Working /\ wf.pc # "rep.ensure"
    BY <1>8 DEF ReplaceProviderOutcome, Working, Ended
  <2> QED BY <1>1, <1>8, <2>1, CloseKeepsInv DEF ReplaceProviderOutcome
<1>9. CASE ReplaceReachesGuest
  <2>1. Working /\ wf.pc # "rep.ensure"
    BY <1>9 DEF ReplaceReachesGuest, Working, Ended
  <2>2. \E p \in {"rep.ready", "rep.error"} : wf' = [wf EXCEPT !.pc = p, !.at = Now]
    BY <1>9 DEF ReplaceReachesGuest
  <2>3. GoodFrame(wf')
    BY <1>1, <2>1, <2>2, GoodDated
  <2> QED BY <1>9, <2>1, <2>3, QuietKeepsInv DEF ReplaceReachesGuest
<1>10. CASE ReplaceMarksReady
  <2>1. Working /\ wf.pc # "rep.ensure"
    BY <1>10 DEF ReplaceMarksReady, Working, Ended
  <2> QED BY <1>1, <1>10, <2>1, PersistToKeepsInv DEF ReplaceMarksReady
<1>11. CASE ReplaceResumesAutoStop
  <2>1. Working /\ wf.pc # "rep.ensure"
    BY <1>11 DEF ReplaceResumesAutoStop, Working, Ended
  <2> QED BY <1>1, <1>11, <2>1, AutoStopKeepsInv DEF ReplaceResumesAutoStop
<1>12. CASE ReplaceMarksError
  <2>1. Working /\ wf.pc # "rep.ensure"
    BY <1>12 DEF ReplaceMarksError, Working, Ended
  <2> QED BY <1>1, <1>12, <2>1, PersistToKeepsInv DEF ReplaceMarksError
<1> QED
  BY <1>2, <1>3, <1>4, <1>5, <1>6, <1>7, <1>8, <1>9, <1>10, <1>11, <1>12
     DEF SuccessionStep

LEMMA RetirementKeepsInv ==
    ASSUME Inv, RetirementStep
    PROVE  Inv'
<1>1. /\ "fail" \in Reachable
      /\ wf.pc \in Replacing => Replacing \ {"rep.detached", "rep.switch"} \subseteq Reachable
  BY DEF Reachable, Plain, Steps, Replacing
<1>2. CASE ReplaceResolvesImage
  <2>1. Working /\ wf.pc # "rep.ensure"
    BY <1>2 DEF ReplaceResolvesImage, Working, Ended
  <2>2. PICK image \in Images :
           Check([wf EXCEPT !.pc = "rep.begin", !.image = image, !.at = Now], To("fail"))
    BY <1>2 DEF ReplaceResolvesImage
  <2>3. /\ GoodFrame([wf EXCEPT !.pc = "rep.begin", !.image = image, !.at = Now])
        /\ GoodFrame(To("fail"))
    BY <1>1, <2>1, GoodImage, GoodTo
  <2> QED BY <2>1, <2>2, <2>3, CheckKeepsInv
<1>3. CASE ReplaceBegins
  <2>1. Working /\ wf.pc # "rep.ensure" /\ "rep.suppress" \in Reachable
    BY <1>1, <1>3 DEF ReplaceBegins, Working, Ended, Replacing
  <2> QED BY <1>1, <1>3, <2>1, PersistToKeepsInv DEF ReplaceBegins
<1>4. CASE ReplaceSuppressesAutoStop
  <2>1. Working /\ wf.pc # "rep.ensure" /\ "rep.observe" \in Reachable
    BY <1>1, <1>4 DEF ReplaceSuppressesAutoStop, Working, Ended, Replacing
  <2> QED BY <1>1, <1>4, <2>1, AutoStopKeepsInv DEF ReplaceSuppressesAutoStop
<1>5. CASE ReplaceObserves
  <2> DEFINE s == Observed(wf.subject)
             step == [x \in ProviderStates |->
                        IF x = "pending" THEN "rep.pending"
                        ELSE IF x = "running" THEN "rep.stop"
                        ELSE IF x = "stopping" THEN "rep.stopped" ELSE "rep.close"]
             ran == s = "running"
             frame == [Answer(s, step[s]) EXCEPT !.wasRunning = ran]
  <2>1. /\ Working /\ wf.pc # "rep.ensure"
        /\ {"rep.pending", "rep.stop", "rep.stopped", "rep.close"} \subseteq Reachable
    BY <1>1, <1>5 DEF ReplaceObserves, Working, Ended, Replacing
  <2>2. Check(frame, ProviderFailure("fail"))
    BY <1>5 DEF ReplaceObserves
  <2>3. GoodSteps(step)
    BY <2>1 DEF GoodSteps
  <2>4. GoodFrame(Answer(s, step[s])) /\ ran \in BOOLEAN
    <3> HIDE DEF step
    <3> QED BY <2>1, <2>3, GoodObservation, WorkingFacts
  <2> DEFINE answer == Answer(s, step[s])
  <2>5. answer \in Frame
    BY <2>4 DEF GoodFrame
  <2> HIDE DEF s, step, ran, answer
  <2>6. /\ frame \in Frame /\ frame.pc = answer.pc /\ frame.op = answer.op
        /\ frame.subject = answer.subject /\ frame.image = answer.image
        /\ frame.obs = answer.obs
    <3>1. frame = [answer EXCEPT !.wasRunning = ran]
      BY DEF answer
    <3> HIDE DEF frame
    <3> QED BY <2>4, <2>5, <3>1 DEF Frame
  <2> HIDE DEF frame
  <2>7. GoodFrame(frame)
    BY <2>4, <2>6 DEF GoodFrame, answer
  <2> QED BY <1>1, <2>1, <2>2, <2>7, GoodFailure, CheckKeepsInv
<1>6. CASE ReplaceWaitsForPending
  <2>1. Working /\ wf.pc = "rep.pending" /\ {"rep.pending", "rep.stop"} \subseteq Reachable
    BY <1>1, <1>6 DEF ReplaceWaitsForPending, Working, Ended, Replacing
  <2> QED BY <1>1, <1>6, <2>1, PollKeepsInv DEF ReplaceWaitsForPending
<1>7. CASE ReplaceStopsRuntime
  <2>1. /\ Working /\ wf.pc # "rep.ensure"
        /\ {"rep.close", "rep.stopped"} \subseteq Reachable
    BY <1>1, <1>7 DEF ReplaceStopsRuntime, Working, Ended, Replacing
  <2> QED BY <1>1, <1>7, <2>1, StopRuntimeKeepsInv DEF ReplaceStopsRuntime
<1>8. CASE ReplaceWaitsForStop
  <2>1. Working /\ wf.pc = "rep.stopped" /\ {"rep.stopped", "rep.close"} \subseteq Reachable
    BY <1>1, <1>8 DEF ReplaceWaitsForStop, Working, Ended, Replacing
  <2> QED BY <1>1, <1>8, <2>1, PollKeepsInv DEF ReplaceWaitsForStop
<1>9. CASE ReplaceClosesUsage
  <2>1. Working /\ wf.pc # "rep.ensure" /\ "rep.verify" \in Reachable
    BY <1>1, <1>9 DEF ReplaceClosesUsage, Working, Ended, Replacing
  <2>2. CASE wf' = To("fail") /\ UNCHANGED <<db, cloud, crashes, faults>>
    BY <1>1, <2>1, <2>2, GoodTo, QuietKeepsInv
  <2>3. CASE closeComputeUsageForProviderOutcome("rep.verify")
    BY <2>1, <2>3, CloseKeepsInv
  <2> QED BY <1>9, <2>2, <2>3 DEF ReplaceClosesUsage
<1>10. CASE ReplaceVerifiesVolume
  <2>1. Working /\ wf.pc = "rep.verify" /\ "rep.retire" \in Reachable
    BY <1>1, <1>10 DEF ReplaceVerifiesVolume, Working, Ended, Replacing
  <2> DEFINE p == IF wf.obs = "terminated" THEN "rep.detached" ELSE "rep.retire"
  <2>2. GoodFrame(To(p))
    <3>1. CASE wf.obs = "terminated"
      BY <2>1, <3>1, GoodToTerminated DEF Replacing
    <3>2. CASE wf.obs # "terminated"
      BY <2>1, <3>2, GoodTo
    <3> QED BY <3>1, <3>2
  <2> HIDE DEF p
  <2> QED BY <1>1, <1>10, <2>1, <2>2, GoodTo, CheckKeepsInv
          DEF ReplaceVerifiesVolume, p
<1>11. CASE ReplaceRetiresRuntime
  BY <1>11, RetireRuntimeKeepsInv DEF ReplaceRetiresRuntime
<1>12. CASE ReplaceWaitsForTermination
  <2>1. /\ Working /\ wf.pc = "rep.retired" /\ wf.pc \in Replacing
        /\ "rep.retired" \in Reachable
    BY <1>1, <1>12 DEF ReplaceWaitsForTermination, Working, Ended, Replacing
  <2> DEFINE stepFor == Waits("terminated", {"stopping", "stopped"},
                              "rep.detached", wf.pc, "fail")
  <2>2. GoodSteps(stepFor)
    BY <1>1, <2>1 DEF GoodSteps, Waits
  <2> HIDE DEF stepFor
  <2> QED BY <1>1, <1>12, <2>1, <2>2, ObserveKeepsInv
          DEF ReplaceWaitsForTermination, Poll, stepFor
<1>13. CASE ReplaceWaitsForDetachment
  <2>1. /\ Working /\ wf.pc = "rep.detached" /\ wf.pc \in Replacing
        /\ wf.obs = "terminated"
    BY <1>13 DEF ReplaceWaitsForDetachment, Working, Ended, Replacing, Inv, JournalIsTrue
  <2>2. GoodFrame(wf')
    <3>1. CASE attached = None /\ wf' = To("rep.switch")
      BY <2>1, <3>1, GoodToTerminated
    <3>2. CASE wf' = To("fail")
      BY <1>1, <2>1, <3>2, GoodTo
    <3> QED BY <1>13, <3>1, <3>2 DEF ReplaceWaitsForDetachment
  <2> QED BY <1>13, <2>1, <2>2, QuietKeepsInv DEF ReplaceWaitsForDetachment
<1> QED
  BY <1>2, <1>3, <1>4, <1>5, <1>6, <1>7, <1>8, <1>9, <1>10, <1>11, <1>12, <1>13
     DEF RetirementStep

-----------------------------------------------------------------------------
(* The invariant. *)

LEMMA InitInv == Init => Inv
<1> SUFFICES ASSUME Init PROVE Inv
  OBVIOUS
<1>1. 1 \in Runtimes /\ Runtimes \subseteq Nat \ {0} /\ 1 \in Refs
  BY BoundsAssumption, RefsAssumption DEF Runtimes
<1>2. PICK image \in Images : image = CHOOSE i \in Images : TRUE
  BY ImagesAssumption
<1>3. FirstRuntime \in RuntimeSnapshot
  <2> DEFINE reserved == ReserveRuntime(1, image, 0)
  <2>1. reserved \in RuntimeSnapshot
    BY DEF ReserveRuntime, RuntimeSnapshot, RuntimeStatuses, OptionalTime, OptionalRef
  <2>2. FirstRuntime = [reserved EXCEPT !.status = "ready", !.provider = 1,
                            !.address = 1, !.boot = 1, !.startedAt = 0, !.version = 4]
    BY <1>2 DEF FirstRuntime
  <2>3. /\ "ready" \in RuntimeStatuses /\ 1 \in OptionalRef /\ 0 \in OptionalTime
        /\ 4 \in Nat \ {0}
    BY <1>1 DEF RuntimeStatuses, OptionalRef, OptionalTime
  <2> HIDE DEF reserved
  <2> DEFINE started == [reserved EXCEPT !.status = "ready", !.startedAt = 0, !.version = 4]
  <2>4. started \in RuntimeSnapshot
    BY <2>1, <2>3 DEF RuntimeSnapshot
  <2>5. FirstRuntime = [started EXCEPT !.provider = 1, !.address = 1, !.boot = 1]
    BY <2>1, <2>2 DEF RuntimeSnapshot
  <2> HIDE DEF started
  <2> QED BY <2>3, <2>4, <2>5 DEF RuntimeSnapshot
<1>4. IdleFrame \in Frame /\ IdleFrame.pc = "idle"
  BY DEF IdleFrame, Frame, Steps
<1>5. TypeOK
  <2>1. runtimes \in [Runtimes -> RuntimeSnapshot \cup {None}] /\ current \in Runtimes
    BY <1>1, <1>3 DEF Init
  <2>2. operations \in [Operations -> OperationRow]
    BY DEF Init, OperationRow
  <2>3. usage \in [Operations \cup {0} -> UsageRow]
    BY <1>1 DEF Init, UsageRow
  <2>4. instance \in [Runtimes -> InstanceStates] /\ attached \in Runtimes \cup {None}
    BY <1>1 DEF Init, InstanceStates, ProviderStates
  <2>5. crashes \in 0..MaxCrashes /\ faults \in 0..MaxFaults /\ drifts \in 0..MaxDrifts
    BY BoundsAssumption DEF Init
  <2>6. suppressed \in Runtimes \cup {None} /\ wf \in Frame
    BY <1>4 DEF Init
  <2> QED BY <2>1, <2>2, <2>3, <2>4, <2>5, <2>6 DEF TypeOK
<1>6. SubjectIsCurrent
  BY <1>4 DEF Init, SubjectIsCurrent, Ended
<1>7. InstancesFollowCurrent
  BY <1>1, <1>3, <1>4 DEF Init, InstancesFollowCurrent, Ended
<1>8. JournalIsTrue
  BY <1>4 DEF Init, JournalIsTrue, Ended, Replacing
<1> QED
  BY <1>5, <1>6, <1>7, <1>8 DEF Inv

LEMMA WorkflowKeepsInv ==
    ASSUME Inv, WorkflowStep
    PROVE  Inv'
<1>1. CASE LoadRuntimeOperation
  BY <1>1, LoadKeepsInv
<1>2. CASE StartStep
  BY <1>2, StartKeepsInv
<1>3. CASE StopStep
  BY <1>3, StopKeepsInv
<1>4. CASE ReplaceStep
  BY <1>4, RetirementKeepsInv, SuccessionKeepsInv, SwitchKeepsInv
     DEF ReplaceStep, RetirementStep, SuccessionStep
<1>5. CASE ProviderOutcome
  <2>1. Working /\ wf.pc # "rep.ensure" /\ "error" \in Reachable
    BY <1>5 DEF ProviderOutcome, Working, Ended, Reachable, Plain, Steps, Replacing
  <2> QED BY <1>5, <2>1, CloseKeepsInv DEF ProviderOutcome
<1>6. CASE MarkErrorAndFail
  <2>1. Working /\ wf.pc # "rep.ensure" /\ {"fail", "abandon"} \subseteq Reachable
    BY <1>6 DEF MarkErrorAndFail, Working, Ended, Reachable, Plain, Steps, Replacing
  <2> QED BY <1>6, <2>1, PersistToKeepsInv DEF MarkErrorAndFail
<1>7. CASE FailOperation \/ CompleteOperation \/ AbandonOperation
  BY <1>7, EndKeepsInv
<1> QED
  BY <1>1, <1>2, <1>3, <1>4, <1>5, <1>6, <1>7 DEF WorkflowStep

LEMMA NextInv == Inv /\ [Next]_vars => Inv'
<1> SUFFICES ASSUME Inv, [Next]_vars PROVE Inv'
  OBVIOUS
<1>1. CASE UNCHANGED vars
  BY <1>1 DEF vars, db, cloud, Inv, TypeOK, SubjectIsCurrent,
              InstancesFollowCurrent, JournalIsTrue
<1>2. CASE Next
  BY <1>2, ReserveKeepsInv, WorkflowKeepsInv, ProviderKeepsInv DEF Next
<1> QED BY <1>1, <1>2

(* Inv holds in every state of start, stop and replace: the workflow works *)
(* on the current Runtime and what its journal says of the instance is     *)
(* still true, however the steps crashed and were repeated.                *)
THEOREM Invariance == Spec => []Inv
<1>1. Init => Inv
  BY InitInv
<1>2. Inv /\ [Next]_vars => Inv'
  BY NextInv
<1> QED
  BY <1>1, <1>2, PTL DEF Spec

(* Every row, the journal and the provider keep their types: no workflow   *)
(* writes a snapshot the aggregate does not allow, nor goes to a step, or  *)
(* records a provider state, that the code does not know.                  *)
THEOREM TypeCorrect == Spec => []TypeOK
<1>1. Inv => TypeOK
  BY DEF Inv
<1> QED
  BY <1>1, Invariance, PTL

(* Only the current Runtime computes, for any number of Runtimes,          *)
(* Operations, crashes, failures and drifts: fulfillRuntimeReplacement     *)
(* moves the pointer only past a terminated instance.                      *)
THEOREM SingleCompute == Spec => []OnlyCurrentComputes
<1>1. Inv => OnlyCurrentComputes
  <2> SUFFICES ASSUME Inv, NEW r \in Runtimes, Active(r) PROVE r = current
    BY DEF OnlyCurrentComputes
  <2>1. current \in Nat /\ r \in Nat
    BY DEF Inv, TypeOK, Runtimes
  <2>2. ~(r < current) /\ ~(current < r)
    BY DEF Inv, InstancesFollowCurrent, Active
  <2> QED BY <2>1, <2>2
<1> QED
  BY <1>1, Invariance, PTL

-----------------------------------------------------------------------------
(* The refinement of VolumeHandover. *)

HandsOver == [Volume!Next]_<<current, Compute, attached>>
Stutters == UNCHANGED <<current, instance, attached>>

LEMMA StutterHandsOver == Stutters => HandsOver
BY DEF Stutters, HandsOver, Compute

(* The ways a step is built that leave the provider alone.                 *)
LEMMA CheckStutters ==
    ASSUME NEW f, NEW g, Check(f, g)
    PROVE  Stutters
BY DEF Check, db, cloud, Stutters

LEMMA PersistStutters ==
    ASSUME NEW can, NEW next, NEW saved, NEW refused,
           Persist(can, next, saved, refused)
    PROVE  Stutters
BY DEF Persist, cloud, Stutters

LEMMA OpenStutters ==
    ASSUME NEW f, NEW g, OpenComputeUsageInterval(f, g)
    PROVE  Stutters
BY DEF OpenComputeUsageInterval, cloud, Stutters

LEMMA CloseStutters ==
    ASSUME NEW p, closeComputeUsageForProviderOutcome(p)
    PROVE  Stutters
BY DEF closeComputeUsageForProviderOutcome, CloseComputeUsageInterval, ClosesInterval,
       RefusesClosing, db, cloud, Stutters

LEMMA AutoStopStutters ==
    ASSUME NEW p, SuppressAutoStop(p) \/ ResumeAutoStop(p)
    PROVE  Stutters
BY DEF SuppressAutoStop, ResumeAutoStop, cloud, Stutters

LEMMA CallStutters ==
    ASSUME NEW states, NEW x, CallFails(states, x) \/ CallSettles(states, x)
    PROVE  Stutters
BY DEF CallFails, CallSettles, db, cloud, Stutters

(* The calls that move the current Runtime's instance.                     *)
LEMMA CallMovesHandsOver ==
    ASSUME Inv, Working, NEW from, NEW to, NEW seen, NEW p,
           CallMoves(from, to, seen, p),
           to \notin {"none", "terminated"}, from # "terminated"
    PROVE  HandsOver
<1>1. /\ wf.subject = current /\ current \in Runtimes
      /\ instance \in [Runtimes -> InstanceStates]
  BY WorkingFacts DEF Inv, TypeOK
<1>2. /\ current' = current /\ attached' = attached
      /\ instance[current] = from /\ instance'[current] = to
  BY <1>1 DEF CallMoves, db
<1>3. CASE from = "none"
  <2>1. Compute = "none" /\ Compute' = "up"
    BY <1>2, <1>3 DEF Compute
  <2> QED BY <1>2, <2>1 DEF HandsOver, Volume!Next, Volume!Launch
<1>4. CASE from # "none"
  BY <1>2, <1>4 DEF HandsOver, Compute
<1> QED BY <1>3, <1>4

LEMMA StartHandsOver ==
    ASSUME Inv, StartStep
    PROVE  HandsOver
<1>1. CASE StartCallsProvider
  <2>1. Working
    BY <1>1 DEF StartCallsProvider, Working, Ended
  <2> QED BY <1>1, <2>1, CallStutters, StutterHandsOver, CallMovesHandsOver
          DEF StartCallsProvider, StartRuntime
<1>2. CASE StartObserves \/ StartChecks \/ StartWaits \/ StartReachesGuest
  BY <1>2, CheckStutters, StutterHandsOver
     DEF StartObserves, StartChecks, StartWaits, StartReachesGuest, Poll, ObserveRuntime
<1>3. CASE StartBegins \/ StartMarksReady
  BY <1>3, PersistStutters, StutterHandsOver DEF StartBegins, StartMarksReady
<1>4. CASE StartClosesStaleUsage \/ StartOpensUsage \/ StartResumesAutoStop
  BY <1>4, CloseStutters, OpenStutters, AutoStopStutters, StutterHandsOver
     DEF StartClosesStaleUsage, StartOpensUsage, StartResumesAutoStop
<1> QED
  BY <1>1, <1>2, <1>3, <1>4 DEF StartStep

LEMMA StopRuntimeHandsOver ==
    ASSUME Inv, Working, NEW stepFor, NEW failed, StopRuntime(stepFor, failed)
    PROVE  HandsOver
BY CallStutters, StutterHandsOver, CallMovesHandsOver DEF StopRuntime

LEMMA StopHandsOver ==
    ASSUME Inv, StopStep
    PROVE  HandsOver
<1>1. CASE StopCallsProvider
  <2>1. Working
    BY <1>1 DEF StopCallsProvider, Working, Ended
  <2> QED BY <1>1, <2>1, StopRuntimeHandsOver DEF StopCallsProvider
<1>2. CASE StopObserves \/ StopWaits \/ StopVerifiesVolume
  BY <1>2, CheckStutters, StutterHandsOver
     DEF StopObserves, StopWaits, StopVerifiesVolume, Poll, ObserveRuntime
<1>3. CASE StopPrepares
  BY <1>3, StutterHandsOver DEF StopPrepares, db, cloud, Stutters
<1>4. CASE StopBegins \/ StopMarksStopped
  BY <1>4, PersistStutters, StutterHandsOver DEF StopBegins, StopMarksStopped
<1>5. CASE StopSuppressesAutoStop \/ StopResumesAutoStop \/ StopClosesUsage
  BY <1>5, AutoStopStutters, CloseStutters, StutterHandsOver
     DEF StopSuppressesAutoStop, StopResumesAutoStop, StopClosesUsage
<1> QED
  BY <1>1, <1>2, <1>3, <1>4, <1>5 DEF StopStep

(* The volume leaves the instance before it is terminated.                 *)
LEMMA RetirementHandsOver ==
    ASSUME Inv, RetirementStep
    PROVE  HandsOver
<1>1. CASE ReplaceStopsRuntime
  <2>1. Working
    BY <1>1 DEF ReplaceStopsRuntime, Working, Ended
  <2> QED BY <1>1, <2>1, StopRuntimeHandsOver DEF ReplaceStopsRuntime
<1>2. CASE ReplaceRetiresRuntime
  <2> DEFINE stepFor == WaitsToTerminate("rep.detached", "rep.retired", "fail")
  <2>1. Working /\ wf.subject = current /\ RetireRuntime(stepFor, "fail")
    BY <1>2, WorkingFacts DEF ReplaceRetiresRuntime, Working, Ended
  <2> HIDE DEF stepFor
  <2>2. CASE /\ attached = wf.subject /\ attached' = None
             /\ UNCHANGED <<db, wf, instance, drifts, crashes, faults>>
    <3>1. current' = current /\ Compute' = Compute /\ attached # None
      BY <2>1, <2>2, NoneAssumption DEF db, Compute, Inv, TypeOK, Runtimes
    <3> QED BY <2>2, <3>1 DEF HandsOver, Volume!Next, Volume!Detach
  <2> QED BY <2>1, <2>2, CallStutters, StutterHandsOver, CallMovesHandsOver
          DEF RetireRuntime
<1>3. CASE \/ ReplaceResolvesImage \/ ReplaceObserves \/ ReplaceWaitsForPending
           \/ ReplaceWaitsForStop \/ ReplaceVerifiesVolume \/ ReplaceWaitsForTermination
  BY <1>3, CheckStutters, StutterHandsOver
     DEF ReplaceResolvesImage, ReplaceObserves, ReplaceWaitsForPending,
         ReplaceWaitsForStop, ReplaceVerifiesVolume, ReplaceWaitsForTermination,
         Poll, ObserveRuntime
<1>4. CASE ReplaceBegins \/ ReplaceSuppressesAutoStop
  BY <1>4, PersistStutters, AutoStopStutters, StutterHandsOver
     DEF ReplaceBegins, ReplaceSuppressesAutoStop
<1>5. CASE ReplaceClosesUsage \/ ReplaceWaitsForDetachment
  BY <1>5, CloseStutters, StutterHandsOver
     DEF ReplaceClosesUsage, ReplaceWaitsForDetachment, db, cloud, Stutters
<1> QED
  BY <1>1, <1>2, <1>3, <1>4, <1>5 DEF RetirementStep

(* The next generation begins with the switch, and the volume is taken by  *)
(* the current Runtime alone.                                              *)
LEMMA SwitchHandsOver ==
    ASSUME Inv, ReplaceSwitchesRuntime
    PROVE  HandsOver
<1>1. /\ wf.subject \in Runtimes /\ wf.subject + 1 \in Runtimes
      /\ wf.obs = "terminated" /\ instance[wf.subject] = "terminated"
      /\ attached = None
  BY DEF Inv, SubjectIsCurrent, JournalIsTrue, Ended, ReplaceSwitchesRuntime
<1>2. /\ instance' = instance /\ attached' = attached
      /\ \/ current' = current
         \/ current = wf.subject /\ current' = wf.subject + 1
  BY DEF ReplaceSwitchesRuntime, cloud
<1>3. CASE current' = current
  BY <1>2, <1>3, StutterHandsOver DEF Stutters
<1>4. CASE current = wf.subject /\ current' = wf.subject + 1
  <2>1. current < wf.subject + 1
    BY <1>4 DEF Inv, TypeOK, Runtimes
  <2>2. instance[wf.subject + 1] = "none"
    BY <1>1, <2>1 DEF Inv, InstancesFollowCurrent
  <2>3. Compute = "gone" /\ Compute' = "none"
    BY <1>1, <1>2, <1>4, <2>2 DEF Compute
  <2> QED BY <1>1, <1>2, <1>4, <2>3 DEF HandsOver, Volume!Next, Volume!Handover
<1> QED BY <1>2, <1>3, <1>4

LEMMA AttachHandsOver ==
    ASSUME Inv, ReplaceAttachesVolume
    PROVE  HandsOver
<1>1. /\ wf.subject = current /\ current \in Runtimes
      /\ EnsureRuntimeDataVolumeAttachment("rep.start", "rep.error")
  BY WorkingFacts DEF ReplaceAttachesVolume, Working, Ended
<1>2. CASE /\ attached = wf.subject /\ attached' = wf.subject
           /\ UNCHANGED <<db, instance, drifts, faults>>
  BY <1>2, StutterHandsOver DEF Stutters, db
<1>3. CASE /\ attached = None /\ instance[wf.subject] \in {"running", "stopped"}
           /\ attached' = wf.subject /\ UNCHANGED <<db, instance, drifts, faults>>
  <2>1. current' = current /\ Compute = "up" /\ Compute' = "up"
    BY <1>1, <1>3 DEF db, Compute
  <2> QED BY <1>1, <1>3, <2>1 DEF HandsOver, Volume!Next, Volume!Attach
<1> QED
  BY <1>1, <1>2, <1>3, CallStutters, StutterHandsOver
     DEF EnsureRuntimeDataVolumeAttachment

LEMMA SuccessionHandsOver ==
    ASSUME Inv, SuccessionStep
    PROVE  HandsOver
<1>1. CASE ReplaceEnsuresRuntime
  <2>1. Working
    BY <1>1 DEF ReplaceEnsuresRuntime, Working, Ended
  <2> QED BY <1>1, <2>1, CallStutters, StutterHandsOver, CallMovesHandsOver
          DEF ReplaceEnsuresRuntime, EnsureRuntime
<1>2. CASE ReplaceAttachesVolume
  BY <1>2, AttachHandsOver
<1>3. CASE \/ ReplaceProvisions \/ ReplaceBeginsStart \/ ReplaceMarksReady
           \/ ReplaceMarksError
  BY <1>3, PersistStutters, StutterHandsOver
     DEF ReplaceProvisions, ReplaceBeginsStart, ReplaceMarksReady, ReplaceMarksError
<1>4. CASE ReplaceOpensUsage \/ ReplaceProviderOutcome \/ ReplaceResumesAutoStop
  BY <1>4, OpenStutters, CloseStutters, AutoStopStutters, StutterHandsOver
     DEF ReplaceOpensUsage, ReplaceProviderOutcome, ReplaceResumesAutoStop
<1>5. CASE ReplaceWaitsForRunning \/ ReplaceReachesGuest
  BY <1>5, CheckStutters, StutterHandsOver
     DEF ReplaceWaitsForRunning, ReplaceReachesGuest, Poll, ObserveRuntime,
         db, cloud, Stutters
<1> QED
  BY <1>1, <1>2, <1>3, <1>4, <1>5 DEF SuccessionStep

LEMMA ProviderHandsOver ==
    ASSUME Inv, NEW r \in Runtimes, ProviderStep(r) \/ InstanceDrifts(r)
    PROVE  HandsOver
<1>1. current \in Runtimes /\ instance \in [Runtimes -> InstanceStates]
  BY DEF Inv, TypeOK
<1>2. ASSUME NEW to, to # "none", instance[r] \notin {"none", "terminated"},
             instance' = [instance EXCEPT ![r] = to],
             UNCHANGED <<current, attached>>
      PROVE  HandsOver
  <2>1. r = current
    <3>1. ~(r < current) /\ ~(current < r)
      BY <1>2 DEF Inv, InstancesFollowCurrent
    <3> QED BY <1>1, <3>1 DEF Runtimes
  <2>2. Compute = "up" /\ Compute' \in {"up", "gone"}
    BY <1>1, <1>2, <2>1 DEF Compute
  <2> QED BY <1>2, <2>2 DEF HandsOver, Volume!Next, Volume!Terminate
<1>3. CASE InstanceSettles(r)
  <2>1. PICK move \in {<<"pending", "running">>, <<"stopping", "stopped">>,
                       <<"shutting-down", "terminated">>} :
           instance[r] = move[1] /\ instance' = [instance EXCEPT ![r] = move[2]]
    BY <1>3 DEF InstanceSettles
  <2>2. move[1] \notin {"none", "terminated"} /\ move[2] # "none"
    OBVIOUS
  <2>3. UNCHANGED <<current, attached>>
    BY <1>3 DEF InstanceSettles, db
  <2> QED BY <1>2, <2>1, <2>2, <2>3
<1>4. CASE InstanceDrifts(r)
  <2>1. PICK move \in {<<"running", "stopping">>, <<"stopped", "pending">>,
                       <<"running", "shutting-down">>,
                       <<"stopped", "shutting-down">>, <<"pending", "terminated">>} :
           instance[r] = move[1] /\ instance' = [instance EXCEPT ![r] = move[2]]
    BY <1>4 DEF InstanceDrifts
  <2>2. move[1] \notin {"none", "terminated"} /\ move[2] # "none"
    OBVIOUS
  <2>3. UNCHANGED <<current, attached>>
    BY <1>4 DEF InstanceDrifts, db
  <2> QED BY <1>2, <2>1, <2>2, <2>3
<1>5. CASE VolumeDetaches(r)
  <2>1. /\ attached # None /\ attached' = None
        /\ current' = current /\ Compute' = Compute
    BY <1>5, NoneAssumption DEF VolumeDetaches, db, Compute, Runtimes
  <2> QED BY <2>1 DEF HandsOver, Volume!Next, Volume!Detach
<1> QED
  BY <1>3, <1>4, <1>5 DEF ProviderStep

LEMMA NextHandsOver == Inv /\ [Next]_vars => HandsOver
<1> SUFFICES ASSUME Inv, [Next]_vars PROVE HandsOver
  OBVIOUS
<1>1. CASE UNCHANGED vars
  BY <1>1, StutterHandsOver DEF vars, cloud, db, Stutters
<1>2. ASSUME NEW o, NEW type, ReserveRuntimeOperation(o, type) PROVE HandsOver
  BY <1>2, StutterHandsOver DEF ReserveRuntimeOperation, cloud, Stutters
<1>3. CASE WorkflowStep
  <2>1. CASE LoadRuntimeOperation \/ FailOperation \/ CompleteOperation
    BY <2>1, StutterHandsOver
       DEF LoadRuntimeOperation, FailOperation, CompleteOperation, FinishOperation,
           cloud, Stutters
  <2>2. CASE AbandonOperation
    BY <2>2, StutterHandsOver DEF AbandonOperation, db, cloud, Stutters
  <2>3. CASE ProviderOutcome \/ MarkErrorAndFail
    BY <2>3, CloseStutters, PersistStutters, StutterHandsOver
       DEF ProviderOutcome, MarkErrorAndFail
  <2>4. CASE StartStep \/ StopStep
    BY <2>4, StartHandsOver, StopHandsOver
  <2>5. CASE ReplaceStep
    BY <2>5, RetirementHandsOver, SuccessionHandsOver, SwitchHandsOver
       DEF ReplaceStep, RetirementStep, SuccessionStep
  <2> QED BY <1>3, <2>1, <2>2, <2>3, <2>4, <2>5 DEF WorkflowStep
<1>4. ASSUME NEW r \in Runtimes, ProviderStep(r) \/ InstanceDrifts(r) PROVE HandsOver
  BY <1>4, ProviderHandsOver
<1> QED
  BY <1>1, <1>2, <1>3, <1>4 DEF Next

(* Start, stop and replace only ever hand the Data Volume over, whatever   *)
(* crashes, fails or drifts: a generation of compute begins when the one   *)
(* before is terminated and has let the volume go.                         *)
THEOREM HandoverRefinement == Spec => VolumeIsHandedOver
<1>1. Init => Volume!Init
  <2>1. 1 \in Runtimes
    BY BoundsAssumption DEF Runtimes
  <2> QED BY <2>1 DEF Init, Volume!Init, Compute
<1>2. Inv /\ [Next]_vars => [Volume!Next]_(Volume!vars)
  BY NextHandsOver DEF HandsOver, Volume!vars
<1> QED
  BY <1>1, <1>2, Invariance, PTL DEF Spec, VolumeIsHandedOver, Volume!Spec

-----------------------------------------------------------------------------
(* The second inductive invariant.  Each part has two halves: what it says *)
(* of the rows, and what it says of the journal f.                         *)

Row == runtimes[current]
Routed(r) == runtimes[r] # None /\ runtimes[r].status = "ready"

(* Steps at which the row of the Runtime may say ready.                    *)
MayBeReady == Ended \cup {"load", "start.ready", "start.resume", "stop.suppress",
    "stop.prepare", "stop.begin", "stop.resume", "rep.image", "rep.begin",
    "rep.ready", "rep.resume"}

(* Steps between the opening of the interval and readiness.                *)
Metered == {"start.wait", "start.guest", "start.ready",
            "rep.wait", "rep.guest", "rep.ready"}

(* Only the current Runtime is routed, it is metered and, unless the       *)
(* provider drifts, serves; no workflow that works on a routed Runtime     *)
(* is at a step that ends usage or moves the instance.                     *)
ReadyRows ==
    /\ \A r \in Runtimes : Routed(r) => r = current
    /\ Row.status = "ready" => OpenIntervals # {} /\ (drifts = 0 => GuestServes(current))

ReadyFrame(f) ==
    /\ Row.status = "ready" =>
          /\ f.pc \in MayBeReady
          /\ f.pc \in {"stop.suppress", "stop.prepare"} => ~f.stored
    /\ f.pc \in Metered => OpenIntervals # {}
    /\ f.pc \in {"start.ready", "rep.ready"} => (drifts = 0 => GuestServes(current))

(* Steps before the interval of the Operation is opened.                   *)
Unopened == Replacing \cup {"load", "start.observe", "start.close", "start.check",
    "start.begin", "start.provider", "rep.image", "rep.ensure", "rep.provision",
    "rep.attach", "rep.start"}

(* Steps at which the only open interval, if any, is the one journaled.    *)
Held == {"start.observe", "start.close", "start.check", "rep.image", "rep.begin",
    "rep.suppress", "rep.observe", "rep.pending", "rep.stop", "rep.stopped",
    "rep.close"}

(* Steps between the end of the old Runtime's usage and the switch.        *)
Unmetered == {"rep.verify", "rep.retire", "rep.retired", "rep.detached", "rep.switch"}

(* At most one interval is open, and it is of the current Runtime; the     *)
(* interval of an Operation is opened once, after the Operation is         *)
(* reserved; nothing is open when a replacement switches.                  *)
MeterRows ==
    /\ \A i \in OpenIntervals : usage[i].runtime = current
    /\ \A i, j \in OpenIntervals : i = j
    /\ \A o \in Operations : operations[o].status = "none" => usage[o].status = "none"

MeterFrame(f) ==
    /\ \A o \in Operations : operations[o].status = "none" => f.usage # o /\ f.op # o
    /\ f.pc \in Unopened => usage[f.op].status = "none" /\ f.usage # f.op
    /\ f.pc \in {"start.open", "rep.open"} => usage[f.op].status # "closed"
    /\ f.pc \in Held => OpenIntervals \subseteq {f.usage}
    /\ f.pc \in Unmetered => OpenIntervals = {}

(* Steps that lead to the end of usage.                                    *)
Ending == {"outcome", "start.close", "stop.verify", "stop.close",
           "rep.close", "rep.outcome"}

(* What was observed is true: a stopped instance only starts when asked.   *)
ObservedFrame(f) ==
    /\ f.pc \in {"start.open", "rep.start", "rep.open"} => f.obs \in {"pending", "running"}
    /\ f.pc = "rep.close" => ComputeGone(f.obs)
    /\ f.pc \in Ending /\ f.obs = "stopped" => (drifts = 0 => instance[current] = "stopped")

(* Steps that may lead to an error of the Runtime.                         *)
Erring == {"start.observe", "start.provider", "start.open", "start.wait",
    "start.guest", "outcome", "error", "stop.observe", "stop.suppress",
    "stop.prepare", "stop.provider", "stop.wait", "rep.attach", "rep.open",
    "rep.wait", "rep.outcome", "rep.guest", "rep.error"}

Resuming == {"stop.prepare", "stop.begin", "stop.resume", "start.resume", "rep.resume"}

(* Without a crash the journal has the row as it is, every clock reading   *)
(* is the first, an error can be recorded, and a suppression is undone.    *)
CalmRows == crashes = 0 => ValidRuntime(Row) /\ Row.updatedAt = 0

CalmFrame(f) ==
    crashes = 0 =>
        /\ \A o \in Operations :
              operations[o].status = "running" => f.pc # "idle" /\ o = f.op
        /\ f.pc \notin {"idle", "load"} => operations[f.op].status = "running"
        /\ f.pc # "abandon" /\ f.at = 0
        /\ f.pc \notin Ended \cup {"load"} => f.rt = Row
        /\ f.pc \in Erring => Row.status \notin {"absent", "replacing", "error"}
        /\ f.pc \in {"start.ready", "rep.ready"} => Row.status # "ready"
        /\ suppressed = current /\ Row.status = "ready" => f.pc \in Resuming

UsageRows == ReadyRows /\ MeterRows /\ CalmRows
UsageFrame(f) == ReadyFrame(f) /\ MeterFrame(f) /\ ObservedFrame(f) /\ CalmFrame(f)

UsageInv == UsageRows /\ UsageFrame(wf)

-----------------------------------------------------------------------------
(* Frames that go on from wf, at step p with answer s and time t.          *)

Follows(f, p, s, t) ==
    /\ f.pc = p /\ f.obs = s /\ f.at = t
    /\ f.op = wf.op /\ f.subject = wf.subject /\ f.rt = wf.rt
    /\ f.usage = wf.usage /\ f.stored = wf.stored

LEMMA ToFollows ==
    ASSUME Inv, NEW p
    PROVE  Follows(To(p), p, wf.obs, wf.at)
BY DEF Inv, TypeOK, Frame, To, Follows

LEMMA AnswerFollows ==
    ASSUME Inv, NEW s, NEW p
    PROVE  Follows(Answer(s, p), p, s, crashes)
BY DEF Inv, TypeOK, Frame, Answer, Now, Follows

LEMMA ImageFollows ==
    ASSUME Inv, NEW image, NEW p
    PROVE  Follows([wf EXCEPT !.pc = p, !.image = image, !.at = Now], p, wf.obs, crashes)
BY DEF Inv, TypeOK, Frame, Now, Follows

LEMMA DatedFollows ==
    ASSUME Inv, NEW p
    PROVE  Follows([wf EXCEPT !.pc = p, !.at = Now], p, wf.obs, crashes)
BY DEF Inv, TypeOK, Frame, Now, Follows

(* Step p asks nothing of the state that step a does not.                  *)
Onward(a, p) ==
    /\ p \notin {"idle", "load", "abandon"}
    /\ a \in MayBeReady => p \in MayBeReady
    /\ p \in {"stop.suppress", "stop.prepare"} => a \notin MayBeReady \/ a = "stop.suppress"
    /\ p \in Metered => a \in Metered
    /\ p \in {"start.ready", "rep.ready"} => a = p
    /\ p \in Unopened => a \in Unopened
    /\ p \in {"start.open", "rep.open"} => a \in Unopened \cup {"start.open", "rep.open"}
    /\ p \in Held => a \in Held
    /\ p \in Unmetered => a \in Unmetered
    /\ p \in Erring => a \in Erring
    /\ a \in Resuming => p \in Resuming

LEMMA OnwardFrame ==
    ASSUME UsageInv, Working \/ wf.pc = "rep.switch",
           NEW f, NEW p, NEW s, NEW t \in {wf.at, crashes}, Follows(f, p, s, t),
           Onward(wf.pc, p), ObservedFrame(f)
    PROVE  UsageFrame(f)
<1> USE DEF UsageInv, UsageRows, UsageFrame, Follows, Onward, Working
<1>1. ReadyFrame(f)
  BY DEF ReadyFrame
<1>2. MeterFrame(f)
  BY DEF MeterFrame
<1>3. CalmFrame(f)
  BY DEF CalmFrame, Ended
<1> QED BY <1>1, <1>2, <1>3

(* A step that only reads.                                                 *)
LEMMA QuietKeepsUsage ==
    ASSUME UsageInv, UNCHANGED <<db, cloud, crashes>>, UsageFrame(wf')
    PROVE  UsageInv'
<1>1. UsageRows'
  BY DEF UsageInv, UsageRows, ReadyRows, MeterRows, CalmRows, Routed, OpenIntervals,
         GuestServes, Row, db, cloud
<1>2. UsageFrame(wf)'
  BY DEF UsageFrame, ReadyFrame, MeterFrame, ObservedFrame, CalmFrame, Routed,
         OpenIntervals, GuestServes, Row, db, cloud
<1> QED BY <1>1, <1>2 DEF UsageInv

LEMMA CheckKeepsUsage ==
    ASSUME UsageInv, NEW passed, NEW failed, Check(passed, failed),
           UsageFrame(passed), UsageFrame(failed)
    PROVE  UsageInv'
BY QuietKeepsUsage DEF Check

(* Going on to a step that asks nothing of the answer.                     *)
Unasked(p) == p \notin Ending \cup {"start.open", "rep.start", "rep.open"}

LEMMA UnaskedFrame ==
    ASSUME NEW f, Unasked(f.pc)
    PROVE  ObservedFrame(f)
BY DEF ObservedFrame, Unasked, Ending

LEMMA ToFrame ==
    ASSUME Inv, UsageInv, Working, NEW p, Onward(wf.pc, p),
           Unasked(p) \/ (p = "rep.open" /\ wf.pc = "rep.start")
                      \/ (p = "stop.close" /\ wf.pc = "stop.verify")
    PROVE  UsageFrame(To(p))
<1>1. Follows(To(p), p, wf.obs, wf.at)
  BY ToFollows
<1>2. ObservedFrame(To(p))
  <2>1. CASE Unasked(p)
    BY <1>1, <2>1, UnaskedFrame DEF Follows
  <2>2. CASE ~Unasked(p)
    BY <1>1, <2>2 DEF Follows, UsageInv, UsageFrame, ObservedFrame, Ending
  <2> QED BY <2>1, <2>2
<1> QED BY <1>1, <1>2, OnwardFrame

(* An answer the provider gives truly: if it says stopped, so it is.       *)
LEMMA AnswerFrame ==
    ASSUME Inv, UsageInv, Working, NEW p, NEW s, Onward(wf.pc, p),
           s = "stopped" /\ p \in Ending => instance[current] = "stopped",
           p \in {"start.open", "rep.start"} => s \in {"pending", "running"},
           p # "rep.open", p = "rep.close" => ComputeGone(s)
    PROVE  UsageFrame(Answer(s, p))
<1>1. Follows(Answer(s, p), p, s, crashes)
  BY AnswerFollows
<1>2. ObservedFrame(Answer(s, p))
  BY <1>1 DEF Follows, ObservedFrame
<1> QED BY <1>1, <1>2, OnwardFrame

(* The step for each answer is one that may follow.                        *)
Leads(stepFor) ==
    \A s \in ProviderStates :
        /\ Onward(wf.pc, stepFor[s]) /\ stepFor[s] # "rep.open"
        /\ stepFor[s] \in {"start.open", "rep.start"} => s \in {"pending", "running"}
        /\ stepFor[s] = "rep.close" => ComputeGone(s)

LeadsToFailure(p) == Onward(wf.pc, p) /\ p \notin {"rep.open", "rep.close", "start.open", "rep.start"}

LEMMA ObservationFrame ==
    ASSUME Inv, UsageInv, Working, instance[current] # "none", NEW stepFor, Leads(stepFor)
    PROVE  UsageFrame(Answer(Observed(wf.subject), stepFor[Observed(wf.subject)]))
<1>1. wf.subject = current /\ current \in Runtimes
  BY WorkingFacts
<1>2. Observed(current) \in ProviderStates
  BY <1>1 DEF Inv, TypeOK, Observed, InstanceStates, ProviderStates
<1>3. Observed(current) = "stopped" => instance[current] = "stopped"
  BY DEF Observed
<1> QED BY <1>1, <1>2, <1>3, AnswerFrame DEF Leads

LEMMA FailureFrame ==
    ASSUME Inv, UsageInv, Working, NEW p, LeadsToFailure(p)
    PROVE  UsageFrame(ProviderFailure(p))
<1>1. None # "stopped"
  BY StatesAssumption DEF ProviderStates
<1> QED BY <1>1, AnswerFrame DEF ProviderFailure, LeadsToFailure

LEMMA ObserveKeepsUsage ==
    ASSUME Inv, UsageInv, Working, wf.pc # "rep.ensure", NEW stepFor, NEW failed,
           Leads(stepFor), LeadsToFailure(failed), ObserveRuntime(stepFor, failed)
    PROVE  UsageInv'
<1>1. instance[current] # "none"
  BY WorkingFacts
<1> QED
  BY <1>1, ObservationFrame, FailureFrame, CheckKeepsUsage DEF ObserveRuntime

LEMMA CallFailsKeepsUsage ==
    ASSUME Inv, UsageInv, Working, NEW states, NEW p, LeadsToFailure(p), CallFails(states, p)
    PROVE  UsageInv'
BY FailureFrame, QuietKeepsUsage DEF CallFails

LEMMA CallSettlesKeepsUsage ==
    ASSUME Inv, UsageInv, Working, NEW states, "none" \notin states,
           NEW stepFor, Leads(stepFor), CallSettles(states, stepFor)
    PROVE  UsageInv'
<1>1. instance[current] # "none"
  BY WorkingFacts DEF CallSettles
<1> QED
  BY <1>1, ObservationFrame, QuietKeepsUsage DEF CallSettles

-----------------------------------------------------------------------------
(* Steps that write. *)

(* What becomes of the journal and of the row when a transition is         *)
(* persisted: it is refused, and without a crash only for what it is; or   *)
(* lost, applied or not; or saved.                                         *)
Refusal(can, next, refused) ==
    /\ wf' = To(refused) /\ UNCHANGED <<runtimes, crashes>>
    /\ crashes = 0 => ~(can /\ ValidRuntime(next))

Loss(can, next) ==
    /\ wf' = wf /\ crashes' # 0
    /\ runtimes' = runtimes \/ (can /\ runtimes' = [runtimes EXCEPT ![current] = next])

Saving(can, next, saved) ==
    /\ can /\ wf' = [wf EXCEPT !.pc = saved, !.rt = next] /\ crashes' = crashes
    /\ ValidRuntime(next)
    /\ runtimes' = [runtimes EXCEPT ![current] = next]

LEMMA JournalSplit ==
    ASSUME TypeOK, NEW f, Journal(f)
    PROVE  (wf' = f /\ crashes' = crashes) \/ (wf' = wf /\ crashes' # 0)
BY BoundsAssumption DEF Journal, TypeOK

LEMMA PersistOutcome ==
    ASSUME Inv, UsageInv, Working, wf.pc # "rep.ensure",
           NEW can, NEW next, NEW saved, NEW refused,
           Persist(can, next, saved, refused)
    PROVE  /\ Refusal(can, next, refused) \/ Loss(can, next) \/ Saving(can, next, saved)
           /\ UNCHANGED <<current, operations, usage, suppressed, cloud, faults>>
<1>1. /\ UNCHANGED <<current, operations, usage, suppressed, cloud, faults>>
      /\ wf.subject = current /\ current \in Runtimes
  BY WorkingFacts DEF Persist
<1>2. CASE ~(can /\ ValidRuntime(next))
  BY <1>2 DEF Persist, Refusal
<1>3. CASE can /\ ValidRuntime(next)
  <2> DEFINE new == [wf EXCEPT !.pc = saved, !.rt = next]
  <2>1. CASE /\ runtimes[current].version = wf.rt.version
             /\ runtimes' = [runtimes EXCEPT ![wf.subject] = next] /\ Journal(new)
    BY <1>1, <1>3, <2>1, JournalSplit DEF Inv, Loss, Saving
  <2>2. CASE /\ runtimes[current].version # wf.rt.version /\ UNCHANGED runtimes
             /\ Journal(IF runtimes[current] = next THEN new ELSE To(refused))
    <3>1. crashes # 0
      BY <2>2 DEF UsageInv, UsageFrame, CalmFrame, Row, Working
    <3>2. CASE runtimes[current] = next
      <4>1. runtimes' = [runtimes EXCEPT ![current] = next]
        BY <1>1, <2>2, <3>2 DEF Inv, TypeOK
      <4>2. Journal(new)
        BY <2>2, <3>2
      <4> HIDE DEF new
      <4>3. (wf' = new /\ crashes' = crashes) \/ (wf' = wf /\ crashes' # 0)
        BY <4>2, JournalSplit DEF Inv
      <4> QED BY <1>1, <1>3, <4>1, <4>3 DEF Loss, Saving, new
    <3>3. CASE runtimes[current] # next
      <4>1. Journal(To(refused))
        BY <2>2, <3>3
      <4>2. (wf' = To(refused) /\ crashes' = crashes) \/ (wf' = wf /\ crashes' # 0)
        BY <4>1, JournalSplit DEF Inv
      <4> QED BY <1>1, <2>2, <3>1, <4>2 DEF Loss, Refusal
    <3> QED BY <3>2, <3>3
  <2> QED BY <1>1, <1>3, <2>1, <2>2 DEF Persist
<1> QED BY <1>1, <1>2, <1>3

(* A transition to a status, saved at step a and followed by step p.       *)
Saves(a, status, p) ==
    /\ status = "ready" => a \in {"start.ready", "rep.ready"} /\ p \in {"start.resume", "rep.resume"}
    /\ p \notin Metered \cup Unmetered \cup Ending \cup {"idle", "load", "abandon", "start.open", "rep.start"}
    /\ p \in Unopened => a \in Unopened
    /\ p = "rep.open" => a = "rep.start"
    /\ p \in Held => a \in Held
    /\ p \in Erring => status \notin {"absent", "replacing", "error"}

LEMMA RoutedRow ==
    ASSUME Inv, NEW next, runtimes' = [runtimes EXCEPT ![current] = next],
           current' = current
    PROVE  /\ \A r \in Runtimes : r # current => (Routed(r)' <=> Routed(r))
           /\ Row' = next
BY DEF Inv, TypeOK, Routed, Row

LEMMA PersistKeepsUsage ==
    ASSUME Inv, UsageInv, Working, wf.pc # "rep.ensure",
           NEW can, NEW next, NEW saved, NEW refused,
           Persist(can, next, saved, refused),
           can => next.updatedAt \in {wf.at, crashes} /\ Saves(wf.pc, next.status, saved),
           (crashes = 0 => ~(can /\ ValidRuntime(next))) => UsageFrame(To(refused))
    PROVE  UsageInv'
<1>1. /\ Refusal(can, next, refused) \/ Loss(can, next) \/ Saving(can, next, saved)
      /\ UNCHANGED <<current, operations, usage, suppressed, cloud, faults>>
  BY PersistOutcome
<1>2. CASE Refusal(can, next, refused)
  BY <1>1, <1>2, QuietKeepsUsage DEF Refusal, db
<1>3. ASSUME can, Loss(can, next) \/ Saving(can, next, saved),
             runtimes' = [runtimes EXCEPT ![current] = next]
      PROVE  UsageInv'
  <2>0. next.updatedAt \in {wf.at, crashes} /\ Saves(wf.pc, next.status, saved)
    BY <1>3
  <2>1. /\ \A r \in Runtimes : r # current => (Routed(r)' <=> Routed(r))
        /\ Row' = next
    BY <1>1, <1>3, RoutedRow
  <2>2. /\ UNCHANGED <<OpenIntervals, current, operations, usage, suppressed, instance,
                       attached, drifts>>
        /\ \A r : GuestServes(r)' <=> GuestServes(r)
    BY <1>1 DEF OpenIntervals, GuestServes, cloud
  <2>3. /\ wf'.op = wf.op /\ wf'.usage = wf.usage /\ wf'.obs = wf.obs
        /\ wf'.stored = wf.stored /\ wf'.at = wf.at
        /\ \/ wf'.pc = wf.pc /\ crashes' # 0
           \/ wf'.pc = saved /\ wf'.rt = next /\ crashes' = crashes /\ ValidRuntime(next)
    BY <1>3 DEF Loss, Saving, Inv, TypeOK, Frame
  <2>4. ReadyRows'
    BY <2>0, <2>1, <2>2 DEF UsageInv, UsageRows, UsageFrame, ReadyRows, ReadyFrame, Saves, Metered
  <2>5. MeterRows'
    BY <2>2 DEF UsageInv, UsageRows, MeterRows
  <2>6. CalmRows'
    BY <2>0, <2>1, <2>3 DEF UsageInv, UsageFrame, CalmFrame, CalmRows
  <2>7. ReadyFrame(wf)'
    BY <2>0, <2>1, <2>2, <2>3 DEF UsageInv, UsageFrame, ReadyFrame, Saves, Metered, MayBeReady
  <2>8. MeterFrame(wf)'
    BY <2>0, <2>2, <2>3 DEF UsageInv, UsageFrame, MeterFrame, Saves, Unopened
  <2>9. ObservedFrame(wf)'
    BY <2>0, <2>2, <2>3 DEF UsageInv, UsageFrame, ObservedFrame, Saves, Ending
  <2>10. CalmFrame(wf)'
    BY <2>0, <2>1, <2>2, <2>3 DEF UsageInv, UsageFrame, CalmFrame, Saves, Metered, Resuming, Working, Ended
  <2> QED
    BY <2>4, <2>5, <2>6, <2>7, <2>8, <2>9, <2>10 DEF UsageInv, UsageRows, UsageFrame
<1>4. ASSUME wf' = wf, crashes' # 0, runtimes' = runtimes
      PROVE  UsageInv'
  BY <1>1, <1>4 DEF UsageInv, UsageRows, UsageFrame, ReadyRows, MeterRows, CalmRows,
         ReadyFrame, MeterFrame, ObservedFrame, CalmFrame, Routed, Row, OpenIntervals,
         GuestServes, cloud
<1> QED BY <1>1, <1>2, <1>3, <1>4 DEF Loss, Saving

(* A journal entry about usage is lost or written; the row stays.          *)
LEMMA MeterKeepsUsage ==
    ASSUME Inv, UsageInv, Working, Row.status # "ready",
           UNCHANGED <<runtimes, current, operations, suppressed, cloud>>,
           MeterRows',
           \/ wf' = wf /\ crashes' # 0 /\ MeterFrame(wf)' /\ wf.pc \notin Metered
           \/ /\ crashes' = crashes /\ ReadyFrame(wf)' /\ MeterFrame(wf)'
              /\ ObservedFrame(wf)' /\ CalmFrame(wf)'
    PROVE  UsageInv'
<1>1. /\ \A r : Routed(r)' <=> Routed(r)
      /\ \A r : GuestServes(r)' <=> GuestServes(r)
      /\ Row' = Row
  BY DEF Routed, GuestServes, Row, cloud
<1>2. ReadyRows' /\ CalmRows'
  BY <1>1 DEF UsageInv, UsageRows, ReadyRows, CalmRows, Inv, TypeOK
<1>3. CASE wf' = wf /\ crashes' # 0 /\ MeterFrame(wf)' /\ wf.pc \notin Metered
  <2>1. ReadyFrame(wf)' /\ ObservedFrame(wf)' /\ CalmFrame(wf)'
    BY <1>1, <1>3 DEF UsageInv, UsageFrame, ReadyFrame, ObservedFrame, CalmFrame, cloud
  <2> QED BY <1>2, <1>3, <2>1 DEF UsageInv, UsageRows, UsageFrame
<1> QED BY <1>2, <1>3 DEF UsageInv, UsageRows, UsageFrame

LEMMA OpenKeepsUsage ==
    ASSUME Inv, UsageInv, wf.pc \in {"start.open", "rep.open"},
           NEW opened, NEW conflict, OpenComputeUsageInterval(opened, conflict),
           opened.pc \in Metered \ {"start.ready", "rep.ready"},
           opened.op = wf.op, opened.usage = wf.op, opened.rt = wf.rt, opened.at = wf.at,
           conflict.pc \in {"error", "rep.error"},
           conflict.op = wf.op, conflict.usage = wf.usage, conflict.rt = wf.rt,
           conflict.at \in {wf.at, crashes}
    PROVE  UsageInv'
<1>1. /\ Working /\ Row.status # "ready" /\ current \in Runtimes /\ wf.subject = current
      /\ wf.op \in Operations /\ usage \in [Operations \cup {0} -> UsageRow]
      /\ UNCHANGED <<runtimes, current, operations, suppressed, cloud>>
  <2>1. Working
    BY DEF Working, Ended
  <2> QED
    BY <2>1, WorkingFacts
       DEF UsageInv, UsageFrame, ReadyFrame, MayBeReady, Ended, Inv, TypeOK,
           OpenComputeUsageInterval
<1>2. /\ \/ /\ usage[wf.op].status = "none" /\ OpenIntervals = {}
            /\ usage' = [usage EXCEPT ![wf.op] = [runtime |-> current, status |-> "open"]]
         \/ usage[wf.op].status = "open" /\ usage' = usage
      /\ \/ wf' = wf /\ crashes' # 0
         \/ wf' = opened /\ crashes' = crashes
         \/ wf' = conflict /\ crashes' = crashes
  <2>1. usage[wf.op].status \in {"none", "open"}
    BY <1>1 DEF UsageInv, UsageFrame, MeterFrame, UsageRow
  <2> QED
    BY <1>1, <2>1, JournalSplit DEF OpenComputeUsageInterval, Inv
<1>3. /\ usage'[wf.op].status = "open" /\ wf.op \in OpenIntervals'
      /\ \A i \in Operations : i # wf.op => usage'[i] = usage[i]
      /\ \/ OpenIntervals' = {wf.op} /\ usage'[wf.op].runtime = current
         \/ OpenIntervals' = OpenIntervals /\ usage' = usage
  <2>1. CASE usage' = usage
    BY <1>1, <1>2, <2>1 DEF OpenIntervals
  <2>2. CASE /\ OpenIntervals = {}
             /\ usage' = [usage EXCEPT ![wf.op] = [runtime |-> current, status |-> "open"]]
    BY <1>1, <2>2 DEF OpenIntervals
  <2> QED BY <1>2, <2>1, <2>2
<1>4. MeterRows'
  <2>1. \A o \in Operations : operations[o].status = "none" => usage'[o].status = "none"
    BY <1>3 DEF UsageInv, UsageRows, UsageFrame, MeterRows, MeterFrame
  <2>2. /\ \A i \in OpenIntervals' : usage'[i].runtime = current
        /\ \A i, j \in OpenIntervals' : i = j
    BY <1>3 DEF UsageInv, UsageRows, MeterRows
  <2> QED BY <1>1, <2>1, <2>2 DEF MeterRows
<1>5. /\ wf.pc \notin Metered \cup Unopened \cup Held \cup Unmetered
      /\ MeterFrame(wf) /\ CalmFrame(wf)
  BY DEF Metered, Unopened, Replacing, Held, Unmetered, UsageInv, UsageFrame
<1>6. CASE wf' = wf /\ crashes' # 0
  <2>1. MeterFrame(wf)'
    BY <1>1, <1>3, <1>5, <1>6 DEF MeterFrame
  <2> QED BY <1>1, <1>4, <1>5, <1>6, <2>1, MeterKeepsUsage
<1>7. CASE crashes' = crashes /\ wf' \in {opened, conflict}
  <2>1. /\ wf'.pc \notin Unopened \cup Held \cup Unmetered \cup Ending \cup Ended
        /\ wf'.pc \notin {"start.open", "rep.open", "rep.start", "start.ready", "rep.ready",
                         "load", "rep.close"}
    BY <1>7 DEF Metered, Unopened, Replacing, Held, Unmetered, Ending, Ended
  <2>2. ReadyFrame(wf)'
    BY <1>1, <1>3, <2>1 DEF ReadyFrame, Row
  <2>3. MeterFrame(wf)'
    BY <1>1, <1>3, <1>5, <1>7, <2>1 DEF MeterFrame
  <2>4. ObservedFrame(wf)'
    BY <2>1 DEF ObservedFrame
  <2>5. CalmFrame(wf)'
    <3>1. wf.pc \in Erring /\ Row' = Row
      BY <1>1 DEF Erring, Row
    <3>2. crashes = 0 => Row.status # "ready" /\ Row.status \notin {"absent", "replacing", "error"}
      BY <1>1, <1>5, <3>1 DEF CalmFrame, Row, Inv, InstancesFollowCurrent
    <3> QED BY <1>1, <1>5, <1>7, <2>1, <3>1, <3>2 DEF CalmFrame, Ended
  <2> QED BY <1>1, <1>4, <1>7, <2>2, <2>3, <2>4, <2>5, MeterKeepsUsage
<1> QED BY <1>2, <1>6, <1>7

(* The interval that is closed is the one journaled.                       *)
LEMMA CloseRows ==
    ASSUME Inv, UsageInv, wf.usage # None,
           usage' = [usage EXCEPT ![wf.usage].status = "closed"],
           UNCHANGED <<current, operations>>
    PROVE  /\ OpenIntervals' = OpenIntervals \ {wf.usage}
           /\ \A i \in Operations : i # wf.usage => usage'[i] = usage[i]
           /\ MeterRows'
<1>1. wf.usage \in Operations \cup {0} /\ usage \in [Operations \cup {0} -> UsageRow]
  BY DEF Inv, TypeOK, Frame
<1>2. /\ OpenIntervals' = OpenIntervals \ {wf.usage}
      /\ \A i \in Operations \cup {0} : i # wf.usage => usage'[i] = usage[i]
  BY <1>1 DEF OpenIntervals, UsageRow
<1>3. \A o \in Operations : operations[o].status = "none" => usage'[o].status = "none"
  BY <1>2 DEF UsageInv, UsageRows, UsageFrame, MeterRows, MeterFrame
<1>4. OpenIntervals \subseteq Operations \cup {0}
  BY <1>1 DEF OpenIntervals
<1>5. /\ \A i \in OpenIntervals' : usage'[i].runtime = current
      /\ \A i, j \in OpenIntervals' : i = j
  BY <1>2, <1>4 DEF UsageInv, UsageRows, MeterRows
<1> QED BY <1>2, <1>3, <1>5 DEF MeterRows

LEMMA CloseKeepsUsage ==
    ASSUME Inv, UsageInv,
           wf.pc \in {"outcome", "start.close", "stop.close", "rep.close", "rep.outcome"},
           NEW p, Unasked(p),
           Onward(wf.pc, p) \/ (wf.pc = "rep.close" /\ p = "rep.verify"),
           closeComputeUsageForProviderOutcome(p)
    PROVE  UsageInv'
<1>1. Working /\ wf.pc # "rep.ensure" /\ wf.pc \notin MayBeReady \cup Metered
  BY DEF Working, Ended, MayBeReady, Metered
<1>2. Row.status # "ready" /\ MeterFrame(wf) /\ CalmFrame(wf) /\ wf \in Frame
  BY <1>1 DEF UsageInv, UsageFrame, ReadyFrame, Inv, TypeOK
<1>5. CASE RefusesClosing
  <2>1. Onward(wf.pc, "refused") /\ Unasked("refused")
    BY <1>1 DEF Onward, Unasked, Ending, Metered, Unopened, Replacing, Held, Unmetered,
                Erring, MayBeReady, Resuming, Ended
  <2>2. UsageFrame(To("refused"))
    BY <1>1, <2>1, ToFrame
  <2> QED BY <1>5, <2>2, QuietKeepsUsage DEF RefusesClosing
<1>3. CASE wf.pc = "rep.close" /\ p = "rep.verify" /\ ~RefusesClosing
  <2>1. ComputeGone(wf.obs)
    BY <1>3 DEF UsageInv, UsageFrame, ObservedFrame
  <2>2. OpenIntervals \subseteq {wf.usage}
    BY <1>2, <1>3 DEF MeterFrame, Held
  <2>3. CASE wf.usage = None
    <3>1. OpenIntervals = {}
      <4>1. OpenIntervals \subseteq Operations \cup {0} /\ None \notin Operations \cup {0}
        BY NoneAssumption DEF OpenIntervals, Inv, TypeOK, Operations
      <4> QED BY <2>2, <2>3, <4>1
    <3>2. Follows(wf', p, wf.obs, wf.at) /\ UNCHANGED <<db, cloud, crashes>>
      BY <2>3, ToFollows DEF closeComputeUsageForProviderOutcome
    <3>3. UsageFrame(wf')
      <4>1. ReadyFrame(wf')
        BY <1>2, <1>3, <3>2 DEF ReadyFrame, Follows, Metered
      <4>2. MeterFrame(wf')
        BY <1>2, <1>3, <3>1, <3>2 DEF MeterFrame, Follows, Unopened, Replacing, Held
      <4>3. ObservedFrame(wf')
        BY <1>3, <3>2 DEF ObservedFrame, Follows, Ending
      <4>4. CalmFrame(wf')
        BY <1>2, <1>3, <3>2 DEF CalmFrame, Follows, Ended, Erring, Resuming
      <4> QED BY <4>1, <4>2, <4>3, <4>4 DEF UsageFrame
    <3> QED BY <3>2, <3>3, QuietKeepsUsage
  <2>4. CASE wf.usage # None
    <3> DEFINE frame == [wf EXCEPT !.pc = p, !.usage = None]
    <3>1. /\ UNCHANGED <<runtimes, current, operations, suppressed, cloud>>
          /\ usage' = [usage EXCEPT ![wf.usage].status = "closed"]
          /\ (wf' = frame /\ crashes' = crashes) \/ (wf' = wf /\ crashes' # 0)
      BY <1>3, <2>1, <2>4, JournalSplit
         DEF closeComputeUsageForProviderOutcome, CloseComputeUsageInterval,
             ClosesInterval, Inv
    <3>2. /\ frame.pc = p /\ frame.op = wf.op /\ frame.usage = None /\ frame.obs = wf.obs
          /\ frame.at = wf.at /\ frame.rt = wf.rt /\ frame.stored = wf.stored
      BY <1>2 DEF Frame
    <3> HIDE DEF frame
    <3>3. /\ OpenIntervals' = {} /\ MeterRows'
          /\ \A i \in Operations : i # wf.usage => usage'[i] = usage[i]
      BY <2>2, <2>4, <3>1, CloseRows
    <3>4. wf.op \in Operations /\ None \notin Operations
      BY <1>1, WorkingFacts, NoneAssumption DEF Operations
    <3>5. MeterFrame(wf)'
      BY <1>2, <1>3, <3>1, <3>2, <3>3, <3>4 DEF MeterFrame, Unopened, Replacing
    <3>6. CASE wf' = frame /\ crashes' = crashes
      <4>1. ReadyFrame(wf)'
        BY <1>2, <1>3, <3>1, <3>2, <3>6 DEF ReadyFrame, Row, Metered
      <4>2. ObservedFrame(wf)'
        BY <1>3, <3>2, <3>6 DEF ObservedFrame, Ending
      <4>3. CalmFrame(wf)'
        BY <1>2, <1>3, <3>1, <3>2, <3>6 DEF CalmFrame, Ended, Erring, Resuming, Row
      <4> QED BY <1>1, <1>2, <3>1, <3>3, <3>5, <3>6, <4>1, <4>2, <4>3, MeterKeepsUsage
    <3> QED BY <1>1, <1>2, <3>1, <3>3, <3>5, <3>6, MeterKeepsUsage
  <2> QED BY <2>3, <2>4
<1>4. CASE Onward(wf.pc, p) /\ ~RefusesClosing
  <2>1. CASE wf' = To(p) /\ UNCHANGED <<db, cloud, crashes>>
    BY <1>1, <1>4, <2>1, ToFrame, QuietKeepsUsage
  <2>2. CASE wf.usage # None /\ ClosesInterval([wf EXCEPT !.pc = p, !.usage = None])
    <3> DEFINE frame == [wf EXCEPT !.pc = p, !.usage = None]
    <3>1. /\ UNCHANGED <<runtimes, current, operations, suppressed, cloud>>
          /\ usage' = [usage EXCEPT ![wf.usage].status = "closed"]
          /\ (wf' = frame /\ crashes' = crashes) \/ (wf' = wf /\ crashes' # 0)
      BY <2>2, JournalSplit DEF ClosesInterval, Inv
    <3>2. /\ frame.pc = p /\ frame.op = wf.op /\ frame.usage = None /\ frame.obs = wf.obs
          /\ frame.at = wf.at /\ frame.rt = wf.rt /\ frame.stored = wf.stored
      BY <1>2 DEF Frame
    <3> HIDE DEF frame
    <3>3. /\ OpenIntervals' = OpenIntervals \ {wf.usage} /\ MeterRows'
          /\ \A i \in Operations : i # wf.usage => usage'[i] = usage[i]
      BY <2>2, <3>1, CloseRows
    <3>4. /\ wf.op \in Operations /\ None \notin Operations
          /\ p \notin Unmetered \cup Metered \cup {"start.open", "rep.open", "start.ready", "rep.ready", "load", "idle"}
      BY <1>1, <1>4, WorkingFacts, NoneAssumption
         DEF Operations, Onward, Unmetered, Metered, Unasked
    <3>5. wf.pc \notin {"start.open", "rep.open"} \cup Unmetered
      BY DEF Unmetered
    <3>6. MeterFrame(wf)'
      BY <1>2, <1>4, <3>1, <3>2, <3>3, <3>4, <3>5 DEF MeterFrame, Onward
    <3>7. CASE wf' = frame /\ crashes' = crashes
      <4>1. ReadyFrame(wf)'
        BY <1>2, <3>1, <3>2, <3>4, <3>7 DEF ReadyFrame, Row
      <4>2. ObservedFrame(wf)'
        BY <3>2, <3>7 DEF ObservedFrame, Unasked, Ending
      <4>3. CalmFrame(wf)'
        BY <1>1, <1>2, <1>4, <3>1, <3>2, <3>7 DEF CalmFrame, Onward, Working, Ended, Row, Resuming
      <4> QED BY <1>1, <1>2, <3>1, <3>3, <3>6, <3>7, <4>1, <4>2, <4>3, MeterKeepsUsage
    <3> QED BY <1>1, <1>2, <3>1, <3>3, <3>6, <3>7, MeterKeepsUsage
  <2> QED
    BY <1>4, <2>1, <2>2 DEF closeComputeUsageForProviderOutcome, CloseComputeUsageInterval
<1> QED BY <1>3, <1>4, <1>5

(* Auto-stop is suppressed or resumed: only the last part speaks of it.    *)
LEMMA AutoStopRowKeepsUsage ==
    ASSUME Inv, UsageInv, Working, NEW p, Unasked(p),
           UNCHANGED <<runtimes, current, operations, usage, cloud>>,
           \/ wf' = wf /\ crashes' # 0
           \/ /\ wf' = To(p) /\ crashes' = crashes
              /\ ReadyFrame(To(p)) /\ MeterFrame(To(p)) /\ CalmFrame(wf)'
    PROVE  UsageInv'
<1>1. /\ \A r : Routed(r)' <=> Routed(r)
      /\ \A r : GuestServes(r)' <=> GuestServes(r)
      /\ Row' = Row /\ OpenIntervals' = OpenIntervals
      /\ UNCHANGED <<drifts, instance>>
  BY DEF Routed, GuestServes, Row, OpenIntervals, cloud
<1>2. UsageRows'
  BY <1>1 DEF UsageInv, UsageRows, ReadyRows, MeterRows, CalmRows
<1>3. CASE wf' = wf /\ crashes' # 0
  BY <1>1, <1>2, <1>3
     DEF UsageInv, UsageFrame, ReadyFrame, MeterFrame, ObservedFrame, CalmFrame
<1>4. CASE /\ wf' = To(p) /\ crashes' = crashes
           /\ ReadyFrame(To(p)) /\ MeterFrame(To(p)) /\ CalmFrame(wf)'
  <2>1. ReadyFrame(wf)' /\ MeterFrame(wf)'
    BY <1>1, <1>4 DEF ReadyFrame, MeterFrame
  <2>2. ObservedFrame(wf)'
    BY <1>4, ToFollows DEF Follows, ObservedFrame, Unasked, Ending
  <2> QED BY <1>2, <1>4, <2>1, <2>2 DEF UsageInv, UsageFrame
<1> QED BY <1>3, <1>4

LEMMA SuppressKeepsUsage ==
    ASSUME Inv, UsageInv, Working, NEW p, Unasked(p), Onward(wf.pc, p),
           p \in Resuming \/ wf.pc \notin MayBeReady, SuppressAutoStop(p)
    PROVE  UsageInv'
<1>1. /\ UNCHANGED <<runtimes, current, operations, usage, cloud>>
      /\ (wf' = To(p) /\ crashes' = crashes) \/ (wf' = wf /\ crashes' # 0)
  BY JournalSplit DEF SuppressAutoStop, Inv
<1>2. UsageFrame(To(p)) /\ To(p).pc = p
  BY ToFrame, ToFollows DEF Follows
<1>3. CASE wf' = To(p) /\ crashes' = crashes
  <2>1. crashes = 0 /\ Row.status = "ready" => p \in Resuming
    BY DEF UsageInv, UsageFrame, ReadyFrame, Row, Inv, InstancesFollowCurrent
  <2>2. CalmFrame(wf)'
    BY <1>1, <1>2, <1>3, <2>1 DEF UsageFrame, CalmFrame, Row
  <2> QED BY <1>1, <1>2, <1>3, <2>2, AutoStopRowKeepsUsage DEF UsageFrame
<1> QED BY <1>1, <1>3, AutoStopRowKeepsUsage

LEMMA ResumeKeepsUsage ==
    ASSUME Inv, UsageInv, wf.pc \in {"start.resume", "stop.resume", "rep.resume"},
           NEW p \in {"complete", "fail"}, ResumeAutoStop(p)
    PROVE  UsageInv'
<1>1. Working /\ Unasked(p)
  BY DEF Working, Ended, Unasked, Ending
<1>2. /\ UNCHANGED <<runtimes, current, operations, usage, cloud>>
      /\ (wf' = To(p) /\ crashes' = crashes) \/ (wf' = wf /\ crashes' # 0)
      /\ suppressed' # current /\ wf.subject = current
  <2>1. wf.subject = current /\ current \in Runtimes
    BY <1>1, WorkingFacts
  <2>2. None # current
    BY <2>1, NoneAssumption DEF Runtimes
  <2> QED BY <2>1, <2>2, JournalSplit DEF ResumeAutoStop, Inv
<1>3. Follows(To(p), p, wf.obs, wf.at)
  BY ToFollows
<1>4. ReadyFrame(To(p))
  BY <1>3 DEF UsageInv, UsageFrame, ReadyFrame, Follows, MayBeReady, Metered, Ended
<1>5. MeterFrame(To(p))
  BY <1>3 DEF UsageInv, UsageFrame, MeterFrame, Follows, Unopened, Replacing, Held, Unmetered
<1>6. CASE wf' = To(p) /\ crashes' = crashes
  <2>1. CalmFrame(wf)'
    BY <1>2, <1>3, <1>6 DEF UsageInv, UsageFrame, CalmFrame, Follows, Row, Ended, Erring
  <2> QED BY <1>1, <1>2, <1>4, <1>5, <1>6, <2>1, AutoStopRowKeepsUsage
<1> QED BY <1>1, <1>2, <1>6, AutoStopRowKeepsUsage

(* The provider moves the instance or the volume when it is asked to, at a *)
(* step at which the Runtime is not routed.                                *)
LEMMA MoveKeepsUsage ==
    ASSUME Inv, UsageInv, Working, wf.pc \notin MayBeReady \cup Ending,
           NEW s, NEW p, Onward(wf.pc, p), p \notin Ending \cup {"rep.open"},
           p \in {"start.open", "rep.start"} => s \in {"pending", "running"},
           UNCHANGED <<db, drifts>>, Journal(Answer(s, p))
    PROVE  UsageInv'
<1>1. /\ (wf' = Answer(s, p) /\ crashes' = crashes) \/ (wf' = wf /\ crashes' # 0)
      /\ Follows(Answer(s, p), p, s, crashes)
  BY JournalSplit, AnswerFollows DEF Inv
<1>2. /\ \A r : Routed(r)' <=> Routed(r)
      /\ Row' = Row /\ OpenIntervals' = OpenIntervals
      /\ UNCHANGED <<runtimes, current, operations, usage, suppressed>>
  BY DEF Routed, Row, OpenIntervals, db
<1>3. Row.status # "ready" /\ wf.pc \notin {"start.ready", "rep.ready"}
  BY DEF UsageInv, UsageFrame, ReadyFrame, MayBeReady
<1>4. UsageRows'
  BY <1>1, <1>2, <1>3 DEF UsageInv, UsageRows, ReadyRows, MeterRows, CalmRows
<1>5. CASE wf' = wf /\ crashes' # 0
  BY <1>2, <1>3, <1>4, <1>5
     DEF UsageInv, UsageFrame, ReadyFrame, MeterFrame, ObservedFrame, CalmFrame, Ending
<1>6. CASE wf' = Answer(s, p) /\ crashes' = crashes
  <2>1. /\ wf'.pc = p /\ wf'.obs = s /\ wf'.at = crashes /\ wf'.op = wf.op
        /\ wf'.rt = wf.rt /\ wf'.usage = wf.usage /\ wf'.stored = wf.stored
    BY <1>1, <1>6 DEF Follows
  <2>2. ReadyFrame(wf)'
    BY <1>2, <1>3, <2>1 DEF UsageInv, UsageFrame, ReadyFrame, Onward
  <2>3. MeterFrame(wf)'
    BY <1>2, <2>1 DEF UsageInv, UsageFrame, MeterFrame, Onward
  <2>4. ObservedFrame(wf)'
    BY <2>1 DEF ObservedFrame, Ending
  <2>5. CalmFrame(wf)'
    BY <1>2, <1>6, <2>1 DEF UsageInv, UsageFrame, CalmFrame, Onward, Working, Ended
  <2> QED BY <1>4, <2>2, <2>3, <2>4, <2>5 DEF UsageInv, UsageFrame
<1> QED BY <1>1, <1>5, <1>6

(* By itself the provider neither stops nor starts an instance unless it   *)
(* drifts.                                                                 *)
LEMMA ProviderKeepsUsage ==
    ASSUME Inv, UsageInv, NEW r \in Runtimes, ProviderStep(r) \/ InstanceDrifts(r)
    PROVE  UsageInv'
<1>1. /\ UNCHANGED <<db, wf, crashes>> /\ current \in Runtimes
      /\ drifts' = 0 => drifts = 0
      /\ drifts' = 0 /\ GuestServes(current) => GuestServes(current)'
      /\ drifts' = 0 /\ instance[current] = "stopped" => instance'[current] = "stopped"
  <2>1. instance \in [Runtimes -> InstanceStates] /\ current \in Runtimes
        /\ drifts \in Nat /\ None # current
    BY NoneAssumption DEF Inv, TypeOK, Runtimes
  <2>2. CASE InstanceSettles(r)
    <3>1. PICK move \in {<<"pending", "running">>, <<"stopping", "stopped">>,
                         <<"shutting-down", "terminated">>} :
             instance[r] = move[1] /\ instance' = [instance EXCEPT ![r] = move[2]]
      BY <2>2 DEF InstanceSettles
    <3>2. instance[r] \in {"pending", "stopping", "shutting-down"}
      BY <3>1
    <3>3. instance[current] \in {"running", "stopped"} => instance'[current] = instance[current]
      BY <2>1, <3>1, <3>2
    <3> QED BY <2>1, <2>2, <3>3 DEF InstanceSettles, GuestServes, db
  <2>3. CASE VolumeDetaches(r)
    BY <2>1, <2>3 DEF VolumeDetaches, GuestServes, db
  <2>4. CASE InstanceDrifts(r)
    BY <2>1, <2>4 DEF InstanceDrifts, db
  <2> QED BY <2>2, <2>3, <2>4 DEF ProviderStep
<1>2. /\ \A q : Routed(q)' <=> Routed(q)
      /\ Row' = Row /\ OpenIntervals' = OpenIntervals
      /\ UNCHANGED <<runtimes, current, operations, usage, suppressed, wf, crashes>>
  BY <1>1 DEF Routed, Row, OpenIntervals, db
<1>3. UsageRows'
  BY <1>1, <1>2 DEF UsageInv, UsageRows, ReadyRows, MeterRows, CalmRows
<1>4. UsageFrame(wf)'
  BY <1>1, <1>2 DEF UsageInv, UsageFrame, ReadyFrame, MeterFrame, ObservedFrame, CalmFrame
<1> QED BY <1>3, <1>4 DEF UsageInv

-----------------------------------------------------------------------------
(* The beginning and the end of a workflow, and the switch. *)

LEMMA InitUsage == Init => UsageInv
<1> SUFFICES ASSUME Init PROVE UsageInv
  OBVIOUS
<1>1. /\ None \notin Nat /\ 1 \in Runtimes
      /\ \A o \in Operations : o \in Nat /\ o # 0
  BY NoneAssumption, BoundsAssumption DEF Runtimes, Operations
<1>2. OpenIntervals = {0} /\ usage[0].runtime = 1
  BY <1>1 DEF Init, OpenIntervals
<1>3. wf.pc = "idle" /\ wf.usage = None /\ wf.op = None /\ wf.at = 0
  BY DEF Init, IdleFrame
<1>4. \A r \in Runtimes : Routed(r) => r = 1
  <2>1. \A r \in Runtimes : r # 1 => runtimes[r] = None
    BY DEF Init
  <2> QED BY <2>1 DEF Routed
<1>5. GuestServes(1) /\ current = 1 /\ suppressed # current
  BY <1>1 DEF Init, GuestServes
<1>6. ValidRuntime(Row) /\ Row.updatedAt = 0
  <2> DEFINE image == CHOOSE i \in Images : TRUE
  <2>1. image \in Images
    BY ImagesAssumption
  <2>2. 1 \in Refs /\ 1 # None
    BY <1>1, RefsAssumption, NoneAssumption
  <2>3. Row = [ReserveRuntime(1, image, 0) EXCEPT
                  !.status = "ready", !.provider = 1, !.address = 1, !.boot = 1,
                  !.startedAt = 0, !.version = 4]
    BY <1>1 DEF Init, FirstRuntime, Row
  <2> HIDE DEF image
  <2>4. Row = [status |-> "ready", sequence |-> 1, image |-> image,
               provider |-> 1, address |-> 1, boot |-> 1,
               startedAt |-> 0, stoppedAt |-> None, retiredAt |-> None,
               createdAt |-> 0, updatedAt |-> 0, version |-> 4]
    BY <2>3 DEF ReserveRuntime
  <2>5. Row \in RuntimeSnapshot
    BY <2>1, <2>2, <2>4 DEF RuntimeSnapshot, RuntimeStatuses, OptionalTime, OptionalRef
  <2>6. validateRuntimeState(Row)
    BY <1>1, <2>2, <2>4 DEF validateRuntimeState
  <2> QED BY <1>1, <2>4, <2>5, <2>6 DEF ValidRuntime, WithinLifetime
<1>7. ReadyRows /\ ReadyFrame(wf)
  BY <1>2, <1>3, <1>4, <1>5 DEF ReadyRows, ReadyFrame, MayBeReady, Metered, Ended
<1>8. MeterRows /\ MeterFrame(wf)
  BY <1>1, <1>2, <1>3, <1>5 DEF Init, MeterRows, MeterFrame, Unopened, Replacing, Held, Unmetered
<1>9. ObservedFrame(wf)
  BY <1>3 DEF ObservedFrame, Ending
<1>10. CalmRows /\ CalmFrame(wf)
  BY <1>3, <1>5, <1>6 DEF Init, CalmRows, CalmFrame, Erring, Ended
<1> QED BY <1>7, <1>8, <1>9, <1>10 DEF UsageInv, UsageRows, UsageFrame

LEMMA ReserveKeepsUsage ==
    ASSUME Inv, UsageInv, NEW o \in Operations, NEW type \in OperationTypes,
           ReserveRuntimeOperation(o, type)
    PROVE  UsageInv'
<1>1. /\ wf' = [IdleFrame EXCEPT !.pc = "load", !.op = o]
      /\ operations[o].status = "none" /\ ActiveOperations = {}
      /\ operations' = [operations EXCEPT ![o] =
            [type |-> type, status |-> "queued", runtime |-> current]]
      /\ UNCHANGED <<runtimes, current, usage, suppressed, instance, attached,
                     drifts, crashes, faults>>
  BY DEF ReserveRuntimeOperation, cloud
<1>2. wf'.pc = "load" /\ wf'.op = o /\ wf'.usage = None /\ wf'.at = 0
  BY <1>1 DEF IdleFrame
<1>3. /\ \A q \in Operations : q # o => operations'[q] = operations[q]
      /\ operations'[o].status = "queued"
      /\ \A q \in Operations : operations[q].status # "running"
      /\ None \notin Operations
  BY <1>1, NoneAssumption DEF Inv, TypeOK, ActiveOperations, Operations
<1>4. /\ \A r : Routed(r)' <=> Routed(r)
      /\ \A r : GuestServes(r)' <=> GuestServes(r)
      /\ Row' = Row /\ OpenIntervals' = OpenIntervals
  BY <1>1 DEF Routed, GuestServes, Row, OpenIntervals
<1>5. UsageRows'
  BY <1>1, <1>3, <1>4 DEF UsageInv, UsageRows, ReadyRows, MeterRows, CalmRows
<1>6. ReadyFrame(wf)' /\ ObservedFrame(wf)'
  BY <1>2 DEF ReadyFrame, ObservedFrame, MayBeReady, Metered, Ending
<1>7. MeterFrame(wf)'
  BY <1>1, <1>2, <1>3, <1>4 DEF UsageInv, UsageRows, MeterRows, MeterFrame, Held, Unmetered
<1>8. CalmFrame(wf)'
  <2>1. crashes = 0 /\ wf.pc # "idle" => wf.op \in Operations
    BY DEF Inv, SubjectIsCurrent
  <2>2. crashes = 0 => wf.pc \in {"idle", "load"}
    BY <1>3, <2>1 DEF UsageInv, UsageFrame, CalmFrame
  <2>3. crashes = 0 /\ suppressed = current => Row.status # "ready"
    BY <2>2 DEF UsageInv, UsageFrame, CalmFrame, Resuming
  <2> QED BY <1>1, <1>2, <1>3, <1>4, <2>3 DEF CalmFrame, Ended, Erring
<1> QED BY <1>5, <1>6, <1>7, <1>8 DEF UsageInv, UsageFrame

LEMMA LoadKeepsUsage ==
    ASSUME Inv, UsageInv, LoadRuntimeOperation
    PROVE  UsageInv'
<1> DEFINE operation == operations[wf.op]
           step == FirstStep(operation.type, Row.status)
           interval == IntervalOf(current)
           stored == Row.status = "stopped"
           frame == [wf EXCEPT !.pc = step, !.subject = current,
                               !.rt = Row, !.usage = interval, !.stored = stored]
<1>1. /\ wf.pc = "load" /\ operation.runtime = current
      /\ wf \in Frame /\ wf.op \in Operations
  BY DEF LoadRuntimeOperation, Inv, TypeOK, SubjectIsCurrent
<1>2. /\ (wf' = frame /\ crashes' = crashes) \/ (wf' = wf /\ crashes' # 0)
      /\ operations' = [operations EXCEPT ![wf.op].status = "running"]
      /\ UNCHANGED <<runtimes, current, usage, suppressed, instance, attached,
                     drifts, faults>>
  <2>1. Journal(frame)
    BY <1>1 DEF LoadRuntimeOperation, Row
  <2> QED BY <2>1, JournalSplit DEF LoadRuntimeOperation, cloud, Inv
<1>3. /\ step \in {"complete", "fail", "start.observe", "stop.observe",
                   "stop.suppress", "rep.image"}
      /\ Row.status = "ready" => step \in {"complete", "fail", "stop.suppress", "rep.image"}
      /\ step \in {"start.observe", "stop.observe", "stop.suppress"} => Row.status \in {"ready", "stopped"}
  BY DEF FirstStep
<1>4. /\ frame.pc = step /\ frame.op = wf.op /\ frame.rt = Row
      /\ frame.usage = interval /\ frame.stored = stored
      /\ frame.at = wf.at /\ frame.obs = wf.obs
  BY <1>1 DEF Frame
<1>5. /\ usage[wf.op].status = "none"
      /\ OpenIntervals \subseteq {interval}
      /\ interval # wf.op
      /\ \A o \in Operations : operations[o].status = "none" => interval # o
  <2>1. usage[wf.op].status = "none"
    BY <1>1 DEF UsageInv, UsageFrame, MeterFrame, Unopened
  <2>2. MeterRows
    BY DEF UsageInv, UsageRows
  <2>3. {i \in OpenIntervals : usage[i].runtime = current} = OpenIntervals
    BY <2>2 DEF MeterRows
  <2>4. OpenIntervals = {} => interval = None
    BY <2>3 DEF IntervalOf
  <2>5. OpenIntervals # {} => interval \in OpenIntervals
    BY <2>3 DEF IntervalOf
  <2>6. None \notin Operations
    BY NoneAssumption DEF Operations
  <2> HIDE DEF interval
  <2>7. OpenIntervals \subseteq {interval}
    BY <2>2, <2>5 DEF MeterRows
  <2>8. \A i \in OpenIntervals : usage[i].status = "open"
    BY DEF OpenIntervals
  <2> QED BY <1>1, <2>1, <2>2, <2>4, <2>5, <2>6, <2>7, <2>8 DEF MeterRows
<1> HIDE DEF frame, step, interval, stored
<1>6. /\ \A o \in Operations : o # wf.op => operations'[o] = operations[o]
      /\ operations'[wf.op].status = "running"
  BY <1>1, <1>2 DEF Inv, TypeOK, OperationRow
<1>7. /\ \A r : Routed(r)' <=> Routed(r)
      /\ \A r : GuestServes(r)' <=> GuestServes(r)
      /\ Row' = Row /\ OpenIntervals' = OpenIntervals
  BY <1>2 DEF Routed, GuestServes, Row, OpenIntervals
<1>8. UsageRows'
  BY <1>2, <1>6, <1>7 DEF UsageInv, UsageRows, ReadyRows, MeterRows, CalmRows
<1>9. CASE wf' = wf /\ crashes' # 0
  <2>1. UsageFrame(wf)'
    BY <1>1, <1>2, <1>6, <1>7, <1>9
       DEF UsageInv, UsageFrame, ReadyFrame, MeterFrame, ObservedFrame, CalmFrame
  <2> QED BY <1>8, <2>1 DEF UsageInv
<1>10. CASE wf' = frame /\ crashes' = crashes
  <2>1. ReadyFrame(wf)'
    BY <1>3, <1>4, <1>7, <1>10 DEF ReadyFrame, MayBeReady, Metered, Ended, stored
  <2>2. MeterFrame(wf)'
    BY <1>2, <1>3, <1>4, <1>5, <1>6, <1>7, <1>10
       DEF UsageInv, UsageFrame, MeterFrame, Unmetered
  <2>3. ObservedFrame(wf)'
    BY <1>3, <1>4, <1>10 DEF ObservedFrame, Ending
  <2>4. CalmFrame(wf)'
    BY <1>1, <1>2, <1>3, <1>4, <1>6, <1>7, <1>10
       DEF UsageInv, UsageFrame, CalmFrame, Ended, Erring, Resuming
  <2> QED BY <1>8, <2>1, <2>2, <2>3, <2>4 DEF UsageInv, UsageFrame
<1> QED BY <1>2, <1>9, <1>10

LEMMA EndKeepsUsage ==
    ASSUME Inv, UsageInv, FailOperation \/ CompleteOperation \/ AbandonOperation
    PROVE  UsageInv'
<1>1. /\ wf.pc \in {"fail", "complete", "abandon"} /\ wf.op \in Operations
      /\ \/ wf' = IdleFrame /\ crashes' = crashes
         \/ wf' = wf /\ crashes' # 0
      /\ \/ UNCHANGED operations /\ wf.pc = "abandon"
         \/ \E status \in {"failed", "succeeded"} :
               operations' = [operations EXCEPT ![wf.op].status = status]
      /\ UNCHANGED <<runtimes, current, usage, suppressed, instance, attached,
                     drifts, faults>>
  <2>1. CASE FailOperation
    BY <2>1, JournalSplit DEF FailOperation, FinishOperation, cloud, Inv, SubjectIsCurrent
  <2>2. CASE CompleteOperation
    BY <2>2, JournalSplit DEF CompleteOperation, FinishOperation, cloud, Inv, SubjectIsCurrent
  <2>3. CASE AbandonOperation
    BY <2>3 DEF AbandonOperation, db, cloud, Inv, SubjectIsCurrent
  <2> QED BY <2>1, <2>2, <2>3
<1>2. IdleFrame.pc = "idle" /\ IdleFrame.usage = None /\ IdleFrame.op = None /\ IdleFrame.at = 0
  BY DEF IdleFrame
<1>3. /\ \A o \in Operations : o # wf.op => operations'[o] = operations[o]
      /\ \A o \in Operations : operations'[o].status = "none" => operations[o].status = "none"
      /\ wf.pc = "abandon" \/ operations'[wf.op].status \in {"failed", "succeeded"}
  <2>1. operations \in [Operations -> OperationRow]
    BY DEF Inv, TypeOK
  <2>2. CASE UNCHANGED operations /\ wf.pc = "abandon"
    BY <2>2
  <2>3. ASSUME NEW status \in {"failed", "succeeded"},
               operations' = [operations EXCEPT ![wf.op].status = status]
        PROVE  /\ \A o \in Operations : o # wf.op => operations'[o] = operations[o]
               /\ operations'[wf.op].status = status
    BY <1>1, <2>1, <2>3 DEF OperationRow
  <2> QED BY <1>1, <2>2, <2>3
<1>8. None \notin Operations
  BY NoneAssumption DEF Operations
<1>4. /\ \A r : Routed(r)' <=> Routed(r)
      /\ \A r : GuestServes(r)' <=> GuestServes(r)
      /\ Row' = Row /\ OpenIntervals' = OpenIntervals
  BY <1>1 DEF Routed, GuestServes, Row, OpenIntervals
<1>5. UsageRows'
  BY <1>1, <1>3, <1>4 DEF UsageInv, UsageRows, ReadyRows, MeterRows, CalmRows
<1>6. CASE wf' = wf /\ crashes' # 0
  <2>1. UsageFrame(wf)'
    BY <1>1, <1>3, <1>4, <1>6
       DEF UsageInv, UsageFrame, ReadyFrame, MeterFrame, ObservedFrame, CalmFrame
  <2> QED BY <1>5, <2>1 DEF UsageInv
<1>7. CASE wf' = IdleFrame /\ crashes' = crashes
  <2>1. ReadyFrame(wf)' /\ MeterFrame(wf)' /\ ObservedFrame(wf)'
    BY <1>2, <1>3, <1>7, <1>8
       DEF ReadyFrame, MeterFrame, ObservedFrame, MayBeReady, Metered, Ended, Unopened,
           Replacing, Held, Unmetered, Ending
  <2>2. CalmFrame(wf)'
    BY <1>1, <1>2, <1>3, <1>4, <1>7, <1>8
       DEF UsageInv, UsageFrame, CalmFrame, Ended, Erring, Resuming
  <2> QED BY <1>5, <2>1, <2>2 DEF UsageInv, UsageFrame
<1> QED BY <1>1, <1>6, <1>7

(* A Runtime that has just been reserved is valid.                         *)
LEMMA ReservedIsValid ==
    ASSUME NEW sequence \in Nat \ {0}, NEW image \in Images, NEW at \in Nat
    PROVE  /\ ValidRuntime(ReserveRuntime(sequence, image, at))
           /\ ReserveRuntime(sequence, image, at).status = "absent"
           /\ ReserveRuntime(sequence, image, at).updatedAt = at
<1> DEFINE s == ReserveRuntime(sequence, image, at)
<1>1. s \in RuntimeSnapshot
  BY DEF ReserveRuntime, RuntimeSnapshot, RuntimeStatuses, OptionalTime, OptionalRef
<1>2. validateRuntimeState(s)
  BY DEF ReserveRuntime, validateRuntimeState, NoBootObservations, NoRoute
<1>3. /\ s.createdAt = at /\ s.updatedAt = at /\ s.status = "absent"
      /\ s.startedAt = None /\ s.stoppedAt = None /\ s.retiredAt = None
  BY DEF ReserveRuntime
<1> QED BY <1>1, <1>2, <1>3 DEF ValidRuntime, WithinLifetime

LEMMA SwitchKeepsUsage ==
    ASSUME Inv, UsageInv, ReplaceSwitchesRuntime
    PROVE  UsageInv'
<1> DEFINE old == wf.subject
           new == old + 1
           retired == Retire(wf.rt, wf.at)
           reserved == ReserveRuntime(new, wf.image, wf.at)
           switched == [wf EXCEPT !.pc = "rep.ensure", !.subject = new, !.rt = reserved]
<1>1. /\ wf \in Frame /\ wf.pc = "rep.switch" /\ wf.op \in Operations
      /\ old \in Runtimes /\ new \in Runtimes /\ current \in {old, new}
      /\ wf.image \in Images /\ wf.at \in Nat
  BY DEF Inv, TypeOK, SubjectIsCurrent, JournalIsTrue, Frame, Replacing, Ended,
         ReplaceSwitchesRuntime
<1>2. old \in Nat \ {0} /\ new \in Nat \ {0} /\ old # new
  BY <1>1, BoundsAssumption DEF Runtimes
<1>3. ValidRuntime(reserved) /\ reserved.status = "absent" /\ reserved.updatedAt = wf.at
  BY <1>1, <1>2, ReservedIsValid
<1>4. /\ switched.pc = "rep.ensure" /\ switched.op = wf.op /\ switched.rt = reserved
      /\ switched.usage = wf.usage /\ switched.stored = wf.stored
      /\ switched.at = wf.at /\ switched.obs = wf.obs
  BY <1>1 DEF Frame
<1>5. /\ UNCHANGED <<operations, usage, suppressed, cloud, instance, drifts>>
      /\ OpenIntervals' = OpenIntervals /\ OpenIntervals = {}
      /\ UsageRows /\ UsageFrame(wf)
      /\ wf.pc \in Unopened /\ wf.pc \notin Held \cup Metered \cup Erring \cup Resuming \cup Ending
      /\ wf.pc \notin {"start.open", "rep.open", "rep.start", "start.ready", "rep.ready", "stop.suppress", "stop.prepare"}
  BY <1>1 DEF ReplaceSwitchesRuntime, cloud, OpenIntervals, UsageInv, UsageFrame, MeterFrame,
              Unmetered, Unopened, Replacing, Held, Metered, Erring, Resuming, Ending
<1>6. Row.status # "ready"
  BY <1>1 DEF UsageInv, UsageFrame, ReadyFrame, MayBeReady, Ended
<1>7. ASSUME NEW f, (wf' = f /\ crashes' = crashes) \/ (wf' = wf /\ crashes' # 0),
             f \in {switched, To("fail")},
             \A r \in Runtimes : Routed(r)' => r = current',
             Row'.status # "ready", crashes' = 0 => ValidRuntime(Row') /\ Row'.updatedAt = 0,
             crashes' = 0 /\ f = switched => Row' = reserved,
             \A i \in OpenIntervals : usage[i].runtime = current'
      PROVE  UsageInv'
  <2>1. /\ f.op = wf.op /\ f.usage = wf.usage /\ f.at = wf.at
        /\ \/ f.pc = "rep.ensure" /\ f.rt = reserved /\ f = switched
           \/ f.pc = "fail"
    <3>1. Follows(To("fail"), "fail", wf.obs, wf.at)
      BY ToFollows
    <3>2. CASE f = To("fail")
      BY <3>1, <3>2 DEF Follows
    <3>3. CASE f = switched
      BY <1>4, <3>3
    <3> QED BY <1>7, <3>2, <3>3
  <2>2. /\ wf'.op = wf.op /\ wf'.usage = wf.usage /\ wf'.at = wf.at
        /\ wf'.pc \in {"rep.switch", "rep.ensure", "fail"}
        /\ wf'.pc \notin Metered \cup Held \cup Ending \cup Erring
        /\ wf'.pc \notin {"start.open", "rep.open", "rep.start", "start.ready", "rep.ready",
                          "rep.close", "abandon", "idle", "load"}
    BY <1>1, <1>5, <1>7, <2>1 DEF Metered, Held, Ending, Erring
  <2>3. ReadyRows' /\ CalmRows'
    BY <1>7 DEF ReadyRows, CalmRows
  <2>4. MeterRows'
    BY <1>5, <1>7 DEF UsageRows, MeterRows
  <2>5. ReadyFrame(wf)' /\ ObservedFrame(wf)'
    BY <1>7, <2>2 DEF ReadyFrame, ObservedFrame
  <2>6. MeterFrame(wf)'
    BY <1>5, <2>2 DEF UsageFrame, MeterFrame
  <2>7. CalmFrame(wf)'
    <3>1. crashes' = 0 => crashes = 0 /\ wf' = f
      BY <1>7
    <3> QED BY <1>1, <1>5, <1>7, <2>1, <2>2, <3>1 DEF UsageFrame, CalmFrame, Ended
  <2> QED BY <2>3, <2>4, <2>5, <2>6, <2>7 DEF UsageInv, UsageRows, UsageFrame
<1> HIDE DEF switched
<1>8. ASSUME Journal(switched), Row' = reserved,
             \A r \in Runtimes : Routed(r)' => r = current'
      PROVE  UsageInv'
  <2>1. (wf' = switched /\ crashes' = crashes) \/ (wf' = wf /\ crashes' # 0)
    BY <1>8, JournalSplit DEF Inv
  <2>2. crashes' = 0 => wf.at = 0
    BY <1>5, <2>1 DEF UsageFrame, CalmFrame
  <2> QED BY <1>3, <1>5, <1>7, <1>8, <2>1, <2>2
<1>9. CASE /\ current = old /\ current' = new
           /\ runtimes' = [runtimes EXCEPT ![old] = retired, ![new] = reserved]
           /\ Journal(switched) /\ ValidRuntime(wf.rt)
  <2>1. retired.status = "absent"
    BY <1>9 DEF ValidRuntime, RuntimeSnapshot, Retire, finalizeRuntimeTransition
  <2>2. /\ runtimes'[new] = reserved /\ runtimes'[old] = retired
        /\ \A r \in Runtimes : r \notin {old, new} => runtimes'[r] = runtimes[r]
    BY <1>1, <1>2, <1>9 DEF Inv, TypeOK
  <2>3. \A r \in Runtimes : Routed(r)' => r = current'
    <3>1. \A r \in Runtimes : r \notin {old, new} => ~Routed(r)
      BY <1>5, <1>9 DEF UsageRows, ReadyRows
    <3> QED BY <1>9, <2>1, <2>2, <3>1 DEF Routed
  <2> QED BY <1>8, <1>9, <2>2, <2>3 DEF Row
<1>10. CASE /\ current' = current /\ runtimes' = runtimes
            /\ Journal(switched) /\ current = new /\ runtimes[new] = reserved
  BY <1>5, <1>8, <1>10 DEF UsageRows, ReadyRows, Routed, Row
<1>11. CASE current' = current /\ runtimes' = runtimes /\ Journal(To("fail"))
  <2>1. (wf' = To("fail") /\ crashes' = crashes) \/ (wf' = wf /\ crashes' # 0)
    BY <1>11, JournalSplit DEF Inv
  <2>2. /\ \A r : Routed(r)' <=> Routed(r)
        /\ Row' = Row /\ current' = current
    BY <1>11 DEF Routed, Row
  <2>3. To("fail") # switched
    BY <1>4, ToFollows DEF Follows
  <2>4. crashes' = 0 => crashes = 0
    BY <2>1
  <2> QED
    BY <1>5, <1>6, <1>7, <2>1, <2>2, <2>3, <2>4
       DEF UsageRows, ReadyRows, MeterRows, CalmRows
<1> QED
  BY <1>9, <1>10, <1>11 DEF ReplaceSwitchesRuntime, CanRetire, CanTransition, switched
-----------------------------------------------------------------------------
(* The steps of each workflow, in the order they may follow. *)

LEMMA StartRoute ==
    /\ Onward("start.observe", "start.close") /\ Onward("start.observe", "outcome")
    /\ Onward("start.close", "start.check") /\ Onward("start.check", "start.begin")
    /\ Onward("start.check", "rep.begin") /\ Onward("start.check", "fail")
    /\ Onward("start.begin", "fail") /\ Onward("start.ready", "fail")
    /\ Onward("start.provider", "start.open") /\ Onward("start.provider", "outcome")
    /\ Onward("start.wait", "start.wait") /\ Onward("start.wait", "start.guest")
    /\ Onward("start.wait", "outcome") /\ Onward("start.guest", "error")
    /\ Onward("outcome", "error")
BY DEF Onward, MayBeReady, Metered, Unopened, Replacing, Held, Unmetered, Erring,
       Resuming, Ended

LEMMA StopRoute ==
    /\ Onward("stop.observe", "stop.verify") /\ Onward("stop.observe", "outcome")
    /\ Onward("stop.observe", "stop.suppress") /\ Onward("stop.suppress", "stop.prepare")
    /\ Onward("stop.prepare", "stop.begin") /\ Onward("stop.prepare", "stop.resume")
    /\ Onward("stop.begin", "stop.resume") /\ Onward("stop.provider", "stop.verify")
    /\ Onward("stop.provider", "stop.wait") /\ Onward("stop.provider", "outcome")
    /\ Onward("stop.wait", "stop.verify") /\ Onward("stop.wait", "stop.wait")
    /\ Onward("stop.wait", "outcome") /\ Onward("stop.verify", "stop.close")
    /\ Onward("stop.close", "stop.mark") /\ Onward("stop.close", "fail")
    /\ Onward("stop.close", "complete") /\ Onward("stop.mark", "fail")
BY DEF Onward, MayBeReady, Metered, Unopened, Replacing, Held, Unmetered, Erring,
       Resuming, Ended

LEMMA RetirementRoute ==
    /\ Onward("rep.image", "rep.begin") /\ Onward("rep.image", "fail")
    /\ Onward("rep.begin", "fail") /\ Onward("rep.suppress", "rep.observe")
    /\ \A p \in {"rep.pending", "rep.stop", "rep.stopped", "rep.close", "fail"} :
          Onward("rep.observe", p)
    /\ \A p \in {"rep.pending", "rep.stop", "fail"} : Onward("rep.pending", p)
    /\ \A p \in {"rep.stopped", "rep.close", "fail"} :
          Onward("rep.stop", p) /\ Onward("rep.stopped", p)
    /\ Onward("rep.close", "fail")
    /\ \A p \in {"rep.retire", "rep.detached", "fail"} : Onward("rep.verify", p)
    /\ \A p \in {"rep.retired", "rep.detached", "fail"} :
          Onward("rep.retire", p) /\ Onward("rep.retired", p)
    /\ Onward("rep.detached", "rep.switch") /\ Onward("rep.detached", "fail")
BY DEF Onward, MayBeReady, Metered, Unopened, Replacing, Held, Unmetered, Erring,
       Resuming, Ended

LEMMA SuccessionRoute ==
    /\ Onward("rep.ensure", "rep.provision") /\ Onward("rep.ensure", "fail")
    /\ Onward("rep.provision", "fail") /\ Onward("rep.start", "fail")
    /\ Onward("rep.attach", "rep.start") /\ Onward("rep.attach", "rep.error")
    /\ \A p \in {"rep.wait", "rep.guest", "rep.outcome"} : Onward("rep.wait", p)
    /\ Onward("rep.outcome", "rep.error") /\ Onward("rep.guest", "rep.error")
    /\ Onward("rep.ready", "fail")
BY DEF Onward, MayBeReady, Metered, Unopened, Replacing, Held, Unmetered, Erring,
       Resuming, Ended

(* The status and the time a transition writes.                            *)
LEMMA TransitionFacts ==
    ASSUME NEW s, ValidRuntime(s), NEW at, NEW ref, NEW boot
    PROVE  /\ BeginStart(s, at).status = "starting" /\ BeginStart(s, at).updatedAt = at
           /\ MarkReady(s, boot, ref, at).status = "ready"
           /\ MarkReady(s, boot, ref, at).updatedAt = at
           /\ BeginStop(s, at).status = "stopping" /\ BeginStop(s, at).updatedAt = at
           /\ MarkStopped(s, at).status = "stopped" /\ MarkStopped(s, at).updatedAt = at
           /\ MarkError(s, at).status = "error" /\ MarkError(s, at).updatedAt = at
           /\ BeginReplacement(s, at).status = "replacing"
           /\ BeginReplacement(s, at).updatedAt = at
           /\ Provision(s, ref, at).status = "provisioning"
           /\ Provision(s, ref, at).updatedAt = at
<1>1. s \in RuntimeSnapshot
  BY DEF ValidRuntime
<1>2. BeginStart(s, at).status = "starting" /\ BeginStart(s, at).updatedAt = at
  BY <1>1 DEF BeginStart, finalizeRuntimeTransition, RuntimeSnapshot
<1>3. /\ MarkReady(s, boot, ref, at).status = "ready"
      /\ MarkReady(s, boot, ref, at).updatedAt = at
  BY <1>1 DEF MarkReady, finalizeRuntimeTransition, RuntimeSnapshot
<1>4. BeginStop(s, at).status = "stopping" /\ BeginStop(s, at).updatedAt = at
  BY <1>1 DEF BeginStop, finalizeRuntimeTransition, RuntimeSnapshot
<1>5. MarkStopped(s, at).status = "stopped" /\ MarkStopped(s, at).updatedAt = at
  BY <1>1 DEF MarkStopped, finalizeRuntimeTransition, RuntimeSnapshot
<1>6. MarkError(s, at).status = "error" /\ MarkError(s, at).updatedAt = at
  BY <1>1 DEF MarkError, finalizeRuntimeTransition, RuntimeSnapshot
<1>7. BeginReplacement(s, at).status = "replacing" /\ BeginReplacement(s, at).updatedAt = at
  BY <1>1 DEF BeginReplacement, finalizeRuntimeTransition, RuntimeSnapshot
<1>8. Provision(s, ref, at).status = "provisioning" /\ Provision(s, ref, at).updatedAt = at
  BY <1>1 DEF Provision, finalizeRuntimeTransition, RuntimeSnapshot
<1> QED BY <1>2, <1>3, <1>4, <1>5, <1>6, <1>7, <1>8

(* Where the guards of the transitions put the snapshot held.              *)
LEMMA GuardsNeedValidity ==
    ASSUME NEW s, NEW at, NEW ref, NEW version,
           \/ CanBeginStart(s, at) \/ CanMarkReady(s, ref, version, at)
           \/ CanBeginStop(s, at) \/ CanMarkStopped(s, ref, version, at)
           \/ CanMarkError(s, ref, version, at) \/ CanBeginReplacement(s, at)
           \/ CanProvision(s, ref, at)
    PROVE  ValidRuntime(s)
BY DEF CanBeginStart, CanMarkReady, CanBeginStop, CanMarkStopped, CanMarkError,
       CanBeginReplacement, CanProvision, CanTransition

(* A transition that may be refused on the way to a step that follows.     *)
LEMMA PersistOnward ==
    ASSUME Inv, UsageInv, Working, wf.pc # "rep.ensure",
           NEW can, NEW next, NEW saved, NEW refused,
           Persist(can, next, saved, refused),
           can => next.updatedAt \in {wf.at, crashes} /\ Saves(wf.pc, next.status, saved),
           Onward(wf.pc, refused), Unasked(refused)
    PROVE  UsageInv'
BY ToFrame, PersistKeepsUsage

LEMMA SavesTable ==
    /\ Saves("start.begin", "starting", "start.provider")
    /\ Saves("start.ready", "ready", "start.resume")
    /\ Saves("stop.begin", "stopping", "stop.provider")
    /\ Saves("stop.mark", "stopped", "fail") /\ Saves("stop.mark", "stopped", "complete")
    /\ Saves("rep.begin", "replacing", "rep.suppress")
    /\ Saves("rep.provision", "provisioning", "rep.attach")
    /\ Saves("rep.start", "starting", "rep.open")
    /\ Saves("rep.ready", "ready", "rep.resume")
    /\ Saves("rep.error", "error", "fail") /\ Saves("error", "error", "fail")
BY DEF Saves, Metered, Unmetered, Ending, Unopened, Replacing, Held, Erring

(* Without a crash an error can be recorded.                               *)
LEMMA ErrorCanBeMarked ==
    ASSUME Inv, UsageInv, wf.pc \in {"error", "rep.error"}, crashes = 0,
           NEW at \in {wf.at, crashes}
    PROVE  /\ CanMarkError(wf.rt, wf.rt.provider, wf.rt.version, at)
           /\ ValidRuntime(MarkError(wf.rt, at))
<1> DEFINE s == wf.rt
           t == MarkError(s, at)
<1>1. /\ s = Row /\ at = 0 /\ s.status \notin {"absent", "replacing", "error"}
      /\ ValidRuntime(s) /\ s.updatedAt = 0
  BY DEF UsageInv, UsageRows, UsageFrame, CalmRows, CalmFrame, Ended, Erring
<1> HIDE DEF s
<1>2. s \in RuntimeSnapshot /\ s.provider # None /\ s.retiredAt = None
  BY <1>1 DEF ValidRuntime, validateRuntimeState
<1>3. CanMarkError(s, s.provider, s.version, at)
  BY <1>1, <1>2 DEF CanMarkError, CurrentObservation, CanTransition
<1>4. /\ t \in RuntimeSnapshot
      /\ t.status = "error" /\ t.provider = s.provider /\ t.address = None /\ t.boot = None
      /\ t.startedAt = s.startedAt /\ t.stoppedAt = s.stoppedAt /\ t.retiredAt = None
      /\ t.createdAt = s.createdAt /\ t.updatedAt = 0
  <2>1. "error" \in RuntimeStatuses /\ None \in OptionalRef /\ at \in Nat
    BY <1>1 DEF RuntimeStatuses, OptionalRef
  <2> DEFINE u == [s EXCEPT !.status = "error", !.address = None, !.boot = None]
  <2>2. /\ u \in RuntimeSnapshot
        /\ u.status = "error" /\ u.provider = s.provider /\ u.address = None /\ u.boot = None
        /\ u.startedAt = s.startedAt /\ u.stoppedAt = s.stoppedAt
        /\ u.retiredAt = s.retiredAt /\ u.createdAt = s.createdAt
    BY <1>2, <2>1 DEF RuntimeSnapshot
  <2>3. t = [u EXCEPT !.updatedAt = at, !.version = @ + 1]
    BY DEF MarkError, finalizeRuntimeTransition
  <2> HIDE DEF u, t
  <2>4. u.version + 1 \in Nat \ {0}
    BY <2>2 DEF RuntimeSnapshot
  <2>5. t \in RuntimeSnapshot
    BY <2>1, <2>2, <2>3, <2>4 DEF RuntimeSnapshot
  <2>6. /\ t.status = u.status /\ t.provider = u.provider
        /\ t.address = u.address /\ t.boot = u.boot
        /\ t.startedAt = u.startedAt /\ t.stoppedAt = u.stoppedAt
        /\ t.retiredAt = u.retiredAt /\ t.createdAt = u.createdAt /\ t.updatedAt = at
    BY <2>2, <2>3 DEF RuntimeSnapshot
  <2> QED BY <1>1, <1>2, <2>2, <2>5, <2>6
<1> HIDE DEF t
<1>5. validateRuntimeState(t)
  BY <1>2, <1>4 DEF validateRuntimeState, NoRoute
<1>6. ValidRuntime(t)
  BY <1>1, <1>4, <1>5 DEF ValidRuntime, WithinLifetime
<1> QED BY <1>3, <1>6 DEF s, t

(* The Runtime is put in error, or after a crash that may fail.            *)
LEMMA ErrorKeepsUsage ==
    ASSUME Inv, UsageInv, wf.pc \in {"error", "rep.error"}, NEW at \in {wf.at, crashes},
           Persist(CanMarkError(wf.rt, wf.rt.provider, wf.rt.version, at),
                   MarkError(wf.rt, at), "fail", "abandon")
    PROVE  UsageInv'
<1> DEFINE can == CanMarkError(wf.rt, wf.rt.provider, wf.rt.version, at)
           next == MarkError(wf.rt, at)
<1>1. Working /\ wf.pc # "rep.ensure"
  BY DEF Working, Ended
<1>2. can => next.updatedAt \in {wf.at, crashes} /\ Saves(wf.pc, next.status, "fail")
  <2>1. can => ValidRuntime(wf.rt)
    BY GuardsNeedValidity
  <2> QED BY <2>1, TransitionFacts, SavesTable
<1>3. crashes = 0 => can /\ ValidRuntime(next)
  BY ErrorCanBeMarked
<1>4. crashes # 0 => UsageFrame(To("abandon"))
  <2>1. Follows(To("abandon"), "abandon", wf.obs, wf.at)
    BY ToFollows
  <2>2. ReadyFrame(To("abandon")) /\ MeterFrame(To("abandon")) /\ ObservedFrame(To("abandon"))
    BY <2>1 DEF Follows, UsageInv, UsageFrame, ReadyFrame, MeterFrame, ObservedFrame, MayBeReady,
                Metered, Unopened, Replacing, Held, Unmetered, Ending, Ended
  <2> QED BY <2>2 DEF UsageFrame, CalmFrame
<1> HIDE DEF can, next
<1> QED BY <1>1, <1>2, <1>3, <1>4, PersistKeepsUsage DEF can, next
-----------------------------------------------------------------------------
(* The calls to the provider and the waits on it. *)

LEMMA WaitsLead ==
    ASSUME NEW expected, NEW transitional, NEW done, NEW wait, NEW failed,
           Onward(wf.pc, done), Onward(wf.pc, wait), Onward(wf.pc, failed),
           {done, wait, failed} \cap {"start.open", "rep.start", "rep.open"} = {},
           "rep.close" \notin {wait, failed},
           done = "rep.close" => ComputeGone(expected)
    PROVE  Leads(Waits(expected, transitional, done, wait, failed))
BY DEF Leads, Waits

LEMMA LaunchedLeads ==
    ASSUME NEW next, NEW failed, Onward(wf.pc, next), Onward(wf.pc, failed),
           next \notin {"rep.open", "rep.close"},
           failed \notin {"rep.open", "rep.close", "start.open", "rep.start"}
    PROVE  Leads(Launched(next, failed))
BY DEF Leads, Launched

LEMMA PollKeepsUsage ==
    ASSUME Inv, UsageInv, Working, wf.pc # "rep.ensure",
           NEW expected, NEW transitional, NEW done, NEW failed,
           Poll(expected, transitional, done, failed),
           Onward(wf.pc, done), Onward(wf.pc, wf.pc), LeadsToFailure(failed),
           {done, wf.pc} \cap {"start.open", "rep.start", "rep.open"} = {},
           wf.pc # "rep.close",
           done = "rep.close" => ComputeGone(expected)
    PROVE  UsageInv'
<1>1. Leads(Waits(expected, transitional, done, wf.pc, failed))
  BY WaitsLead DEF LeadsToFailure
<1> QED BY <1>1, ObserveKeepsUsage DEF Poll

LEMMA CallMovesKeepsUsage ==
    ASSUME Inv, UsageInv, Working, wf.pc \notin MayBeReady \cup Ending,
           NEW from, NEW to, NEW s, NEW p, Onward(wf.pc, p), p \notin Ending \cup {"rep.open"},
           p \in {"start.open", "rep.start"} => s \in {"pending", "running"},
           CallMoves(from, to, s, p)
    PROVE  UsageInv'
<1>1. UNCHANGED <<db, drifts>> /\ Journal(Answer(s, p))
  BY DEF CallMoves
<1> QED BY <1>1, MoveKeepsUsage

LEMMA StartRuntimeKeepsUsage ==
    ASSUME Inv, UsageInv, wf.pc = "start.provider", StartRuntime("start.open", "outcome")
    PROVE  UsageInv'
<1>1. /\ Working /\ wf.pc \notin MayBeReady \cup Ending /\ LeadsToFailure("outcome")
      /\ "start.open" \notin Ending
  BY StartRoute DEF Working, Ended, MayBeReady, Ending, LeadsToFailure
<1>2. Leads(Launched("start.open", "outcome"))
  BY StartRoute, LaunchedLeads
<1>3. CASE CallFails({"shutting-down"}, "outcome")
  BY <1>1, <1>3, CallFailsKeepsUsage
<1>4. CASE CallMoves("stopped", "pending", "pending", "start.open")
  BY <1>1, <1>4, StartRoute, CallMovesKeepsUsage
<1>5. CASE CallSettles({"pending", "running", "terminated"}, Launched("start.open", "outcome"))
  BY <1>1, <1>2, <1>5, CallSettlesKeepsUsage
<1> QED BY <1>3, <1>4, <1>5 DEF StartRuntime

LEMMA StopRuntimeKeepsUsage ==
    ASSUME Inv, UsageInv, Working, wf.pc \notin MayBeReady \cup Ending,
           NEW stepFor, NEW wait, NEW failed, Leads(stepFor), LeadsToFailure(failed),
           stepFor["running"] = wait, stepFor["stopping"] = wait,
           wait \notin Ending \cup {"rep.open", "start.open", "rep.start"},
           StopRuntime(stepFor, failed)
    PROVE  UsageInv'
<1>1. Onward(wf.pc, wait)
  BY DEF Leads, ProviderStates
<1>2. CASE CallFails({"shutting-down"}, failed)
  BY <1>2, CallFailsKeepsUsage
<1>3. ASSUME NEW seen \in {"running", "stopping"},
             CallMoves("running", "stopping", seen, stepFor[seen])
      PROVE  UsageInv'
  <2>1. CallMoves("running", "stopping", seen, wait)
    BY <1>3
  <2> QED BY <1>1, <2>1, CallMovesKeepsUsage
<1>4. CASE CallSettles({"stopping", "stopped", "terminated"}, stepFor)
  BY <1>4, CallSettlesKeepsUsage
<1> QED BY <1>2, <1>3, <1>4 DEF StopRuntime

(* The volume is detached and nothing is journaled.                        *)
LEMMA DetachKeepsUsage ==
    ASSUME Inv, UsageInv, wf.pc \notin MayBeReady,
           UNCHANGED <<db, wf, instance, drifts, crashes>>
    PROVE  UsageInv'
<1>1. Row.status # "ready" /\ wf.pc \notin {"start.ready", "rep.ready"}
  BY DEF UsageInv, UsageFrame, ReadyFrame, MayBeReady
<1>2. /\ \A r : Routed(r)' <=> Routed(r)
      /\ Row' = Row /\ OpenIntervals' = OpenIntervals
      /\ UNCHANGED <<runtimes, current, operations, usage, suppressed>>
  BY DEF Routed, Row, OpenIntervals, db
<1>3. UsageRows'
  BY <1>1, <1>2 DEF UsageInv, UsageRows, ReadyRows, MeterRows, CalmRows
<1>4. UsageFrame(wf)'
  BY <1>1, <1>2 DEF UsageInv, UsageFrame, ReadyFrame, MeterFrame, ObservedFrame, CalmFrame
<1> QED BY <1>3, <1>4 DEF UsageInv

LEMMA RetireRuntimeKeepsUsage ==
    ASSUME Inv, UsageInv, wf.pc = "rep.retire",
           RetireRuntime(WaitsToTerminate("rep.detached", "rep.retired", "fail"), "fail")
    PROVE  UsageInv'
<1> DEFINE stepFor == WaitsToTerminate("rep.detached", "rep.retired", "fail")
<1>1. /\ Working /\ wf.pc \notin MayBeReady \cup Ending
      /\ LeadsToFailure("fail") /\ "rep.retired" \notin Ending
  BY RetirementRoute DEF Working, Ended, MayBeReady, Ending, LeadsToFailure
<1>2. Leads(stepFor)
  BY RetirementRoute, WaitsLead DEF WaitsToTerminate
<1>3. stepFor["stopped"] = "rep.retired" /\ stepFor["stopping"] = "rep.retired"
  BY DEF WaitsToTerminate, Waits, ProviderStates
<1> HIDE DEF stepFor
<1>4. CASE CallFails({"pending", "running"}, "fail")
  BY <1>1, <1>4, CallFailsKeepsUsage
<1>5. CASE UNCHANGED <<db, wf, instance, drifts, crashes, faults>>
  BY <1>1, <1>5, DetachKeepsUsage
<1>6. ASSUME NEW seen \in {"stopped", "stopping"},
             CallMoves("stopped", "shutting-down", seen, stepFor[seen])
      PROVE  UsageInv'
  <2>1. CallMoves("stopped", "shutting-down", seen, "rep.retired")
    BY <1>3, <1>6
  <2> QED BY <1>1, <2>1, RetirementRoute, CallMovesKeepsUsage
<1>7. CASE CallSettles({"stopping", "shutting-down", "terminated"}, stepFor)
  BY <1>1, <1>2, <1>7, CallSettlesKeepsUsage
<1> QED BY <1>4, <1>5, <1>6, <1>7 DEF RetireRuntime, stepFor

LEMMA EnsureRuntimeKeepsUsage ==
    ASSUME Inv, UsageInv, wf.pc = "rep.ensure", EnsureRuntime("rep.provision", "fail")
    PROVE  UsageInv'
<1>1. /\ Working /\ wf.pc \notin MayBeReady \cup Ending
      /\ LeadsToFailure("fail") /\ "rep.provision" \notin Ending
  BY SuccessionRoute DEF Working, Ended, MayBeReady, Ending, LeadsToFailure
<1>2. Leads(Launched("rep.provision", "fail"))
  BY SuccessionRoute, LaunchedLeads
<1>3. ASSUME NEW states, CallFails(states, "fail")
      PROVE  UsageInv'
  BY <1>1, <1>3, CallFailsKeepsUsage
<1>4. CASE CallMoves("none", "pending", "pending", "rep.provision")
  BY <1>1, <1>4, SuccessionRoute, CallMovesKeepsUsage
<1>5. CASE CallSettles(InstanceStates \ {"none"}, Launched("rep.provision", "fail"))
  BY <1>1, <1>2, <1>5, CallSettlesKeepsUsage
<1> QED BY <1>3, <1>4, <1>5 DEF EnsureRuntime

LEMMA AttachKeepsUsage ==
    ASSUME Inv, UsageInv, wf.pc = "rep.attach",
           EnsureRuntimeDataVolumeAttachment("rep.start", "rep.error")
    PROVE  UsageInv'
<1>1. /\ Working /\ wf.pc \notin MayBeReady \cup Ending
      /\ LeadsToFailure("rep.error") /\ {"rep.start", "rep.error"} \cap Ending = {}
  BY SuccessionRoute DEF Working, Ended, MayBeReady, Ending, LeadsToFailure
<1>2. ASSUME NEW states, CallFails(states, "rep.error")
      PROVE  UsageInv'
  BY <1>1, <1>2, CallFailsKeepsUsage
<1>3. ASSUME NEW s \in ProviderStates,
             Journal(Answer(s, Launched("rep.start", "rep.error")[s])),
             UNCHANGED <<db, drifts>>
      PROVE  UsageInv'
  <2> DEFINE p == Launched("rep.start", "rep.error")[s]
  <2>1. p \in {"rep.start", "rep.error"} /\ (p = "rep.start" => s \in {"pending", "running"})
    BY DEF Launched
  <2> HIDE DEF p
  <2>2. Journal(Answer(s, p))
    BY <1>3 DEF p
  <2>3. Onward(wf.pc, p) /\ p \notin Ending \cup {"rep.open", "start.open"}
    BY <1>1, <2>1, SuccessionRoute
  <2> QED BY <1>1, <1>3, <2>1, <2>2, <2>3, MoveKeepsUsage
<1>4. Observed(wf.subject) \in ProviderStates /\ "pending" \in ProviderStates
  BY <1>1, WorkingFacts DEF ProviderStates
<1> QED BY <1>2, <1>3, <1>4 DEF EnsureRuntimeDataVolumeAttachment
(* The guest has been reached: the Runtime may be marked ready.            *)
LEMMA ServedFrame ==
    ASSUME Inv, UsageInv, NEW f, NEW p, NEW s, NEW t \in {wf.at, crashes},
           Follows(f, p, s, t), GuestServes(current),
           \/ wf.pc = "start.guest" /\ p = "start.ready"
           \/ wf.pc = "rep.guest" /\ p = "rep.ready"
    PROVE  UsageFrame(f)
<1>1. Row.status # "ready" /\ OpenIntervals # {}
  BY DEF UsageInv, UsageFrame, ReadyFrame, MayBeReady, Metered, Ended
<1>2. ReadyFrame(f)
  BY <1>1 DEF ReadyFrame, Follows, Metered
<1>3. MeterFrame(f)
  BY DEF UsageInv, UsageFrame, MeterFrame, Follows, Unopened, Replacing, Held, Unmetered
<1>4. ObservedFrame(f)
  BY DEF ObservedFrame, Follows, Ending
<1>5. CalmFrame(f)
  BY <1>1 DEF UsageInv, UsageFrame, CalmFrame, Follows, Ended, Erring
<1> QED BY <1>2, <1>3, <1>4, <1>5 DEF UsageFrame

-----------------------------------------------------------------------------
(* The steps of runtime.start. *)

LEMMA StartKeepsUsage ==
    ASSUME Inv, UsageInv, StartStep
    PROVE  UsageInv'
<1>1. CASE StartObserves
  <2> DEFINE stepFor == [s \in ProviderStates |->
            IF s = "stopped" THEN "start.close" ELSE "outcome"]
  <2>1. Working /\ wf.pc # "rep.ensure" /\ LeadsToFailure("outcome")
    BY <1>1, StartRoute DEF StartObserves, Working, Ended, LeadsToFailure
  <2>2. Leads(stepFor)
    BY <1>1, StartRoute DEF StartObserves, Leads
  <2> HIDE DEF stepFor
  <2> QED BY <1>1, <2>1, <2>2, ObserveKeepsUsage DEF StartObserves, stepFor
<1>2. CASE StartClosesStaleUsage
  BY <1>2, StartRoute, CloseKeepsUsage DEF StartClosesStaleUsage, Unasked, Ending
<1>3. CASE StartChecks
  <2>1. Working /\ wf.pc = "start.check"
    BY <1>3 DEF StartChecks, Working, Ended
  <2>2. PICK image \in Images :
           Check([wf EXCEPT !.pc = IF image = wf.rt.image THEN "start.begin"
                                                          ELSE "rep.begin",
                            !.image = image, !.at = Now], To("fail"))
    BY <1>3 DEF StartChecks
  <2> DEFINE p == IF image = wf.rt.image THEN "start.begin" ELSE "rep.begin"
             frame == [wf EXCEPT !.pc = p, !.image = image, !.at = Now]
  <2>3. p \in {"start.begin", "rep.begin"}
    OBVIOUS
  <2> HIDE DEF p
  <2>4. Onward(wf.pc, p) /\ Unasked(p) /\ Onward(wf.pc, "fail") /\ Unasked("fail")
    BY <2>1, <2>3, StartRoute DEF Unasked, Ending
  <2>5. Follows(frame, p, wf.obs, crashes)
    BY ImageFollows
  <2> HIDE DEF frame
  <2>6. UsageFrame(frame)
    BY <2>1, <2>4, <2>5, UnaskedFrame, OnwardFrame DEF Follows
  <2>7. UsageFrame(To("fail"))
    BY <2>1, <2>4, ToFrame
  <2> QED BY <2>2, <2>6, <2>7, CheckKeepsUsage DEF frame, p
<1>4. CASE StartBegins
  <2>1. /\ Working /\ wf.pc = "start.begin" /\ Onward(wf.pc, "fail") /\ Unasked("fail")
    BY <1>4, StartRoute DEF StartBegins, Working, Ended, Unasked, Ending
  <2>2. CanBeginStart(wf.rt, Now) => ValidRuntime(wf.rt)
    BY GuardsNeedValidity
  <2>3. CanBeginStart(wf.rt, Now) =>
           /\ BeginStart(wf.rt, Now).updatedAt \in {wf.at, crashes}
           /\ Saves(wf.pc, BeginStart(wf.rt, Now).status, "start.provider")
    BY <2>1, <2>2, TransitionFacts, SavesTable DEF Now
  <2> QED BY <1>4, <2>1, <2>3, PersistOnward DEF StartBegins
<1>5. CASE StartCallsProvider
  BY <1>5, StartRuntimeKeepsUsage DEF StartCallsProvider
<1>6. CASE StartOpensUsage
  <2> DEFINE p == WaitsToRun("start.guest", "start.wait", "outcome")[wf.obs]
             opened == [wf EXCEPT !.usage = wf.op, !.pc = p]
  <2>1. wf.pc = "start.open" /\ wf \in Frame /\ wf.obs \in {"pending", "running"}
    BY <1>6 DEF StartOpensUsage, UsageInv, UsageFrame, ObservedFrame, Inv, TypeOK
  <2>2. p \in {"start.guest", "start.wait"}
    BY <2>1 DEF WaitsToRun, Waits, ProviderStates
  <2> HIDE DEF p
  <2>3. /\ opened.pc = p /\ opened.op = wf.op /\ opened.usage = wf.op
        /\ opened.rt = wf.rt /\ opened.at = wf.at
    BY <2>1 DEF Frame
  <2>4. Follows(To("error"), "error", wf.obs, wf.at)
    BY ToFollows
  <2>5. OpenComputeUsageInterval(opened, To("error"))
    BY <1>6 DEF StartOpensUsage, p
  <2> HIDE DEF opened
  <2> QED BY <2>1, <2>2, <2>3, <2>4, <2>5, OpenKeepsUsage DEF Follows, Metered
<1>7. CASE StartWaits
  <2>1. Working /\ wf.pc = "start.wait" /\ LeadsToFailure("outcome")
    BY <1>7, StartRoute DEF StartWaits, Working, Ended, LeadsToFailure
  <2> QED BY <1>7, <2>1, StartRoute, PollKeepsUsage DEF StartWaits
<1>8. CASE StartReachesGuest
  <2>1. Working /\ wf.pc = "start.guest" /\ GuestServes(current)
    BY <1>8, WorkingFacts DEF StartReachesGuest, Working, Ended
  <2>2. UsageFrame(To("start.ready"))
    BY <2>1, ServedFrame, ToFollows
  <2>3. UsageFrame(To("error"))
    BY <2>1, StartRoute, ToFrame DEF Unasked, Ending
  <2> QED BY <1>8, <2>2, <2>3, CheckKeepsUsage DEF StartReachesGuest
<1>9. CASE StartMarksReady
  <2> DEFINE can == CanMarkReady(wf.rt, wf.rt.provider, wf.rt.version, Now)
             next == MarkReady(wf.rt, wf.subject, wf.subject, Now)
  <2>1. /\ Working /\ wf.pc = "start.ready" /\ Onward(wf.pc, "fail") /\ Unasked("fail")
    BY <1>9, StartRoute DEF StartMarksReady, Working, Ended, Unasked, Ending
  <2>2. can => ValidRuntime(wf.rt)
    BY GuardsNeedValidity
  <2>3. can => /\ next.updatedAt \in {wf.at, crashes}
               /\ Saves(wf.pc, next.status, "start.resume")
    BY <2>1, <2>2, TransitionFacts, SavesTable DEF Now
  <2> HIDE DEF can, next
  <2> QED BY <1>9, <2>1, <2>3, PersistOnward DEF StartMarksReady, can, next
<1>10. CASE StartResumesAutoStop
  BY <1>10, ResumeKeepsUsage DEF StartResumesAutoStop
<1> QED
  BY <1>1, <1>2, <1>3, <1>4, <1>5, <1>6, <1>7, <1>8, <1>9, <1>10 DEF StartStep

-----------------------------------------------------------------------------
(* The steps of runtime.stop. *)

LEMMA StopKeepsUsage ==
    ASSUME Inv, UsageInv, StopStep
    PROVE  UsageInv'
<1>1. CASE StopObserves
  <2> DEFINE stepFor == [s \in ProviderStates |->
            IF s = "stopped" THEN "stop.verify"
            ELSE IF s = "terminated" THEN "outcome" ELSE "stop.suppress"]
  <2>1. Working /\ wf.pc # "rep.ensure" /\ LeadsToFailure("outcome")
    BY <1>1, StopRoute DEF StopObserves, Working, Ended, LeadsToFailure
  <2>2. Leads(stepFor)
    BY <1>1, StopRoute DEF StopObserves, Leads
  <2> HIDE DEF stepFor
  <2> QED BY <1>1, <2>1, <2>2, ObserveKeepsUsage DEF StopObserves, stepFor
<1>2. CASE StopSuppressesAutoStop
  <2>1. /\ Working /\ Onward(wf.pc, "stop.prepare") /\ Unasked("stop.prepare")
        /\ "stop.prepare" \in Resuming
    BY <1>2, StopRoute
       DEF StopSuppressesAutoStop, Working, Ended, Unasked, Ending, Resuming
  <2> QED BY <1>2, <2>1, SuppressKeepsUsage DEF StopSuppressesAutoStop
<1>3. CASE StopPrepares
  <2>1. Working /\ wf.pc = "stop.prepare" /\ UNCHANGED <<db, cloud, crashes>>
    BY <1>3 DEF StopPrepares, Working, Ended
  <2>2. CASE wf' = To("stop.provider") /\ wf.stored
    <3>1. Follows(To("stop.provider"), "stop.provider", wf.obs, wf.at)
      BY ToFollows
    <3>2. Row.status # "ready"
      BY <2>1, <2>2 DEF UsageInv, UsageFrame, ReadyFrame
    <3>3. ReadyFrame(To("stop.provider"))
      BY <3>1, <3>2 DEF ReadyFrame, Follows, Metered
    <3>4. MeterFrame(To("stop.provider"))
      BY <3>1 DEF UsageInv, UsageFrame, MeterFrame, Follows, Unopened, Replacing, Held, Unmetered
    <3>5. ObservedFrame(To("stop.provider"))
      BY <3>1 DEF ObservedFrame, Follows, Ending
    <3>6. CalmFrame(To("stop.provider"))
      BY <2>1, <3>1, <3>2 DEF UsageInv, UsageFrame, CalmFrame, Follows, Ended, Erring
    <3> QED BY <2>1, <2>2, <3>3, <3>4, <3>5, <3>6, QuietKeepsUsage DEF UsageFrame
  <2>3. ASSUME NEW p \in {"stop.begin", "stop.resume"}, wf' = To(p)
        PROVE  UsageInv'
    <3>1. Onward(wf.pc, p) /\ Unasked(p)
      BY <2>1, StopRoute DEF Unasked, Ending
    <3> QED BY <2>1, <2>3, <3>1, ToFrame, QuietKeepsUsage
  <2> QED BY <1>3, <2>2, <2>3 DEF StopPrepares
<1>4. CASE StopBegins
  <2>1. /\ Working /\ wf.pc = "stop.begin"
        /\ Onward(wf.pc, "stop.resume") /\ Unasked("stop.resume")
    BY <1>4, StopRoute DEF StopBegins, Working, Ended, Unasked, Ending
  <2>2. CanBeginStop(wf.rt, Now) => ValidRuntime(wf.rt)
    BY GuardsNeedValidity
  <2>3. CanBeginStop(wf.rt, Now) =>
           /\ BeginStop(wf.rt, Now).updatedAt \in {wf.at, crashes}
           /\ Saves(wf.pc, BeginStop(wf.rt, Now).status, "stop.provider")
    BY <2>1, <2>2, TransitionFacts, SavesTable DEF Now
  <2> QED BY <1>4, <2>1, <2>3, PersistOnward DEF StopBegins
<1>5. CASE StopResumesAutoStop
  BY <1>5, ResumeKeepsUsage DEF StopResumesAutoStop
<1>6. CASE StopCallsProvider
  <2> DEFINE stepFor == WaitsToStop("stop.verify", "stop.wait", "outcome")
  <2>1. /\ Working /\ wf.pc = "stop.provider" /\ wf.pc \notin MayBeReady \cup Ending
        /\ LeadsToFailure("outcome") /\ "stop.wait" \notin Ending
    BY <1>6, StopRoute
       DEF StopCallsProvider, Working, Ended, MayBeReady, Ending, LeadsToFailure
  <2>2. Leads(stepFor)
    BY <2>1, StopRoute, WaitsLead DEF WaitsToStop
  <2>3. stepFor["running"] = "stop.wait" /\ stepFor["stopping"] = "stop.wait"
    BY DEF WaitsToStop, Waits, ProviderStates
  <2> HIDE DEF stepFor
  <2> QED BY <1>6, <2>1, <2>2, <2>3, StopRuntimeKeepsUsage DEF StopCallsProvider, stepFor
<1>7. CASE StopWaits
  <2>1. Working /\ wf.pc = "stop.wait" /\ LeadsToFailure("outcome")
    BY <1>7, StopRoute DEF StopWaits, Working, Ended, LeadsToFailure
  <2> QED BY <1>7, <2>1, StopRoute, PollKeepsUsage DEF StopWaits
<1>8. CASE StopVerifiesVolume
  <2> DEFINE missing == wf.usage = None /\ ~wf.stored
             verified == [wf EXCEPT !.pc = "stop.close", !.postErr = missing]
             unverified == [verified EXCEPT !.postErr = TRUE]
  <2>1. Working /\ wf.pc = "stop.verify" /\ Check(verified, unverified)
    BY <1>8 DEF StopVerifiesVolume, Working, Ended
  <2>2. wf \in Frame /\ UsageFrame(To("stop.close"))
    BY <2>1, StopRoute, ToFrame, WorkingFacts
  <2> HIDE DEF missing
  <2>3. Follows(verified, "stop.close", wf.obs, wf.at)
    BY <2>2 DEF Frame, Follows
  <2>4. Follows(unverified, "stop.close", wf.obs, wf.at)
    BY <2>2 DEF Frame, Follows
  <2> HIDE DEF verified, unverified
  <2>5. ASSUME NEW f, Follows(f, "stop.close", wf.obs, wf.at)
        PROVE  UsageFrame(f)
    <3>1. ObservedFrame(f)
      BY <2>1, <2>5 DEF Follows, UsageInv, UsageFrame, ObservedFrame, Ending
    <3> QED BY <2>1, <2>5, <3>1, StopRoute, OnwardFrame
  <2> QED BY <2>1, <2>3, <2>4, <2>5, CheckKeepsUsage
<1>9. CASE StopClosesUsage
  <2> DEFINE p == IF wf.stored THEN StopOutcome ELSE "stop.mark"
  <2>1. p \in {"fail", "complete", "stop.mark"}
    BY DEF StopOutcome
  <2> HIDE DEF p
  <2>2. wf.pc = "stop.close" /\ Onward(wf.pc, p) /\ Unasked(p)
    BY <1>9, <2>1, StopRoute DEF StopClosesUsage, Unasked, Ending
  <2> QED BY <1>9, <2>2, CloseKeepsUsage DEF StopClosesUsage, p
<1>10. CASE StopMarksStopped
  <2> DEFINE can == CanMarkStopped(wf.rt, wf.rt.provider, wf.rt.version, Now)
             next == MarkStopped(wf.rt, Now)
  <2>1. /\ Working /\ wf.pc = "stop.mark" /\ Onward(wf.pc, "fail") /\ Unasked("fail")
    BY <1>10, StopRoute DEF StopMarksStopped, Working, Ended, Unasked, Ending
  <2>2. can => ValidRuntime(wf.rt)
    BY GuardsNeedValidity
  <2>3. can => /\ next.updatedAt \in {wf.at, crashes}
               /\ Saves(wf.pc, next.status, StopOutcome)
    BY <2>1, <2>2, TransitionFacts, SavesTable DEF Now, StopOutcome
  <2> HIDE DEF can, next
  <2> QED BY <1>10, <2>1, <2>3, PersistOnward DEF StopMarksStopped, can, next
<1> QED
  BY <1>1, <1>2, <1>3, <1>4, <1>5, <1>6, <1>7, <1>8, <1>9, <1>10 DEF StopStep
-----------------------------------------------------------------------------
(* The steps of runtime.replace. *)

LEMMA RetirementKeepsUsage ==
    ASSUME Inv, UsageInv, RetirementStep
    PROVE  UsageInv'
<1>1. CASE ReplaceResolvesImage
  <2>1. Working /\ wf.pc = "rep.image"
    BY <1>1 DEF ReplaceResolvesImage, Working, Ended
  <2>2. PICK image \in Images :
           Check([wf EXCEPT !.pc = "rep.begin", !.image = image, !.at = Now], To("fail"))
    BY <1>1 DEF ReplaceResolvesImage
  <2> DEFINE frame == [wf EXCEPT !.pc = "rep.begin", !.image = image, !.at = Now]
  <2>3. Follows(frame, "rep.begin", wf.obs, crashes)
    BY ImageFollows
  <2> HIDE DEF frame
  <2>4. Unasked("rep.begin") /\ Unasked("fail")
    BY DEF Unasked, Ending
  <2>5. UsageFrame(frame)
    BY <2>1, <2>3, <2>4, RetirementRoute, UnaskedFrame, OnwardFrame DEF Follows
  <2>6. UsageFrame(To("fail"))
    BY <2>1, <2>4, RetirementRoute, ToFrame
  <2> QED BY <2>2, <2>5, <2>6, CheckKeepsUsage DEF frame
<1>2. CASE ReplaceBegins
  <2>1. /\ Working /\ wf.pc = "rep.begin" /\ Onward(wf.pc, "fail") /\ Unasked("fail")
    BY <1>2, RetirementRoute DEF ReplaceBegins, Working, Ended, Unasked, Ending
  <2>2. CanBeginReplacement(wf.rt, wf.at) => ValidRuntime(wf.rt)
    BY GuardsNeedValidity
  <2>3. CanBeginReplacement(wf.rt, wf.at) =>
           /\ BeginReplacement(wf.rt, wf.at).updatedAt \in {wf.at, crashes}
           /\ Saves(wf.pc, BeginReplacement(wf.rt, wf.at).status, "rep.suppress")
    BY <2>1, <2>2, TransitionFacts, SavesTable
  <2> QED BY <1>2, <2>1, <2>3, PersistOnward DEF ReplaceBegins
<1>3. CASE ReplaceSuppressesAutoStop
  <2>1. /\ Working /\ Onward(wf.pc, "rep.observe") /\ Unasked("rep.observe")
        /\ wf.pc \notin MayBeReady
    BY <1>3, RetirementRoute
       DEF ReplaceSuppressesAutoStop, Working, Ended, Unasked, Ending, MayBeReady
  <2> QED BY <1>3, <2>1, SuppressKeepsUsage DEF ReplaceSuppressesAutoStop
<1>4. CASE ReplaceObserves
  <2> DEFINE s == Observed(wf.subject)
             step == [x \in ProviderStates |->
                        IF x = "pending" THEN "rep.pending"
                        ELSE IF x = "running" THEN "rep.stop"
                        ELSE IF x = "stopping" THEN "rep.stopped" ELSE "rep.close"]
             ran == s = "running"
             frame == [Answer(s, step[s]) EXCEPT !.wasRunning = ran]
  <2>1. /\ Working /\ wf.pc = "rep.observe" /\ instance[current] # "none"
        /\ Check(frame, ProviderFailure("fail")) /\ LeadsToFailure("fail")
    BY <1>4, RetirementRoute, WorkingFacts DEF ReplaceObserves, Working, Ended, LeadsToFailure
  <2>2. Leads(step)
    BY <2>1, RetirementRoute DEF Leads, ComputeGone, ProviderStates
  <2>3. UsageFrame(Answer(s, step[s])) /\ UsageFrame(ProviderFailure("fail"))
    <3> HIDE DEF step
    <3> QED BY <2>1, <2>2, ObservationFrame, FailureFrame
  <2> HIDE DEF s, step, ran
  <2>4. Follows(Answer(s, step[s]), step[s], s, crashes)
    BY AnswerFollows
  <2>5. Follows(frame, step[s], s, crashes)
    BY DEF Inv, TypeOK, Frame, Answer, Now, Follows
  <2> HIDE DEF frame
  <2>6. UsageFrame(frame)
    BY <2>3, <2>4, <2>5 DEF Follows, UsageFrame, ReadyFrame, MeterFrame, ObservedFrame, CalmFrame
  <2> QED BY <2>1, <2>3, <2>6, CheckKeepsUsage
<1>5. CASE ReplaceWaitsForPending
  <2>1. Working /\ wf.pc = "rep.pending" /\ LeadsToFailure("fail")
    BY <1>5, RetirementRoute DEF ReplaceWaitsForPending, Working, Ended, LeadsToFailure
  <2> QED BY <1>5, <2>1, RetirementRoute, PollKeepsUsage DEF ReplaceWaitsForPending
<1>6. CASE ReplaceStopsRuntime
  <2> DEFINE stepFor == WaitsToStop("rep.close", "rep.stopped", "fail")
  <2>1. /\ Working /\ wf.pc = "rep.stop" /\ wf.pc \notin MayBeReady \cup Ending
        /\ LeadsToFailure("fail") /\ "rep.stopped" \notin Ending
    BY <1>6, RetirementRoute
       DEF ReplaceStopsRuntime, Working, Ended, MayBeReady, Ending, LeadsToFailure
  <2>2. Leads(stepFor)
    BY <2>1, RetirementRoute, WaitsLead DEF WaitsToStop, ComputeGone
  <2>3. stepFor["running"] = "rep.stopped" /\ stepFor["stopping"] = "rep.stopped"
    BY DEF WaitsToStop, Waits, ProviderStates
  <2> HIDE DEF stepFor
  <2> QED BY <1>6, <2>1, <2>2, <2>3, StopRuntimeKeepsUsage DEF ReplaceStopsRuntime, stepFor
<1>7. CASE ReplaceWaitsForStop
  <2>1. Working /\ wf.pc = "rep.stopped" /\ LeadsToFailure("fail") /\ ComputeGone("stopped")
    BY <1>7, RetirementRoute
       DEF ReplaceWaitsForStop, Working, Ended, LeadsToFailure, ComputeGone
  <2> QED BY <1>7, <2>1, RetirementRoute, PollKeepsUsage DEF ReplaceWaitsForStop
<1>8. CASE ReplaceClosesUsage
  <2>1. /\ Working /\ wf.pc = "rep.close" /\ Unasked("rep.verify") /\ Unasked("fail")
        /\ Onward(wf.pc, "fail")
    BY <1>8, RetirementRoute DEF ReplaceClosesUsage, Working, Ended, Unasked, Ending
  <2>2. CASE wf' = To("fail") /\ UNCHANGED <<db, cloud, crashes, faults>>
    BY <2>1, <2>2, ToFrame, QuietKeepsUsage
  <2>3. CASE closeComputeUsageForProviderOutcome("rep.verify")
    BY <2>1, <2>3, CloseKeepsUsage
  <2> QED BY <1>8, <2>2, <2>3 DEF ReplaceClosesUsage
<1>9. CASE ReplaceVerifiesVolume
  <2> DEFINE p == IF wf.obs = "terminated" THEN "rep.detached" ELSE "rep.retire"
  <2>1. p \in {"rep.detached", "rep.retire"}
    OBVIOUS
  <2> HIDE DEF p
  <2>2. /\ Working /\ wf.pc = "rep.verify" /\ Onward(wf.pc, p) /\ Onward(wf.pc, "fail")
        /\ Unasked(p) /\ Unasked("fail")
    BY <1>9, <2>1, RetirementRoute DEF ReplaceVerifiesVolume, Working, Ended, Unasked, Ending
  <2>3. UsageFrame(To(p)) /\ UsageFrame(To("fail"))
    BY <2>2, ToFrame
  <2> QED BY <1>9, <2>3, CheckKeepsUsage DEF ReplaceVerifiesVolume, p
<1>10. CASE ReplaceRetiresRuntime
  BY <1>10, RetireRuntimeKeepsUsage DEF ReplaceRetiresRuntime
<1>11. CASE ReplaceWaitsForTermination
  <2>1. Working /\ wf.pc = "rep.retired" /\ LeadsToFailure("fail")
    BY <1>11, RetirementRoute DEF ReplaceWaitsForTermination, Working, Ended, LeadsToFailure
  <2> QED BY <1>11, <2>1, RetirementRoute, PollKeepsUsage DEF ReplaceWaitsForTermination
<1>12. CASE ReplaceWaitsForDetachment
  <2>1. PICK p \in {"rep.switch", "fail"} : wf' = To(p)
    BY <1>12 DEF ReplaceWaitsForDetachment
  <2>2. Working /\ Onward(wf.pc, p) /\ Unasked(p) /\ UNCHANGED <<db, cloud, crashes>>
    BY <1>12, RetirementRoute DEF ReplaceWaitsForDetachment, Working, Ended, Unasked, Ending
  <2> QED BY <2>1, <2>2, ToFrame, QuietKeepsUsage
<1> QED
  BY <1>1, <1>2, <1>3, <1>4, <1>5, <1>6, <1>7, <1>8, <1>9, <1>10, <1>11, <1>12
     DEF RetirementStep

LEMMA SuccessionKeepsUsage ==
    ASSUME Inv, UsageInv, SuccessionStep
    PROVE  UsageInv'
<1>1. CASE ReplaceEnsuresRuntime
  BY <1>1, EnsureRuntimeKeepsUsage DEF ReplaceEnsuresRuntime
<1>2. CASE ReplaceProvisions
  <2> DEFINE can == CanProvision(wf.rt, wf.subject, wf.at)
             next == Provision(wf.rt, wf.subject, wf.at)
  <2>1. /\ Working /\ wf.pc = "rep.provision" /\ Onward(wf.pc, "fail") /\ Unasked("fail")
    BY <1>2, SuccessionRoute DEF ReplaceProvisions, Working, Ended, Unasked, Ending
  <2>2. can => ValidRuntime(wf.rt)
    BY GuardsNeedValidity
  <2>3. can => /\ next.updatedAt \in {wf.at, crashes}
               /\ Saves(wf.pc, next.status, "rep.attach")
    BY <2>1, <2>2, TransitionFacts, SavesTable
  <2> HIDE DEF can, next
  <2> QED BY <1>2, <2>1, <2>3, PersistOnward DEF ReplaceProvisions, can, next
<1>3. CASE ReplaceAttachesVolume
  BY <1>3, AttachKeepsUsage DEF ReplaceAttachesVolume
<1>4. CASE ReplaceBeginsStart
  <2>1. /\ Working /\ wf.pc = "rep.start" /\ Onward(wf.pc, "fail") /\ Unasked("fail")
    BY <1>4, SuccessionRoute DEF ReplaceBeginsStart, Working, Ended, Unasked, Ending
  <2>2. CanBeginStart(wf.rt, wf.at) => ValidRuntime(wf.rt)
    BY GuardsNeedValidity
  <2>3. CanBeginStart(wf.rt, wf.at) =>
           /\ BeginStart(wf.rt, wf.at).updatedAt \in {wf.at, crashes}
           /\ Saves(wf.pc, BeginStart(wf.rt, wf.at).status, "rep.open")
    BY <2>1, <2>2, TransitionFacts, SavesTable
  <2> QED BY <1>4, <2>1, <2>3, PersistOnward DEF ReplaceBeginsStart
<1>5. CASE ReplaceOpensUsage
  <2> DEFINE p == WaitsToRun("rep.guest", "rep.wait", "rep.outcome")[wf.obs]
             opened == [wf EXCEPT !.usage = wf.op, !.pc = p]
             conflict == [wf EXCEPT !.pc = "rep.error", !.at = Now]
  <2>1. wf.pc = "rep.open" /\ wf \in Frame /\ wf.obs \in {"pending", "running"}
    BY <1>5 DEF ReplaceOpensUsage, UsageInv, UsageFrame, ObservedFrame, Inv, TypeOK
  <2>2. p \in {"rep.guest", "rep.wait"}
    BY <2>1 DEF WaitsToRun, Waits, ProviderStates
  <2> HIDE DEF p
  <2>3. /\ opened.pc = p /\ opened.op = wf.op /\ opened.usage = wf.op
        /\ opened.rt = wf.rt /\ opened.at = wf.at
    BY <2>1 DEF Frame
  <2>4. Follows(conflict, "rep.error", wf.obs, crashes)
    BY DatedFollows
  <2>5. OpenComputeUsageInterval(opened, conflict)
    BY <1>5 DEF ReplaceOpensUsage, p
  <2> HIDE DEF opened, conflict
  <2> QED BY <2>1, <2>2, <2>3, <2>4, <2>5, OpenKeepsUsage DEF Follows, Metered
<1>6. CASE ReplaceWaitsForRunning
  <2>1. Working /\ wf.pc = "rep.wait" /\ LeadsToFailure("rep.outcome")
    BY <1>6, SuccessionRoute DEF ReplaceWaitsForRunning, Working, Ended, LeadsToFailure
  <2> QED BY <1>6, <2>1, SuccessionRoute, PollKeepsUsage DEF ReplaceWaitsForRunning
<1>7. CASE ReplaceProviderOutcome
  <2>1. wf.pc = "rep.outcome" /\ Onward(wf.pc, "rep.error") /\ Unasked("rep.error")
    BY <1>7, SuccessionRoute DEF ReplaceProviderOutcome, Unasked, Ending
  <2> QED BY <1>7, <2>1, CloseKeepsUsage DEF ReplaceProviderOutcome
<1>8. CASE ReplaceReachesGuest
  <2>1. /\ Working /\ wf.pc = "rep.guest" /\ wf.subject = current
        /\ UNCHANGED <<db, cloud, crashes>>
    BY <1>8, WorkingFacts DEF ReplaceReachesGuest, Working, Ended
  <2>2. CASE GuestServes(wf.subject) /\ wf' = [wf EXCEPT !.pc = "rep.ready", !.at = Now]
    <3>1. Follows(wf', "rep.ready", wf.obs, crashes)
      BY <2>2, DatedFollows
    <3> QED BY <2>1, <2>2, <3>1, ServedFrame, QuietKeepsUsage
  <2>3. CASE wf' = [wf EXCEPT !.pc = "rep.error", !.at = Now]
    <3>1. Follows(wf', "rep.error", wf.obs, crashes) /\ Unasked("rep.error")
      BY <2>3, DatedFollows DEF Unasked, Ending
    <3>2. ObservedFrame(wf')
      BY <3>1, UnaskedFrame DEF Follows
    <3>3. UsageFrame(wf')
      BY <2>1, <3>1, <3>2, SuccessionRoute, OnwardFrame
    <3> QED BY <2>1, <3>3, QuietKeepsUsage
  <2> QED BY <1>8, <2>2, <2>3 DEF ReplaceReachesGuest
<1>9. CASE ReplaceMarksReady
  <2> DEFINE can == CanMarkReady(wf.rt, wf.rt.provider, wf.rt.version, wf.at)
             next == MarkReady(wf.rt, wf.subject, wf.subject, wf.at)
  <2>1. /\ Working /\ wf.pc = "rep.ready" /\ Onward(wf.pc, "fail") /\ Unasked("fail")
    BY <1>9, SuccessionRoute DEF ReplaceMarksReady, Working, Ended, Unasked, Ending
  <2>2. can => ValidRuntime(wf.rt)
    BY GuardsNeedValidity
  <2>3. can => /\ next.updatedAt \in {wf.at, crashes}
               /\ Saves(wf.pc, next.status, "rep.resume")
    BY <2>1, <2>2, TransitionFacts, SavesTable
  <2> HIDE DEF can, next
  <2> QED BY <1>9, <2>1, <2>3, PersistOnward DEF ReplaceMarksReady, can, next
<1>10. CASE ReplaceResumesAutoStop
  BY <1>10, ResumeKeepsUsage DEF ReplaceResumesAutoStop
<1>11. CASE ReplaceMarksError
  BY <1>11, ErrorKeepsUsage DEF ReplaceMarksError
<1> QED
  BY <1>1, <1>2, <1>3, <1>4, <1>5, <1>6, <1>7, <1>8, <1>9, <1>10, <1>11
     DEF SuccessionStep

-----------------------------------------------------------------------------
(* The invariant and what follows from it. *)

LEMMA WorkflowKeepsUsage ==
    ASSUME Inv, UsageInv, WorkflowStep
    PROVE  UsageInv'
<1>1. CASE LoadRuntimeOperation
  BY <1>1, LoadKeepsUsage
<1>2. CASE StartStep
  BY <1>2, StartKeepsUsage
<1>3. CASE StopStep
  BY <1>3, StopKeepsUsage
<1>4. CASE ReplaceStep
  BY <1>4, RetirementKeepsUsage, SuccessionKeepsUsage, SwitchKeepsUsage
     DEF ReplaceStep, RetirementStep, SuccessionStep
<1>5. CASE ProviderOutcome
  <2>1. wf.pc = "outcome" /\ Onward(wf.pc, "error") /\ Unasked("error")
    BY <1>5, StartRoute DEF ProviderOutcome, Unasked, Ending
  <2> QED BY <1>5, <2>1, CloseKeepsUsage DEF ProviderOutcome
<1>6. CASE MarkErrorAndFail
  BY <1>6, ErrorKeepsUsage DEF MarkErrorAndFail, Now
<1>7. CASE FailOperation \/ CompleteOperation \/ AbandonOperation
  BY <1>7, EndKeepsUsage
<1> QED
  BY <1>1, <1>2, <1>3, <1>4, <1>5, <1>6, <1>7 DEF WorkflowStep

LEMMA NextUsage == Inv /\ UsageInv /\ [Next]_vars => UsageInv'
<1> SUFFICES ASSUME Inv, UsageInv, [Next]_vars PROVE UsageInv'
  OBVIOUS
<1>1. CASE UNCHANGED vars
  BY <1>1, QuietKeepsUsage DEF vars, UsageInv
<1>2. CASE Next
  BY <1>2, ReserveKeepsUsage, WorkflowKeepsUsage, ProviderKeepsUsage DEF Next
<1> QED BY <1>1, <1>2

(* The usage invariant holds in every state of every behaviour of the      *)
(* workflows: rows, journal, intervals and provider agree at every step.   *)
THEOREM UsageInvariance == Spec => [](Inv /\ UsageInv)
<1>1. Init => Inv /\ UsageInv
  BY InitInv, InitUsage
<1>2. Inv /\ UsageInv /\ [Next]_vars => (Inv /\ UsageInv)'
  BY NextInv, NextUsage
<1> QED BY <1>1, <1>2, PTL DEF Spec
(* A Runtime published as ready is metered and, unless the provider        *)
(* drifts, served; and every open interval is of the current Runtime,      *)
(* however start, stop and replace crash, fail and are replayed.           *)
THEOREM UsageIsFollowed == Spec => []UsageFollowsRuntime
<1>1. Inv /\ UsageInv => UsageFollowsRuntime
  <2> SUFFICES ASSUME Inv, UsageInv PROVE UsageFollowsRuntime
    OBVIOUS
  <2>1. /\ \A r \in Runtimes : Routed(r) => r = current
        /\ Row.status = "ready" => OpenIntervals # {} /\ (drifts = 0 => GuestServes(current))
        /\ \A i \in OpenIntervals : usage[i].runtime = current
    BY DEF UsageInv, UsageRows, ReadyRows, MeterRows
  <2>2. OpenIntervals # {} => IntervalOf(current) # None
    <3>1. {i \in OpenIntervals : usage[i].runtime = current} = OpenIntervals
      BY <2>1
    <3>2. OpenIntervals # {} => IntervalOf(current) \in OpenIntervals
      BY <3>1 DEF IntervalOf
    <3>3. OpenIntervals \subseteq Nat
      BY DEF OpenIntervals, Inv, TypeOK, Operations
    <3> QED BY <3>2, <3>3, NoneAssumption
  <2> QED BY <2>1, <2>2 DEF UsageFollowsRuntime, Routed, Row
<1> QED BY <1>1, UsageInvariance, PTL

(* Unless a process dies, a workflow that has returned has recorded the    *)
(* end of its Operation and has resumed Auto-stop of a ready Runtime, on   *)
(* every path of start, stop and replace.                                  *)
THEOREM LeavesNothing == Spec => []NothingIsLeftBehind
<1>1. Inv /\ UsageInv => NothingIsLeftBehind
  BY DEF UsageInv, UsageFrame, CalmFrame, Resuming, NothingIsLeftBehind, Row
<1> QED BY <1>1, UsageInvariance, PTL

-----------------------------------------------------------------------------
(* The end of usage. *)

EndsWithCompute ==
    drifts = 0 => \A i \in DOMAIN usage :
        usage[i].status = "open" /\ usage'[i].status = "closed" =>
            instance[usage[i].runtime] \in {"stopped", "terminated"}

LEMMA UnmeteredStep == UNCHANGED usage => EndsWithCompute
BY DEF EndsWithCompute

LEMMA OpeningStep ==
    ASSUME Inv, wf.pc # "idle", NEW opened, NEW conflict,
           OpenComputeUsageInterval(opened, conflict)
    PROVE  EndsWithCompute
<1>1. usage \in [Operations \cup {0} -> UsageRow] /\ wf.op \in Operations
  BY DEF Inv, TypeOK, SubjectIsCurrent
<1>2. \/ UNCHANGED usage
      \/ usage' = [usage EXCEPT ![wf.op] = [runtime |-> wf.subject, status |-> "open"]]
  BY DEF OpenComputeUsageInterval
<1> QED BY <1>1, <1>2 DEF EndsWithCompute

LEMMA ClosingStep ==
    ASSUME Inv, UsageInv, wf.pc \in Ending, NEW p, closeComputeUsageForProviderOutcome(p)
    PROVE  EndsWithCompute
<1>1. CASE UNCHANGED db
  BY <1>1, UnmeteredStep DEF db
<1>2. CASE /\ ComputeGone(wf.obs) /\ wf.usage # None
           /\ usage' = [usage EXCEPT ![wf.usage].status = "closed"]
  <2>1. Working
    BY DEF Working, Ended, Ending
  <2>2. wf.subject = current /\ usage \in [Operations \cup {0} -> UsageRow]
    BY <2>1, WorkingFacts DEF Inv, TypeOK
  <2>3. drifts = 0 => instance[current] \in {"stopped", "terminated"}
    BY <1>2, <2>1, <2>2
       DEF ComputeGone, UsageInv, UsageFrame, ObservedFrame, Inv, JournalIsTrue, Working, Ending
  <2>4. \A i \in DOMAIN usage : usage[i].status = "open" => usage[i].runtime = current
    BY DEF UsageInv, UsageRows, MeterRows, OpenIntervals
  <2> QED BY <2>3, <2>4 DEF EndsWithCompute
<1> QED
  BY <1>1, <1>2 DEF closeComputeUsageForProviderOutcome, CloseComputeUsageInterval,
                    ClosesInterval, RefusesClosing

LEMMA CallsKeepUsage ==
    ASSUME NEW x, NEW y, NEW z
    PROVE  /\ CallFails(x, y) => UNCHANGED usage
           /\ CallSettles(x, y) => UNCHANGED usage
           /\ \A seen : CallMoves(x, y, seen, z) => UNCHANGED usage
           /\ ObserveRuntime(x, y) => UNCHANGED usage
           /\ Check(x, y) => UNCHANGED usage
           /\ SuppressAutoStop(x) => UNCHANGED usage
           /\ ResumeAutoStop(x) => UNCHANGED usage
           /\ \A refused : Persist(x, y, z, refused) => UNCHANGED usage
<1>1. /\ CallFails(x, y) => UNCHANGED usage
      /\ CallSettles(x, y) => UNCHANGED usage
      /\ \A seen : CallMoves(x, y, seen, z) => UNCHANGED usage
  BY DEF CallFails, CallSettles, CallMoves, db
<1>2. /\ ObserveRuntime(x, y) => UNCHANGED usage
      /\ Check(x, y) => UNCHANGED usage
  BY DEF ObserveRuntime, Check, db
<1>3. /\ SuppressAutoStop(x) => UNCHANGED usage
      /\ ResumeAutoStop(x) => UNCHANGED usage
  BY DEF SuppressAutoStop, ResumeAutoStop
<1>4. \A refused : Persist(x, y, z, refused) => UNCHANGED usage
  BY DEF Persist
<1> QED BY <1>1, <1>2, <1>3, <1>4

LEMMA StartEndsUsage ==
    ASSUME Inv, UsageInv, StartStep
    PROVE  EndsWithCompute
<1>1. CASE StartClosesStaleUsage
  BY <1>1, ClosingStep DEF StartClosesStaleUsage, Ending
<1>2. CASE StartOpensUsage
  BY <1>2, OpeningStep DEF StartOpensUsage
<1>3. CASE StartObserves \/ StartChecks \/ StartWaits \/ StartReachesGuest
  BY <1>3, CallsKeepUsage, UnmeteredStep
     DEF StartObserves, StartChecks, StartWaits, StartReachesGuest, Poll
<1>4. CASE StartBegins \/ StartMarksReady \/ StartResumesAutoStop
  BY <1>4, CallsKeepUsage, UnmeteredStep DEF StartBegins, StartMarksReady, StartResumesAutoStop
<1>5. CASE StartCallsProvider
  BY <1>5, CallsKeepUsage, UnmeteredStep DEF StartCallsProvider, StartRuntime
<1> QED BY <1>1, <1>2, <1>3, <1>4, <1>5 DEF StartStep

LEMMA StopEndsUsage ==
    ASSUME Inv, UsageInv, StopStep
    PROVE  EndsWithCompute
<1>1. CASE StopClosesUsage
  BY <1>1, ClosingStep DEF StopClosesUsage, Ending
<1>2. CASE StopObserves \/ StopWaits \/ StopVerifiesVolume
  BY <1>2, CallsKeepUsage, UnmeteredStep
     DEF StopObserves, StopWaits, StopVerifiesVolume, Poll
<1>3. CASE StopPrepares
  BY <1>3, UnmeteredStep DEF StopPrepares, db
<1>4. CASE \/ StopSuppressesAutoStop \/ StopBegins \/ StopResumesAutoStop
           \/ StopMarksStopped
  BY <1>4, CallsKeepUsage, UnmeteredStep
     DEF StopSuppressesAutoStop, StopBegins, StopResumesAutoStop, StopMarksStopped
<1>5. CASE StopCallsProvider
  BY <1>5, CallsKeepUsage, UnmeteredStep DEF StopCallsProvider, StopRuntime
<1> QED BY <1>1, <1>2, <1>3, <1>4, <1>5 DEF StopStep

LEMMA ReplaceEndsUsage ==
    ASSUME Inv, UsageInv, ReplaceStep
    PROVE  EndsWithCompute
<1>1. CASE ReplaceClosesUsage
  <2>1. wf.pc \in Ending
    BY <1>1 DEF ReplaceClosesUsage, Ending
  <2> QED BY <1>1, <2>1, ClosingStep, UnmeteredStep DEF ReplaceClosesUsage, db
<1>2. CASE ReplaceProviderOutcome
  BY <1>2, ClosingStep DEF ReplaceProviderOutcome, Ending
<1>3. CASE ReplaceOpensUsage
  BY <1>3, OpeningStep DEF ReplaceOpensUsage
<1>4. CASE \/ ReplaceResolvesImage \/ ReplaceObserves \/ ReplaceWaitsForPending
           \/ ReplaceWaitsForStop \/ ReplaceVerifiesVolume \/ ReplaceWaitsForTermination
           \/ ReplaceWaitsForRunning
  BY <1>4, CallsKeepUsage, UnmeteredStep
     DEF ReplaceResolvesImage, ReplaceObserves, ReplaceWaitsForPending, Poll,
         ReplaceWaitsForStop, ReplaceVerifiesVolume, ReplaceWaitsForTermination,
         ReplaceWaitsForRunning
<1>5. CASE \/ ReplaceBegins \/ ReplaceSuppressesAutoStop \/ ReplaceProvisions
           \/ ReplaceBeginsStart \/ ReplaceMarksReady \/ ReplaceResumesAutoStop
           \/ ReplaceMarksError
  BY <1>5, CallsKeepUsage, UnmeteredStep
     DEF ReplaceBegins, ReplaceSuppressesAutoStop, ReplaceProvisions, ReplaceBeginsStart,
         ReplaceMarksReady, ReplaceResumesAutoStop, ReplaceMarksError
<1>6. CASE ReplaceStopsRuntime \/ ReplaceRetiresRuntime \/ ReplaceEnsuresRuntime
  BY <1>6, CallsKeepUsage, UnmeteredStep
     DEF ReplaceStopsRuntime, ReplaceRetiresRuntime, ReplaceEnsuresRuntime, StopRuntime,
         RetireRuntime, EnsureRuntime, db
<1>7. CASE \/ ReplaceAttachesVolume \/ ReplaceWaitsForDetachment \/ ReplaceSwitchesRuntime
           \/ ReplaceReachesGuest
  BY <1>7, CallsKeepUsage, UnmeteredStep
     DEF ReplaceAttachesVolume, ReplaceWaitsForDetachment, ReplaceSwitchesRuntime,
         ReplaceReachesGuest, EnsureRuntimeDataVolumeAttachment, db
<1> QED BY <1>1, <1>2, <1>3, <1>4, <1>5, <1>6, <1>7 DEF ReplaceStep

LEMMA NextEndsUsage == Inv /\ UsageInv /\ [Next]_vars => EndsWithCompute
<1> SUFFICES ASSUME Inv, UsageInv, [Next]_vars PROVE EndsWithCompute
  OBVIOUS
<1>1. CASE UNCHANGED vars
  BY <1>1, UnmeteredStep DEF vars, db
<1>2. ASSUME NEW o \in Operations, NEW type \in OperationTypes, ReserveRuntimeOperation(o, type)
      PROVE  EndsWithCompute
  BY <1>2, UnmeteredStep DEF ReserveRuntimeOperation
<1>3. CASE LoadRuntimeOperation
  BY <1>3, UnmeteredStep DEF LoadRuntimeOperation
<1>4. CASE StartStep \/ StopStep \/ ReplaceStep
  BY <1>4, StartEndsUsage, StopEndsUsage, ReplaceEndsUsage
<1>5. CASE ProviderOutcome
  BY <1>5, ClosingStep DEF ProviderOutcome, Ending
<1>6. CASE MarkErrorAndFail \/ FailOperation \/ CompleteOperation \/ AbandonOperation
  BY <1>6, CallsKeepUsage, UnmeteredStep
     DEF MarkErrorAndFail, FailOperation, CompleteOperation, FinishOperation,
         AbandonOperation, db
<1>7. ASSUME NEW r \in Runtimes, ProviderStep(r) \/ InstanceDrifts(r)
      PROVE  EndsWithCompute
  BY <1>7, UnmeteredStep DEF ProviderStep, InstanceSettles, VolumeDetaches, InstanceDrifts, db
<1> QED
  BY <1>1, <1>2, <1>3, <1>4, <1>5, <1>6, <1>7 DEF Next, WorkflowStep

(* Unless the provider drifts, an interval is closed only while the        *)
(* instance of its Runtime is stopped or terminated, however old the       *)
(* observation is on which closeComputeUsageForProviderOutcome acts.       *)
THEOREM UsageEndsTruly == Spec => UsageEndsWithCompute
<1>1. Inv /\ UsageInv /\ [Next]_vars => [EndsWithCompute]_vars
  BY NextEndsUsage
<1> QED BY <1>1, UsageInvariance, PTL DEF Spec, UsageEndsWithCompute, EndsWithCompute
=============================================================================
