------------------------- MODULE EnvironmentProofs -------------------------
(***************************************************************************)
(* Proofs about how an Environment is made (EnvironmentCreate) and about   *)
(* the Capsules it is made from (CapsuleStore): for any requests, losses,  *)
(* crashes and faults, and for any Owners, publishers, loads, Capsules,    *)
(* layers and parallelism.                                                 *)
(***************************************************************************)
EXTENDS EnvironmentCreate, CapsuleStore, FiniteSetTheorems, WellFoundedInduction, TLAPS

-----------------------------------------------------------------------------
(* The creation of an Environment: its inductive invariant.                *)

(* What an Environment has when its workflow is at a step: the steps after *)
(* the one that gets it.                                                   *)
IsReady == {"complete"}
HasLock == IsReady \cup {"persist-ready", "bind-credentials"}
HasMaterial == HasLock \cup {"persist-capsule-state"}
HasSeed == HasMaterial \cup {"materialize", "resolve-version"}
HasIdentity == HasSeed \cup {"apply-seed"}
IsAttached == HasIdentity \cup {"prepare-guest", "persist-starting"}
HasProvider == IsAttached \cup {"ensure-attachment"}
HasInstance == HasProvider \cup {"persist-provisioning"}
HasRuntime == HasInstance \cup {"ensure-runtime-provider"}
HasInventory == HasRuntime \cup {"reserve-initial-runtime"}
HasVolume == HasInventory \cup {"inventory-data-volume"}
BeforeRuntime == {"none", "record-invocation", "ensure-data-volume", "inventory-data-volume",
                  "reserve-initial-runtime"}

RequestRow ==
    [pc : {"unsent", "dispatch", "answered", "refused", "lost"}, key : Keys \cup {None},
     input : Inputs \cup {None}, op : Operations \cup {None}]
OperationRow ==
    [kind : {"none", "create", "runtime"}, key : Keys \cup {None}, input : Inputs \cup {None},
     status : {"none", "queued", "succeeded", "failed", "blocked"}]
EnvironmentRow ==
    [lifecycle : {"none", "creating", "active"}, volume : {0, None}, runtime : BOOLEAN, lock : Nat]
FlowRow ==
    [pc : Steps \cup {"none", "succeeded", "failed"}, attempt : Nat,
     current : RuntimeSnapshot \cup {None}, volume : {0, None}, ref : {0, None},
     lock : Nat, outcome : {"none", "failed", "blocked"}]
CloudRow == [volumes : SUBSET {0}, instances : SUBSET {0}, attached : BOOLEAN]
GuestRow == [identity : BOOLEAN, seed : Seeds \cup {None}, lock : Nat, whole : BOOLEAN]

CreateTyped ==
    /\ requests \in [Requests -> RequestRow]
    /\ operations \in [Operations -> OperationRow]
    /\ environments \in [Operations -> EnvironmentRow]
    /\ runtimes \in [Operations -> RuntimeSnapshot \cup {None}]
    /\ flows \in [Operations -> FlowRow]
    /\ cloud \in [Operations -> CloudRow]
    /\ guests \in [Operations -> GuestRow]

(* Only a creation has anything.                                           *)
KindFits(x, r, f) ==
    /\ x.kind = "none" => x.key = None /\ x.status = "none" /\ f.pc = "none"
    /\ x.kind = "runtime" => x.status \in {"queued", "succeeded"}
    /\ x.kind = "create" => x.input \in Inputs
    /\ x.kind # "create" =>
          /\ f.pc \in {"none", "record-invocation", "record-outcome"}
          /\ f.current = None /\ r = None

(* What the steps before the present one left is still there.              *)
StepsLast(x, e, r, f, c, g) ==
    /\ f.pc \in HasVolume => c.volumes = {0} /\ f.volume = 0
    /\ f.pc \in HasInventory => e.volume = 0
    /\ f.pc \in BeforeRuntime => f.current = None
    /\ f.pc \in HasRuntime => f.current \in RuntimeSnapshot
    /\ f.pc \in HasRuntime \/ f.current # None => e.runtime
    /\ f.pc \in HasInstance => c.instances = {0} /\ f.ref = 0
    /\ f.pc \in HasProvider => f.current.provider = 0
    /\ f.pc \in IsAttached => c.attached
    /\ f.pc \in HasIdentity => g.identity
    /\ f.pc \in HasSeed => g.seed = x.input.seed
    /\ f.pc \in HasMaterial => g.lock = f.lock /\ g.whole
    /\ f.pc \in HasLock => e.lock = f.lock
    /\ f.pc \in IsReady => r.status = "ready" /\ r.provider = 0

IsWhole(x, e, r, c, g) ==
    /\ r.status = "ready" /\ c.attached /\ c.instances = {r.provider} /\ c.volumes = {e.volume}
    /\ g.identity /\ g.seed = x.input.seed /\ g.lock = e.lock /\ g.whole

(* An Operation ends at the end of its workflow.                           *)
StatusFits(x, e, r, f, c, g) ==
    x.kind = "create" =>
      /\ x.status \in {"queued", "succeeded", "failed", "blocked"}
      /\ e.lifecycle = "active" <=> x.status = "succeeded"
      /\ x.status = "succeeded" =>
            /\ f.pc \in {"complete", "succeeded", "mark-error", "record-outcome", "failed"}
            /\ IsWhole(x, e, r, c, g)
      /\ x.status \in {"failed", "blocked"} => f.pc \in {"record-outcome", "failed"}
      /\ x.status = "failed" => f.outcome = "failed"
      /\ f.pc \in {"mark-error", "record-outcome"} => f.outcome \in {"failed", "blocked"}

(* Until a process dies the workflow holds the Runtime that is stored, and *)
(* it marks the one it gives up.                                           *)
RuntimeIsHeld(x, r, f) ==
    /\ f.pc = "mark-error" =>
          f.current \in RuntimeSnapshot /\ f.current # None /\ f.outcome = "failed"
    /\ x.kind = "create" /\ f.attempt = 0 =>
      /\ f.pc \notin {"record-outcome", "failed"} /\ x.status = "queued" => r = f.current
      /\ /\ f.pc \in {"record-outcome", "failed"} /\ f.outcome = "failed"
         /\ x.status \in {"queued", "failed"}
         => r = None \/ r.status = "error"

CreationRow(x, e, r, f, c, g) ==
    /\ KindFits(x, r, f) /\ StepsLast(x, e, r, f, c, g)
    /\ StatusFits(x, e, r, f, c, g) /\ RuntimeIsHeld(x, r, f)

Creation(o) ==
    CreationRow(operations[o], environments[o], runtimes[o], flows[o], cloud[o], guests[o])

RequestsFit ==
    \A q \in Requests : requests[q].pc = "dispatch" =>
        requests[q].op \in Operations /\ operations[requests[q].op].kind # "none"

CreateInv == CreateTyped /\ RequestsFit /\ \A o \in Operations : Creation(o)

-----------------------------------------------------------------------------
(* A creation's own rows.                                                  *)

LEMMA SmallestExists ==
    ASSUME NEW S \in SUBSET Operations, S # {}
    PROVE  Least(S) \in S /\ \A p \in S : Least(S) <= p
<1>1. S \subseteq Nat
  BY DEF Operations
<1>2. PICK x \in S : \A y \in S : ~(<<y, x>> \in OpToRel(<, Nat))
  BY <1>1, NatLessThanWellFounded, WFMin
<1>3. \A y \in S : ~(y < x)
  BY <1>1, <1>2 DEF OpToRel
<1>4. \A y \in S : x <= y
  BY <1>1, <1>3
<1> QED BY <1>4 DEF Least

(* A step touches the rows of one creation.                                *)
OthersStay(o) ==
    \A p \in Operations \ {o} :
        /\ operations'[p] = operations[p] /\ environments'[p] = environments[p]
        /\ runtimes'[p] = runtimes[p] /\ flows'[p] = flows[p]
        /\ cloud'[p] = cloud[p] /\ guests'[p] = guests[p]

LEMMA OthersAreKept ==
    ASSUME CreateInv, NEW o \in Operations, OthersStay(o), Creation(o)'
    PROVE  \A p \in Operations : Creation(p)'
<1> SUFFICES ASSUME NEW p \in Operations, p # o PROVE Creation(p)'
  OBVIOUS
<1>1. Creation(p)
  BY DEF CreateInv
<1> QED BY <1>1 DEF OthersStay, Creation

(* Requests that were answered stay so while no Operation is lost.         *)
LEMMA RequestsStay ==
    ASSUME CreateInv, UNCHANGED requests,
           \A o \in Operations : operations[o].kind # "none" => operations'[o].kind # "none"
    PROVE  RequestsFit'
BY DEF CreateInv, RequestsFit

LEMMA JournalIs ==
    ASSUME CreateTyped, NEW o \in Operations, NEW f \in FlowRow, Journal(o, f)
    PROVE  /\ flows' \in [Operations -> FlowRow]
           /\ \A p \in Operations \ {o} : flows'[p] = flows[p]
           /\ flows'[o] = f \/ flows'[o] = [flows[o] EXCEPT !.attempt = @ + 1]
<1>1. flows \in [Operations -> FlowRow] /\ flows[o] \in FlowRow
  BY DEF CreateTyped
<1>2. CASE flows' = [flows EXCEPT ![o] = f]
  BY <1>1, <1>2
<1>3. CASE flows' = [flows EXCEPT ![o].attempt = @ + 1]
  <2>1. [flows[o] EXCEPT !.attempt = @ + 1] \in FlowRow
    BY <1>1 DEF FlowRow
  <2>2. flows' = [flows EXCEPT ![o] = [flows[o] EXCEPT !.attempt = @ + 1]]
    BY <1>1, <1>3
  <2> QED BY <1>1, <2>1, <2>2
<1> QED BY <1>2, <1>3 DEF Journal

(* The rows of a creation, for reading.                                    *)
LEMMA RowsAre ==
    ASSUME CreateInv, NEW o \in Operations
    PROVE  /\ CreateTyped /\ Creation(o)
           /\ operations[o] \in OperationRow /\ environments[o] \in EnvironmentRow
           /\ flows[o] \in FlowRow /\ cloud[o] \in CloudRow /\ guests[o] \in GuestRow
           /\ runtimes[o] \in RuntimeSnapshot \cup {None}
BY DEF CreateInv, CreateTyped

(* A step of a workflow changes the rows of its Environment only.          *)
RowsOnly(o) ==
    /\ operations' \in [Operations -> OperationRow]
    /\ environments' \in [Operations -> EnvironmentRow]
    /\ runtimes' \in [Operations -> RuntimeSnapshot \cup {None}]
    /\ cloud' \in [Operations -> CloudRow] /\ guests' \in [Operations -> GuestRow]
    /\ \A p \in Operations \ {o} :
        /\ operations'[p] = operations[p] /\ environments'[p] = environments[p]
        /\ runtimes'[p] = runtimes[p] /\ cloud'[p] = cloud[p] /\ guests'[p] = guests[p]
    /\ operations'[o].kind = operations[o].kind /\ UNCHANGED requests

(* What it leaves fits the next step and, after a crash, its repetition.   *)
Leaves(o, f) ==
    CreationRow(operations'[o], environments'[o], runtimes'[o], f, cloud'[o], guests'[o])
Again(o) == [flows[o] EXCEPT !.attempt = @ + 1]

LEMMA StepKeeps ==
    ASSUME CreateInv, NEW o \in Operations, RowsOnly(o),
           flows' \in [Operations -> FlowRow],
           \A p \in Operations \ {o} : flows'[p] = flows[p], Leaves(o, flows'[o])
    PROVE  CreateInv'
<1>1. CreateTyped' /\ OthersStay(o)
  BY DEF CreateInv, CreateTyped, OthersStay, RowsOnly
<1>2. Creation(o)'
  BY DEF Creation, Leaves
<1>3. \A p \in Operations : operations'[p].kind = operations[p].kind
  BY DEF RowsOnly
<1>4. RequestsFit'
  BY <1>3, RequestsStay DEF RowsOnly
<1> QED BY <1>1, <1>2, <1>4, OthersAreKept DEF CreateInv

LEMMA JournalKeeps ==
    ASSUME CreateInv, NEW o \in Operations, NEW f \in FlowRow, Journal(o, f), RowsOnly(o),
           Leaves(o, f), Leaves(o, Again(o))
    PROVE  CreateInv'
<1>1. /\ flows' \in [Operations -> FlowRow]
      /\ \A p \in Operations \ {o} : flows'[p] = flows[p]
      /\ flows'[o] = f \/ flows'[o] = Again(o)
  BY JournalIs DEF CreateInv, Again
<1> QED BY <1>1, StepKeeps

LEMMA NothingElse ==
    ASSUME CreateInv, NEW o \in Operations,
           UNCHANGED <<operations, environments, runtimes, cloud, guests, requests>>
    PROVE  RowsOnly(o)
BY DEF CreateInv, CreateTyped, RowsOnly

LEMMA AgainIs ==
    ASSUME NEW o \in Operations, flows[o] \in FlowRow
    PROVE  /\ Again(o) \in FlowRow /\ Again(o).attempt # 0 /\ Again(o).pc = flows[o].pc
           /\ Again(o).current = flows[o].current /\ Again(o).volume = flows[o].volume
           /\ Again(o).ref = flows[o].ref /\ Again(o).lock = flows[o].lock
           /\ Again(o).outcome = flows[o].outcome
BY DEF Again, FlowRow

(* Giving up.                                                              *)
LEMMA FailIs ==
    ASSUME NEW o \in Operations, flows[o] \in FlowRow, NEW s \in RuntimeSnapshot \cup {None}
    PROVE  LET f == failEnvironmentCreation(o, s) IN
           /\ f \in FlowRow /\ f.attempt = flows[o].attempt /\ f.outcome = "failed"
           /\ f.current = s
           /\ \/ f.pc = "mark-error" /\ s # None /\ s.status # "error"
              \/ f.pc = "record-outcome" /\ (s = None \/ s.status = "error")
<1> DEFINE step == IF s # None /\ s.status # "error" THEN "mark-error" ELSE "record-outcome"
<1>1. step \in Steps
  BY DEF Steps
<1>2. failEnvironmentCreation(o, s) = [flows[o] EXCEPT !.pc = step, !.current = s, !.outcome = "failed"]
  BY DEF failEnvironmentCreation
<1>3. \/ step = "mark-error" /\ s # None /\ s.status # "error"
      \/ step = "record-outcome" /\ (s = None \/ s.status = "error")
  BY Zenon
<1> HIDE DEF step
<1>4. /\ failEnvironmentCreation(o, s) \in FlowRow
      /\ failEnvironmentCreation(o, s).attempt = flows[o].attempt
      /\ failEnvironmentCreation(o, s).outcome = "failed"
      /\ failEnvironmentCreation(o, s).current = s
      /\ failEnvironmentCreation(o, s).pc = step
  BY <1>1, <1>2 DEF FlowRow
<1> QED BY <1>3, <1>4

LEMMA FailLeaves ==
    ASSUME CreateInv, NEW o \in Operations, UNCHANGED <<operations, environments, runtimes, cloud, guests>>,
           flows[o].pc \in Steps \ {"mark-error", "record-outcome"}
    PROVE  /\ failEnvironmentCreation(o, flows[o].current) \in FlowRow
           /\ Leaves(o, failEnvironmentCreation(o, flows[o].current))
<1> DEFINE f == failEnvironmentCreation(o, flows[o].current)
<1>1. flows[o] \in FlowRow /\ Creation(o) /\ flows[o].current \in RuntimeSnapshot \cup {None}
  BY RowsAre DEF FlowRow
<1>2. /\ f \in FlowRow /\ f.attempt = flows[o].attempt /\ f.outcome = "failed"
      /\ f.current = flows[o].current
      /\ \/ f.pc = "mark-error" /\ f.current # None /\ f.current.status # "error"
         \/ f.pc = "record-outcome" /\ (f.current = None \/ f.current.status = "error")
  BY <1>1, FailIs
<1> HIDE DEF f
<1>3. f.pc \notin HasVolume
  BY <1>2 DEF HasVolume, HasInventory, HasRuntime, HasInstance, HasProvider, IsAttached,
     HasIdentity, HasSeed, HasMaterial, HasLock, IsReady
<1>4. KindFits(operations[o], runtimes[o], f)
  BY <1>1, <1>2 DEF Creation, CreationRow, KindFits, Steps
<1>5. StepsLast(operations[o], environments[o], runtimes[o], f, cloud[o], guests[o])
  BY <1>1, <1>2, <1>3 DEF Creation, CreationRow, StepsLast, BeforeRuntime, HasVolume, HasInventory, HasRuntime,
     HasInstance, HasProvider, IsAttached, HasIdentity, HasSeed, HasMaterial, HasLock, IsReady
<1>6. StatusFits(operations[o], environments[o], runtimes[o], f, cloud[o], guests[o])
  BY <1>1, <1>2 DEF Creation, CreationRow, StatusFits, Steps
<1>7. RuntimeIsHeld(operations[o], runtimes[o], f)
  BY <1>1, <1>2 DEF Creation, CreationRow, RuntimeIsHeld, StatusFits, Steps
<1> QED BY <1>2, <1>4, <1>5, <1>6, <1>7 DEF f, Leaves, CreationRow

LEMMA FailKeeps ==
    ASSUME CreateInv, NEW o \in Operations,
           UNCHANGED <<operations, environments, runtimes, cloud, guests, requests>>,
           flows[o].pc \in Steps \ {"mark-error", "record-outcome"},
           flows' = [flows EXCEPT ![o] = failEnvironmentCreation(o, flows[o].current)]
    PROVE  CreateInv'
<1>1. PICK f \in FlowRow : f = failEnvironmentCreation(o, flows[o].current) /\ Leaves(o, f)
  BY FailLeaves
<1>2. /\ flows' \in [Operations -> FlowRow] /\ flows'[o] = f
      /\ \A p \in Operations \ {o} : flows'[p] = flows[p]
  BY <1>1 DEF CreateInv, CreateTyped
<1> QED BY <1>1, <1>2, NothingElse, StepKeeps

LEMMA StepFailsKeeps ==
    ASSUME CreateInv, NEW o \in Operations, StepFails(o)
    PROVE  CreateInv'
BY FailKeeps DEF StepFails, unchangedOutside

USE DEF BeforeRuntime, HasVolume, HasInventory, HasRuntime, HasInstance, HasProvider, IsAttached,
        HasIdentity, HasSeed, HasMaterial, HasLock, IsReady

LEMMA GotoIs ==
    ASSUME NEW o \in Operations, flows[o] \in FlowRow, NEW step \in Steps \cup {"succeeded", "failed"}
    PROVE  /\ Goto(o, step) \in FlowRow /\ Goto(o, step).pc = step
           /\ Goto(o, step).attempt = flows[o].attempt /\ Goto(o, step).current = flows[o].current
           /\ Goto(o, step).volume = flows[o].volume /\ Goto(o, step).ref = flows[o].ref
           /\ Goto(o, step).lock = flows[o].lock /\ Goto(o, step).outcome = flows[o].outcome
BY DEF Goto, FlowRow

(* A workflow past its invocation and before its end is of a creation that *)
(* is queued.                                                              *)
LEMMA Underway ==
    ASSUME CreateInv, NEW o \in Operations,
           flows[o].pc \in HasVolume \cup {"ensure-data-volume"}
    PROVE  /\ operations[o].kind = "create" /\ operations[o].input \in Inputs
           /\ flows[o].pc # "complete" => operations[o].status = "queued"
           /\ operations[o].status \in {"queued", "succeeded"}
BY RowsAre DEF Creation, CreationRow, KindFits, StatusFits

(* The repetition of a step that changed nothing.                          *)
LEMMA NothingAgain ==
    ASSUME CreateInv, NEW o \in Operations,
           UNCHANGED <<operations, environments, runtimes, cloud, guests>>
    PROVE  Leaves(o, Again(o))
BY RowsAre, AgainIs DEF Creation, Leaves, CreationRow, KindFits, StepsLast, StatusFits, RuntimeIsHeld

LEMMA RecordInvocationKeeps ==
    ASSUME CreateInv, NEW o \in Operations, RecordEnvironmentCreateInvocation(o)
    PROVE  CreateInv'
<1>1. /\ flows[o].pc = "record-invocation"
      /\ UNCHANGED <<operations, environments, runtimes, cloud, guests, requests>>
  BY DEF RecordEnvironmentCreateInvocation, At, unchangedOutside
<1>2. CASE operations[o].kind = "create"
  <2>1. PICK f \in FlowRow : f = Goto(o, "ensure-data-volume")
    BY RowsAre, GotoIs DEF Steps
  <2>2. /\ f.pc = "ensure-data-volume" /\ f.attempt = flows[o].attempt
        /\ f.current = flows[o].current /\ f.outcome = flows[o].outcome
    BY <2>1, RowsAre, GotoIs DEF Steps
  <2>3. Leaves(o, f)
    BY <1>1, <1>2, <2>2, RowsAre
       DEF Creation, Leaves, CreationRow, KindFits, StepsLast, StatusFits, RuntimeIsHeld
  <2>4. Journal(o, f)
    BY <1>2, <2>1 DEF RecordEnvironmentCreateInvocation
  <2> QED BY <1>1, <2>3, <2>4, NothingElse, NothingAgain, JournalKeeps
<1>3. CASE operations[o].kind # "create"
  <2>1. flows[o].current = None
    BY <1>3, RowsAre DEF Creation, CreationRow, KindFits
  <2> QED BY <1>1, <1>3, <2>1, FailKeeps DEF RecordEnvironmentCreateInvocation, Steps
<1> QED BY <1>2, <1>3

LEMMA FoundIsOne ==
    ASSUME NEW S \in SUBSET {0}
    PROVE  Cardinality(S) <= 1 /\ ~(Cardinality(S) > 1) /\ (S # {} => (CHOOSE v \in S : TRUE) = 0)
<1>1. S = {} \/ S = {0}
  OBVIOUS
<1>2. Cardinality({}) = 0 /\ Cardinality({0}) = 1
  BY FS_EmptySet, FS_Singleton
<1>3. Cardinality(S) \in {0, 1}
  BY <1>1, <1>2, Zenon
<1>4. S # {} => (CHOOSE v \in S : TRUE) \in S
  OBVIOUS
<1>5. Cardinality(S) <= 1 /\ ~(Cardinality(S) > 1)
  BY <1>3
<1>6. S # {} => (CHOOSE v \in S : TRUE) = 0
  BY <1>1, <1>4, Zenon
<1> QED BY <1>5, <1>6

LEMMA EnsureDataVolumeKeeps ==
    ASSUME CreateInv, NEW o \in Operations, EnsureDataVolume(o)
    PROVE  CreateInv'
<1>1. /\ flows[o].pc = "ensure-data-volume"
      /\ UNCHANGED <<operations, environments, runtimes, guests, requests>>
  BY DEF EnsureDataVolume, At, unchangedOutside
<1>2. cloud[o].volumes \in SUBSET {0}
  BY RowsAre DEF CloudRow
<1>3. PICK f : /\ f = [flows[o] EXCEPT !.pc = "inventory-data-volume", !.volume = 0]
               /\ cloud' = [cloud EXCEPT ![o].volumes = @ \cup {0}] /\ Journal(o, f)
  <2>1. PICK found \in {cloud[o].volumes, {}} :
          IF Cardinality(found) > 1
          THEN /\ flows' = [flows EXCEPT ![o] = failEnvironmentCreation(o, None)]
               /\ UNCHANGED <<cloud, crashes>>
          ELSE LET volume == IF found = {} THEN providerToken(o)
                             ELSE CHOOSE v \in found : TRUE
               IN  /\ cloud' = [cloud EXCEPT ![o].volumes = @ \cup {volume}]
                   /\ Journal(o, [flows[o] EXCEPT !.pc = "inventory-data-volume", !.volume = volume])
    BY DEF EnsureDataVolume
  <2>2. ~(Cardinality(found) > 1) /\ (found # {} => (CHOOSE v \in found : TRUE) = 0)
    BY <1>2, <2>1, FoundIsOne
  <2> DEFINE volume == IF found = {} THEN providerToken(o) ELSE CHOOSE v \in found : TRUE
  <2>3. volume = 0
    BY <2>2 DEF providerToken
  <2>4. /\ cloud' = [cloud EXCEPT ![o].volumes = @ \cup {volume}]
        /\ Journal(o, [flows[o] EXCEPT !.pc = "inventory-data-volume", !.volume = volume])
    BY <2>1, <2>2
  <2> HIDE DEF volume
  <2> QED BY <2>3, <2>4
<1>4. /\ f \in FlowRow /\ f.pc = "inventory-data-volume" /\ f.volume = 0
      /\ f.attempt = flows[o].attempt /\ f.current = flows[o].current
      /\ f.outcome = flows[o].outcome
  BY <1>3, RowsAre DEF FlowRow, Steps
<1>5. /\ cloud' \in [Operations -> CloudRow]
      /\ cloud'[o].volumes = {0} /\ cloud'[o].instances = cloud[o].instances
      /\ cloud'[o].attached = cloud[o].attached
      /\ \A p \in Operations \ {o} : cloud'[p] = cloud[p]
  BY <1>3, <1>2 DEF CreateInv, CreateTyped, CloudRow
<1>6. RowsOnly(o)
  BY <1>1, <1>5 DEF RowsOnly, CreateInv, CreateTyped
<1>7. operations[o].kind = "create" /\ operations[o].status = "queued"
  BY <1>1, Underway
<1>8. Leaves(o, f)
  BY <1>1, <1>4, <1>5, <1>7, RowsAre
     DEF Creation, Leaves, CreationRow, KindFits, StepsLast, StatusFits, RuntimeIsHeld
<1>9. Leaves(o, Again(o))
  BY <1>1, <1>5, <1>7, RowsAre, AgainIs
     DEF Creation, Leaves, CreationRow, KindFits, StepsLast, StatusFits, RuntimeIsHeld
<1> QED BY <1>3, <1>4, <1>6, <1>8, <1>9, JournalKeeps

LEMMA InventoryKeeps ==
    ASSUME CreateInv, NEW o \in Operations, InventoryEnvironmentState(o)
    PROVE  CreateInv'
<1>1. /\ flows[o].pc = "inventory-data-volume"
      /\ UNCHANGED <<operations, runtimes, cloud, guests, requests>>
  BY DEF InventoryEnvironmentState, At, unchangedOutside
<1>2. flows[o].volume = 0 /\ environments[o].volume \in {0, None} /\ cloud[o].volumes = {0}
  BY <1>1, RowsAre DEF Creation, CreationRow, StepsLast, EnvironmentRow
<1>3. PICK f \in FlowRow : f = Goto(o, "reserve-initial-runtime")
  BY RowsAre, GotoIs DEF Steps
<1>4. /\ f.pc = "reserve-initial-runtime" /\ f.attempt = flows[o].attempt
      /\ f.current = flows[o].current /\ f.outcome = flows[o].outcome
      /\ f.volume = flows[o].volume
  BY <1>3, RowsAre, GotoIs DEF Steps
<1>5. /\ environments' = [environments EXCEPT ![o].volume = 0] /\ Journal(o, f)
  BY <1>2, <1>3 DEF InventoryEnvironmentState
<1>6. /\ environments' \in [Operations -> EnvironmentRow] /\ environments'[o].volume = 0
      /\ environments'[o].lifecycle = environments[o].lifecycle
      /\ environments'[o].runtime = environments[o].runtime
      /\ \A p \in Operations \ {o} : environments'[p] = environments[p]
  BY <1>5 DEF CreateInv, CreateTyped, EnvironmentRow
<1>7. RowsOnly(o)
  BY <1>1, <1>6 DEF RowsOnly, CreateInv, CreateTyped
<1>8. operations[o].kind = "create" /\ operations[o].status = "queued"
  BY <1>1, Underway
<1>9. Leaves(o, f)
  BY <1>1, <1>2, <1>4, <1>6, <1>8, RowsAre
     DEF Creation, Leaves, CreationRow, KindFits, StepsLast, StatusFits, RuntimeIsHeld
<1>10. Leaves(o, Again(o))
  BY <1>1, <1>6, <1>8, RowsAre, AgainIs
     DEF Creation, Leaves, CreationRow, KindFits, StepsLast, StatusFits, RuntimeIsHeld
<1> QED BY <1>5, <1>7, <1>9, <1>10, JournalKeeps

LEMMA ReservationTyped == Reservation \in RuntimeSnapshot /\ Reservation.status = "absent"
<1>1. PICK i \in Images : i = CHOOSE j \in Images : TRUE
  <2>1. Images # {}
    BY ImageAssumption, FS_EmptySet
  <2> QED BY <2>1
<1>2. Reservation = ReserveRuntime(1, i, 0)
  BY <1>1 DEF Reservation
<1> QED BY <1>2 DEF ReserveRuntime, RuntimeSnapshot, RuntimeStatuses, OptionalRef, OptionalTime

LEMMA ReserveInitialRuntimeKeeps ==
    ASSUME CreateInv, NEW o \in Operations, ReserveInitialRuntime(o)
    PROVE  CreateInv'
<1>1. /\ flows[o].pc = "reserve-initial-runtime"
      /\ UNCHANGED <<operations, cloud, guests, requests>>
      /\ runtimes' = [runtimes EXCEPT ![o] = IF @ = None THEN Reservation ELSE @]
      /\ environments' = [environments EXCEPT ![o].runtime = TRUE]
  BY DEF ReserveInitialRuntime, At, unchangedOutside
<1>2. PICK f : /\ f = [flows[o] EXCEPT !.pc = "ensure-runtime-provider", !.current = Reservation]
               /\ Journal(o, f)
  BY DEF ReserveInitialRuntime
<1>3. /\ f \in FlowRow /\ f.pc = "ensure-runtime-provider" /\ f.current = Reservation
      /\ f.attempt = flows[o].attempt /\ f.volume = flows[o].volume
      /\ f.outcome = flows[o].outcome
  BY <1>2, RowsAre, ReservationTyped DEF FlowRow, Steps
<1>4. /\ environments' \in [Operations -> EnvironmentRow] /\ environments'[o].runtime
      /\ environments'[o].lifecycle = environments[o].lifecycle
      /\ environments'[o].volume = environments[o].volume
      /\ \A p \in Operations \ {o} : environments'[p] = environments[p]
  BY <1>1 DEF CreateInv, CreateTyped, EnvironmentRow
<1>5. /\ runtimes' \in [Operations -> RuntimeSnapshot \cup {None}]
      /\ runtimes[o] = None => runtimes'[o] = Reservation
      /\ \A p \in Operations \ {o} : runtimes'[p] = runtimes[p]
  BY <1>1, ReservationTyped DEF CreateInv, CreateTyped
<1>6. RowsOnly(o)
  BY <1>1, <1>4, <1>5 DEF RowsOnly, CreateInv, CreateTyped
<1>7. operations[o].kind = "create" /\ operations[o].status = "queued"
  BY <1>1, Underway
<1>8. flows[o].attempt = 0 => runtimes[o] = None
  BY <1>1, <1>7, RowsAre DEF Creation, CreationRow, RuntimeIsHeld, StepsLast
<1>9. Leaves(o, f)
  BY <1>1, <1>3, <1>4, <1>5, <1>7, <1>8, RowsAre, ReservationTyped
     DEF Creation, Leaves, CreationRow, KindFits, StepsLast, StatusFits, RuntimeIsHeld
<1>10. Leaves(o, Again(o))
  BY <1>1, <1>4, <1>5, <1>7, RowsAre, AgainIs
     DEF Creation, Leaves, CreationRow, KindFits, StepsLast, StatusFits, RuntimeIsHeld
<1> QED BY <1>2, <1>3, <1>6, <1>9, <1>10, JournalKeeps

LEMMA EnsureRuntimeKeeps ==
    ASSUME CreateInv, NEW o \in Operations, EnsureRuntime(o)
    PROVE  CreateInv'
<1>1. /\ flows[o].pc = "ensure-runtime-provider"
      /\ UNCHANGED <<operations, environments, runtimes, guests, requests>>
  BY DEF EnsureRuntime, At, unchangedOutside
<1>2. cloud[o].instances \in SUBSET {0}
  BY RowsAre DEF CloudRow
<1>3. PICK f : /\ f = [flows[o] EXCEPT !.pc = "persist-provisioning", !.ref = 0]
               /\ cloud' = [cloud EXCEPT ![o].instances = @ \cup {0}] /\ Journal(o, f)
  <2>1. PICK found \in {cloud[o].instances, {}} :
          IF Cardinality(found) > 1
          THEN /\ flows' = [flows EXCEPT ![o] = failEnvironmentCreation(o, flows[o].current)]
               /\ UNCHANGED <<cloud, crashes>>
          ELSE LET instance == IF found = {} THEN providerToken(o)
                               ELSE CHOOSE i \in found : TRUE
               IN  /\ cloud' = [cloud EXCEPT ![o].instances = @ \cup {instance}]
                   /\ Journal(o, [flows[o] EXCEPT !.pc = "persist-provisioning", !.ref = instance])
    BY DEF EnsureRuntime
  <2>2. ~(Cardinality(found) > 1) /\ (found # {} => (CHOOSE v \in found : TRUE) = 0)
    BY <1>2, <2>1, FoundIsOne
  <2> DEFINE instance == IF found = {} THEN providerToken(o) ELSE CHOOSE v \in found : TRUE
  <2>3. instance = 0
    BY <2>2 DEF providerToken
  <2>4. /\ cloud' = [cloud EXCEPT ![o].instances = @ \cup {instance}]
        /\ Journal(o, [flows[o] EXCEPT !.pc = "persist-provisioning", !.ref = instance])
    BY <2>1, <2>2
  <2> HIDE DEF instance
  <2> QED BY <2>3, <2>4
<1>4. /\ f \in FlowRow /\ f.pc = "persist-provisioning" /\ f.ref = 0
      /\ f.attempt = flows[o].attempt /\ f.current = flows[o].current
      /\ f.outcome = flows[o].outcome /\ f.volume = flows[o].volume
  BY <1>3, RowsAre DEF FlowRow, Steps
<1>5. /\ cloud' \in [Operations -> CloudRow]
      /\ cloud'[o].instances = {0} /\ cloud'[o].volumes = cloud[o].volumes
      /\ cloud'[o].attached = cloud[o].attached
      /\ \A p \in Operations \ {o} : cloud'[p] = cloud[p]
  BY <1>3, <1>2 DEF CreateInv, CreateTyped, CloudRow
<1>6. RowsOnly(o)
  BY <1>1, <1>5 DEF RowsOnly, CreateInv, CreateTyped
<1>7. operations[o].kind = "create" /\ operations[o].status = "queued"
  BY <1>1, Underway
<1>8. Leaves(o, f)
  BY <1>1, <1>4, <1>5, <1>7, RowsAre
     DEF Creation, Leaves, CreationRow, KindFits, StepsLast, StatusFits, RuntimeIsHeld
<1>9. Leaves(o, Again(o))
  BY <1>1, <1>5, <1>7, RowsAre, AgainIs
     DEF Creation, Leaves, CreationRow, KindFits, StepsLast, StatusFits, RuntimeIsHeld
<1> QED BY <1>3, <1>4, <1>6, <1>8, <1>9, JournalKeeps

LEMMA PersistTransitionKeeps ==
    ASSUME CreateInv, NEW o \in Operations, NEW next \in RuntimeSnapshot, NEW step,
           next.provider = 0, next.version = flows[o].current.version + 1,
           \/ flows[o].pc = "persist-provisioning" /\ step = "ensure-attachment"
           \/ flows[o].pc = "persist-starting" /\ step = "prepare-guest"
           \/ flows[o].pc = "persist-ready" /\ step = "complete" /\ next.status = "ready",
           PersistTransition(o, next, step)
    PROVE  CreateInv'
<1>1. UNCHANGED <<operations, environments, cloud, guests, requests>>
  BY DEF PersistTransition, unchangedOutside
<1>2. CASE ~Accepts(o, flows[o].current, next)
  BY <1>1, <1>2, FailKeeps DEF PersistTransition, Steps
<1>3. CASE Accepts(o, flows[o].current, next)
  <2>1. PICK f : /\ f = [flows[o] EXCEPT !.pc = step, !.current = next]
                 /\ runtimes' = [runtimes EXCEPT ![o] = next] /\ Journal(o, f)
    BY <1>3 DEF PersistTransition
  <2>2. /\ f \in FlowRow /\ f.pc = step /\ f.current = next
        /\ f.attempt = flows[o].attempt /\ f.outcome = flows[o].outcome
        /\ f.volume = flows[o].volume /\ f.ref = flows[o].ref /\ f.lock = flows[o].lock
    BY <2>1, RowsAre DEF FlowRow, Steps
  <2>3. /\ runtimes' \in [Operations -> RuntimeSnapshot \cup {None}] /\ runtimes'[o] = next
        /\ \A p \in Operations \ {o} : runtimes'[p] = runtimes[p]
    BY <2>1 DEF CreateInv, CreateTyped
  <2>4. RowsOnly(o)
    BY <1>1, <2>3 DEF RowsOnly, CreateInv, CreateTyped
  <2>5. operations[o].kind = "create" /\ operations[o].status = "queued"
    BY Underway
  <2>6. Leaves(o, f)
    BY <1>1, <2>2, <2>3, <2>5, RowsAre
       DEF Creation, Leaves, CreationRow, KindFits, StepsLast, StatusFits, RuntimeIsHeld
  <2>7. Leaves(o, Again(o))
    BY <1>1, <2>3, <2>5, RowsAre, AgainIs
       DEF Creation, Leaves, CreationRow, KindFits, StepsLast, StatusFits, RuntimeIsHeld
  <2> QED BY <2>1, <2>2, <2>4, <2>6, <2>7, JournalKeeps
<1> QED BY <1>2, <1>3

LEMMA FinalizeTyped ==
    ASSUME NEW n \in RuntimeSnapshot, NEW at \in Nat
    PROVE  LET m == finalizeRuntimeTransition(n, at) IN
           /\ m \in RuntimeSnapshot /\ m.version = n.version + 1
           /\ m.provider = n.provider /\ m.status = n.status
<1> DEFINE m == [n EXCEPT !.updatedAt = at, !.version = n.version + 1]
<1>1. n.version \in Nat \ {0}
  BY DEF RuntimeSnapshot
<1>2. n.version + 1 \in Nat \ {0}
  BY <1>1
<1>3. PICK v \in Nat \ {0} : v = n.version + 1
  BY <1>2
<1>4. m = [n EXCEPT !.updatedAt = at, !.version = v]
  BY <1>3
<1>5. m \in RuntimeSnapshot /\ m.version = v /\ m.provider = n.provider /\ m.status = n.status
  BY <1>4 DEF RuntimeSnapshot
<1>6. finalizeRuntimeTransition(n, at) = m
  BY DEF finalizeRuntimeTransition
<1> HIDE DEF m
<1> QED BY <1>3, <1>5, <1>6

(* The transitions of a creation.                                          *)
LEMMA TransitionsTyped ==
    ASSUME NEW s \in RuntimeSnapshot, NEW at \in Nat
    PROVE  /\ LET n == Provision(s, 0, at) IN
              n \in RuntimeSnapshot /\ n.version = s.version + 1 /\ n.provider = 0
           /\ LET n == BeginStart(s, at) IN
              n \in RuntimeSnapshot /\ n.version = s.version + 1 /\ n.provider = s.provider
           /\ LET n == MarkReady(s, 0, 0, at) IN
              /\ n \in RuntimeSnapshot /\ n.version = s.version + 1 /\ n.provider = s.provider
              /\ n.status = "ready"
           /\ LET n == MarkProvisionError(s, at) IN
              n \in RuntimeSnapshot /\ n.version = s.version + 1 /\ n.status = "error"
           /\ LET n == MarkError(s, at) IN
              n \in RuntimeSnapshot /\ n.version = s.version + 1 /\ n.status = "error"
<1>1. 0 \in Refs
  BY TokensAssumption
<1> DEFINE a == [s EXCEPT !.status = "provisioning", !.provider = 0]
           b == [s EXCEPT !.status = "starting", !.startedAt = at, !.stoppedAt = None,
                          !.address = None, !.boot = None]
           c == [s EXCEPT !.status = "ready", !.boot = 0, !.address = 0]
           d == [s EXCEPT !.status = "error"]
           e == [s EXCEPT !.status = "error", !.address = None, !.boot = None]
<1>2. a \in RuntimeSnapshot /\ a.version = s.version /\ a.provider = 0
  BY <1>1 DEF RuntimeSnapshot, RuntimeStatuses, OptionalRef, OptionalTime
<1>3. b \in RuntimeSnapshot /\ b.version = s.version /\ b.provider = s.provider
  BY DEF RuntimeSnapshot, RuntimeStatuses, OptionalRef, OptionalTime
<1>4. /\ c \in RuntimeSnapshot /\ c.version = s.version /\ c.provider = s.provider
      /\ c.status = "ready"
  BY <1>1 DEF RuntimeSnapshot, RuntimeStatuses, OptionalRef, OptionalTime
<1>5. d \in RuntimeSnapshot /\ d.version = s.version /\ d.status = "error"
  BY DEF RuntimeSnapshot, RuntimeStatuses, OptionalRef, OptionalTime
<1>6. e \in RuntimeSnapshot /\ e.version = s.version /\ e.status = "error"
  BY DEF RuntimeSnapshot, RuntimeStatuses, OptionalRef, OptionalTime
<1>7. /\ Provision(s, 0, at) = finalizeRuntimeTransition(a, at)
      /\ BeginStart(s, at) = finalizeRuntimeTransition(b, at)
      /\ MarkReady(s, 0, 0, at) = finalizeRuntimeTransition(c, at)
      /\ MarkProvisionError(s, at) = finalizeRuntimeTransition(d, at)
      /\ MarkError(s, at) = finalizeRuntimeTransition(e, at)
  BY DEF Provision, BeginStart, MarkReady, MarkProvisionError, MarkError
<1> HIDE DEF a, b, c, d, e
<1>8. \A x \in {a, b, c, d, e} : LET m == finalizeRuntimeTransition(x, at) IN
         /\ m \in RuntimeSnapshot /\ m.version = x.version + 1
         /\ m.provider = x.provider /\ m.status = x.status
  BY <1>2, <1>3, <1>4, <1>5, <1>6, FinalizeTyped
<1> QED BY <1>2, <1>3, <1>4, <1>5, <1>6, <1>7, <1>8

LEMMA TimesTyped ==
    ASSUME CreateInv, NEW o \in Operations, flows[o].current \in RuntimeSnapshot
    PROVE  flows[o].current.updatedAt + 1 \in Nat /\ Now(o, flows[o].current) \in Nat
<1>1. flows[o].attempt \in Nat /\ flows[o].current.updatedAt \in Nat
  BY RowsAre DEF FlowRow, RuntimeSnapshot
<1> QED BY <1>1 DEF Now

LEMMA TransitionStepsKeep ==
    ASSUME CreateInv, NEW o \in Operations,
           PersistProvisioning(o) \/ PersistStarting(o) \/ PersistReady(o)
    PROVE  CreateInv'
<1>1. /\ flows[o].pc \in {"persist-provisioning", "persist-starting", "persist-ready"}
  BY DEF PersistProvisioning, PersistStarting, PersistReady, At
<1>2. PICK s \in RuntimeSnapshot : s = flows[o].current
  BY <1>1, RowsAre DEF Creation, CreationRow, StepsLast
<1>3. PICK t \in Nat, n \in Nat : t = s.updatedAt + 1 /\ n = Now(o, s)
  BY <1>2, TimesTyped
<1>4. flows[o].ref = 0 /\ (flows[o].pc # "persist-provisioning" => s.provider = 0)
  BY <1>1, <1>2, RowsAre DEF Creation, CreationRow, StepsLast
<1>5. CASE PersistProvisioning(o)
  <2>1. PICK next \in RuntimeSnapshot : /\ next = Provision(s, 0, t) /\ next.version = s.version + 1
                                        /\ next.provider = 0
    BY TransitionsTyped
  <2>2. PersistTransition(o, next, "ensure-attachment") /\ flows[o].pc = "persist-provisioning"
    BY <1>2, <1>3, <1>4, <1>5, <2>1 DEF PersistProvisioning, At
  <2> QED BY <1>2, <2>1, <2>2, PersistTransitionKeeps
<1>6. CASE PersistStarting(o)
  <2>1. PICK next \in RuntimeSnapshot : /\ next = BeginStart(s, n) /\ next.version = s.version + 1
                                        /\ next.provider = s.provider
    BY TransitionsTyped
  <2>2. PersistTransition(o, next, "prepare-guest") /\ flows[o].pc = "persist-starting"
    BY <1>2, <1>3, <1>6, <2>1 DEF PersistStarting, At
  <2> QED BY <1>2, <1>4, <2>1, <2>2, PersistTransitionKeeps
<1>7. CASE PersistReady(o)
  <2>1. PICK next \in RuntimeSnapshot : /\ next = MarkReady(s, 0, 0, n) /\ next.version = s.version + 1
                                        /\ next.provider = s.provider /\ next.status = "ready"
    BY TransitionsTyped
  <2>2. PersistTransition(o, next, "complete") /\ flows[o].pc = "persist-ready"
    BY <1>2, <1>3, <1>4, <1>7, <2>1 DEF PersistReady, At
  <2> QED BY <1>2, <1>4, <2>1, <2>2, PersistTransitionKeeps
<1> QED BY <1>5, <1>6, <1>7

LEMMA EnsureAttachmentKeeps ==
    ASSUME CreateInv, NEW o \in Operations, EnsureAttachment(o)
    PROVE  CreateInv'
<1>1. /\ flows[o].pc = "ensure-attachment" /\ cloud' = [cloud EXCEPT ![o].attached = TRUE]
      /\ UNCHANGED <<operations, environments, runtimes, guests, requests>>
  BY DEF EnsureAttachment, At, unchangedOutside
<1>2. PICK f \in FlowRow : f = Goto(o, "persist-starting") /\ Journal(o, f)
  BY RowsAre, GotoIs DEF Steps, EnsureAttachment
<1>3. /\ f.pc = "persist-starting" /\ f.attempt = flows[o].attempt
      /\ f.current = flows[o].current /\ f.outcome = flows[o].outcome
      /\ f.volume = flows[o].volume /\ f.ref = flows[o].ref /\ f.lock = flows[o].lock
  BY <1>2, RowsAre, GotoIs DEF Steps
<1>4. /\ cloud' \in [Operations -> CloudRow]
      /\ cloud'[o].instances = cloud[o].instances /\ cloud'[o].volumes = cloud[o].volumes
      /\ cloud'[o].attached
      /\ \A p \in Operations \ {o} : cloud'[p] = cloud[p]
  BY <1>1 DEF CreateInv, CreateTyped, CloudRow
<1>5. RowsOnly(o)
  BY <1>1, <1>4 DEF RowsOnly, CreateInv, CreateTyped
<1>6. operations[o].kind = "create" /\ operations[o].status = "queued"
  BY <1>1, Underway
<1>7. Leaves(o, f)
  BY <1>1, <1>3, <1>4, <1>6, RowsAre
     DEF Creation, Leaves, CreationRow, KindFits, StepsLast, StatusFits, RuntimeIsHeld
<1>8. Leaves(o, Again(o))
  BY <1>1, <1>4, <1>6, RowsAre, AgainIs
     DEF Creation, Leaves, CreationRow, KindFits, StepsLast, StatusFits, RuntimeIsHeld
<1> QED BY <1>2, <1>5, <1>7, <1>8, JournalKeeps

LEMMA PrepareGuestKeeps ==
    ASSUME CreateInv, NEW o \in Operations, PrepareGuest(o)
    PROVE  CreateInv'
<1>1. /\ flows[o].pc = "prepare-guest" /\ guests' = [guests EXCEPT ![o].identity = TRUE]
      /\ UNCHANGED <<operations, environments, runtimes, cloud, requests>>
  BY DEF PrepareGuest, At, unchangedOutside
<1>2. PICK f \in FlowRow : f = Goto(o, "apply-seed") /\ Journal(o, f)
  BY RowsAre, GotoIs DEF Steps, PrepareGuest
<1>3. /\ f.pc = "apply-seed" /\ f.attempt = flows[o].attempt
      /\ f.current = flows[o].current /\ f.outcome = flows[o].outcome
      /\ f.volume = flows[o].volume /\ f.ref = flows[o].ref /\ f.lock = flows[o].lock
  BY <1>2, RowsAre, GotoIs DEF Steps
<1>4. /\ guests' \in [Operations -> GuestRow] /\ guests'[o].identity
      /\ \A p \in Operations \ {o} : guests'[p] = guests[p]
  BY <1>1 DEF CreateInv, CreateTyped, GuestRow
<1>5. RowsOnly(o)
  BY <1>1, <1>4 DEF RowsOnly, CreateInv, CreateTyped
<1>6. operations[o].kind = "create" /\ operations[o].status = "queued"
  BY <1>1, Underway
<1>7. Leaves(o, f)
  BY <1>1, <1>3, <1>4, <1>6, RowsAre
     DEF Creation, Leaves, CreationRow, KindFits, StepsLast, StatusFits, RuntimeIsHeld
<1>8. Leaves(o, Again(o))
  BY <1>1, <1>4, <1>6, RowsAre, AgainIs
     DEF Creation, Leaves, CreationRow, KindFits, StepsLast, StatusFits, RuntimeIsHeld
<1> QED BY <1>2, <1>5, <1>7, <1>8, JournalKeeps

LEMMA ApplySeedKeeps ==
    ASSUME CreateInv, NEW o \in Operations, EnsureEnvironmentProjectSeedApplied(o)
    PROVE  CreateInv'
<1>1. /\ flows[o].pc = "apply-seed"
      /\ guests' = [guests EXCEPT ![o].seed = operations[o].input.seed]
      /\ UNCHANGED <<operations, environments, runtimes, cloud, requests>>
  BY DEF EnsureEnvironmentProjectSeedApplied, At, unchangedOutside
<1>2. PICK f \in FlowRow : f = Goto(o, "resolve-version") /\ Journal(o, f)
  BY RowsAre, GotoIs DEF Steps, EnsureEnvironmentProjectSeedApplied
<1>3. /\ f.pc = "resolve-version" /\ f.attempt = flows[o].attempt
      /\ f.current = flows[o].current /\ f.outcome = flows[o].outcome
      /\ f.volume = flows[o].volume /\ f.ref = flows[o].ref /\ f.lock = flows[o].lock
  BY <1>2, RowsAre, GotoIs DEF Steps
<1>4. /\ operations[o].kind = "create" /\ operations[o].status = "queued"
      /\ operations[o].input.seed \in Seeds
  BY <1>1, Underway DEF Seeds
<1>5. /\ guests' \in [Operations -> GuestRow] /\ guests'[o].identity = guests[o].identity
      /\ guests'[o].seed = operations[o].input.seed
      /\ \A p \in Operations \ {o} : guests'[p] = guests[p]
  <2>1. PICK seed \in Seeds : seed = operations[o].input.seed
    BY <1>4
  <2>2. guests' = [guests EXCEPT ![o].seed = seed]
    BY <1>1, <2>1
  <2> QED BY <2>1, <2>2 DEF CreateInv, CreateTyped, GuestRow
<1>6. RowsOnly(o)
  BY <1>1, <1>5 DEF RowsOnly, CreateInv, CreateTyped
<1>7. Leaves(o, f)
  BY <1>1, <1>3, <1>4, <1>5, RowsAre
     DEF Creation, Leaves, CreationRow, KindFits, StepsLast, StatusFits, RuntimeIsHeld
<1>8. Leaves(o, Again(o))
  BY <1>1, <1>4, <1>5, RowsAre, AgainIs
     DEF Creation, Leaves, CreationRow, KindFits, StepsLast, StatusFits, RuntimeIsHeld
<1> QED BY <1>2, <1>6, <1>7, <1>8, JournalKeeps

LEMMA ResolvePinnedKeeps ==
    ASSUME CreateInv, NEW o \in Operations, ResolvePinnedProfileVersion(o)
    PROVE  CreateInv'
<1>1. /\ flows[o].pc = "resolve-version"
      /\ UNCHANGED <<operations, environments, runtimes, cloud, guests, requests>>
  BY DEF ResolvePinnedProfileVersion, At, unchangedOutside
<1>2. PICK n \in Nat : n = flows[o].attempt + 1
  BY RowsAre DEF FlowRow
<1>3. PICK f : f = [flows[o] EXCEPT !.pc = "materialize", !.lock = n] /\ Journal(o, f)
  BY <1>2 DEF ResolvePinnedProfileVersion
<1>4. /\ f \in FlowRow /\ f.pc = "materialize" /\ f.attempt = flows[o].attempt
      /\ f.current = flows[o].current /\ f.outcome = flows[o].outcome
      /\ f.volume = flows[o].volume /\ f.ref = flows[o].ref
  BY <1>3, RowsAre DEF FlowRow, Steps
<1>5. operations[o].kind = "create" /\ operations[o].status = "queued"
  BY <1>1, Underway
<1>6. Leaves(o, f)
  BY <1>1, <1>4, <1>5, RowsAre
     DEF Creation, Leaves, CreationRow, KindFits, StepsLast, StatusFits, RuntimeIsHeld
<1> QED BY <1>1, <1>3, <1>4, <1>6, NothingElse, NothingAgain, JournalKeeps

LEMMA MaterializeKeeps ==
    ASSUME CreateInv, NEW o \in Operations, MaterializeCapsuleLock(o)
    PROVE  CreateInv'
<1>1. /\ flows[o].pc = "materialize"
      /\ UNCHANGED <<operations, environments, runtimes, cloud, requests>>
  BY DEF MaterializeCapsuleLock, At, unchangedOutside
<1>2. CASE Journal(o, failEnvironmentCreation(o, flows[o].current)) /\ UNCHANGED guests
  <2>1. flows[o].pc \in Steps \ {"mark-error", "record-outcome"}
    BY <1>1 DEF Steps
  <2>2. PICK f \in FlowRow : f = failEnvironmentCreation(o, flows[o].current) /\ Leaves(o, f)
    BY <1>1, <1>2, <2>1, FailLeaves
  <2> QED BY <1>1, <1>2, <2>2, NothingElse, NothingAgain, JournalKeeps
<1>3. CASE /\ guests' = [guests EXCEPT ![o].lock = flows[o].lock, ![o].whole = TRUE]
           /\ Journal(o, Goto(o, "persist-capsule-state"))
  <2>1. PICK f \in FlowRow : f = Goto(o, "persist-capsule-state") /\ Journal(o, f)
    BY <1>3, RowsAre, GotoIs DEF Steps
  <2>2. /\ f.pc = "persist-capsule-state" /\ f.attempt = flows[o].attempt
        /\ f.current = flows[o].current /\ f.outcome = flows[o].outcome
        /\ f.volume = flows[o].volume /\ f.ref = flows[o].ref /\ f.lock = flows[o].lock
    BY <2>1, RowsAre, GotoIs DEF Steps
  <2>3. PICK n \in Nat : n = flows[o].lock
    BY RowsAre DEF FlowRow
  <2>4. guests' = [guests EXCEPT ![o].lock = n, ![o].whole = TRUE]
    BY <1>3, <2>3
  <2>5. /\ guests' \in [Operations -> GuestRow] /\ guests'[o].identity = guests[o].identity
        /\ guests'[o].seed = guests[o].seed /\ guests'[o].lock = n /\ guests'[o].whole
        /\ \A p \in Operations \ {o} : guests'[p] = guests[p]
    BY <2>4 DEF CreateInv, CreateTyped, GuestRow
  <2>6. RowsOnly(o)
    BY <1>1, <2>5 DEF RowsOnly, CreateInv, CreateTyped
  <2>7. operations[o].kind = "create" /\ operations[o].status = "queued"
    BY <1>1, Underway
  <2>8. Leaves(o, f)
    BY <1>1, <2>2, <2>3, <2>5, <2>7, RowsAre
       DEF Creation, Leaves, CreationRow, KindFits, StepsLast, StatusFits, RuntimeIsHeld
  <2>9. Leaves(o, Again(o))
    BY <1>1, <2>5, <2>7, RowsAre, AgainIs
       DEF Creation, Leaves, CreationRow, KindFits, StepsLast, StatusFits, RuntimeIsHeld
  <2> QED BY <2>1, <2>6, <2>8, <2>9, JournalKeeps
<1> QED BY <1>2, <1>3 DEF MaterializeCapsuleLock, TargetsBlock

LEMMA PersistCapsuleStateKeeps ==
    ASSUME CreateInv, NEW o \in Operations, PersistEnvironmentCapsuleState(o)
    PROVE  CreateInv'
<1>1. /\ flows[o].pc = "persist-capsule-state"
      /\ environments' = [environments EXCEPT ![o].lock = flows[o].lock]
      /\ UNCHANGED <<operations, runtimes, cloud, guests, requests>>
  BY DEF PersistEnvironmentCapsuleState, At, unchangedOutside
<1>2. PICK f \in FlowRow : f = Goto(o, "bind-credentials") /\ Journal(o, f)
  BY RowsAre, GotoIs DEF Steps, PersistEnvironmentCapsuleState
<1>3. /\ f.pc = "bind-credentials" /\ f.attempt = flows[o].attempt
      /\ f.current = flows[o].current /\ f.outcome = flows[o].outcome
      /\ f.volume = flows[o].volume /\ f.ref = flows[o].ref /\ f.lock = flows[o].lock
  BY <1>2, RowsAre, GotoIs DEF Steps
<1>4. PICK n \in Nat : n = flows[o].lock
  BY RowsAre DEF FlowRow
<1>5. environments' = [environments EXCEPT ![o].lock = n]
  BY <1>1, <1>4
<1>6. /\ environments' \in [Operations -> EnvironmentRow] /\ environments'[o].lock = n
      /\ environments'[o].lifecycle = environments[o].lifecycle
      /\ environments'[o].runtime = environments[o].runtime
      /\ environments'[o].volume = environments[o].volume
      /\ \A p \in Operations \ {o} : environments'[p] = environments[p]
  BY <1>5 DEF CreateInv, CreateTyped, EnvironmentRow
<1>7. RowsOnly(o)
  BY <1>1, <1>6 DEF RowsOnly, CreateInv, CreateTyped
<1>8. operations[o].kind = "create" /\ operations[o].status = "queued"
  BY <1>1, Underway
<1>9. Leaves(o, f)
  BY <1>1, <1>3, <1>4, <1>6, <1>8, RowsAre
     DEF Creation, Leaves, CreationRow, KindFits, StepsLast, StatusFits, RuntimeIsHeld
<1>10. Leaves(o, Again(o))
  BY <1>1, <1>6, <1>8, RowsAre, AgainIs
     DEF Creation, Leaves, CreationRow, KindFits, StepsLast, StatusFits, RuntimeIsHeld
<1> QED BY <1>2, <1>7, <1>9, <1>10, JournalKeeps

LEMMA BindCredentialsKeeps ==
    ASSUME CreateInv, NEW o \in Operations, BindEnvironmentCredentials(o)
    PROVE  CreateInv'
<1>1. /\ flows[o].pc = "bind-credentials"
      /\ UNCHANGED <<operations, environments, runtimes, cloud, guests, requests>>
  BY DEF BindEnvironmentCredentials, At, unchangedOutside
<1>2. operations[o].kind = "create" /\ operations[o].status = "queued"
  BY <1>1, Underway
<1>3. CASE Journal(o, Goto(o, "persist-ready"))
  <2>1. PICK f \in FlowRow : f = Goto(o, "persist-ready") /\ Journal(o, f)
    BY <1>3, RowsAre, GotoIs DEF Steps
  <2>2. /\ f.pc = "persist-ready" /\ f.attempt = flows[o].attempt
        /\ f.current = flows[o].current /\ f.outcome = flows[o].outcome
        /\ f.volume = flows[o].volume /\ f.ref = flows[o].ref /\ f.lock = flows[o].lock
    BY <2>1, RowsAre, GotoIs DEF Steps
  <2>3. Leaves(o, f)
    BY <1>1, <1>2, <2>2, RowsAre
       DEF Creation, Leaves, CreationRow, KindFits, StepsLast, StatusFits, RuntimeIsHeld
  <2> QED BY <1>1, <2>1, <2>3, NothingElse, NothingAgain, JournalKeeps
<1>4. CASE Journal(o, [flows[o] EXCEPT !.pc = "record-outcome", !.outcome = "blocked"])
  <2>1. PICK f : f = [flows[o] EXCEPT !.pc = "record-outcome", !.outcome = "blocked"] /\ Journal(o, f)
    BY <1>4
  <2>2. /\ f \in FlowRow /\ f.pc = "record-outcome" /\ f.outcome = "blocked"
        /\ f.current = flows[o].current /\ f.attempt = flows[o].attempt
    BY <2>1, RowsAre DEF FlowRow, Steps
  <2>3. Leaves(o, f)
    BY <1>1, <1>2, <2>2, RowsAre
       DEF Creation, Leaves, CreationRow, KindFits, StepsLast, StatusFits, RuntimeIsHeld
  <2> QED BY <1>1, <2>1, <2>2, <2>3, NothingElse, NothingAgain, JournalKeeps
<1> QED BY <1>3, <1>4 DEF BindEnvironmentCredentials

LEMMA StatusIs ==
    ASSUME CreateInv, NEW o \in Operations, NEW s \in {"none", "queued", "succeeded", "failed", "blocked"},
           operations' = [operations EXCEPT ![o].status = s]
    PROVE  /\ operations' \in [Operations -> OperationRow] /\ operations'[o].status = s
           /\ operations'[o].kind = operations[o].kind /\ operations'[o].key = operations[o].key
           /\ operations'[o].input = operations[o].input
           /\ \A p \in Operations \ {o} : operations'[p] = operations[p]
BY DEF CreateInv, CreateTyped, OperationRow

LEMMA CompleteKeeps ==
    ASSUME CreateInv, NEW o \in Operations, CompleteEnvironmentCreation(o)
    PROVE  CreateInv'
<1>1. /\ flows[o].pc = "complete"
      /\ operations' = [operations EXCEPT ![o].status = "succeeded"]
      /\ environments' = [environments EXCEPT ![o].lifecycle = "active"]
      /\ UNCHANGED <<runtimes, cloud, guests, requests>>
  BY DEF CompleteEnvironmentCreation, At, unchangedOutside
<1>2. PICK f \in FlowRow : f = Goto(o, "succeeded") /\ Journal(o, f)
  BY RowsAre, GotoIs DEF CompleteEnvironmentCreation
<1>3. /\ f.pc = "succeeded" /\ f.attempt = flows[o].attempt /\ f.current = flows[o].current
  BY <1>2, RowsAre, GotoIs
<1>4. /\ operations' \in [Operations -> OperationRow] /\ operations'[o].status = "succeeded"
      /\ operations'[o].kind = operations[o].kind /\ operations'[o].input = operations[o].input
      /\ \A p \in Operations \ {o} : operations'[p] = operations[p]
  BY <1>1, StatusIs
<1>5. /\ environments' \in [Operations -> EnvironmentRow] /\ environments'[o].lifecycle = "active"
      /\ environments'[o].runtime = environments[o].runtime
      /\ environments'[o].volume = environments[o].volume
      /\ environments'[o].lock = environments[o].lock
      /\ \A p \in Operations \ {o} : environments'[p] = environments[p]
  BY <1>1 DEF CreateInv, CreateTyped, EnvironmentRow
<1>6. RowsOnly(o)
  BY <1>1, <1>4, <1>5 DEF RowsOnly, CreateInv, CreateTyped
<1>7. operations[o].kind = "create" /\ operations[o].input \in Inputs
  BY <1>1, Underway
<1>8. IsWhole(operations'[o], environments'[o], runtimes'[o], cloud'[o], guests'[o])
  BY <1>1, <1>4, <1>5, RowsAre DEF Creation, CreationRow, StepsLast, IsWhole
<1>9. Leaves(o, f)
  BY <1>1, <1>3, <1>4, <1>5, <1>7, <1>8, RowsAre
     DEF Creation, Leaves, CreationRow, KindFits, StepsLast, StatusFits, RuntimeIsHeld
<1>10. Leaves(o, Again(o))
  BY <1>1, <1>4, <1>5, <1>7, <1>8, RowsAre, AgainIs
     DEF Creation, Leaves, CreationRow, KindFits, StepsLast, StatusFits, RuntimeIsHeld
<1> QED BY <1>2, <1>6, <1>9, <1>10, JournalKeeps

LEMMA MarkErrorKeeps ==
    ASSUME CreateInv, NEW o \in Operations, MarkRuntimeError(o)
    PROVE  CreateInv'
<1>1. /\ flows[o].pc = "mark-error"
      /\ UNCHANGED <<operations, environments, cloud, guests, requests>>
  BY DEF MarkRuntimeError, At, unchangedOutside
<1>2. /\ operations[o].kind = "create" /\ flows[o].current # None /\ environments[o].runtime
      /\ flows[o].outcome = "failed" /\ operations[o].input \in Inputs
      /\ operations[o].status \in {"queued", "succeeded"}
  BY <1>1, RowsAre DEF Creation, CreationRow, KindFits, StepsLast, StatusFits, RuntimeIsHeld
<1>3. PICK s \in RuntimeSnapshot : s = flows[o].current
  BY <1>1, RowsAre DEF Creation, CreationRow, RuntimeIsHeld
<1>4. PICK n \in Nat : n = Now(o, s)
  BY <1>3, TimesTyped
<1>5. PICK next \in RuntimeSnapshot :
         /\ next = IF s.status = "absent" THEN MarkProvisionError(s, n) ELSE MarkError(s, n)
         /\ next.version = s.version + 1 /\ next.status = "error"
  BY TransitionsTyped
<1>6. PICK f \in FlowRow : f = Goto(o, "record-outcome")
  BY RowsAre, GotoIs DEF Steps
<1>7. /\ f.pc = "record-outcome" /\ f.attempt = flows[o].attempt
      /\ f.current = flows[o].current /\ f.outcome = flows[o].outcome
  BY <1>6, RowsAre, GotoIs DEF Steps
<1>8. CASE Accepts(o, s, next)
  <2>1. runtimes' = [runtimes EXCEPT ![o] = next] /\ Journal(o, f)
    BY <1>3, <1>4, <1>5, <1>6, <1>8 DEF MarkRuntimeError
  <2>2. operations[o].status = "queued"
    BY <1>8 DEF Accepts
  <2>3. /\ runtimes' \in [Operations -> RuntimeSnapshot \cup {None}] /\ runtimes'[o] = next
        /\ \A p \in Operations \ {o} : runtimes'[p] = runtimes[p]
    BY <2>1 DEF CreateInv, CreateTyped
  <2>4. RowsOnly(o)
    BY <1>1, <2>3 DEF RowsOnly, CreateInv, CreateTyped
  <2>5. Leaves(o, f)
    BY <1>1, <1>2, <1>5, <1>7, <2>2, <2>3, RowsAre
       DEF Creation, Leaves, CreationRow, KindFits, StepsLast, StatusFits, RuntimeIsHeld
  <2>6. Leaves(o, Again(o))
    BY <1>1, <1>2, <2>2, <2>3, RowsAre, AgainIs
       DEF Creation, Leaves, CreationRow, KindFits, StepsLast, StatusFits, RuntimeIsHeld
  <2> QED BY <2>1, <2>4, <2>5, <2>6, JournalKeeps
<1>9. CASE ~Accepts(o, s, next)
  <2>1. flows' = [flows EXCEPT ![o].pc = "record-outcome"] /\ UNCHANGED runtimes
    BY <1>3, <1>4, <1>5, <1>9 DEF MarkRuntimeError
  <2>2. /\ flows' \in [Operations -> FlowRow] /\ flows'[o] = f
        /\ \A p \in Operations \ {o} : flows'[p] = flows[p]
    <3>1. flows' = [flows EXCEPT ![o] = f] /\ flows \in [Operations -> FlowRow]
      BY <1>6, <2>1 DEF Goto, CreateInv, CreateTyped
    <3> QED BY <3>1
  <2>3. flows[o].attempt = 0 => operations[o].status = "succeeded"
    <3>1. flows[o].attempt = 0 /\ operations[o].status = "queued" => runtimes[o] = s
      BY <1>1, <1>2, <1>3, RowsAre DEF Creation, CreationRow, RuntimeIsHeld
    <3> QED BY <1>2, <1>5, <1>9, <3>1 DEF Accepts
  <2>4. Leaves(o, f)
    BY <1>1, <1>2, <1>7, <2>1, <2>3, RowsAre
       DEF Creation, Leaves, CreationRow, KindFits, StepsLast, StatusFits, RuntimeIsHeld
  <2>5. RowsOnly(o)
    BY <1>1, <2>1, NothingElse
  <2> QED BY <2>2, <2>4, <2>5, StepKeeps
<1> QED BY <1>8, <1>9

LEMMA RecordOutcomeKeeps ==
    ASSUME CreateInv, NEW o \in Operations, RecordEnvironmentCreateOutcome(o)
    PROVE  CreateInv'
<1>1. /\ flows[o].pc = "record-outcome" /\ operations[o].kind = "create"
      /\ UNCHANGED <<environments, runtimes, cloud, guests, requests>>
  BY DEF RecordEnvironmentCreateOutcome, At, unchangedOutside
<1>2. flows[o].outcome \in {"failed", "blocked"}
  BY <1>1, RowsAre DEF Creation, CreationRow, StatusFits
<1>3. PICK s \in {"none", "queued", "succeeded", "failed", "blocked"} :
         s = IF operations[o].status = "queued" THEN flows[o].outcome ELSE operations[o].status
  BY <1>2, RowsAre DEF OperationRow
<1>4. operations' = [operations EXCEPT ![o].status = s]
  BY <1>3 DEF RecordEnvironmentCreateOutcome
<1>5. /\ operations' \in [Operations -> OperationRow] /\ operations'[o].status = s
      /\ operations'[o].kind = operations[o].kind /\ operations'[o].input = operations[o].input
      /\ \A p \in Operations \ {o} : operations'[p] = operations[p]
  BY <1>4, StatusIs
<1>6. PICK f \in FlowRow : f = Goto(o, "failed") /\ Journal(o, f)
  BY RowsAre, GotoIs DEF RecordEnvironmentCreateOutcome
<1>7. /\ f.pc = "failed" /\ f.attempt = flows[o].attempt
      /\ f.current = flows[o].current /\ f.outcome = flows[o].outcome
  BY <1>6, RowsAre, GotoIs
<1>8. RowsOnly(o)
  BY <1>1, <1>5 DEF RowsOnly, CreateInv, CreateTyped
<1>9. Leaves(o, f)
  BY <1>1, <1>2, <1>3, <1>5, <1>7, RowsAre
     DEF Creation, Leaves, CreationRow, KindFits, StepsLast, StatusFits, RuntimeIsHeld, IsWhole
<1>10. Leaves(o, Again(o))
  BY <1>1, <1>2, <1>3, <1>5, RowsAre, AgainIs
     DEF Creation, Leaves, CreationRow, KindFits, StepsLast, StatusFits, RuntimeIsHeld, IsWhole
<1> QED BY <1>6, <1>8, <1>9, <1>10, JournalKeeps

(* Commands, and what the recovery sends.                                  *)
LEMMA KeptIsKept ==
    ASSUME CreateInv, UNCHANGED <<operations, environments, runtimes, flows, cloud, guests>>,
           requests' \in [Requests -> RequestRow], RequestsFit'
    PROVE  CreateInv'
BY DEF CreateInv, CreateTyped, Creation

LEMMA SendKeeps ==
    ASSUME CreateInv, NEW S, \A o \in Operations : o \in S => operations[o].kind # "none",
           Send(S), UNCHANGED <<operations, environments, runtimes, cloud, guests>>,
           requests' \in [Requests -> RequestRow], RequestsFit'
    PROVE  CreateInv'
<1>1. \A o \in Operations :
         /\ flows'[o] = IF o \in S /\ flows[o].pc = "none"
                        THEN [flows[o] EXCEPT !.pc = "record-invocation"] ELSE flows[o]
         /\ [flows[o] EXCEPT !.pc = "record-invocation"] \in FlowRow
         /\ flows[o] \in FlowRow
  BY RowsAre DEF Send, FlowRow, Steps
<1>2. flows' \in [Operations -> FlowRow]
  BY <1>1 DEF Send
<1>3. \A o \in Operations : Creation(o)'
  <2> SUFFICES ASSUME NEW o \in Operations, flows'[o] # flows[o] PROVE Creation(o)'
    BY DEF CreateInv, Creation
  <2>1. /\ flows'[o].pc = "record-invocation" /\ flows[o].pc = "none"
        /\ flows'[o].current = flows[o].current /\ flows'[o].attempt = flows[o].attempt
        /\ flows'[o].outcome = flows[o].outcome /\ operations[o].kind # "none"
    BY <1>1 DEF FlowRow
  <2> QED BY <2>1, RowsAre
          DEF Creation, CreationRow, KindFits, StepsLast, StatusFits, RuntimeIsHeld
<1> QED BY <1>2, <1>3 DEF CreateInv, CreateTyped

LEMMA RequestMoves ==
    ASSUME CreateInv, NEW q \in Requests, NEW pc \in {"answered", "lost"},
           requests' = [requests EXCEPT ![q].pc = pc], UNCHANGED operations
    PROVE  requests' \in [Requests -> RequestRow] /\ RequestsFit'
<1>1. /\ requests' \in [Requests -> RequestRow] /\ requests'[q].pc = pc
      /\ \A p \in Requests \ {q} : requests'[p] = requests[p]
  BY DEF CreateInv, CreateTyped, RequestRow
<1> QED BY <1>1 DEF CreateInv, RequestsFit

LEMMA LoseRequestKeeps ==
    ASSUME CreateInv, NEW q \in Requests, LoseRequest(q)
    PROVE  CreateInv'
BY RequestMoves, KeptIsKept DEF LoseRequest

LEMMA DispatchKeeps ==
    ASSUME CreateInv, NEW q \in Requests, DispatchEnvironmentCreate(q)
    PROVE  CreateInv'
<1>1. /\ UNCHANGED <<operations, environments, runtimes, cloud, guests>>
      /\ operations[requests[q].op].kind # "none"
      /\ \/ requests' = [requests EXCEPT ![q].pc = "answered"] /\ Send({requests[q].op} \ started)
         \/ requests' = [requests EXCEPT ![q].pc = "lost"] /\ UNCHANGED flows
  BY DEF DispatchEnvironmentCreate, CreateInv, RequestsFit
<1>2. requests' \in [Requests -> RequestRow] /\ RequestsFit'
  BY <1>1, RequestMoves
<1>3. CASE UNCHANGED flows
  BY <1>1, <1>2, <1>3, KeptIsKept
<1>4. CASE Send({requests[q].op} \ started)
  BY <1>1, <1>2, <1>4, SendKeeps
<1> QED BY <1>1, <1>3, <1>4

LEMMA RecoveryKeeps ==
    ASSUME CreateInv, DispatchPendingEnvironmentCreates
    PROVE  CreateInv'
<1>1. PICK S \in SUBSET Batch : Send(S)
  BY DEF DispatchPendingEnvironmentCreates
<1>2. UNCHANGED <<requests, operations, environments, runtimes, cloud, guests>>
  BY DEF DispatchPendingEnvironmentCreates
<1>3. \A o \in Operations : o \in S => operations[o].kind # "none"
  BY DEF Batch, Pending
<1>4. requests' \in [Requests -> RequestRow] /\ RequestsFit'
  BY <1>2 DEF CreateInv, CreateTyped, RequestsFit
<1> QED BY <1>1, <1>2, <1>3, <1>4, SendKeeps

(* A row of operations that is reserved was free, and had nothing.         *)
LEMMA ReservedKeeps ==
    ASSUME CreateInv, NEW o \in Operations, operations[o].kind = "none",
           NEW x \in OperationRow, operations' = [operations EXCEPT ![o] = x],
           \/ x.kind = "create" /\ x.input \in Inputs /\ x.status = "queued"
              /\ environments' = [environments EXCEPT ![o].lifecycle = "creating"]
           \/ x.kind = "runtime" /\ x.status = "queued" /\ UNCHANGED environments,
           UNCHANGED <<runtimes, flows, cloud, guests>>,
           requests' \in [Requests -> RequestRow],
           \A q \in Requests : \/ requests'[q] = requests[q]
                               \/ requests'[q].pc = "dispatch" => requests'[q].op = o
    PROVE  CreateInv'
<1>1. /\ operations' \in [Operations -> OperationRow] /\ operations'[o] = x
      /\ \A p \in Operations \ {o} : operations'[p] = operations[p]
  BY DEF CreateInv, CreateTyped
<1>2. /\ environments' \in [Operations -> EnvironmentRow]
      /\ x.kind = "create" => environments'[o].lifecycle = "creating"
      /\ environments'[o].runtime = environments[o].runtime
      /\ \A p \in Operations \ {o} : environments'[p] = environments[p]
  <2>1. environments \in [Operations -> EnvironmentRow]
    BY DEF CreateInv, CreateTyped
  <2>2. CASE UNCHANGED environments /\ x.kind = "runtime"
    BY <2>1, <2>2
  <2>3. CASE environments' = [environments EXCEPT ![o].lifecycle = "creating"]
    <3> DEFINE e == [environments[o] EXCEPT !.lifecycle = "creating"]
    <3>1. /\ e \in EnvironmentRow /\ e.lifecycle = "creating"
          /\ e.runtime = environments[o].runtime
      BY <2>1 DEF EnvironmentRow
    <3>2. environments' = [environments EXCEPT ![o] = e]
      BY <2>1, <2>3
    <3> HIDE DEF e
    <3> QED BY <2>1, <3>1, <3>2
  <2> QED BY <2>2, <2>3
<1>3. flows[o].pc = "none" /\ flows[o].current = None /\ runtimes[o] = None
  BY RowsAre DEF Creation, CreationRow, KindFits
<1>4. Creation(o)'
  BY <1>1, <1>2, <1>3, RowsAre
     DEF Creation, CreationRow, KindFits, StepsLast, StatusFits, RuntimeIsHeld
<1>5. OthersStay(o)
  BY <1>1, <1>2 DEF OthersStay
<1>6. RequestsFit'
  <2>1. \A p \in Operations : operations[p].kind # "none" => operations'[p].kind # "none"
    BY <1>1
  <2>2. operations'[o].kind # "none"
    BY <1>1
  <2> QED BY <2>1, <2>2 DEF CreateInv, RequestsFit
<1>7. CreateTyped'
  BY <1>1, <1>2 DEF CreateInv, CreateTyped
<1> QED BY <1>4, <1>5, <1>6, <1>7, OthersAreKept DEF CreateInv

LEMMA ReserveCreationKeeps ==
    ASSUME CreateInv, NEW q \in Requests, NEW key \in Keys, NEW input \in Inputs,
           ReserveEnvironmentCreation(q, key, input)
    PROVE  CreateInv'
<1> DEFINE Answer(pc, o) ==
        requests' = [requests EXCEPT ![q] = [pc |-> pc, key |-> key, input |-> input, op |-> o]]
<1>1. UNCHANGED <<runtimes, flows, cloud, guests>>
  BY DEF ReserveEnvironmentCreation
<1>2. ASSUME NEW pc \in {"dispatch", "refused"}, NEW o \in Operations \cup {None}, Answer(pc, o)
      PROVE  /\ requests' \in [Requests -> RequestRow]
             /\ requests'[q].pc = pc /\ requests'[q].op = o
             /\ \A p \in Requests \ {q} : requests'[p] = requests[p]
  <2>1. [pc |-> pc, key |-> key, input |-> input, op |-> o] \in RequestRow
    BY DEF RequestRow
  <2> QED BY <1>2, <2>1 DEF CreateInv, CreateTyped
<1>3. CASE /\ UNCHANGED <<operations, environments>>
           /\ \/ Answer("refused", None)
              \/ \E o \in OfKey(key) : Answer("dispatch", o)
  <2>1. \A o \in OfKey(key) : o \in Operations /\ operations[o].kind # "none"
    <3> SUFFICES ASSUME NEW o \in OfKey(key), operations[o].kind = "none" PROVE FALSE
      BY DEF OfKey
    <3>1. o \in Operations /\ operations[o].key = key
      BY DEF OfKey
    <3>2. operations[o].key = None
      BY <3>1, RowsAre DEF Creation, CreationRow, KindFits
    <3> QED BY <3>1, <3>2, NoneAssumption DEF Keys
  <2>2. requests' \in [Requests -> RequestRow] /\ RequestsFit'
    BY <1>2, <1>3, <2>1 DEF CreateInv, RequestsFit
  <2> QED BY <1>1, <1>3, <2>2, KeptIsKept
<1>4. CASE /\ Free # {} /\ Answer("dispatch", Least(Free))
           /\ insertEnvironmentCreation(Least(Free), key, input)
  <2>1. PICK o \in Operations : o = Least(Free) /\ operations[o].kind = "none"
    <3>1. Free \in SUBSET Operations
      BY DEF Free
    <3>2. Least(Free) \in Free
      BY <1>4, <3>1, SmallestExists
    <3> QED BY <3>2 DEF Free
  <2> DEFINE x == [kind |-> "create", key |-> key, input |-> input, status |-> "queued"]
  <2>2. x \in OperationRow /\ x.kind = "create" /\ x.input = input /\ x.status = "queued"
    BY DEF OperationRow
  <2>3. /\ operations' = [operations EXCEPT ![o] = x]
        /\ environments' = [environments EXCEPT ![o].lifecycle = "creating"]
    BY <1>4, <2>1 DEF insertEnvironmentCreation
  <2> HIDE DEF x
  <2>4. /\ requests' \in [Requests -> RequestRow]
        /\ \A p \in Requests : \/ requests'[p] = requests[p]
                               \/ requests'[p].pc = "dispatch" => requests'[p].op = o
    BY <1>2, <1>4, <2>1
  <2> QED BY <1>1, <2>1, <2>2, <2>3, <2>4, ReservedKeeps
<1> QED BY <1>3, <1>4 DEF ReserveEnvironmentCreation

LEMMA ReserveRuntimeOperationKeeps ==
    ASSUME CreateInv, ReserveRuntimeOperation
    PROVE  CreateInv'
<1>1. PICK o \in Operations : o = Least(Free) /\ operations[o].kind = "none"
  <2>1. Free \in SUBSET Operations /\ Free # {}
    BY DEF Free, ReserveRuntimeOperation
  <2>2. Least(Free) \in Free
    BY <2>1, SmallestExists
  <2> QED BY <2>2 DEF Free
<1> DEFINE x == [operations[o] EXCEPT !.kind = "runtime", !.status = "queued"]
<1>2. x \in OperationRow /\ x.kind = "runtime" /\ x.status = "queued"
  BY RowsAre DEF OperationRow
<1>3. operations' = [operations EXCEPT ![o] = x]
  BY <1>1 DEF ReserveRuntimeOperation, CreateInv, CreateTyped
<1>4. UNCHANGED <<environments, runtimes, flows, cloud, guests, requests>>
  BY DEF ReserveRuntimeOperation
<1> HIDE DEF x
<1>5. requests' \in [Requests -> RequestRow]
  BY <1>4 DEF CreateInv, CreateTyped
<1> QED BY <1>1, <1>2, <1>3, <1>4, <1>5, ReservedKeeps

LEMMA RunRuntimeOperationKeeps ==
    ASSUME CreateInv, NEW o \in Operations, RunRuntimeOperation(o)
    PROVE  CreateInv'
<1>1. /\ operations[o].kind = "runtime" /\ operations' = [operations EXCEPT ![o].status = "succeeded"]
      /\ UNCHANGED <<requests, environments, runtimes, flows, cloud, guests>>
  BY DEF RunRuntimeOperation
<1>2. /\ operations' \in [Operations -> OperationRow] /\ operations'[o].status = "succeeded"
      /\ operations'[o].kind = operations[o].kind
      /\ \A p \in Operations \ {o} : operations'[p] = operations[p]
  BY <1>1, StatusIs
<1>3. RowsOnly(o)
  BY <1>1, <1>2 DEF RowsOnly, CreateInv, CreateTyped
<1>4. Leaves(o, flows'[o])
  BY <1>1, <1>2, RowsAre
     DEF Creation, Leaves, CreationRow, KindFits, StepsLast, StatusFits, RuntimeIsHeld
<1>5. flows' \in [Operations -> FlowRow]
  BY <1>1 DEF CreateInv, CreateTyped
<1> QED BY <1>1, <1>3, <1>4, <1>5, StepKeeps

LEMMA CreateStepKeeps ==
    ASSUME CreateInv, [CreateNext]_vars
    PROVE  CreateInv'
<1>1. CASE UNCHANGED vars
  <2>1. UNCHANGED <<requests, operations, environments, runtimes, flows, cloud, guests>>
    BY <1>1 DEF vars
  <2>2. requests' \in [Requests -> RequestRow] /\ RequestsFit'
    BY <2>1 DEF CreateInv, CreateTyped, RequestsFit
  <2> QED BY <2>1, <2>2, KeptIsKept
<1>2. CASE \E o \in Operations : WorkflowStep(o) \/ StepFails(o) \/ RunRuntimeOperation(o)
  BY <1>2, RecordInvocationKeeps, EnsureDataVolumeKeeps, InventoryKeeps, ReserveInitialRuntimeKeeps,
     EnsureRuntimeKeeps, TransitionStepsKeep, EnsureAttachmentKeeps, PrepareGuestKeeps,
     ApplySeedKeeps, ResolvePinnedKeeps, MaterializeKeeps, PersistCapsuleStateKeeps,
     BindCredentialsKeeps, CompleteKeeps, MarkErrorKeeps, RecordOutcomeKeeps, StepFailsKeeps,
     RunRuntimeOperationKeeps DEF WorkflowStep
<1>3. CASE \E q \in Requests :
              \/ \E key \in Keys, input \in Inputs : ReserveEnvironmentCreation(q, key, input)
              \/ LoseRequest(q) \/ DispatchEnvironmentCreate(q)
  BY <1>3, ReserveCreationKeeps, LoseRequestKeeps, DispatchKeeps
<1> QED BY <1>1, <1>2, <1>3, RecoveryKeeps, ReserveRuntimeOperationKeeps DEF CreateNext

LEMMA CreateInitHolds ==
    ASSUME CreateInit
    PROVE  CreateInv
<1>1. CreateTyped
  BY DEF CreateInit, CreateTyped, RequestRow, OperationRow, EnvironmentRow, FlowRow, CloudRow,
         GuestRow, Unreserved
<1>2. RequestsFit
  BY DEF CreateInit, RequestsFit
<1>3. \A o \in Operations :
         /\ operations[o].kind = "none" /\ operations[o].key = None /\ operations[o].status = "none"
         /\ flows[o].pc = "none" /\ flows[o].current = None /\ runtimes[o] = None
  BY DEF CreateInit, Unreserved
<1>4. \A o \in Operations : Creation(o)
  BY <1>3 DEF Creation, CreationRow, KindFits, StepsLast, StatusFits, RuntimeIsHeld
<1> QED BY <1>1, <1>2, <1>4 DEF CreateInv

(* The rows of every creation fit the step its workflow is at, whatever    *)
(* crashed, was lost or was sent twice (environment.create).               *)
THEOREM CreateInvariance == CreateSpec => []CreateInv
BY CreateInitHolds, CreateStepKeeps, PTL DEF CreateSpec

(* An active Environment has all that its creation promises, a failed one  *)
(* no Runtime that looks alive unless a process died, and none owns two    *)
(* volumes or instances: for any number of requests, keys, losses, crashes *)
(* and faults (CompleteEnvironmentCreation, failEnvironmentCreation).      *)
THEOREM CreationWhole == CreateSpec => []CreationIsWhole
<1>1. CreateInv => CreationIsWhole
  <2> SUFFICES ASSUME CreateInv, NEW o \in Operations
      PROVE /\ operations[o].kind = "create" =>
                 (environments[o].lifecycle = "active" <=> operations[o].status = "succeeded")
            /\ operations[o].kind = "create" /\ environments[o].lifecycle = "active" =>
                 /\ runtimes[o].status = "ready" /\ cloud[o].attached
                 /\ cloud[o].instances = {runtimes[o].provider}
                 /\ cloud[o].volumes = {environments[o].volume}
                 /\ guests[o].identity /\ guests[o].seed = operations[o].input.seed
                 /\ guests[o].lock = environments[o].lock /\ guests[o].whole
            /\ operations[o].status = "failed" /\ flows[o].attempt = 0 =>
                 runtimes[o] = None \/ runtimes[o].status = "error"
            /\ Cardinality(cloud[o].volumes) <= 1 /\ Cardinality(cloud[o].instances) <= 1
    BY DEF CreationIsWhole
  <2>1. Creation(o) /\ operations[o] \in OperationRow /\ cloud[o] \in CloudRow
    BY RowsAre
  <2>2. Cardinality(cloud[o].volumes) <= 1 /\ Cardinality(cloud[o].instances) <= 1
    BY <2>1, FoundIsOne DEF CloudRow
  <2>3. operations[o].status = "failed" => operations[o].kind = "create"
    BY <2>1 DEF Creation, CreationRow, KindFits, OperationRow
  <2> QED BY <2>1, <2>2, <2>3 DEF Creation, CreationRow, StatusFits, IsWhole, RuntimeIsHeld
<1> QED BY <1>1, CreateInvariance, PTL

-----------------------------------------------------------------------------
(* The Capsules of an Environment.                                         *)

USE CapsuleAssumption, LayersAssumption

-----------------------------------------------------------------------------
(* The objects of a Capsule and the order they are put in *)

LEMMA LayersTyped ==
  ASSUME NEW c \in Capsules
  PROVE  /\ LayersOf[c] \in Seq(Layers) /\ Len(LayersOf[c]) \in Nat
         /\ DOMAIN LayersOf[c] = 1..Len(LayersOf[c])
         /\ \A k \in 1..Len(LayersOf[c]) : LayersOf[c][k] \in Layers
  OBVIOUS

LEMMA LayerObjectsAre ==
  ASSUME NEW c \in Capsules
  PROVE  /\ LayerObjects(c) \in Seq(Blobs) /\ Len(LayerObjects(c)) = Len(LayersOf[c])
         /\ \A k \in 1..Len(LayersOf[c]) : LayerObjects(c)[k] = Layer(LayersOf[c][k])
  <1>1. DOMAIN LayersOf[c] = 1..Len(LayersOf[c]) /\ Len(LayersOf[c]) \in Nat
    BY LayersTyped
  <1>2. \A k \in 1..Len(LayersOf[c]) : Layer(LayersOf[c][k]) \in Blobs
    BY <1>1 DEF Blobs, BlobsOf
  <1> QED
    BY <1>1, <1>2 DEF LayerObjects

LEMMA OrderIs ==
  ASSUME NEW c \in Capsules
  PROVE  /\ Len(UploadOrder(c)) = Len(LayersOf[c]) + 3
         /\ UploadOrder(c)[1] = Config(c)
         /\ \A k \in 1..Len(LayersOf[c]) : UploadOrder(c)[k + 1] = Layer(LayersOf[c][k])
         /\ UploadOrder(c)[Len(LayersOf[c]) + 2] = Manifest(c)
         /\ UploadOrder(c)[Len(LayersOf[c]) + 3] = Index(c)
  <1>1. PICK n \in Nat : n = Len(LayersOf[c])
    BY LayersTyped
  <1>2. PICK s \in Seq(Blobs) : s = LayerObjects(c)
    BY LayerObjectsAre
  <1>3. Len(s) = n /\ \A k \in 1..n : s[k] = Layer(LayersOf[c][k])
    BY <1>1, <1>2, LayerObjectsAre
  <1>4. PICK t : t = <<Config(c)>> \o s
    OBVIOUS
  <1>5. Config(c) \in Objects /\ Manifest(c) \in Objects /\ Index(c) \in Objects /\ s \in Seq(Objects)
    BY DEF Objects, Blobs, BlobsOf
  <1>6. t \in Seq(Objects) /\ Len(t) = n + 1 /\ t[1] = Config(c) /\ \A k \in 1..n : t[k + 1] = s[k]
    BY <1>3, <1>4, <1>5
  <1>7. PICK u : u = t \o <<Manifest(c), Index(c)>>
    OBVIOUS
  <1>8. Len(u) = n + 3 /\ (\A k \in 1..(n + 1) : u[k] = t[k]) /\ u[n + 2] = Manifest(c) /\ u[n + 3] = Index(c)
    BY <1>5, <1>6, <1>7
  <1>9. UploadOrder(c) = u
    BY <1>2, <1>4, <1>7 DEF UploadOrder
  <1>10. u[1] = Config(c) /\ \A k \in 1..n : u[k + 1] = Layer(LayersOf[c][k])
    BY <1>3, <1>6, <1>8
  <1> QED
    BY <1>1, <1>8, <1>9, <1>10

\* Everything but the index comes before it.
LEMMA BlobsComeFirst ==
  ASSUME NEW c \in Capsules
  PROVE  /\ \A b \in BlobsOf(c) : \E n \in 1..(Len(LayersOf[c]) + 2) : UploadOrder(c)[n] = b
         /\ \A n \in 1..(Len(LayersOf[c]) + 3) : UploadOrder(c)[n] \in BlobsOf(c) \cup {Index(c)}
  <1>1. Len(LayersOf[c]) \in Nat /\ DOMAIN LayersOf[c] = 1..Len(LayersOf[c])
    BY LayersTyped
  <1>2. ASSUME NEW b \in BlobsOf(c) PROVE \E n \in 1..(Len(LayersOf[c]) + 2) : UploadOrder(c)[n] = b
    <2>1. CASE b = Config(c)
      BY <1>1, <2>1, OrderIs
    <2>2. CASE b = Manifest(c)
      BY <1>1, <2>2, OrderIs, SMTT(30)
    <2>3. CASE \E k \in DOMAIN LayersOf[c] : b = Layer(LayersOf[c][k])
      <3>1. PICK k \in 1..Len(LayersOf[c]) : b = Layer(LayersOf[c][k])
        BY <1>1, <2>3
      <3>2. k + 1 \in 1..(Len(LayersOf[c]) + 2)
        BY <1>1
      <3> QED
        BY <3>1, <3>2, OrderIs
    <2> QED
      BY <2>1, <2>2, <2>3 DEF BlobsOf
  <1>3. ASSUME NEW n \in 1..(Len(LayersOf[c]) + 3) PROVE UploadOrder(c)[n] \in BlobsOf(c) \cup {Index(c)}
    <2>1. CASE n = 1
      BY <2>1, OrderIs DEF BlobsOf
    <2>2. CASE n \in 2..(Len(LayersOf[c]) + 1)
      <3>1. n - 1 \in 1..Len(LayersOf[c]) /\ (n - 1) + 1 = n
        BY <1>1, <2>2
      <3>2. UploadOrder(c)[n] = Layer(LayersOf[c][n - 1])
        BY <3>1, OrderIs
      <3> QED
        BY <1>1, <3>1, <3>2 DEF BlobsOf
    <2>3. CASE n = Len(LayersOf[c]) + 2 \/ n = Len(LayersOf[c]) + 3
      BY <2>3, OrderIs DEF BlobsOf
    <2> QED
      BY <1>1, <2>1, <2>2, <2>3
  <1> QED
    BY <1>2, <1>3

LEMMA IndexIsNoBlob ==
  ASSUME NEW c \in Capsules, NEW d \in Capsules
  PROVE  Index(c) \notin BlobsOf(d) /\ BlobsOf(d) \subseteq Objects /\ Index(c) \in Objects
         /\ (Index(c) = Index(d) => c = d)
  BY DEF Index, BlobsOf, Config, Manifest, Layer, Objects, Blobs

-----------------------------------------------------------------------------
(* Publication *)

PushRow == [next : Nat, capsule : Capsules \cup {Nothing}]

BucketTyped ==
    /\ bucket \in [Owners -> [Objects -> Content]] /\ tag \in [Owners -> Capsules \cup {Nothing}]
    /\ push \in [Publishers -> PushRow]
    /\ \A p \in Publishers : push[p] # NoPush =>
          push[p].capsule \in Capsules /\ push[p].next \in 1..(Len(LayersOf[push[p].capsule]) + 4)

\* What a publisher has put is there.
PutsAreThere ==
    \A p \in Publishers : push[p] # NoPush =>
        \A n \in 1..(push[p].next - 1) : bucket[OwnerOf[p]][UploadOrder(push[p].capsule)[n]] # "absent"

\* An index is there only with all that it names, unless its Owner puts objects directly.
IndexComesLast ==
    \A o \in Owners \ Direct, c \in Capsules :
        bucket[o][Index(c)] # "absent" => \A b \in BlobsOf(c) : bucket[o][b] # "absent"

TagsHaveIndex == \A o \in Owners : tag[o] # Nothing => bucket[o][Index(tag[o])] # "absent"

PublishInv == BucketTyped /\ PutsAreThere /\ IndexComesLast /\ TagsHaveIndex

\* Objects are never removed.
Grows == \A o \in Owners, x \in Objects : bucket[o][x] # "absent" => bucket'[o][x] # "absent"

LEMMA OrderedIsObject ==
  ASSUME NEW c \in Capsules, NEW n \in 1..(Len(LayersOf[c]) + 3)
  PROVE  UploadOrder(c)[n] \in Objects
  BY BlobsComeFirst, IndexIsNoBlob

LEMMA PutsStay ==
  ASSUME PublishInv, Grows, NEW p \in Publishers, push[p] # NoPush, push'[p] = push[p]
  PROVE  \A n \in 1..(push'[p].next - 1) : bucket'[OwnerOf[p]][UploadOrder(push'[p].capsule)[n]] # "absent"
  <1>1. PICK c \in Capsules : c = push[p].capsule
    BY DEF PublishInv, BucketTyped
  <1>2. PICK m \in Nat : m = push[p].next /\ m <= Len(LayersOf[c]) + 4
    BY <1>1, LayersTyped DEF PublishInv, BucketTyped
  <1>3. ASSUME NEW n \in 1..(m - 1) PROVE bucket'[OwnerOf[p]][UploadOrder(c)[n]] # "absent"
    <2>1. n \in 1..(Len(LayersOf[c]) + 3)
      BY <1>2, LayersTyped
    <2>2. UploadOrder(c)[n] \in Objects
      BY <2>1, OrderedIsObject
    <2>3. bucket[OwnerOf[p]][UploadOrder(c)[n]] # "absent"
      BY <1>1, <1>2 DEF PublishInv, PutsAreThere
    <2> QED
      BY <2>2, <2>3 DEF Grows
  <1> QED
    BY <1>1, <1>2, <1>3

\* Steps that put no object, but for an Owner who does so directly.
LEMMA QuietPublish ==
  ASSUME PublishInv, Grows, bucket' \in [Owners -> [Objects -> Content]],
         \A o \in Owners \ Direct, c \in Capsules : bucket'[o][Index(c)] # "absent" => bucket[o][Index(c)] # "absent",
         tag' \in [Owners -> Capsules \cup {Nothing}], push' \in [Publishers -> PushRow],
         \A p \in Publishers : \/ push'[p] = push[p] \/ push'[p] = NoPush
                               \/ push'[p].next = 1 /\ push'[p].capsule \in Capsules,
         \A o \in Owners : tag'[o] # tag[o] => bucket[o][Index(tag'[o])] # "absent"
  PROVE  PublishInv'
  <1>1. BucketTyped'
    <2>1. ASSUME NEW p \in Publishers, push'[p] # NoPush
          PROVE  push'[p].capsule \in Capsules /\ push'[p].next \in 1..(Len(LayersOf[push'[p].capsule]) + 4)
      <3>1. CASE push'[p] = push[p]
        BY <2>1, <3>1 DEF PublishInv, BucketTyped
      <3>2. CASE push'[p].next = 1 /\ push'[p].capsule \in Capsules
        <4>1. Len(LayersOf[push'[p].capsule]) \in Nat
          BY <3>2, LayersTyped
        <4> QED
          BY <3>2, <4>1
      <3> QED
        BY <2>1, <3>1, <3>2
    <2> QED
      BY <2>1 DEF BucketTyped
  <1>2. PutsAreThere'
    <2>1. ASSUME NEW p \in Publishers, push'[p] # NoPush
          PROVE  \A n \in 1..(push'[p].next - 1) : bucket'[OwnerOf[p]][UploadOrder(push'[p].capsule)[n]] # "absent"
      <3>1. CASE push'[p] = push[p]
        BY <2>1, <3>1, PutsStay
      <3>2. CASE push'[p].next = 1
        BY <3>2
      <3> QED
        BY <2>1, <3>1, <3>2
    <2> QED
      BY <2>1 DEF PutsAreThere, UploadOrder, LayerObjects, Config, Manifest, Index, Layer
  <1>3. IndexComesLast'
    <2>1. ASSUME NEW o \in Owners \ Direct, NEW c \in Capsules, bucket'[o][Index(c)] # "absent", NEW b \in BlobsOf(c)
          PROVE  bucket'[o][b] # "absent"
      <3>1. b \in Objects
        BY IndexIsNoBlob
      <3> QED
        BY <2>1, <3>1 DEF PublishInv, IndexComesLast, Grows
    <2> QED
      BY <2>1 DEF IndexComesLast
  <1>4. TagsHaveIndex'
    <2>1. ASSUME NEW o \in Owners, tag'[o] # Nothing PROVE bucket'[o][Index(tag'[o])] # "absent"
      <3>1. tag'[o] \in Capsules
        BY <2>1
      <3>2. Index(tag'[o]) \in Objects
        BY <3>1, IndexIsNoBlob
      <3>3. bucket[o][Index(tag'[o])] # "absent"
        BY <2>1 DEF PublishInv, TagsHaveIndex
      <3> QED
        BY <3>2, <3>3 DEF Grows
    <2> QED
      BY <2>1 DEF TagsHaveIndex
  <1> QED
    BY <1>1, <1>2, <1>3, <1>4 DEF PublishInv

LEMMA BuildKeeps ==
  ASSUME PublishInv, NEW p \in Publishers, NEW c \in Capsules, BuildCapsule(p, c)
  PROVE  PublishInv'
  <1>1. /\ push' = [push EXCEPT ![p] = [next |-> 1, capsule |-> c]] /\ UNCHANGED <<bucket, tag>>
    BY DEF BuildCapsule
  <1>2. push \in [Publishers -> PushRow] /\ bucket' \in [Owners -> [Objects -> Content]]
        /\ tag' \in [Owners -> Capsules \cup {Nothing}]
    BY <1>1 DEF PublishInv, BucketTyped
  <1>3. PICK s : s = [next |-> 1, capsule |-> c]
    OBVIOUS
  <1>4. s \in PushRow /\ s.next = 1 /\ s.capsule = c
    BY <1>3 DEF PushRow
  <1>5. push' \in [Publishers -> PushRow] /\ push'[p] = s /\ \A q \in Publishers : q # p => push'[q] = push[q]
    BY <1>1, <1>2, <1>3, <1>4
  <1>6. Grows
    BY <1>1 DEF Grows
  <1> QED
    BY <1>1, <1>2, <1>4, <1>5, <1>6, QuietPublish

LEMMA NoPushTyped == NoPush \in PushRow
  BY DEF NoPush, PushRow

\* A publisher ends, or goes on; a tag is moved to a Capsule that its Owner has.
LEMMA TagKeeps ==
  ASSUME PublishInv, UNCHANGED bucket,
         (\E p \in Publishers : push' = [push EXCEPT ![p] = NoPush]) \/ UNCHANGED push,
         (\E o \in Owners, c \in Capsules : PutCapsuleTag(o, c)) \/ UNCHANGED tag
  PROVE  PublishInv'
  <1>1. push \in [Publishers -> PushRow] /\ bucket' \in [Owners -> [Objects -> Content]]
        /\ tag \in [Owners -> Capsules \cup {Nothing}]
    BY DEF PublishInv, BucketTyped
  <1>2. push' \in [Publishers -> PushRow] /\ \A p \in Publishers : push'[p] = push[p] \/ push'[p] = NoPush
    BY <1>1, NoPushTyped
  <1>3. /\ tag' \in [Owners -> Capsules \cup {Nothing}]
        /\ \A o \in Owners : tag'[o] # tag[o] => bucket[o][Index(tag'[o])] # "absent"
    BY <1>1 DEF PutCapsuleTag, UpsertCapsuleTag, OwnsCapsule, ownsCapsuleObject, capsuleObjectKey
  <1>4. Grows
    BY DEF Grows
  <1> QED
    BY <1>1, <1>2, <1>3, <1>4, QuietPublish

LEMMA WriteKeeps ==
  ASSUME PublishInv, NEW p \in Publishers, WriteObject(p)
  PROVE  PublishInv'
  <1>1. push[p] # NoPush
    BY DEF WriteObject
  <1>2. PICK c \in Capsules : c = push[p].capsule
    BY <1>1 DEF PublishInv, BucketTyped
  <1>3. PICK m \in Nat : m = push[p].next /\ m \in 1..(Len(LayersOf[c]) + 4)
    BY <1>1, <1>2, LayersTyped DEF PublishInv, BucketTyped
  <1>4. PICK o \in Owners : o = OwnerOf[p]
    OBVIOUS
  <1>5. m \in 1..(Len(LayersOf[c]) + 3) /\ Len(LayersOf[c]) \in Nat
    BY <1>2, <1>3, OrderIs, LayersTyped DEF WriteObject
  <1>6. PICK x \in Objects : x = UploadOrder(c)[m]
    BY <1>5, OrderedIsObject
  <1>7. UNCHANGED tag
    BY DEF WriteObject
  <1>8. CASE writeGrantedObject(o, x)
    <2>1. bucket' = [bucket EXCEPT ![o][x] = "stored"] /\ push' = [push EXCEPT ![p].next = m + 1]
      BY <1>2, <1>3, <1>4, <1>6, <1>8 DEF WriteObject
    <2>2. bucket \in [Owners -> [Objects -> Content]] /\ push \in [Publishers -> PushRow]
          /\ tag' \in [Owners -> Capsules \cup {Nothing}]
      BY <1>7 DEF PublishInv, BucketTyped
    <2>3. /\ bucket' \in [Owners -> [Objects -> Content]] /\ bucket'[o][x] = "stored"
          /\ \A q \in Owners, y \in Objects : q # o \/ y # x => bucket'[q][y] = bucket[q][y]
      BY <2>1, <2>2 DEF Content
    <2>4. Grows
      BY <2>3 DEF Grows
    <2>5. PICK s : s = [push[p] EXCEPT !.next = m + 1]
      OBVIOUS
    <2>6. s \in PushRow /\ s.next = m + 1 /\ s.capsule = c
      BY <1>2, <2>2, <2>5 DEF PushRow
    <2>7. push' \in [Publishers -> PushRow] /\ push'[p] = s /\ \A q \in Publishers : q # p => push'[q] = push[q]
      BY <2>1, <2>2, <2>5, <2>6
    <2>8. BucketTyped'
      <3>1. ASSUME NEW q \in Publishers, push'[q] # NoPush
            PROVE  push'[q].capsule \in Capsules /\ push'[q].next \in 1..(Len(LayersOf[push'[q].capsule]) + 4)
        <4>1. CASE q = p
          BY <1>5, <2>6, <2>7, <4>1
        <4>2. CASE q # p
          BY <2>7, <3>1, <4>2 DEF PublishInv, BucketTyped
        <4> QED
          BY <4>1, <4>2
      <3> QED
        BY <2>2, <2>3, <2>7, <3>1 DEF BucketTyped
    <2>9. PutsAreThere'
      <3>1. ASSUME NEW q \in Publishers, push'[q] # NoPush
            PROVE  \A n \in 1..(push'[q].next - 1) : bucket'[OwnerOf[q]][UploadOrder(push'[q].capsule)[n]] # "absent"
        <4>1. CASE q = p
          <5>1. ASSUME NEW n \in 1..m PROVE bucket'[o][UploadOrder(c)[n]] # "absent"
            <6>1. CASE n = m
              BY <1>6, <2>3, <6>1
            <6>2. CASE n # m
              <7>1. n \in 1..(m - 1) /\ n \in 1..(Len(LayersOf[c]) + 3)
                BY <1>3, <1>5, <6>2
              <7>2. bucket[o][UploadOrder(c)[n]] # "absent"
                BY <1>1, <1>2, <1>3, <1>4, <7>1 DEF PublishInv, PutsAreThere
              <7>3. UploadOrder(c)[n] \in Objects
                BY <7>1, OrderedIsObject
              <7> QED
                BY <2>4, <7>2, <7>3 DEF Grows
            <6> QED
              BY <6>1, <6>2
          <5>2. (m + 1) - 1 = m
            BY <1>3
          <5> QED
            BY <1>4, <2>6, <2>7, <4>1, <5>1, <5>2
        <4>2. CASE q # p
          <5>1. push'[q] = push[q] /\ push[q] # NoPush
            BY <2>7, <3>1, <4>2
          <5> QED
            BY <2>4, <5>1, PutsStay
        <4> QED
          BY <4>1, <4>2
      <3> QED
        BY <3>1 DEF PutsAreThere, UploadOrder, LayerObjects, Config, Manifest, Index, Layer
    <2>10. IndexComesLast'
      <3>1. ASSUME NEW q \in Owners \ Direct, NEW d \in Capsules, bucket'[q][Index(d)] # "absent", NEW b \in BlobsOf(d)
            PROVE  bucket'[q][b] # "absent"
        <4>1. b \in Objects /\ Index(d) \in Objects
          BY IndexIsNoBlob
        <4>2. CASE bucket[q][Index(d)] # "absent"
          BY <2>4, <4>1, <4>2 DEF PublishInv, IndexComesLast, Grows
        <4>3. CASE bucket[q][Index(d)] = "absent"
          <5>1. q = o /\ x = Index(d)
            BY <2>3, <3>1, <4>1, <4>3
          <5>2. m = Len(LayersOf[c]) + 3 /\ c = d
            <6>1. CASE m \in 1..(Len(LayersOf[c]) + 2)
              <7>1. x \in BlobsOf(c)
                <8>1. CASE m = 1
                  BY <1>6, <8>1, OrderIs DEF BlobsOf
                <8>2. CASE m \in 2..(Len(LayersOf[c]) + 1)
                  <9>1. m - 1 \in 1..Len(LayersOf[c]) /\ (m - 1) + 1 = m
                    BY <1>5, <8>2
                  <9>2. x = Layer(LayersOf[c][m - 1])
                    BY <1>6, <9>1, OrderIs
                  <9> QED
                    BY <9>1, <9>2, LayersTyped DEF BlobsOf
                <8>3. CASE m = Len(LayersOf[c]) + 2
                  BY <1>6, <8>3, OrderIs DEF BlobsOf
                <8> QED
                  BY <1>5, <6>1, <8>1, <8>2, <8>3
              <7> QED
                BY <5>1, <7>1, IndexIsNoBlob
            <6>2. CASE m = Len(LayersOf[c]) + 3
              <7>1. Index(c) = Index(d)
                BY <1>6, <5>1, <6>2, OrderIs
              <7> QED
                BY <6>2, <7>1, IndexIsNoBlob
            <6> QED
              BY <1>5, <6>1, <6>2
          <5>3. PICK n \in 1..(Len(LayersOf[c]) + 2) : UploadOrder(c)[n] = b
            BY <3>1, <5>2, BlobsComeFirst
          <5>4. n \in 1..(m - 1)
            BY <1>5, <5>2
          <5>5. bucket[o][b] # "absent"
            BY <1>1, <1>2, <1>3, <1>4, <5>3, <5>4 DEF PublishInv, PutsAreThere
          <5> QED
            BY <2>4, <4>1, <5>1, <5>5 DEF Grows
        <4> QED
          BY <4>2, <4>3
      <3> QED
        BY <3>1 DEF IndexComesLast
    <2>11. TagsHaveIndex'
      <3>1. ASSUME NEW q \in Owners, tag[q] # Nothing PROVE bucket'[q][Index(tag[q])] # "absent"
        <4>1. tag[q] \in Capsules
          BY <3>1 DEF PublishInv, BucketTyped
        <4>2. Index(tag[q]) \in Objects
          BY <4>1, IndexIsNoBlob
        <4> QED
          BY <2>4, <3>1, <4>2 DEF PublishInv, TagsHaveIndex, Grows
      <3> QED
        BY <1>7, <3>1 DEF TagsHaveIndex
    <2> QED
      BY <2>8, <2>9, <2>10, <2>11 DEF PublishInv
  <1>9. CASE ~writeGrantedObject(o, x)
    <2>1. push' = [push EXCEPT ![p] = NoPush] /\ UNCHANGED bucket
      BY <1>2, <1>3, <1>4, <1>6, <1>9 DEF WriteObject
    <2> QED
      BY <1>7, <2>1, TagKeeps
  <1> QED
    BY <1>8, <1>9

LEMMA AlterKeeps ==
  ASSUME PublishInv, NEW x \in Objects, AlterObject(x)
  PROVE  PublishInv'
  <1>1. /\ bucket[GuestOwner][x] = "stored" /\ bucket' = [bucket EXCEPT ![GuestOwner][x] = "altered"]
        /\ UNCHANGED <<tag, push>>
    BY DEF AlterObject
  <1>2. /\ bucket \in [Owners -> [Objects -> Content]] /\ push' \in [Publishers -> PushRow]
        /\ tag' \in [Owners -> Capsules \cup {Nothing}]
    BY <1>1 DEF PublishInv, BucketTyped
  <1>3. /\ bucket' \in [Owners -> [Objects -> Content]]
        /\ \A o \in Owners, y \in Objects : bucket'[o][y] # "absent" <=> bucket[o][y] # "absent"
    BY <1>1, <1>2 DEF Content
  <1>4. Grows
    BY <1>3 DEF Grows
  <1>5. \A c \in Capsules : Index(c) \in Objects
    BY IndexIsNoBlob
  <1> QED
    BY <1>1, <1>2, <1>3, <1>4, <1>5, QuietPublish

LEMMA DirectKeeps ==
  ASSUME PublishInv, NEW o \in Direct, NEW x \in Objects, NEW content \in {"stored", "altered"},
         PutDirectly(o, x, content)
  PROVE  PublishInv'
  <1>1. bucket' = [bucket EXCEPT ![o][x] = content] /\ UNCHANGED <<tag, push>> /\ o \in Owners /\ content # "absent"
    BY DEF PutDirectly
  <1>2. /\ bucket \in [Owners -> [Objects -> Content]] /\ push' \in [Publishers -> PushRow]
        /\ tag' \in [Owners -> Capsules \cup {Nothing}] /\ content \in Content
    BY <1>1 DEF PublishInv, BucketTyped, Content
  <1>3. /\ bucket' \in [Owners -> [Objects -> Content]] /\ bucket'[o][x] = content
        /\ \A q \in Owners, y \in Objects : q # o \/ y # x => bucket'[q][y] = bucket[q][y]
    BY <1>1, <1>2
  <1>4. Grows
    BY <1>1, <1>3 DEF Grows
  <1>5. \A c \in Capsules : Index(c) \in Objects
    BY IndexIsNoBlob
  <1> QED
    BY <1>1, <1>2, <1>3, <1>4, <1>5, QuietPublish

-----------------------------------------------------------------------------
(* Loads *)

LoadPCs == {"rest", "mint", "open", "index", "manifest", "config", "layers", "tag", "parse", "loaded", "refused"}
Digests == Capsules \cup {Nothing}
Listing == [Capsules -> Digests]
Sets == SUBSET Blobs
Errors == {"no", "expired", "invalid", "restarted"}

LoadRow == [pc : LoadPCs, target : Digests, named : Digests, memory : Listing, valid : BOOLEAN, scan : Nat,
            workers : Sets, holding : Sets, failed : Errors]

Whole(c) == \A b \in BlobsOf(c) : blobs[b] # "absent"

\* The layers that a Pull has looked at are there, unless a worker is at one or the Pull has failed.
Scanned(s) ==
    \A k \in DOMAIN LayersOf[s.target] : k < s.scan =>
        \/ blobs[Layer(LayersOf[s.target][k])] # "absent" \/ Layer(LayersOf[s.target][k]) \in s.workers
        \/ s.failed # "no"

LoadOK(s) ==
    /\ s.pc # "rest" => s.target \in Capsules
    /\ s.pc # "layers" => s.workers = {} /\ s.holding = {}
    /\ s.pc \in {"open", "index", "manifest", "config"} => s.scan = 1
    /\ s.pc \in {"layers", "tag"} => s.named = s.target
    /\ s.pc = "layers" => blobs[Config(s.target)] # "absent" /\ Scanned(s)
    /\ s.pc = "tag" => Whole(s.target)
    /\ \A c \in Capsules : s.memory[c] # Nothing => s.memory[c] = c /\ Whole(c)
    /\ s.holding \subseteq s.workers /\ IsFiniteSet(s.holding) /\ Cardinality(s.holding) <= Parallelism

CacheTyped == blobs \in [Blobs -> Content] /\ cached \in Listing
LoadsOK == load \in [Loads -> LoadRow] /\ \A g \in Loads : LoadOK(load[g])

CacheInv == CacheTyped /\ CachedIsWhole /\ LoadsOK

\* Blobs are never removed.
Fills == \A b \in Blobs : blobs[b] # "absent" => blobs'[b] # "absent"

LEMMA BlobsAre ==
  ASSUME NEW c \in Capsules
  PROVE  BlobsOf(c) \subseteq Blobs /\ Config(c) \in BlobsOf(c) /\ Manifest(c) \in BlobsOf(c)
         /\ \A k \in DOMAIN LayersOf[c] : Layer(LayersOf[c][k]) \in BlobsOf(c)
  BY DEF Blobs, BlobsOf

LEMMA WholeStays ==
  ASSUME Fills, NEW c \in Capsules, Whole(c)
  PROVE  Whole(c)'
  BY BlobsAre DEF Fills, Whole

LEMMA LoadOKStays ==
  ASSUME Fills, NEW s, LoadOK(s)
  PROVE  LoadOK(s)'
  <1>1. s.pc = "layers" => blobs'[Config(s.target)] # "absent" /\ Scanned(s)'
    <2> SUFFICES ASSUME s.pc = "layers" PROVE blobs'[Config(s.target)] # "absent" /\ Scanned(s)'
      OBVIOUS
    <2>1. s.target \in Capsules /\ blobs[Config(s.target)] # "absent" /\ Scanned(s)
      BY DEF LoadOK
    <2>2. Config(s.target) \in Blobs /\ \A k \in DOMAIN LayersOf[s.target] : Layer(LayersOf[s.target][k]) \in Blobs
      BY <2>1, BlobsAre
    <2>3. Scanned(s)'
      BY <2>1, <2>2 DEF Scanned, Fills
    <2> QED
      BY <2>1, <2>2, <2>3 DEF Fills
  <1>2. s.pc = "tag" => Whole(s.target)'
    BY WholeStays DEF LoadOK
  <1>3. \A c \in Capsules : s.memory[c] # Nothing => s.memory[c] = c /\ Whole(c)'
    BY WholeStays DEF LoadOK
  <1> QED
    BY <1>1, <1>2, <1>3 DEF LoadOK

LEMMA CachedStays ==
  ASSUME CacheInv, Fills, UNCHANGED cached
  PROVE  CachedIsWhole'
  <1>1. \A c \in Capsules : cached[c] # Nothing => cached[c] = c /\ Whole(c)
    BY DEF CacheInv, CachedIsWhole, Whole
  <1>2. \A c \in Capsules : cached[c] # Nothing => cached[c] = c /\ Whole(c)'
    BY <1>1, WholeStays
  <1> QED
    BY <1>2 DEF CachedIsWhole, Whole

\* One load moves to a record that agrees with the cache.
LEMMA LoadGoes ==
  ASSUME CacheInv, Fills, NEW g \in Loads, NEW s \in LoadRow, LoadOK(s)', load' = [load EXCEPT ![g] = s]
  PROVE  LoadsOK'
  <1>1. load \in [Loads -> LoadRow]
    BY DEF CacheInv, LoadsOK
  <1>2. load' \in [Loads -> LoadRow] /\ load'[g] = s /\ \A h \in Loads : h # g => load'[h] = load[h]
    BY <1>1
  <1>3. ASSUME NEW h \in Loads PROVE LoadOK(load[h])'
    <2>1. CASE h = g
      BY <1>2, <2>1
    <2>2. CASE h # g
      <3>1. PICK r : r = load[h]
        OBVIOUS
      <3>2. LoadOK(r)
        BY <3>1 DEF CacheInv, LoadsOK
      <3>3. LoadOK(r)'
        BY <3>2, LoadOKStays
      <3>4. load'[h] = r
        BY <1>2, <2>2, <3>1
      <3> QED
        BY <3>3, <3>4
    <2> QED
      BY <2>1, <2>2
  <1> QED
    BY <1>2, <1>3 DEF LoadsOK

LEMMA LoadsStay ==
  ASSUME CacheInv, Fills, UNCHANGED load
  PROVE  LoadsOK'
  <1>1. ASSUME NEW h \in Loads PROVE LoadOK(load[h])'
    <2>1. PICK r : r = load[h]
      OBVIOUS
    <2>2. LoadOK(r)
      BY <2>1 DEF CacheInv, LoadsOK
    <2>3. LoadOK(r)'
      BY <2>2, LoadOKStays
    <2> QED
      BY <2>1, <2>3
  <1> QED
    BY <1>1 DEF CacheInv, LoadsOK

\* One load moves, and the cache stays.
LEMMA LoadMoves ==
  ASSUME CacheInv, UNCHANGED <<blobs, cached>>, NEW g \in Loads, NEW s \in LoadRow, LoadOK(s),
         load' = [load EXCEPT ![g] = s]
  PROVE  CacheInv'
  <1>1. Fills /\ CacheTyped'
    BY DEF Fills, CacheInv, CacheTyped
  <1>2. LoadOK(s)'
    BY <1>1, LoadOKStays
  <1>3. LoadsOK'
    BY <1>1, <1>2, LoadGoes
  <1>4. CachedIsWhole'
    BY <1>1, CachedStays
  <1> QED
    BY <1>1, <1>3, <1>4 DEF CacheInv

LEMMA LoadTyped ==
  ASSUME CacheInv, NEW g \in Loads
  PROVE  /\ load[g] \in LoadRow /\ LoadOK(load[g])
         /\ load[g].pc \in LoadPCs /\ load[g].target \in Digests /\ load[g].named \in Digests
         /\ load[g].memory \in Listing /\ load[g].scan \in Nat /\ load[g].workers \in Sets
         /\ load[g].holding \in Sets /\ load[g].failed \in Errors
  <1>1. load[g] \in LoadRow /\ LoadOK(load[g])
    BY DEF CacheInv, LoadsOK
  <1> QED
    BY <1>1 DEF LoadRow

\* A load whose Pull is not under way goes on to a step that asks nothing of the cache.
LEMMA PcMoves ==
  ASSUME CacheInv, UNCHANGED <<blobs, cached>>, NEW g \in Loads, NEW pc \in LoadPCs, Moved(g, pc),
         load[g].pc # "rest", load[g].workers = {}, pc \notin {"layers", "tag"},
         pc \in {"open", "index", "manifest", "config"} => load[g].scan = 1
  PROVE  CacheInv'
  <1>1. PICK r \in LoadRow : r = load[g] /\ LoadOK(r)
    BY LoadTyped
  <1> DEFINE s == [r EXCEPT !.pc = pc]
  <1>2. /\ s \in LoadRow /\ s.pc = pc /\ s.target = r.target /\ s.named = r.named /\ s.memory = r.memory
        /\ s.scan = r.scan /\ s.workers = r.workers /\ s.holding = r.holding /\ s.failed = r.failed
    BY DEF LoadRow
  <1>3. load' = [load EXCEPT ![g] = s]
    BY <1>1 DEF Moved
  <1> HIDE DEF s
  <1>4. r.target \in Capsules /\ r.workers = {} /\ r.holding = {}
    BY <1>1 DEF LoadOK
  <1>5. LoadOK(s)
    BY <1>1, <1>2, <1>4 DEF LoadOK
  <1> QED
    BY <1>2, <1>3, <1>5, LoadMoves

LEMMA FailedMoves ==
  ASSUME CacheInv, UNCHANGED <<blobs, cached>>, NEW g \in Loads, NEW kind, Failed(g, kind),
         load[g].pc # "rest", load[g].workers = {}
  PROVE  CacheInv'
  <1>1. Moved(g, "mint") \/ Moved(g, "refused")
    BY DEF Failed
  <1>2. "mint" \in LoadPCs /\ "refused" \in LoadPCs
    BY DEF LoadPCs
  <1> QED
    BY <1>1, <1>2, PcMoves

\* Only a Pull that reads layers has workers.
LEMMA NoWorkers ==
  ASSUME CacheInv, NEW g \in Loads, load[g].pc # "layers"
  PROVE  load[g].workers = {} /\ load[g].holding = {}
  BY LoadTyped DEF LoadOK

\* A load that begins, and one that is refused after a restart.
LEMMA NoLoadTyped ==
  ASSUME NEW c \in Capsules
  PROVE  /\ LET s == [NoLoad EXCEPT !.pc = "mint", !.target = c] IN s \in LoadRow /\ LoadOK(s)
         /\ LET s == [NoLoad EXCEPT !.pc = "refused", !.target = c, !.failed = "restarted"] IN s \in LoadRow /\ LoadOK(s)
  <1>1. PICK m : m = [d \in Capsules |-> Nothing]
    OBVIOUS
  <1>2. m \in Listing /\ \A d \in Capsules : m[d] = Nothing
    BY <1>1 DEF Listing, Digests
  <1>3. PICK n : n = NoLoad
    OBVIOUS
  <1>4. n = [pc |-> "rest", target |-> Nothing, named |-> Nothing, memory |-> m, valid |-> FALSE, scan |-> 1,
             workers |-> {}, holding |-> {}, failed |-> "no"]
    BY <1>1, <1>3 DEF NoLoad
  <1>5. /\ "rest" \in LoadPCs /\ "mint" \in LoadPCs /\ "refused" \in LoadPCs /\ c \in Digests /\ Nothing \in Digests
        /\ {} \in Sets /\ "no" \in Errors /\ "restarted" \in Errors /\ FALSE \in BOOLEAN /\ 1 \in Nat
    BY DEF LoadPCs, Digests, Sets, Errors
  <1>6. n \in LoadRow
    BY <1>2, <1>4, <1>5 DEF LoadRow
  <1>7. n.memory = m /\ n.workers = {} /\ n.holding = {} /\ n.scan = 1
    BY <1>4
  <1> DEFINE s == [n EXCEPT !.pc = "mint", !.target = c]
             t == [n EXCEPT !.pc = "refused", !.target = c, !.failed = "restarted"]
  <1>8. /\ s \in LoadRow /\ s.pc = "mint" /\ s.target = c /\ s.memory = m /\ s.scan = 1
        /\ s.workers = {} /\ s.holding = {}
    BY <1>5, <1>6, <1>7 DEF LoadRow
  <1>11. /\ t \in LoadRow /\ t.pc = "refused" /\ t.target = c /\ t.memory = m /\ t.scan = 1
         /\ t.workers = {} /\ t.holding = {}
    BY <1>5, <1>6, <1>7 DEF LoadRow
  <1> HIDE DEF s, t
  <1>9. IsFiniteSet({}) /\ Cardinality({}) = 0
    BY FS_EmptySet
  <1>10. LoadOK(s)
    BY <1>2, <1>8, <1>9 DEF LoadOK
  <1>12. LoadOK(t)
    BY <1>2, <1>11, <1>9 DEF LoadOK
  <1> QED
    BY <1>3, <1>8, <1>10, <1>11, <1>12 DEF s, t

LEMMA ResolveKeeps ==
  ASSUME CacheInv, PublishInv, NEW g \in Loads, ResolveCapsuleTag(g)
  PROVE  CacheInv'
  <1>1. PICK c \in Capsules : c = tag[GuestOwner]
    BY DEF ResolveCapsuleTag, GetCapsuleTag, PublishInv, BucketTyped
  <1>2. PICK s : s = [NoLoad EXCEPT !.pc = "mint", !.target = c]
    OBVIOUS
  <1>3. s \in LoadRow /\ LoadOK(s)
    BY <1>2, NoLoadTyped
  <1>4. load' = [load EXCEPT ![g] = s] /\ UNCHANGED <<blobs, cached>>
    BY <1>1, <1>2 DEF ResolveCapsuleTag, GetCapsuleTag, cache
  <1> QED
    BY <1>3, <1>4, LoadMoves

LEMMA RestartKeeps ==
  ASSUME CacheInv, GuestRestarts
  PROVE  CacheInv'
  <1>1. /\ load' = [g \in Loads |-> IF load[g].pc \in {"rest", "loaded", "refused"} THEN load[g]
                                    ELSE [NoLoad EXCEPT !.pc = "refused", !.target = load[g].target,
                                                        !.failed = "restarted"]]
        /\ UNCHANGED <<blobs, cached>>
    BY DEF GuestRestarts, cache
  <1>2. Fills /\ CacheTyped'
    BY <1>1 DEF Fills, CacheInv, CacheTyped
  <1>3. ASSUME NEW g \in Loads PROVE load'[g] \in LoadRow /\ LoadOK(load[g])'
    <2>1. PICK r : r = load[g]
      OBVIOUS
    <2>2. r \in LoadRow /\ LoadOK(r)
      BY <2>1, LoadTyped
    <2>3. CASE r.pc \in {"rest", "loaded", "refused"}
      <3>1. load'[g] = r
        BY <1>1, <2>1, <2>3
      <3>2. LoadOK(r)'
        BY <1>2, <2>2, LoadOKStays
      <3> QED
        BY <2>2, <3>1, <3>2
    <2>4. CASE r.pc \notin {"rest", "loaded", "refused"}
      <3>1. PICK c \in Capsules : c = r.target
        BY <2>2, <2>4 DEF LoadOK
      <3>2. PICK s : s = [NoLoad EXCEPT !.pc = "refused", !.target = c, !.failed = "restarted"]
        OBVIOUS
      <3>3. s \in LoadRow /\ LoadOK(s)
        BY <3>2, NoLoadTyped
      <3>4. load'[g] = s
        BY <1>1, <2>1, <2>4, <3>1, <3>2
      <3>5. LoadOK(s)'
        BY <1>2, <3>3, LoadOKStays
      <3> QED
        BY <3>3, <3>4, <3>5
    <2> QED
      BY <2>3, <2>4
  <1>4. load' \in [Loads -> LoadRow]
    BY <1>1, <1>3
  <1>5. LoadsOK'
    BY <1>3, <1>4 DEF LoadsOK
  <1>6. CachedIsWhole'
    BY <1>1, <1>2, CachedStays
  <1> QED
    BY <1>2, <1>5, <1>6 DEF CacheInv

LEMMA ExpireKeeps ==
  ASSUME CacheInv, NEW g \in Loads, GrantsExpire(g)
  PROVE  CacheInv'
  <1>1. PICK r \in LoadRow : r = load[g] /\ LoadOK(r)
    BY LoadTyped
  <1> DEFINE s == [r EXCEPT !.valid = FALSE]
  <1>2. /\ s \in LoadRow /\ s.pc = r.pc /\ s.target = r.target /\ s.named = r.named /\ s.memory = r.memory
        /\ s.scan = r.scan /\ s.workers = r.workers /\ s.holding = r.holding /\ s.failed = r.failed
    BY DEF LoadRow
  <1>3. load' = [load EXCEPT ![g] = s] /\ UNCHANGED <<blobs, cached>>
    BY <1>1 DEF GrantsExpire, cache
  <1> HIDE DEF s
  <1>4. LoadOK(s)
    BY <1>1, <1>2 DEF LoadOK, Scanned
  <1> QED
    BY <1>2, <1>3, <1>4, LoadMoves

LEMMA GrantsKeep ==
  ASSUME CacheInv, NEW g \in Loads, MaterializationReadGrants(g)
  PROVE  CacheInv'
  <1>1. PICK r \in LoadRow : r = load[g] /\ LoadOK(r) /\ r.pc = "mint"
    BY LoadTyped DEF MaterializationReadGrants, Loading
  <1>2. PICK pc \in {"open", "refused"} : pc = IF CapsuleReadKeys(load[g].target) = "stored" THEN "open" ELSE "refused"
    OBVIOUS
  <1> DEFINE s == [r EXCEPT !.pc = pc, !.valid = TRUE, !.scan = 1, !.failed = "no"]
  <1>3. pc \in LoadPCs /\ "no" \in Errors /\ 1 \in Nat
    BY <1>2 DEF LoadPCs, Errors
  <1>4. /\ s \in LoadRow /\ s.pc = pc /\ s.target = r.target /\ s.named = r.named /\ s.memory = r.memory
        /\ s.scan = 1 /\ s.workers = r.workers /\ s.holding = r.holding
    BY <1>3 DEF LoadRow
  <1>5. load' = [load EXCEPT ![g] = s] /\ UNCHANGED <<blobs, cached>>
    BY <1>1, <1>2 DEF MaterializationReadGrants, cache
  <1> HIDE DEF s
  <1>6. LoadOK(s)
    BY <1>1, <1>2, <1>4 DEF LoadOK
  <1> QED
    BY <1>4, <1>5, <1>6, LoadMoves

LEMMA OpenKeeps ==
  ASSUME CacheInv, NEW g \in Loads, OpenCapsuleCache(g)
  PROVE  CacheInv'
  <1>1. PICK r \in LoadRow : r = load[g] /\ LoadOK(r) /\ r.pc = "open"
    BY LoadTyped DEF OpenCapsuleCache, Loading
  <1>2. PICK m \in Listing : m = cached
    BY DEF CacheInv, CacheTyped
  <1>3. PICK pc \in {"parse", "refused", "index"} : pc = CASE cached[r.target] # Nothing -> "parse"
                                                          [] HalfCached(r.target)      -> "refused"
                                                          [] OTHER                     -> "index"
    BY DEF HalfCached
  <1>4. r.target \in Capsules
    BY <1>1 DEF LoadOK
  <1>5. PICK n \in Digests : n = m[r.target]
    BY <1>4 DEF Listing
  <1> DEFINE s == [r EXCEPT !.memory = m, !.named = n, !.pc = pc]
  <1>6. pc \in LoadPCs
    BY <1>3 DEF LoadPCs
  <1>7. /\ s \in LoadRow /\ s.pc = pc /\ s.target = r.target /\ s.named = n /\ s.memory = m
        /\ s.scan = r.scan /\ s.workers = r.workers /\ s.holding = r.holding
    BY <1>6 DEF LoadRow
  <1>8. load' = [load EXCEPT ![g] = s] /\ UNCHANGED <<blobs, cached>>
    BY <1>1, <1>2, <1>3, <1>5 DEF OpenCapsuleCache, cache
  <1> HIDE DEF s
  <1>9. \A c \in Capsules : m[c] # Nothing => m[c] = c /\ Whole(c)
    BY <1>2 DEF CacheInv, CachedIsWhole, Whole
  <1>10. LoadOK(s)
    BY <1>1, <1>3, <1>7, <1>9 DEF LoadOK
  <1> QED
    BY <1>7, <1>8, <1>10, LoadMoves

LEMMA OtherIsOne ==
  ASSUME NEW c
  PROVE  Other(c) \in Capsules
  <1>1. \E d \in Capsules : d # c
    <2> SUFFICES ASSUME \A d \in Capsules : d = c PROVE FALSE
      OBVIOUS
    <2>1. Capsules = {} \/ Capsules = {c}
      OBVIOUS
    <2>2. Cardinality({}) = 0 /\ Cardinality({c}) = 1
      BY FS_EmptySet, FS_Singleton
    <2>3. Cardinality(Capsules) = 0 \/ Cardinality(Capsules) = 1
      BY <2>1, <2>2, Zenon
    <2> QED
      BY <2>3
  <1> QED
    BY <1>1 DEF Other

LEMMA ReadIndexKeeps ==
  ASSUME CacheInv, NEW g \in Loads, ReadIndex(g)
  PROVE  CacheInv'
  <1>1. PICK r \in LoadRow : r = load[g] /\ LoadOK(r) /\ r.pc = "index"
    BY LoadTyped DEF ReadIndex, Loading
  <1>2. UNCHANGED <<blobs, cached>>
    BY DEF ReadIndex, cache
  <1>3. CASE load[g].valid
    <2>1. PICK n : n = findManifestDescriptor(r.target)
      OBVIOUS
    <2>2. n \in Digests
      BY <1>1, <2>1, OtherIsOne DEF findManifestDescriptor, Digests, LoadOK
    <2> DEFINE s == [r EXCEPT !.named = n, !.pc = "manifest"]
    <2>3. "manifest" \in LoadPCs
      BY DEF LoadPCs
    <2>4. /\ s \in LoadRow /\ s.pc = "manifest" /\ s.target = r.target /\ s.named = n /\ s.memory = r.memory
          /\ s.scan = r.scan /\ s.workers = r.workers /\ s.holding = r.holding
      BY <2>2, <2>3 DEF LoadRow
    <2>5. load' = [load EXCEPT ![g] = s]
      BY <1>1, <1>3, <2>1 DEF ReadIndex
    <2> HIDE DEF s
    <2>6. LoadOK(s)
      BY <1>1, <2>4 DEF LoadOK
    <2> QED
      BY <1>2, <2>4, <2>5, <2>6, LoadMoves
  <1>4. CASE ~load[g].valid
    <2>1. Failed(g, "expired") /\ load[g].pc # "rest" /\ load[g].workers = {}
      BY <1>1, <1>4, NoWorkers DEF ReadIndex
    <2> QED
      BY <1>2, <2>1, FailedMoves
  <1> QED
    BY <1>3, <1>4

LEMMA ManifestKeeps ==
  ASSUME CacheInv, NEW g \in Loads, FetchManifest(g)
  PROVE  CacheInv'
  <1>1. load[g].pc = "manifest" /\ UNCHANGED <<blobs, cached>>
    BY DEF FetchManifest, Loading, cache
  <1>2. load[g].workers = {} /\ load[g].scan = 1
    BY <1>1, NoWorkers, LoadTyped DEF LoadOK
  <1>3. Moved(g, "config") \/ \E kind : Failed(g, kind)
    BY DEF FetchManifest
  <1>4. "config" \in LoadPCs
    BY DEF LoadPCs
  <1> QED
    BY <1>1, <1>2, <1>3, <1>4, PcMoves, FailedMoves

-----------------------------------------------------------------------------
(* Loads that write the cache *)

LEMMA PushLocal ==
  ASSUME CacheInv, NEW b \in Blobs, PushLocalBlob(b)
  PROVE  blobs' \in [Blobs -> Content] /\ Fills /\ blobs'[b] # "absent"
  <1>1. blobs \in [Blobs -> Content]
    BY DEF CacheInv, CacheTyped
  <1>2. PICK v : v = IF blobs[b] = "absent" THEN "stored" ELSE blobs[b]
    OBVIOUS
  <1>3. v \in Content /\ v # "absent" /\ blobs' = [blobs EXCEPT ![b] = v]
    BY <1>1, <1>2 DEF Content, PushLocalBlob
  <1>4. blobs' \in [Blobs -> Content] /\ blobs'[b] = v /\ \A d \in Blobs : d # b => blobs'[d] = blobs[d]
    BY <1>1, <1>3
  <1> QED
    BY <1>3, <1>4 DEF Fills

LEMMA LoadStores ==
  ASSUME CacheInv, blobs' \in [Blobs -> Content], Fills, UNCHANGED cached,
         NEW g \in Loads, NEW s \in LoadRow, LoadOK(s)', load' = [load EXCEPT ![g] = s]
  PROVE  CacheInv'
  <1>1. LoadsOK'
    BY LoadGoes
  <1>2. CachedIsWhole'
    BY CachedStays
  <1>3. CacheTyped'
    BY DEF CacheInv, CacheTyped
  <1> QED
    BY <1>1, <1>2, <1>3 DEF CacheInv

LEMMA ConfigKeeps ==
  ASSUME CacheInv, NEW g \in Loads, FetchConfig(g)
  PROVE  CacheInv'
  <1>1. PICK r \in LoadRow : r = load[g] /\ LoadOK(r) /\ r.pc = "config"
    BY LoadTyped DEF FetchConfig, Loading
  <1>2. UNCHANGED cached /\ r.target \in Capsules /\ r.workers = {} /\ r.holding = {} /\ r.scan = 1
    BY <1>1 DEF FetchConfig, LoadOK
  <1>3. CASE PushLocalBlob(Config(load[g].named)) /\ Moved(g, "layers") /\ ComputedDigestMatches(g)
    <2>1. r.named = r.target
      BY <1>1, <1>3 DEF ComputedDigestMatches
    <2>2. Config(r.target) \in Blobs
      BY <1>2, BlobsAre
    <2>3. blobs' \in [Blobs -> Content] /\ Fills /\ blobs'[Config(r.target)] # "absent"
      BY <1>1, <1>3, <2>1, <2>2, PushLocal
    <2> DEFINE s == [r EXCEPT !.pc = "layers"]
    <2>4. "layers" \in LoadPCs
      BY DEF LoadPCs
    <2>5. /\ s \in LoadRow /\ s.pc = "layers" /\ s.target = r.target /\ s.named = r.named /\ s.memory = r.memory
          /\ s.scan = r.scan /\ s.workers = r.workers /\ s.holding = r.holding /\ s.failed = r.failed
      BY <2>4 DEF LoadRow
    <2>6. load' = [load EXCEPT ![g] = s]
      BY <1>1, <1>3 DEF Moved
    <2>7. PICK u \in LoadRow : u = s
      BY <2>5
    <2>8. /\ u.pc = "layers" /\ u.target = r.target /\ u.named = r.named /\ u.memory = r.memory
          /\ u.scan = 1 /\ u.workers = {} /\ u.holding = {} /\ load' = [load EXCEPT ![g] = u]
      BY <1>2, <2>5, <2>6, <2>7
    <2> HIDE DEF s
    <2>9. LoadOK(r)'
      BY <1>1, <2>3, LoadOKStays
    <2>10. Scanned(u)'
      BY <1>2, <2>8, LayersTyped DEF Scanned
    <2>11. LoadOK(u)'
      BY <1>1, <1>2, <2>1, <2>3, <2>8, <2>9, <2>10 DEF LoadOK
    <2> QED
      BY <1>2, <2>3, <2>8, <2>11, LoadStores
  <1>4. CASE UNCHANGED blobs /\ \E kind : Failed(g, kind)
    <2>1. load[g].pc # "rest" /\ load[g].workers = {}
      BY <1>1, <1>2
    <2> QED
      BY <1>2, <1>4, <2>1, FailedMoves
  <1> QED
    BY <1>3, <1>4 DEF FetchConfig

LEMMA ScanKeeps ==
  ASSUME CacheInv, NEW g \in Loads, ScanLayer(g)
  PROVE  CacheInv'
  <1>1. PICK r \in LoadRow : r = load[g] /\ LoadOK(r) /\ r.pc = "layers" /\ r.failed = "no"
    BY LoadTyped DEF ScanLayer, Loading
  <1>2. UNCHANGED <<blobs, cached>> /\ r.named = r.target /\ r.target \in Capsules
    BY <1>1 DEF ScanLayer, cache, LoadOK
  <1>3. PICK n \in Nat : n = r.scan /\ n \in 1..Len(LayersOf[r.target])
    <2>1. r.scan \in DOMAIN LayerObjects(r.target)
      BY <1>1, <1>2 DEF ScanLayer, Descriptors
    <2> QED
      BY <1>2, <2>1, LayersTyped DEF LayerObjects
  <1>4. PICK b : b = Layer(LayersOf[r.target][n])
    OBVIOUS
  <1>5. b \in Blobs /\ b = Descriptors(g)[load[g].scan]
    BY <1>1, <1>2, <1>3, <1>4, LayersTyped, LayerObjectsAre, BlobsAre DEF Descriptors
  <1>6. PICK w : w = IF blobs[b] = "absent" THEN r.workers \cup {b} ELSE r.workers
    OBVIOUS
  <1>7. PICK f : f = IF blobs[b] = "absent" THEN r.failed ELSE fetchVerified(b)
    OBVIOUS
  <1>8. r.workers \in Sets /\ r.holding \in Sets /\ r.scan \in Nat /\ r.failed \in Errors
    BY <1>1, LoadTyped
  <1>9. w \in Sets /\ f \in Errors /\ n + 1 \in Nat /\ r.workers \subseteq w
    BY <1>5, <1>6, <1>7, <1>8 DEF Sets, Errors, fetchVerified
  <1> DEFINE s == [r EXCEPT !.scan = n + 1, !.workers = w, !.failed = f]
  <1>10. /\ s \in LoadRow /\ s.pc = r.pc /\ s.target = r.target /\ s.named = r.named /\ s.memory = r.memory
         /\ s.scan = n + 1 /\ s.workers = w /\ s.holding = r.holding /\ s.failed = f
    BY <1>9 DEF LoadRow
  <1>11. load' = [load EXCEPT ![g] = s]
    BY <1>1, <1>3, <1>5, <1>6, <1>7 DEF ScanLayer
  <1> HIDE DEF s
  <1>12. Scanned(s)
    <2>1. ASSUME NEW k \in DOMAIN LayersOf[r.target], k < n + 1
          PROVE  blobs[Layer(LayersOf[r.target][k])] # "absent" \/ Layer(LayersOf[r.target][k]) \in w \/ f # "no"
      <3>1. k \in Nat
        BY <1>2, LayersTyped
      <3>2. CASE k = n
        BY <1>4, <1>6, <3>2
      <3>3. CASE k # n
        <4>1. k < r.scan
          BY <1>3, <2>1, <3>1, <3>3
        <4>2. blobs[Layer(LayersOf[r.target][k])] # "absent" \/ Layer(LayersOf[r.target][k]) \in r.workers
          BY <1>1, <4>1 DEF LoadOK, Scanned
        <4> QED
          BY <1>9, <4>2
      <3> QED
        BY <3>2, <3>3
    <2> QED
      BY <1>10, <2>1 DEF Scanned
  <1>13. LoadOK(s)
    BY <1>1, <1>9, <1>10, <1>12 DEF LoadOK
  <1> QED
    BY <1>2, <1>10, <1>11, <1>13, LoadMoves

LEMMA AcquireKeeps ==
  ASSUME CacheInv, NEW g \in Loads, NEW b \in load[g].workers, AcquireSlot(g, b)
  PROVE  CacheInv'
  <1>1. PICK r \in LoadRow : r = load[g] /\ LoadOK(r)
    BY LoadTyped
  <1>2. UNCHANGED <<blobs, cached>> /\ r.pc = "layers" /\ b \in r.workers /\ b \notin r.holding
    BY <1>1 DEF AcquireSlot, cache, LoadOK
  <1>3. r.workers \in Sets /\ r.holding \in Sets
    BY <1>1, LoadTyped
  <1>4. CASE HasSlot(g) /\ load' = [load EXCEPT ![g].holding = @ \cup {b}]
    <2>1. PICK h : h = r.holding \cup {b}
      OBVIOUS
    <2>2. h \in Sets /\ h \subseteq r.workers
      BY <1>1, <1>2, <1>3, <2>1 DEF Sets, LoadOK
    <2>3. Cardinality(r.holding) < Parallelism /\ IsFiniteSet(r.holding) /\ Cardinality(r.holding) \in Nat
      BY <1>1, <1>4, FS_CardinalityType DEF HasSlot, LoadOK
    <2>4. IsFiniteSet(h) /\ Cardinality(h) = Cardinality(r.holding) + 1
      BY <1>2, <2>1, <2>3, FS_AddElement
    <2>5. Cardinality(h) <= Parallelism
      BY <2>3, <2>4
    <2> DEFINE s == [r EXCEPT !.holding = h]
    <2>6. /\ s \in LoadRow /\ s.pc = r.pc /\ s.target = r.target /\ s.named = r.named /\ s.memory = r.memory
          /\ s.scan = r.scan /\ s.workers = r.workers /\ s.holding = h /\ s.failed = r.failed
      BY <2>2 DEF LoadRow
    <2>7. load' = [load EXCEPT ![g] = s]
      BY <1>1, <1>4, <2>1
    <2> HIDE DEF s
    <2>8. LoadOK(s)
      BY <1>1, <1>2, <2>2, <2>4, <2>5, <2>6 DEF LoadOK, Scanned
    <2> QED
      BY <1>2, <2>6, <2>7, <2>8, LoadMoves
  <1>5. CASE load[g].failed # "no" /\ load' = [load EXCEPT ![g].workers = @ \ {b}]
    <2>1. PICK w : w = r.workers \ {b}
      OBVIOUS
    <2>2. w \in Sets /\ r.holding \subseteq w
      BY <1>1, <1>2, <1>3, <2>1 DEF Sets, LoadOK
    <2> DEFINE s == [r EXCEPT !.workers = w]
    <2>3. /\ s \in LoadRow /\ s.pc = r.pc /\ s.target = r.target /\ s.named = r.named /\ s.memory = r.memory
          /\ s.scan = r.scan /\ s.workers = w /\ s.holding = r.holding /\ s.failed = r.failed
      BY <2>2 DEF LoadRow
    <2>4. load' = [load EXCEPT ![g] = s]
      BY <1>1, <1>5, <2>1
    <2> HIDE DEF s
    <2>5. LoadOK(s)
      BY <1>1, <1>2, <1>5, <2>2, <2>3 DEF LoadOK, Scanned
    <2> QED
      BY <1>2, <2>3, <2>4, <2>5, LoadMoves
  <1> QED
    BY <1>4, <1>5 DEF AcquireSlot

LEMMA FetchLayerKeeps ==
  ASSUME CacheInv, NEW g \in Loads, NEW b \in load[g].workers, FetchLayer(g, b)
  PROVE  CacheInv'
  <1>1. PICK r \in LoadRow : r = load[g] /\ LoadOK(r)
    BY LoadTyped
  <1>2. UNCHANGED cached /\ r.pc = "layers" /\ b \in r.workers /\ b \in r.holding
    BY <1>1 DEF FetchLayer, LoadOK
  <1>3. r.workers \in Sets /\ r.holding \in Sets /\ r.failed \in Errors /\ r.target \in Capsules
    BY <1>1, <1>2, LoadTyped DEF LoadOK
  <1>4. PICK error \in Errors : error = ReadBlob(g, b)
    BY DEF ReadBlob, Errors
  <1>5. PICK w : w = r.workers \ {b}
    OBVIOUS
  <1>6. PICK h : h = r.holding \ {b}
    OBVIOUS
  <1>7. PICK f : f = IF r.failed = "no" THEN error ELSE r.failed
    OBVIOUS
  <1>8. w \in Sets /\ h \in Sets /\ f \in Errors /\ h \subseteq w /\ b \in Blobs
    BY <1>1, <1>2, <1>3, <1>4, <1>5, <1>6, <1>7 DEF Sets, LoadOK
  <1>9. IsFiniteSet(h) /\ Cardinality(h) <= Parallelism
    <2>1. IsFiniteSet(r.holding) /\ Cardinality(r.holding) <= Parallelism
      BY <1>1 DEF LoadOK
    <2>2. IsFiniteSet(h) /\ Cardinality(h) = Cardinality(r.holding) - 1
      BY <1>2, <1>6, <2>1, FS_RemoveElement
    <2>3. Cardinality(r.holding) \in Nat
      BY <2>1, FS_CardinalityType
    <2> QED
      BY <2>1, <2>2, <2>3
  <1>10. blobs' \in [Blobs -> Content] /\ Fills /\ (blobs'[b] # "absent" \/ f # "no")
    <2>1. CASE PushLocalBlob(b)
      BY <1>8, <2>1, PushLocal
    <2>2. CASE UNCHANGED blobs /\ (error # "no" \/ load[g].failed # "no")
      BY <1>1, <1>7, <2>2 DEF Fills, CacheInv, CacheTyped
    <2> QED
      BY <1>4, <2>1, <2>2 DEF FetchLayer
  <1> DEFINE s == [r EXCEPT !.workers = w, !.holding = h, !.failed = f]
  <1>11. /\ s \in LoadRow /\ s.pc = r.pc /\ s.target = r.target /\ s.named = r.named /\ s.memory = r.memory
         /\ s.scan = r.scan /\ s.workers = w /\ s.holding = h /\ s.failed = f
    BY <1>8 DEF LoadRow
  <1>12. load' = [load EXCEPT ![g] = s]
    BY <1>1, <1>4, <1>5, <1>6, <1>7 DEF FetchLayer
  <1>13. PICK u \in LoadRow : u = s
    BY <1>11
  <1>14. /\ u.pc = r.pc /\ u.target = r.target /\ u.named = r.named /\ u.memory = r.memory
         /\ u.scan = r.scan /\ u.workers = w /\ u.holding = h /\ u.failed = f /\ load' = [load EXCEPT ![g] = u]
    BY <1>11, <1>12, <1>13
  <1> HIDE DEF s
  <1>15. LoadOK(r)'
    BY <1>1, <1>10, LoadOKStays
  <1>16. Scanned(u)'
    <2>1. Scanned(r)'
      BY <1>2, <1>15 DEF LoadOK
    <2>2. r.failed # "no" => f # "no"
      BY <1>7
    <2> QED
      BY <1>5, <1>10, <1>14, <2>1, <2>2 DEF Scanned
  <1>17. LoadOK(u)'
    BY <1>2, <1>8, <1>9, <1>14, <1>15, <1>16 DEF LoadOK
  <1> QED
    BY <1>2, <1>10, <1>14, <1>17, LoadStores

LEMMA StoreManifestKeeps ==
  ASSUME CacheInv, NEW g \in Loads, StoreManifest(g)
  PROVE  CacheInv'
  <1>1. PICK r \in LoadRow : r = load[g] /\ LoadOK(r) /\ r.pc = "layers"
    BY LoadTyped DEF StoreManifest, Loading
  <1>2. /\ UNCHANGED cached /\ r.named = r.target /\ r.target \in Capsules /\ r.failed = "no" /\ r.workers = {}
        /\ r.scan > Len(LayerObjects(r.target)) /\ PushLocalBlob(Manifest(r.target)) /\ Moved(g, "tag")
    BY <1>1 DEF StoreManifest, LayersArePulled, Descriptors, LoadOK
  <1>3. Manifest(r.target) \in Blobs
    BY <1>2, BlobsAre
  <1>4. blobs' \in [Blobs -> Content] /\ Fills /\ blobs'[Manifest(r.target)] # "absent"
    BY <1>2, <1>3, PushLocal
  <1>5. LoadOK(r)'
    BY <1>1, <1>4, LoadOKStays
  <1>6. Whole(r.target)'
    <2>1. blobs'[Config(r.target)] # "absent" /\ Scanned(r)'
      BY <1>1, <1>5 DEF LoadOK
    <2>2. ASSUME NEW k \in DOMAIN LayersOf[r.target] PROVE blobs'[Layer(LayersOf[r.target][k])] # "absent"
      <3>1. k < r.scan
        BY <1>1, <1>2, LayersTyped, LayerObjectsAre, LoadTyped
      <3> QED
        BY <1>2, <2>1, <3>1 DEF Scanned
    <2> QED
      BY <1>4, <2>1, <2>2 DEF Whole, BlobsOf
  <1> DEFINE s == [r EXCEPT !.pc = "tag"]
  <1>7. "tag" \in LoadPCs
    BY DEF LoadPCs
  <1>8. /\ s \in LoadRow /\ s.pc = "tag" /\ s.target = r.target /\ s.named = r.named /\ s.memory = r.memory
        /\ s.scan = r.scan /\ s.workers = r.workers /\ s.holding = r.holding /\ s.failed = r.failed
    BY <1>7 DEF LoadRow
  <1>9. load' = [load EXCEPT ![g] = s]
    BY <1>1, <1>2 DEF Moved
  <1>10. PICK u \in LoadRow : u = s
    BY <1>8
  <1>11. /\ u.pc = "tag" /\ u.target = r.target /\ u.named = r.named /\ u.memory = r.memory
         /\ u.workers = {} /\ u.holding = r.holding /\ load' = [load EXCEPT ![g] = u]
    BY <1>2, <1>8, <1>9, <1>10
  <1> HIDE DEF s
  <1>12. r.holding = {}
    BY <1>1, <1>2 DEF LoadOK
  <1>13. LoadOK(u)'
    BY <1>2, <1>5, <1>6, <1>11, <1>12 DEF LoadOK
  <1> QED
    BY <1>2, <1>4, <1>11, <1>13, LoadStores

LEMMA PullFailsKeeps ==
  ASSUME CacheInv, NEW g \in Loads, PullFails(g)
  PROVE  CacheInv'
  <1>1. load[g].pc # "rest" /\ load[g].workers = {} /\ Failed(g, load[g].failed) /\ UNCHANGED <<blobs, cached>>
    BY DEF PullFails, WorkersHaveEnded, Loading, cache
  <1> QED
    BY <1>1, FailedMoves

LEMMA ParseKeeps ==
  ASSUME CacheInv, NEW g \in Loads, Parse(g)
  PROVE  CacheInv'
  <1>1. load[g].pc = "parse" /\ UNCHANGED <<blobs, cached>> /\ (Moved(g, "loaded") \/ Failed(g, "invalid"))
    BY DEF Parse, Loading, cache
  <1>2. load[g].workers = {} /\ "loaded" \in LoadPCs
    BY <1>1, NoWorkers DEF LoadPCs
  <1> QED
    BY <1>1, <1>2, PcMoves, FailedMoves

LEMMA TagManifestKeeps ==
  ASSUME CacheInv, NEW g \in Loads, TagManifest(g)
  PROVE  CacheInv'
  <1>1. PICK r \in LoadRow : r = load[g] /\ LoadOK(r) /\ r.pc = "tag"
    BY LoadTyped DEF TagManifest, Loading
  <1>2. /\ cached' = [r.memory EXCEPT ![r.target] = r.named] /\ Moved(g, "parse") /\ UNCHANGED blobs
        /\ r.named = r.target /\ r.target \in Capsules /\ Whole(r.target) /\ r.memory \in Listing
        /\ \A c \in Capsules : r.memory[c] # Nothing => r.memory[c] = c /\ Whole(c)
    BY <1>1, LoadTyped DEF TagManifest, LoadOK
  <1>3. /\ cached' \in Listing /\ cached'[r.target] = r.target
        /\ \A c \in Capsules : c # r.target => cached'[c] = r.memory[c]
    BY <1>2 DEF Listing, Digests
  <1>4. CachedIsWhole'
    <2>1. \A c \in Capsules : cached'[c] # Nothing => cached'[c] = c /\ Whole(c)
      BY <1>2, <1>3
    <2> QED
      BY <1>2, <2>1 DEF CachedIsWhole, Whole
  <1>5. Fills /\ CacheTyped'
    BY <1>2, <1>3 DEF Fills, CacheInv, CacheTyped
  <1> DEFINE s == [r EXCEPT !.pc = "parse"]
  <1>6. "parse" \in LoadPCs
    BY DEF LoadPCs
  <1>7. /\ s \in LoadRow /\ s.pc = "parse" /\ s.target = r.target /\ s.named = r.named /\ s.memory = r.memory
        /\ s.scan = r.scan /\ s.workers = r.workers /\ s.holding = r.holding /\ s.failed = r.failed
    BY <1>6 DEF LoadRow
  <1>8. load' = [load EXCEPT ![g] = s]
    BY <1>1, <1>2 DEF Moved
  <1>9. PICK u \in LoadRow : u = s
    BY <1>7
  <1>10. /\ u.pc = "parse" /\ u.target = r.target /\ u.memory = r.memory
         /\ u.workers = r.workers /\ u.holding = r.holding /\ load' = [load EXCEPT ![g] = u]
    BY <1>7, <1>8, <1>9
  <1> HIDE DEF s
  <1>11. LoadOK(r)'
    BY <1>1, <1>5, LoadOKStays
  <1>12. LoadOK(u)'
    BY <1>1, <1>2, <1>10, <1>11 DEF LoadOK
  <1>13. LoadsOK'
    BY <1>5, <1>10, <1>12, LoadGoes
  <1> QED
    BY <1>4, <1>5, <1>13 DEF CacheInv

LEMMA DamageKeeps ==
  ASSUME CacheInv, NEW b \in Blobs, DamageBlob(b)
  PROVE  CacheInv'
  <1>1. /\ blobs' = [blobs EXCEPT ![b] = "altered"] /\ UNCHANGED <<cached, load>>
        /\ blobs \in [Blobs -> Content] /\ cached \in Listing
    BY DEF DamageBlob, CacheInv, CacheTyped
  <1>2. blobs' \in [Blobs -> Content] /\ Fills
    BY <1>1 DEF Content, Fills
  <1>3. CacheTyped' /\ LoadsOK' /\ CachedIsWhole'
    BY <1>1, <1>2, LoadsStay, CachedStays DEF CacheTyped
  <1> QED
    BY <1>3 DEF CacheInv

-----------------------------------------------------------------------------
(* The theorems *)

CapsuleInv == PublishInv /\ CacheInv

LEMMA PublishQuiet ==
  ASSUME PublishInv, UNCHANGED <<bucket, tag, push>>
  PROVE  PublishInv'
  BY TagKeeps

LEMMA CacheQuiet ==
  ASSUME CacheInv, UNCHANGED <<blobs, cached, load>>
  PROVE  CacheInv'
  <1>1. Fills /\ CacheTyped'
    BY DEF Fills, CacheInv, CacheTyped
  <1>2. LoadsOK' /\ CachedIsWhole'
    BY <1>1, LoadsStay, CachedStays
  <1> QED
    BY <1>1, <1>2 DEF CacheInv

LEMMA CapsuleStarts == CapsuleInit => CapsuleInv
  <1> SUFFICES ASSUME CapsuleInit PROVE CapsuleInv
    OBVIOUS
  <1>1. /\ \A o \in Owners : tag[o] = Nothing
        /\ \A p \in Publishers : push[p] = NoPush
        /\ \A c \in Capsules : cached[c] = Nothing
        /\ \A g \in Loads : load[g] = NoLoad
    BY DEF CapsuleInit
  <1>2. bucket \in [Owners -> [Objects -> Content]] /\ blobs \in [Blobs -> Content]
    BY DEF CapsuleInit, Content
  <1>3. tag \in [Owners -> Capsules \cup {Nothing}] /\ cached \in Listing
    BY DEF CapsuleInit, Listing, Digests
  <1>4. push \in [Publishers -> PushRow]
    BY NoPushTyped DEF CapsuleInit
  <1>5. \A o \in Owners, x \in Objects : bucket[o][x] = "absent"
    BY DEF CapsuleInit
  <1>6. IndexComesLast
    BY <1>5, IndexIsNoBlob DEF IndexComesLast
  <1>7. PublishInv
    BY <1>1, <1>2, <1>3, <1>4, <1>6 DEF PublishInv, BucketTyped, PutsAreThere, TagsHaveIndex
  <1>8. NoLoad \in LoadRow /\ LoadOK(NoLoad)
    <2>1. PICK m : m = [d \in Capsules |-> Nothing]
      OBVIOUS
    <2>2. m \in Listing /\ \A d \in Capsules : m[d] = Nothing
      BY <2>1 DEF Listing, Digests
    <2>3. PICK n : n = NoLoad
      OBVIOUS
    <2>4. n = [pc |-> "rest", target |-> Nothing, named |-> Nothing, memory |-> m, valid |-> FALSE, scan |-> 1,
               workers |-> {}, holding |-> {}, failed |-> "no"]
      BY <2>1, <2>3 DEF NoLoad
    <2>5. /\ "rest" \in LoadPCs /\ Nothing \in Digests /\ {} \in Sets /\ "no" \in Errors
          /\ FALSE \in BOOLEAN /\ 1 \in Nat
      BY DEF LoadPCs, Digests, Sets, Errors
    <2>6. n \in LoadRow
      BY <2>2, <2>4, <2>5 DEF LoadRow
    <2>7. n.pc = "rest" /\ n.memory = m /\ n.workers = {} /\ n.holding = {}
      BY <2>4
    <2>8. IsFiniteSet({}) /\ Cardinality({}) = 0
      BY FS_EmptySet
    <2>9. LoadOK(n)
      BY <2>2, <2>7, <2>8 DEF LoadOK
    <2> QED
      BY <2>3, <2>6, <2>9
  <1>9. load \in [Loads -> LoadRow]
    BY <1>8 DEF CapsuleInit
  <1>10. CacheInv
    BY <1>1, <1>2, <1>3, <1>8, <1>9 DEF CacheInv, CacheTyped, CachedIsWhole, LoadsOK
  <1> QED
    BY <1>7, <1>10 DEF CapsuleInv

LEMMA LoadStepKeeps ==
  ASSUME CapsuleInv, NEW g \in Loads, ResolveCapsuleTag(g) \/ LoadStep(g) \/ GrantsExpire(g)
  PROVE  CapsuleInv'
  <1>1. UNCHANGED <<bucket, tag, push>>
    BY DEF ResolveCapsuleTag, GrantsExpire, LoadStep, MaterializationReadGrants, OpenCapsuleCache, ReadIndex,
           FetchManifest, FetchConfig, ScanLayer, AcquireSlot, FetchLayer, StoreManifest, PullFails, TagManifest, Parse
  <1>2. PublishInv'
    BY <1>1, PublishQuiet DEF CapsuleInv
  <1>3. CacheInv'
    BY ResolveKeeps, ExpireKeeps, GrantsKeep, OpenKeeps, ReadIndexKeeps, ManifestKeeps, ConfigKeeps, ScanKeeps,
       AcquireKeeps, FetchLayerKeeps, StoreManifestKeeps, PullFailsKeeps, TagManifestKeeps, ParseKeeps
    DEF LoadStep, CapsuleInv
  <1> QED
    BY <1>2, <1>3 DEF CapsuleInv

LEMMA CapsuleSteps == CapsuleInv /\ [CapsuleNext]_capsuleVars => CapsuleInv'
  <1> SUFFICES ASSUME CapsuleInv, [CapsuleNext]_capsuleVars PROVE CapsuleInv'
    OBVIOUS
  <1>1. PublishInv /\ CacheInv
    BY DEF CapsuleInv
  <1>2. ASSUME PublishInv', UNCHANGED <<blobs, cached, load>> PROVE CapsuleInv'
    BY <1>1, <1>2, CacheQuiet DEF CapsuleInv
  <1>3. ASSUME CacheInv', UNCHANGED <<bucket, tag, push>> PROVE CapsuleInv'
    BY <1>1, <1>3, PublishQuiet DEF CapsuleInv
  <1>4. ASSUME NEW p \in Publishers, NEW c \in Capsules, BuildCapsule(p, c) PROVE CapsuleInv'
    BY <1>1, <1>2, <1>4, BuildKeeps DEF BuildCapsule, cache
  <1>5. ASSUME NEW p \in Publishers, WriteObject(p) PROVE CapsuleInv'
    BY <1>1, <1>2, <1>5, WriteKeeps DEF WriteObject, cache
  <1>6. ASSUME NEW p \in Publishers, PublishTag(p) PROVE CapsuleInv'
    <2>1. /\ UNCHANGED <<bucket, blobs, cached, load>> /\ push' = [push EXCEPT ![p] = NoPush]
          /\ PutCapsuleTag(OwnerOf[p], push[p].capsule) /\ push[p] # NoPush
      BY <1>6 DEF PublishTag, cache
    <2>2. push[p].capsule \in Capsules /\ OwnerOf[p] \in Owners
      BY <1>1, <2>1 DEF PublishInv, BucketTyped
    <2>3. PublishInv'
      BY <1>1, <2>1, <2>2, TagKeeps
    <2> QED
      BY <1>2, <2>1, <2>3
  <1>7. ASSUME NEW p \in Publishers, PublisherDies(p) PROVE CapsuleInv'
    BY <1>1, <1>2, <1>7, TagKeeps DEF PublisherDies, cache
  <1>8. ASSUME NEW o \in Owners, NEW c \in Capsules, Retag(o, c) PROVE CapsuleInv'
    BY <1>1, <1>2, <1>8, TagKeeps DEF Retag, cache
  <1>9. ASSUME NEW g \in Loads, ResolveCapsuleTag(g) \/ LoadStep(g) \/ GrantsExpire(g) PROVE CapsuleInv'
    BY <1>9, LoadStepKeeps
  <1>10. CASE GuestRestarts
    BY <1>1, <1>3, <1>10, RestartKeeps DEF GuestRestarts
  <1>11. ASSUME NEW x \in Objects, AlterObject(x) PROVE CapsuleInv'
    BY <1>1, <1>2, <1>11, AlterKeeps DEF AlterObject, cache
  <1>12. ASSUME NEW b \in Blobs, DamageBlob(b) PROVE CapsuleInv'
    BY <1>1, <1>3, <1>12, DamageKeeps DEF DamageBlob
  <1>14. ASSUME NEW o \in Direct, NEW x \in Objects, NEW content \in {"stored", "altered"}, PutDirectly(o, x, content)
         PROVE  CapsuleInv'
    BY <1>1, <1>2, <1>14, DirectKeeps DEF PutDirectly, cache
  <1>13. CASE UNCHANGED capsuleVars
    BY <1>1, <1>13, PublishQuiet, CacheQuiet DEF CapsuleInv, capsuleVars
  <1> QED
    BY <1>4, <1>5, <1>6, <1>7, <1>8, <1>9, <1>10, <1>11, <1>12, <1>13, <1>14 DEF CapsuleNext

\* However publications and loads overlap, die and are retried: what a publisher has put is in the
\* bucket, an index is there only with what it names, and what a load has read or stored is in the cache.
THEOREM CapsuleInvariant == CapsuleSpec => []CapsuleInv
  BY CapsuleStarts, CapsuleSteps, PTL DEF CapsuleSpec

\* A tag names only a Capsule all of whose objects are under its Owner's prefix: the index is put last,
\* objects are never removed, and PutCapsuleTag looks for the index.  What one Owner's own client puts
\* breaks no tag of another Owner.
THEOREM TagsArePullable == CapsuleSpec => []TagIsPullable
  <1>1. CapsuleInv => TagIsPullable
    <2> SUFFICES ASSUME CapsuleInv, NEW o \in Owners \ Direct, tag[o] # Nothing,
                        NEW x \in BlobsOf(tag[o]) \cup {Index(tag[o])}
                 PROVE  bucket[o][x] # "absent"
      BY DEF TagIsPullable
    <2>1. tag[o] \in Capsules /\ bucket[o][Index(tag[o])] # "absent"
      BY DEF CapsuleInv, PublishInv, BucketTyped, TagsHaveIndex
    <2> QED
      BY <2>1 DEF CapsuleInv, PublishInv, IndexComesLast
  <1> QED
    BY <1>1, CapsuleInvariant, PTL

\* A Capsule that the cache's index names is in the cache whole, although loads that overlap rewrite
\* index.json from what each of them read: TagManifest comes after every blob, and blobs stay.
THEOREM CacheIsWhole == CapsuleSpec => []CachedIsWhole
  <1>1. CapsuleInv => CachedIsWhole
    BY DEF CapsuleInv, CacheInv
  <1> QED
    BY <1>1, CapsuleInvariant, PTL

\* The bucket, the tags and the cache keep their types, and no Pull reads more layers at a time than
\* its parallelism.
THEOREM CapsuleTypeCorrect == CapsuleSpec => []CapsuleTypeOK
  <1> DEFINE MishapsTyped == mishaps \subseteq Mishaps
  <1>1. CapsuleInit => MishapsTyped
    BY DEF CapsuleInit
  <1>2. MishapsTyped /\ [CapsuleNext]_capsuleVars => MishapsTyped'
    <2> SUFFICES ASSUME MishapsTyped, [CapsuleNext]_capsuleVars PROVE MishapsTyped'
      OBVIOUS
    <2>1. CASE UNCHANGED mishaps
      BY <2>1
    <2>2. ASSUME NEW m \in Mishaps, Mishap(m) PROVE MishapsTyped'
      BY <2>2 DEF Mishap
    <2>3. {"die", "direct", "restart", "expire", "alter", "damage"} \subseteq Mishaps
      BY DEF Mishaps
    <2>4. ASSUME NEW g \in Loads, LoadStep(g) PROVE UNCHANGED mishaps
      BY <2>4 DEF LoadStep, MaterializationReadGrants, OpenCapsuleCache, ReadIndex, FetchManifest, FetchConfig,
                  ScanLayer, AcquireSlot, FetchLayer, StoreManifest, PullFails, TagManifest, Parse
    <2> QED
      BY <2>1, <2>2, <2>3, <2>4
      DEF CapsuleNext, capsuleVars, BuildCapsule, WriteObject, PublishTag, PublisherDies, Retag, ResolveCapsuleTag,
          GrantsExpire, PutDirectly, GuestRestarts, AlterObject, DamageBlob
  <1>3. CapsuleInv /\ MishapsTyped => CapsuleTypeOK
    <2> SUFFICES ASSUME CapsuleInv, MishapsTyped PROVE CapsuleTypeOK
      OBVIOUS
    <2>1. \A p \in Publishers : push[p] = NoPush \/ push[p].next \in 1..(Len(UploadOrder(push[p].capsule)) + 1)
      <3> SUFFICES ASSUME NEW p \in Publishers, push[p] # NoPush
                   PROVE  push[p].next \in 1..(Len(UploadOrder(push[p].capsule)) + 1)
        OBVIOUS
      <3>1. PICK c \in Capsules : c = push[p].capsule /\ push[p].next \in 1..(Len(LayersOf[c]) + 4)
        BY DEF CapsuleInv, PublishInv, BucketTyped
      <3>2. Len(UploadOrder(c)) + 1 = Len(LayersOf[c]) + 4
        BY OrderIs, LayersTyped
      <3> QED
        BY <3>1, <3>2
    <2>2. \A g \in Loads : /\ load[g].holding \subseteq load[g].workers /\ load[g].workers \subseteq Blobs
                           /\ Cardinality(load[g].holding) <= Parallelism
      BY LoadTyped DEF CapsuleInv, LoadOK, Sets
    <2> QED
      BY <2>1, <2>2 DEF CapsuleTypeOK, CapsuleInv, PublishInv, BucketTyped, CacheInv, CacheTyped, Listing, Digests
  <1> QED
    BY <1>1, <1>2, <1>3, CapsuleInvariant, PTL DEF CapsuleSpec

=============================================================================
