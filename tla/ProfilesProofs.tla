--------------------------- MODULE ProfilesProofs ---------------------------
(***************************************************************************)
(* Proofs about Profiles, for any Capsules, compositions, approvals and    *)
(* bounds: the pin of an Environment is whole and is earned, and an edit   *)
(* is lost only to a batch that it overtook, or to a restore that fails.   *)
(***************************************************************************)
EXTENDS Profiles, TLAPS

-----------------------------------------------------------------------------
(* The inductive invariant.                                                *)

LockRow == [id : 0..MaxOperations, version : Nat, project : {ProjectCapsule},
            digests : Seq(Capsules)]
Version == [refs : Seq(CapsuleRefs), parent : Nat]
Records == [Components -> Layers \cup {None}]
OperationRow ==
    [kind : {"none", "apply", "resolve"}, version : Nat, approved : ApprovalSets \cup {{}},
     status : {"none", "queued", "running", "succeeded", "failed"}]

TablesTyped ==
    /\ tags \in [Tags -> Capsules]
    /\ versions \in Seq(Version) /\ \A i \in DOMAIN versions : versions[i].parent = i - 1
    /\ locks \subseteq LockRow
    /\ operations \in [Operations -> OperationRow]
    /\ workflows \in [Operations -> Workflow]

(* A lock is of a version there is and resolves each of its refs.          *)
Resolves(digests, v) == v \in DOMAIN versions /\ DOMAIN digests = DOMAIN versions[v].refs

(* A lock is found by its ID and by its target.                            *)
LocksAreUnique ==
    /\ \A l \in locks : Resolves(l.digests, l.version)
    /\ \A l, m \in locks : l.id = m.id \/ l.version = m.version => l = m

Known(id) == \E l \in locks : l.id = id

PinIsLocked ==
    \E l \in locks : environment = [version |-> l.version, lock |-> l.id, installed |-> InstalledBy(l)]

(* Where a workflow is, its Operation is.                                  *)
OperationFits(o) ==
    LET x == operations[o]
        w == workflows[o] IN
    /\ w.pc = "none" <=> x.kind = "none"
    /\ x.kind # "none" => x.version \in DOMAIN versions
    /\ x.kind = "apply" =>
          /\ w.pc \notin {"record", "persist"}
          /\ w.pc = "load" => x.status = "queued"
          /\ w.pc \in {"resolve", "lock", "materialize"} => x.status = "running"
          /\ w.pc = "complete" => x.status \in {"running", "succeeded"}
    /\ x.kind = "resolve" => w.pc \notin {"load", "lock", "materialize", "fail"}
    /\ x.kind = "none" \/ w.pc = "record" => x.status = "none"

(* What it loaded is known, and what it resolved is of its version.        *)
WorkflowKnows(o) ==
    LET w == workflows[o] IN
    /\ w.pc \notin {"none", "record", "load"} => Known(w.pinned)
    /\ w.pc \in {"lock", "materialize", "persist"} \/ (operations[o].kind = "apply" /\ w.pc = "complete") =>
          Resolves(w.digests, operations[o].version)

(* The lock of an Operation is there because it succeeded, or persisted it.*)
LockIsOwn(o) ==
    \A l \in locks : l.id = o =>
        \/ operations[o].kind = "apply" /\ operations[o].status = "succeeded"
        \/ /\ operations[o].kind = "resolve"
           /\ workflows[o].pc \in {"persist", "complete", "succeeded", "failed"}
           /\ workflows[o].pc = "persist" => l = Candidate(o)

(* What it is about to pin was reviewed against what it loaded.            *)
IsReviewed(o) ==
    operations[o].kind = "apply" /\ workflows[o].pc \in {"lock", "materialize", "complete"} =>
        DiffSinceLastApproval(RefsOf(o), workflows[o].digests, LockOf(workflows[o].pinned))
            \subseteq operations[o].approved

Busy(o) == operations[o].status \in {"queued", "running"}

Rows(o) ==
    OperationFits(o) /\ WorkflowKnows(o) /\ LockIsOwn(o) /\ IsReviewed(o)

ProfileInv ==
    /\ TablesTyped /\ LocksAreUnique /\ PinIsLocked
    /\ \A o \in Operations : Rows(o)
    /\ \A o, p \in Operations : Busy(o) /\ Busy(p) => o = p

-----------------------------------------------------------------------------
(* Composition. *)

Contributed == {Contribution(d, e) : d \in Capsules, e \in SUBSET Components}

LEMMA ContributedTyped ==
    \A f \in Contributed : \A c \in DOMAIN f : c \in Components /\ f[c] \in Layers
<1> SUFFICES ASSUME NEW d \in Capsules, NEW e \in SUBSET Components,
                    NEW c \in DOMAIN Contribution(d, e)
             PROVE  c \in Components /\ Contribution(d, e)[c] \in Layers
  BY DEF Contributed
<1>1. c \in DOMAIN Contents[d] /\ Contribution(d, e)[c] = Contents[d][c]
  BY DEF Contribution
<1> QED BY <1>1, ContentsAssumption

LEMMA SourcesTyped ==
    ASSUME NEW refs \in Seq(CapsuleRefs), NEW digests \in Seq(Capsules),
           DOMAIN digests = DOMAIN refs, NEW project
    PROVE  SourcesOf(refs, digests, project) \in Seq(Contributed)
<1> DEFINE A == [i \in DOMAIN refs |-> Contribution(digests[i], refs[i].exclusions)]
           B == IF project \in Capsules THEN <<Contribution(project, {})>> ELSE <<>>
<1>1. A \in Seq(Contributed)
  <2>1. \A i \in DOMAIN refs : digests[i] \in Capsules /\ refs[i].exclusions \in SUBSET Components
    <3>1. \A i \in DOMAIN refs : digests[i] \in Capsules /\ refs[i] \in CapsuleRefs
      OBVIOUS
    <3> QED BY <3>1 DEF CapsuleRefs
  <2>2. \A i \in DOMAIN refs : A[i] \in Contributed
    BY <2>1 DEF Contributed
  <2>3. DOMAIN refs = 1..Len(refs) /\ Len(refs) \in Nat
    OBVIOUS
  <2> QED BY <2>2, <2>3
<1>2. B \in Seq(Contributed)
  <2>1. project \in Capsules => Contribution(project, {}) \in Contributed
    BY DEF Contributed
  <2> QED BY <2>1
<1>3. SourcesOf(refs, digests, project) = A \o B
  BY DEF SourcesOf
<1> HIDE DEF A, B
<1> QED BY <1>1, <1>2, <1>3

LEMMA CompositionTyped ==
    ASSUME NEW sources \in Seq(Contributed)
    PROVE  /\ DOMAIN Composition(sources) \subseteq Components
           /\ \A c \in DOMAIN Composition(sources) : Composition(sources)[c] \in Layers
<1> SUFFICES ASSUME NEW c \in DOMAIN Composition(sources)
             PROVE  c \in Components /\ Composition(sources)[c] \in Layers
  OBVIOUS
<1> DEFINE i == CHOOSE j \in Contributors(sources, c) : TRUE
<1>1. c \in Components /\ Contributors(sources, c) # {}
      /\ Composition(sources)[c] = sources[i][c]
  BY DEF Composition
<1>2. i \in Contributors(sources, c)
  BY <1>1
<1> HIDE DEF i
<1>3. i \in DOMAIN sources /\ c \in DOMAIN sources[i]
  BY <1>2 DEF Contributors
<1>4. sources[i] \in Contributed
  BY <1>3
<1> QED BY <1>1, <1>3, <1>4, ContributedTyped

LEMMA VersionTyped ==
    ASSUME TablesTyped, NEW v \in DOMAIN versions
    PROVE  v \in Nat /\ versions[v].refs \in Seq(CapsuleRefs)
<1>1. versions \in Seq(Version)
  BY DEF TablesTyped
<1>2. v \in Nat /\ versions[v] \in Version
  BY <1>1
<1> QED BY <1>2 DEF Version

LEMMA ComponentsTyped ==
    ASSUME TablesTyped, NEW l \in LockRow, Resolves(l.digests, l.version)
    PROVE  /\ DOMAIN LockComponents(l) \subseteq Components
           /\ \A c \in DOMAIN LockComponents(l) : LockComponents(l)[c] \in Layers
           /\ InstalledBy(l) \in Records
<1>1. /\ l.digests \in Seq(Capsules) /\ versions[l.version].refs \in Seq(CapsuleRefs)
      /\ DOMAIN l.digests = DOMAIN versions[l.version].refs
  BY VersionTyped DEF LockRow, Resolves
<1>2. LockSources(l) \in Seq(Contributed)
  BY <1>1, SourcesTyped DEF LockSources
<1>3. /\ DOMAIN LockComponents(l) \subseteq Components
      /\ \A c \in DOMAIN LockComponents(l) : LockComponents(l)[c] \in Layers
  BY <1>2, CompositionTyped DEF LockComponents
<1>4. InstalledBy(l) \in Records
  BY <1>3 DEF InstalledBy, InitialInstalled, Records
<1> QED BY <1>3, <1>4

LEMMA ResolvedTyped ==
    ASSUME TablesTyped, NEW refs \in Seq(CapsuleRefs)
    PROVE  LET digests == [i \in DOMAIN refs |-> Resolve(refs[i])] IN
           digests \in Seq(Capsules) /\ DOMAIN digests = DOMAIN refs
<1>1. \A i \in DOMAIN refs : refs[i].name \in Tags \cup Capsules
  <2>1. \A i \in DOMAIN refs : refs[i] \in CapsuleRefs
    OBVIOUS
  <2> QED BY <2>1 DEF CapsuleRefs
<1>2. \A i \in DOMAIN refs : Resolve(refs[i]) \in Capsules
  BY <1>1 DEF Resolve, TablesTyped
<1>3. DOMAIN refs = 1..Len(refs) /\ Len(refs) \in Nat
  OBVIOUS
<1> QED BY <1>2, <1>3

-----------------------------------------------------------------------------
(* Locks and versions are only added: what is said of one stays true. *)

VersionsStay == \A v \in DOMAIN versions : v \in DOMAIN versions' /\ versions'[v] = versions[v]

LEMMA LockStays ==
    ASSUME VersionsStay, NEW l, l.version \in DOMAIN versions
    PROVE  /\ LockSources(l)' = LockSources(l) /\ LockComponents(l)' = LockComponents(l)
           /\ InstalledBy(l)' = InstalledBy(l)
<1>1. versions'[l.version] = versions[l.version]
  BY DEF VersionsStay
<1>2. LockSources(l)' = LockSources(l)
  BY <1>1 DEF LockSources, SourcesOf, Contribution
<1>3. LockComponents(l)' = LockComponents(l)
  BY <1>2 DEF LockComponents, Composition, Contributors
<1> QED BY <1>2, <1>3 DEF InstalledBy, InitialInstalled

LEMMA LockOfIs ==
    ASSUME LocksAreUnique, NEW l \in locks
    PROVE  LockOf(l.id) = l
BY DEF LocksAreUnique, LockOf

LEMMA LockOfKnown ==
    ASSUME NEW id, Known(id)
    PROVE  LockOf(id) \in locks /\ LockOf(id).id = id
BY DEF Known, LockOf

LEMMA LockOfStays ==
    ASSUME NEW id, Known(id), locks \subseteq locks', LocksAreUnique'
    PROVE  LockOf(id)' = LockOf(id) /\ Known(id)'
<1>1. LockOf(id) \in locks' /\ LockOf(id).id = id
  BY LockOfKnown
<1>2. \A l, m \in locks' : l.id = m.id => l = m
  BY DEF LocksAreUnique
<1>3. LockOf(id)' = CHOOSE l \in locks' : l.id = id
  BY DEF LockOf
<1>4. (CHOOSE l \in locks' : l.id = id) = LockOf(id)
  <2> DEFINE k == LockOf(id)
  <2> HIDE DEF k
  <2> QED BY <1>1, <1>2 DEF k
<1> QED BY <1>1, <1>3, <1>4 DEF Known

(* Locks and versions grow.                                                *)
TablesGrow == VersionsStay /\ locks \subseteq locks' /\ LocksAreUnique'

LEMMA CandidateStays ==
    ASSUME TablesGrow, NEW o \in Operations, Known(workflows[o].pinned),
           operations'[o] = operations[o], workflows'[o] = workflows[o]
    PROVE  Candidate(o)' = Candidate(o)
<1> DEFINE id == workflows[o].pinned
<1>1. PICK k : k = id
  OBVIOUS
<1>2. LockOf(k)' = LockOf(k)
  BY <1>1, LockOfStays DEF TablesGrow
<1>3. ProjectOf(o)' = ProjectOf(o)
  BY <1>1, <1>2 DEF ProjectOf
<1> QED BY <1>3 DEF Candidate, Lock

LEMMA DiffStays ==
    ASSUME TablesGrow, NEW refs, NEW digests, NEW l, l.version \in DOMAIN versions
    PROVE  DiffSinceLastApproval(refs, digests, l)' = DiffSinceLastApproval(refs, digests, l)
<1>1. versions'[l.version] = versions[l.version]
  BY DEF TablesGrow, VersionsStay
<1> QED BY <1>1 DEF DiffSinceLastApproval

(* The row of an Operation that a step does not touch.                     *)
LEMMA RowStays ==
    ASSUME ProfileInv, TablesGrow, NEW o \in Operations,
           operations'[o] = operations[o], workflows'[o] = workflows[o],
           \A l \in locks' : l.id = o => l \in locks
    PROVE  Rows(o)'
<1>1. Rows(o) /\ TablesTyped /\ LocksAreUnique
  BY DEF ProfileInv
<1> DEFINE x == operations[o]
           w == workflows[o]
<1>2. OperationFits(o)'
  BY <1>1 DEF Rows, OperationFits, TablesGrow, VersionsStay
<1>3. w.pc \notin {"none", "record", "load"} => Known(w.pinned) /\ Known(workflows[o].pinned)'
  <2>1. PICK k : k = w.pinned
    OBVIOUS
  <2> QED BY <1>1, <2>1, LockOfStays DEF Rows, WorkflowKnows, TablesGrow
<1>4. WorkflowKnows(o)'
  BY <1>1, <1>3 DEF Rows, WorkflowKnows, TablesGrow, VersionsStay, Resolves
<1>5. w.pc \notin {"none", "record", "load"} => Candidate(o)' = Candidate(o)
  BY <1>3, CandidateStays
<1>6. LockIsOwn(o)'
  BY <1>1, <1>5 DEF Rows, LockIsOwn
<1>7. IsReviewed(o)'
  <2> SUFFICES ASSUME x.kind = "apply", w.pc \in {"lock", "materialize", "complete"}
               PROVE  IsReviewed(o)'
    BY DEF IsReviewed
  <2>1. PICK k, l, refs, digests : /\ k = w.pinned /\ l = LockOf(k)
                                  /\ refs = RefsOf(o) /\ digests = w.digests
    OBVIOUS
  <2>2. l \in locks /\ LockOf(k)' = l
    BY <1>3, <2>1, LockOfKnown, LockOfStays DEF TablesGrow
  <2>3. DiffSinceLastApproval(refs, digests, l)' = DiffSinceLastApproval(refs, digests, l)
    BY <1>1, <2>2, DiffStays DEF LocksAreUnique, Resolves
  <2>4. RefsOf(o)' = refs
    BY <1>1, <2>1 DEF RefsOf, Rows, OperationFits, TablesGrow, VersionsStay
  <2>5. DiffSinceLastApproval(refs, digests, l) \subseteq x.approved
    BY <1>1, <2>1 DEF Rows, IsReviewed
  <2> QED BY <2>1, <2>2, <2>3, <2>4, <2>5 DEF IsReviewed
<1> QED BY <1>2, <1>4, <1>6, <1>7 DEF Rows

(* The pin stays.                                                          *)
LEMMA PinStays ==
    ASSUME ProfileInv, TablesGrow, UNCHANGED environment
    PROVE  PinIsLocked'
<1>1. PICK l \in locks :
         environment = [version |-> l.version, lock |-> l.id, installed |-> InstalledBy(l)]
  BY DEF ProfileInv, PinIsLocked
<1>2. InstalledBy(l)' = InstalledBy(l)
  BY LockStays DEF TablesGrow, ProfileInv, LocksAreUnique, Resolves
<1> QED BY <1>1, <1>2 DEF PinIsLocked, TablesGrow

LEMMA TablesKept ==
    ASSUME ProfileInv, UNCHANGED <<versions, locks>>
    PROVE  TablesGrow
BY DEF ProfileInv, TablesGrow, VersionsStay, LocksAreUnique, Resolves

-----------------------------------------------------------------------------
(* Steps of one Operation.                                                 *)

(* A step of an Operation keeps the invariant if it keeps the tables, the  *)
(* pin and the Operation's own row.                                        *)
LEMMA StepOf ==
    ASSUME ProfileInv, TablesGrow, NEW o \in Operations,
           TablesTyped', PinIsLocked', Rows(o)',
           \A p \in Operations \ {o} :
               operations'[p] = operations[p] /\ workflows'[p] = workflows[p],
           \A l \in locks' : l.id # o => l \in locks,
           Busy(o)' => Busy(o) \/ ~Active
    PROVE  ProfileInv'
<1>2. \A p \in Operations \ {o} : Rows(p)'
  <2> SUFFICES ASSUME NEW p \in Operations \ {o} PROVE Rows(p)'
    OBVIOUS
  <2>2. \A l \in locks' : l.id = p => l \in locks
    OBVIOUS
  <2> QED BY <2>2, RowStays
<1>3. \A p \in Operations \ {o} : Busy(p)' <=> Busy(p)
  BY DEF Busy
<1>4. \A p \in Operations \ {o} : ~(Busy(o)' /\ Busy(p))
  BY DEF ProfileInv, Busy, Active
<1>5. \A p, q \in Operations : Busy(p)' /\ Busy(q)' => p = q
  <2>1. \A p, q \in Operations \ {o} : Busy(p) /\ Busy(q) => p = q
    BY DEF ProfileInv
  <2> QED BY <2>1, <1>3, <1>4
<1>6. LocksAreUnique'
  BY DEF TablesGrow
<1> QED BY <1>2, <1>5, <1>6 DEF ProfileInv

Places == {"none", "record", "load", "resolve", "lock", "materialize", "persist",
           "complete", "fail", "succeeded", "failed"}

LEMMA GotoIs ==
    ASSUME TablesTyped, NEW o \in Operations, NEW pc \in Places, Goto(o, pc)
    PROVE  /\ workflows' \in [Operations -> Workflow]
           /\ workflows'[o] = [workflows[o] EXCEPT !.pc = pc]
           /\ workflows'[o].pc = pc
           /\ workflows'[o].pinned = workflows[o].pinned
           /\ workflows'[o].digests = workflows[o].digests
           /\ \A p \in Operations \ {o} : workflows'[p] = workflows[p]
BY DEF TablesTyped, Goto, Workflow, Places

(* A workflow that writes down what it resolved.                           *)
LEMMA DigestsAre ==
    ASSUME TablesTyped, NEW o \in Operations, NEW pc \in Places, NEW digests \in Seq(Capsules),
           workflows' = [workflows EXCEPT ![o].pc = pc, ![o].digests = digests]
    PROVE  /\ workflows' \in [Operations -> Workflow] /\ workflows'[o].pc = pc
           /\ workflows'[o].pinned = workflows[o].pinned
           /\ workflows'[o].digests = digests
           /\ \A p \in Operations \ {o} : workflows'[p] = workflows[p]
<1> DEFINE w == [workflows[o] EXCEPT !.pc = pc, !.digests = digests]
<1>1. workflows \in [Operations -> Workflow]
  BY DEF TablesTyped
<1>2. /\ w \in Workflow /\ w.pc = pc /\ w.digests = digests
      /\ w.pinned = workflows[o].pinned
  BY <1>1 DEF Workflow, Places
<1>3. workflows' = [workflows EXCEPT ![o] = w]
  BY <1>1
<1> HIDE DEF w
<1> QED BY <1>1, <1>2, <1>3

(* A workflow that loads the pin.                                          *)
LEMMA PinnedIs ==
    ASSUME TablesTyped, NEW o \in Operations, NEW pc \in Places, NEW id \in 0..MaxOperations,
           workflows' = [workflows EXCEPT ![o].pc = pc, ![o].pinned = id]
    PROVE  /\ workflows' \in [Operations -> Workflow] /\ workflows'[o].pc = pc
           /\ workflows'[o].pinned = id
           /\ \A p \in Operations \ {o} : workflows'[p] = workflows[p]
<1> DEFINE w == [workflows[o] EXCEPT !.pc = pc, !.pinned = id]
<1>1. workflows \in [Operations -> Workflow]
  BY DEF TablesTyped
<1>2. w \in Workflow /\ w.pc = pc /\ w.pinned = id
  BY <1>1 DEF Workflow, Places
<1>3. workflows' = [workflows EXCEPT ![o] = w]
  BY <1>1
<1> HIDE DEF w
<1> QED BY <1>1, <1>2, <1>3

LEMMA StatusIs ==
    ASSUME TablesTyped, NEW o \in Operations,
           NEW s \in {"none", "queued", "running", "succeeded", "failed"},
           operations' = [operations EXCEPT ![o].status = s]
    PROVE  /\ operations' \in [Operations -> OperationRow]
           /\ operations'[o].status = s
           /\ operations'[o].kind = operations[o].kind
           /\ operations'[o].version = operations[o].version
           /\ operations'[o].approved = operations[o].approved
           /\ \A p \in Operations \ {o} : operations'[p] = operations[p]
BY DEF TablesTyped, OperationRow

(* What an Operation is asked for and what its workflow loaded.            *)
SameRequest(o) ==
    /\ operations'[o].kind = operations[o].kind
    /\ operations'[o].version = operations[o].version
    /\ operations'[o].approved = operations[o].approved
    /\ workflows'[o].pinned = workflows[o].pinned
    /\ workflows'[o].digests = workflows[o].digests

DiffOf(o) ==
    DiffSinceLastApproval(RefsOf(o), workflows[o].digests, LockOf(workflows[o].pinned))

LEMMA OwnRow ==
    ASSUME ProfileInv, TablesGrow, NEW o \in Operations, SameRequest(o),
           Known(workflows[o].pinned), operations[o].version \in DOMAIN versions
    PROVE  /\ Candidate(o)' = Candidate(o) /\ Known(workflows[o].pinned)'
           /\ DiffOf(o)' = DiffOf(o)
           /\ LockComponents(Candidate(o))' = LockComponents(Candidate(o))
           /\ Resolves(workflows[o].digests, operations[o].version) =>
                 Resolves(workflows[o].digests, operations[o].version)'
<1>1. PICK k, l, refs, digests, v :
         /\ k = workflows[o].pinned /\ l = LockOf(k) /\ refs = RefsOf(o)
         /\ digests = workflows[o].digests /\ v = operations[o].version
  OBVIOUS
<1>2. l \in locks /\ l.id = k
  BY <1>1, LockOfKnown
<1>3. LockOf(k)' = l /\ Known(k)'
  BY <1>1, LockOfStays DEF TablesGrow
<1>4. workflows'[o].pinned = k /\ workflows'[o].digests = digests /\ operations'[o].version = v
  BY <1>1 DEF SameRequest
<1>5. versions'[v] = versions[v] /\ v \in DOMAIN versions'
  BY <1>1 DEF TablesGrow, VersionsStay
<1>6. Candidate(o)' = Candidate(o)
  BY <1>1, <1>3, <1>4 DEF Candidate, ProjectOf, Lock
<1>7. DiffOf(o)' = DiffOf(o)
  <2>1. DiffSinceLastApproval(refs, digests, l)' = DiffSinceLastApproval(refs, digests, l)
    BY <1>2, DiffStays DEF ProfileInv, LocksAreUnique, Resolves
  <2>2. RefsOf(o)' = refs
    BY <1>1, <1>4, <1>5 DEF RefsOf
  <2> QED BY <2>1, <2>2, <1>1, <1>3, <1>4 DEF DiffOf
<1>8. LockComponents(Candidate(o))' = LockComponents(Candidate(o))
  <2>1. PICK c : c = Candidate(o)
    OBVIOUS
  <2>2. c.version \in DOMAIN versions
    BY <2>1 DEF Candidate, Lock
  <2>3. LockComponents(c)' = LockComponents(c)
    BY <2>2, LockStays DEF TablesGrow
  <2> QED BY <2>1, <2>3, <1>6
<1>9. Resolves(digests, v) => Resolves(digests, v)'
  BY <1>5 DEF Resolves
<1> QED BY <1>1, <1>3, <1>4, <1>6, <1>7, <1>8, <1>9

(* No lock has the ID of an Operation that has not made one.               *)
LEMMA NoLockYet ==
    ASSUME ProfileInv, NEW o \in Operations,
           \/ operations[o].kind = "none"
           \/ operations[o].kind = "apply" /\ operations[o].status # "succeeded"
           \/ workflows[o].pc \in {"none", "record", "resolve"} /\ operations[o].kind = "resolve"
    PROVE  \A l \in locks : l.id # o
BY DEF ProfileInv, Rows, LockIsOwn

LEMMA Acts ==
    ASSUME ProfileInv, NEW o \in Operations
    PROVE  /\ workflows[o].pc \notin {"none", "record", "load"} => Known(workflows[o].pinned)
           /\ workflows[o].pc # "none" => operations[o].version \in DOMAIN versions
           /\ operations[o].kind # "none" => operations[o].version \in DOMAIN versions
           /\ TablesTyped /\ LocksAreUnique /\ Rows(o)
BY DEF ProfileInv, Rows, WorkflowKnows, OperationFits

-----------------------------------------------------------------------------
(* The steps.                                                              *)

LEMMA PutCapsuleTagKeeps ==
    ASSUME ProfileInv, PutCapsuleTag
    PROVE  ProfileInv'
<1>1. TablesGrow
  BY TablesKept DEF PutCapsuleTag
<1>2. TablesTyped'
  BY DEF ProfileInv, TablesTyped, PutCapsuleTag
<1>3. PinIsLocked'
  BY <1>1, PinStays DEF PutCapsuleTag
<1>4. \A o \in Operations : Rows(o)'
  BY <1>1, RowStays DEF PutCapsuleTag
<1> QED BY <1>1, <1>2, <1>3, <1>4 DEF ProfileInv, TablesGrow, PutCapsuleTag, Busy

LEMMA PublishProfileVersionKeeps ==
    ASSUME ProfileInv, PublishProfileVersion
    PROVE  ProfileInv'
<1>1. PICK refs \in Compositions :
         versions' = Append(versions, [refs |-> refs, parent |-> NextParent])
  BY DEF PublishProfileVersion
<1>2. versions \in Seq(Version) /\ \A i \in DOMAIN versions : versions[i].parent = i - 1
  BY DEF ProfileInv, TablesTyped
<1>3. [refs |-> refs, parent |-> NextParent] \in Version
  BY <1>2, CompositionsAssumption DEF Version, NextParent
<1>4. VersionsStay
  BY <1>1, <1>2 DEF VersionsStay
<1>5. versions' \in Seq(Version) /\ \A i \in DOMAIN versions' : versions'[i].parent = i - 1
  <2>1. versions' \in Seq(Version)
    BY <1>1, <1>2, <1>3
  <2>2. \A i \in DOMAIN versions' : i \in DOMAIN versions \/ i = Len(versions) + 1
    BY <1>1, <1>2
  <2>3. versions'[Len(versions) + 1].parent = Len(versions)
    BY <1>1, <1>2 DEF NextParent
  <2> QED BY <2>1, <2>2, <2>3, <1>2, <1>4 DEF VersionsStay
<1>6. UNCHANGED <<tags, locks, environment, operations, workflows>>
  BY DEF PublishProfileVersion
<1>7. LocksAreUnique'
  BY <1>4, <1>6 DEF ProfileInv, LocksAreUnique, Resolves, VersionsStay
<1>8. TablesGrow
  BY <1>4, <1>6, <1>7 DEF TablesGrow
<1>9. TablesTyped'
  BY <1>5, <1>6 DEF ProfileInv, TablesTyped
<1>10. PinIsLocked'
  BY <1>6, <1>8, PinStays
<1>11. \A o \in Operations : Rows(o)'
  BY <1>6, <1>8, RowStays
<1> QED BY <1>6, <1>7, <1>9, <1>10, <1>11 DEF ProfileInv, Busy

LEMMA ApplyProfileKeeps ==
    ASSUME ProfileInv, ApplyProfile
    PROVE  ProfileInv'
<1>1. PICK o \in Operations, v \in DOMAIN versions, a \in ApprovalSets :
         /\ Unused(o) /\ Goto(o, "load")
         /\ operations' = [operations EXCEPT ![o] =
                [kind |-> "apply", version |-> v, approved |-> a, status |-> "queued"]]
  BY DEF ApplyProfile
<1>2. ~Active /\ UNCHANGED <<tags, versions, locks, environment>>
  BY DEF ApplyProfile, unchangedProfiles
<1>3. TablesGrow
  BY <1>2, TablesKept
<1>4. /\ workflows' \in [Operations -> Workflow] /\ workflows'[o].pc = "load"
      /\ \A p \in Operations \ {o} : workflows'[p] = workflows[p]
  BY <1>1, GotoIs DEF Places, ProfileInv
<1>5. v \in Nat
  BY VersionTyped DEF ProfileInv
<1>6. TablesTyped'
  BY <1>1, <1>2, <1>4, <1>5 DEF ProfileInv, TablesTyped, OperationRow
<1>7. operations'[o] = [kind |-> "apply", version |-> v, approved |-> a, status |-> "queued"]
  BY <1>1 DEF ProfileInv, TablesTyped
<1>8. \A l \in locks' : l.id # o
  BY <1>1, <1>2, NoLockYet DEF Unused, ProfileInv, Rows, OperationFits
<1>9. Rows(o)'
  BY <1>2, <1>4, <1>7, <1>8
     DEF Rows, OperationFits, WorkflowKnows, LockIsOwn, IsReviewed, At
<1>10. PinIsLocked'
  BY <1>2, <1>3, PinStays
<1>11. \A p \in Operations \ {o} : operations'[p] = operations[p]
  BY <1>1 DEF ProfileInv, TablesTyped
<1> QED BY <1>2, <1>3, <1>4, <1>6, <1>9, <1>10, <1>11, StepOf

LEMMA SendProfileResolveKeeps ==
    ASSUME ProfileInv, SendProfileResolve
    PROVE  ProfileInv'
<1>1. PICK o \in Operations, v \in DOMAIN versions :
         /\ Unused(o) /\ Goto(o, "record")
         /\ operations' = [operations EXCEPT ![o].kind = "resolve", ![o].version = v]
  BY DEF SendProfileResolve
<1>2. UNCHANGED <<tags, versions, locks, environment>>
  BY DEF SendProfileResolve, unchangedProfiles
<1>3. TablesGrow
  BY <1>2, TablesKept
<1>4. /\ workflows' \in [Operations -> Workflow] /\ workflows'[o].pc = "record"
      /\ \A p \in Operations \ {o} : workflows'[p] = workflows[p]
  BY <1>1, GotoIs DEF Places, ProfileInv
<1>5. v \in Nat
  BY VersionTyped DEF ProfileInv
<1>6. operations \in [Operations -> OperationRow]
  BY DEF ProfileInv, TablesTyped, OperationRow
<1>7. /\ operations' \in [Operations -> OperationRow]
      /\ operations'[o].kind = "resolve" /\ operations'[o].version = v
      /\ operations'[o].status = operations[o].status
      /\ \A p \in Operations \ {o} : operations'[p] = operations[p]
  <2> DEFINE row == [operations[o] EXCEPT !.kind = "resolve", !.version = v]
  <2>1. row \in OperationRow /\ row.kind = "resolve" /\ row.version = v
        /\ row.status = operations[o].status
    BY <1>5, <1>6 DEF OperationRow
  <2>2. operations' = [operations EXCEPT ![o] = row]
    BY <1>1, <1>6
  <2> HIDE DEF row
  <2> QED BY <1>6, <2>1, <2>2
<1>13. TablesTyped'
  BY <1>2, <1>4, <1>7 DEF ProfileInv, TablesTyped, OperationRow
<1>8. operations[o].kind = "none" /\ operations[o].status = "none"
  BY <1>1 DEF Unused, ProfileInv, Rows, OperationFits
<1>9. \A l \in locks' : l.id # o
  BY <1>2, <1>8, NoLockYet
<1>10. Rows(o)'
  BY <1>2, <1>4, <1>7, <1>8, <1>9
     DEF Rows, OperationFits, WorkflowKnows, LockIsOwn, IsReviewed, At
<1>11. PinIsLocked'
  BY <1>2, <1>3, PinStays
<1>12. ~Busy(o)'
  BY <1>7, <1>8 DEF Busy
<1> QED BY <1>2, <1>3, <1>4, <1>7, <1>10, <1>11, <1>12, <1>13, StepOf

LEMMA PinIsKnown ==
    ASSUME ProfileInv
    PROVE  /\ Known(environment.lock) /\ environment.lock \in 0..MaxOperations
           /\ environment.installed \in Records
           /\ environment.version = LockOf(environment.lock).version
           /\ environment.installed = InstalledBy(LockOf(environment.lock))
<1>1. PICK l \in locks :
         environment = [version |-> l.version, lock |-> l.id, installed |-> InstalledBy(l)]
  BY DEF ProfileInv, PinIsLocked
<1>2. l \in LockRow /\ Resolves(l.digests, l.version)
  BY DEF ProfileInv, TablesTyped, LocksAreUnique
<1>3. InstalledBy(l) \in Records
  BY <1>2, ComponentsTyped DEF ProfileInv
<1>4. LockOf(l.id) = l
  BY LockOfIs DEF ProfileInv
<1>5. environment.lock = l.id /\ environment.version = l.version /\ environment.installed = InstalledBy(l)
  BY <1>1
<1>6. l.id \in 0..MaxOperations
  BY <1>2 DEF LockRow
<1> QED BY <1>3, <1>4, <1>5, <1>6 DEF Known

LEMMA LoadProfileApplyOperationKeeps ==
    ASSUME ProfileInv, NEW o \in Operations, LoadProfileApplyOperation(o)
    PROVE  ProfileInv'
<1>1. /\ operations' = [operations EXCEPT ![o].status = "running"]
      /\ workflows' = [workflows EXCEPT ![o].pc = "resolve", ![o].pinned = environment.lock,
                                        ![o].installed = environment.installed]
      /\ UNCHANGED <<tags, versions, locks, environment>>
      /\ operations[o].kind = "apply" /\ workflows[o].pc = "load"
  BY DEF LoadProfileApplyOperation, unchangedProfiles, At
<1>2. TablesGrow
  BY <1>1, TablesKept
<1>3. operations[o].status = "queued" /\ operations[o].version \in DOMAIN versions
  BY <1>1 DEF ProfileInv, Rows, OperationFits
<1>4. /\ workflows' \in [Operations -> Workflow] /\ workflows'[o].pc = "resolve"
      /\ workflows'[o].pinned = environment.lock
      /\ \A p \in Operations \ {o} : workflows'[p] = workflows[p]
  <2>1. PICK id \in 0..MaxOperations, r \in [Components -> Layers \cup {None}] :
           id = environment.lock /\ r = environment.installed
    BY PinIsKnown DEF Records
  <2>2. workflows' = [workflows EXCEPT ![o] =
                          [@ EXCEPT !.pc = "resolve", !.pinned = id, !.installed = r]]
    BY <1>1, <2>1 DEF ProfileInv, TablesTyped
  <2>3. workflows[o] \in Workflow /\ workflows \in [Operations -> Workflow]
    BY DEF ProfileInv, TablesTyped
  <2>4. [workflows[o] EXCEPT !.pc = "resolve", !.pinned = id, !.installed = r] \in Workflow
    BY <2>3 DEF Workflow
  <2>5. workflows' \in [Operations -> Workflow]
    BY <2>2, <2>3, <2>4
  <2>6. workflows'[o] = [workflows[o] EXCEPT !.pc = "resolve", !.pinned = id, !.installed = r]
    BY <2>2, <2>3
  <2>7. workflows'[o].pc = "resolve" /\ workflows'[o].pinned = id
    BY <2>3, <2>6 DEF Workflow
  <2> QED BY <2>1, <2>2, <2>3, <2>5, <2>7
<1>5. /\ operations'[o].kind = "apply" /\ operations'[o].status = "running"
      /\ operations'[o].version = operations[o].version
      /\ \A p \in Operations \ {o} : operations'[p] = operations[p]
  BY <1>1, StatusIs DEF ProfileInv
<1>6. TablesTyped'
  BY <1>1, <1>4, StatusIs DEF ProfileInv, TablesTyped
<1>7. \A l \in locks' : l.id # o
  BY <1>1, <1>3, NoLockYet
<1>8. Known(workflows[o].pinned)'
  BY <1>1, <1>4, PinIsKnown DEF Known
<1>9. Rows(o)'
  BY <1>1, <1>3, <1>4, <1>5, <1>7, <1>8
     DEF Rows, OperationFits, WorkflowKnows, LockIsOwn, IsReviewed, At
<1>10. PinIsLocked'
  BY <1>1, <1>2, PinStays
<1>11. Busy(o)
  BY <1>3 DEF Busy
<1> QED BY <1>1, <1>2, <1>4, <1>5, <1>6, <1>9, <1>10, <1>11, StepOf

LEMMA ResolvedIs ==
    ASSUME ProfileInv, NEW o \in Operations, operations[o].version \in DOMAIN versions
    PROVE  LET digests == [i \in DOMAIN RefsOf(o) |-> Resolve(RefsOf(o)[i])] IN
           digests \in Seq(Capsules) /\ Resolves(digests, operations[o].version)
<1>1. RefsOf(o) \in Seq(CapsuleRefs) /\ RefsOf(o) = versions[operations[o].version].refs
  BY VersionTyped DEF RefsOf, ProfileInv
<1>2. PICK refs \in Seq(CapsuleRefs) : refs = RefsOf(o)
  BY <1>1
<1> DEFINE D == [i \in DOMAIN refs |-> Resolve(refs[i])]
<1>3. D \in Seq(Capsules) /\ DOMAIN D = DOMAIN refs
  BY ResolvedTyped DEF ProfileInv
<1> HIDE DEF D
<1>4. Resolves(D, operations[o].version)
  BY <1>1, <1>2, <1>3 DEF Resolves
<1> QED BY <1>2, <1>3, <1>4 DEF D

(* A step that only moves the workflow of an apply to its failure.         *)
LEMMA FailKeeps ==
    ASSUME ProfileInv, NEW o \in Operations, operations[o].kind = "apply",
           workflows[o].pc \in {"resolve", "materialize", "complete"}, Goto(o, "fail"),
           UNCHANGED <<tags, versions, locks, environment, operations>>
    PROVE  ProfileInv'
<1>1. TablesGrow
  BY TablesKept
<1>2. /\ workflows' \in [Operations -> Workflow] /\ workflows'[o].pc = "fail"
      /\ workflows'[o].pinned = workflows[o].pinned
      /\ workflows'[o].digests = workflows[o].digests
      /\ \A p \in Operations \ {o} : workflows'[p] = workflows[p]
  BY GotoIs DEF Places, ProfileInv
<1>3. TablesTyped'
  BY <1>2 DEF ProfileInv, TablesTyped
<1>4. Known(workflows[o].pinned)'
  BY <1>2, Acts DEF Known
<1>5. OperationFits(o)'
  BY <1>2 DEF ProfileInv, Rows, OperationFits
<1>6. LockIsOwn(o)'
  BY <1>2 DEF ProfileInv, Rows, LockIsOwn
<1>7. Rows(o)'
  BY <1>2, <1>4, <1>5, <1>6 DEF Rows, WorkflowKnows, IsReviewed, At
<1>8. PinIsLocked'
  BY <1>1, PinStays
<1>9. Busy(o)' => Busy(o)
  BY DEF Busy
<1> QED BY <1>1, <1>2, <1>3, <1>7, <1>8, <1>9, StepOf

LEMMA ResolveProfileVersionKeeps ==
    ASSUME ProfileInv, NEW o \in Operations, ResolveProfileVersion(o)
    PROVE  ProfileInv'
<1>1. /\ UNCHANGED <<tags, versions, locks, environment, operations>>
      /\ operations[o].kind = "apply" /\ workflows[o].pc = "resolve"
  BY DEF ResolveProfileVersion, unchangedProfiles, At
<1>2. PICK digests : digests = [i \in DOMAIN RefsOf(o) |-> Resolve(RefsOf(o)[i])]
  OBVIOUS
<1>3. CASE Goto(o, "fail")
  BY <1>1, <1>3, FailKeeps
<1>4. CASE /\ workflows' = [workflows EXCEPT ![o].pc = "lock", ![o].digests = digests]
           /\ missingReviewApprovals(RefsOf(o), digests, LockOf(workflows[o].pinned),
                                     operations[o].approved) = {}
  <2>1. TablesGrow
    BY <1>1, TablesKept
  <2>2. operations[o].version \in DOMAIN versions /\ operations[o].status = "running"
    BY <1>1 DEF ProfileInv, Rows, OperationFits
  <2>3. digests \in Seq(Capsules) /\ Resolves(digests, operations[o].version)
    BY <1>2, <2>2, ResolvedIs
  <2>4. /\ workflows' \in [Operations -> Workflow] /\ workflows'[o].pc = "lock"
        /\ workflows'[o].pinned = workflows[o].pinned
        /\ workflows'[o].digests = digests
        /\ \A p \in Operations \ {o} : workflows'[p] = workflows[p]
    BY <1>4, <2>3, DigestsAre DEF ProfileInv, Places
  <2>5. TablesTyped'
    BY <1>1, <2>4 DEF ProfileInv, TablesTyped
  <2>6. Known(workflows[o].pinned)'
    BY <1>1, <2>4, Acts DEF Known
  <2>7. OperationFits(o)'
    BY <1>1, <2>2, <2>4 DEF ProfileInv, Rows, OperationFits
  <2>8. \A l \in locks' : l.id # o
    BY <1>1, <2>2, NoLockYet
  <2>9. WorkflowKnows(o)'
    BY <1>1, <2>3, <2>4, <2>6 DEF WorkflowKnows, Resolves
  <2>10. DiffSinceLastApproval(RefsOf(o), digests, LockOf(workflows[o].pinned))
             \subseteq operations[o].approved
    BY <1>4 DEF missingReviewApprovals
  <2>11. IsReviewed(o)'
    <3>1. PICK k, l, refs : k = workflows[o].pinned /\ l = LockOf(k) /\ refs = RefsOf(o)
      OBVIOUS
    <3>2. l \in locks /\ LockOf(k)' = l
      BY <1>1, <3>1, Acts, LockOfKnown DEF LockOf
    <3>3. DiffSinceLastApproval(refs, digests, l)' = DiffSinceLastApproval(refs, digests, l)
      BY <2>1, <3>2, DiffStays DEF ProfileInv, LocksAreUnique, Resolves
    <3>4. RefsOf(o)' = refs
      BY <1>1, <3>1 DEF RefsOf
    <3> QED BY <1>1, <2>4, <2>10, <3>1, <3>2, <3>3, <3>4 DEF IsReviewed
  <2>12. Rows(o)'
    BY <2>4, <2>7, <2>8, <2>9, <2>11 DEF Rows, LockIsOwn, At
  <2>13. PinIsLocked'
    BY <1>1, <2>1, PinStays
  <2>14. Busy(o)' => Busy(o)
    BY <1>1 DEF Busy
  <2> QED BY <1>1, <2>1, <2>4, <2>5, <2>12, <2>13, <2>14, StepOf
<1> QED BY <1>2, <1>3, <1>4 DEF ResolveProfileVersion

LEMMA CandidateTyped ==
    ASSUME ProfileInv, NEW o \in Operations, Known(workflows[o].pinned),
           Resolves(workflows[o].digests, operations[o].version)
    PROVE  /\ Candidate(o) \in LockRow /\ Candidate(o).id = o
           /\ Candidate(o).version = operations[o].version
           /\ Resolves(Candidate(o).digests, Candidate(o).version)
<1>1. LockOf(workflows[o].pinned) \in locks
  BY LockOfKnown
<1>2. ProjectOf(o) = ProjectCapsule
  BY <1>1 DEF ProjectOf, ProfileInv, TablesTyped, LockRow
<1>3. operations[o].version \in Nat /\ workflows[o].digests \in Seq(Capsules)
  BY DEF ProfileInv, TablesTyped, Workflow, OperationRow
<1>4. o \in 0..MaxOperations
  BY BoundsAssumption DEF Operations
<1> QED BY <1>2, <1>3, <1>4 DEF Candidate, Lock, LockRow

(* The workflow of an apply that has its candidate goes on.                *)
LEMMA MaterializingKeeps ==
    ASSUME ProfileInv, NEW o \in Operations, operations[o].kind = "apply",
           workflows[o].pc \in {"lock", "materialize"}, SameRequest(o),
           UNCHANGED <<tags, versions, locks, environment, operations>>,
           workflows' \in [Operations -> Workflow],
           workflows'[o].pc \in {"complete", "fail", "materialize"},
           \A p \in Operations \ {o} : workflows'[p] = workflows[p]
    PROVE  ProfileInv'
<1>1. /\ operations[o].status = "running" /\ Known(workflows[o].pinned)
      /\ operations[o].version \in DOMAIN versions
      /\ Resolves(workflows[o].digests, operations[o].version)
  BY DEF ProfileInv, Rows, OperationFits, WorkflowKnows
<1>2. TablesGrow
  BY TablesKept
<1>5. TablesTyped'
  BY DEF ProfileInv, TablesTyped
<1>6. /\ Known(workflows[o].pinned)' /\ DiffOf(o)' = DiffOf(o)
      /\ Resolves(workflows[o].digests, operations[o].version)'
  BY <1>1, <1>2, OwnRow
<1>7. OperationFits(o)'
  BY <1>1 DEF OperationFits
<1>8. \A l \in locks' : l.id # o
  BY <1>1, NoLockYet
<1>9. WorkflowKnows(o)'
  BY <1>6 DEF WorkflowKnows
<1>10. IsReviewed(o)'
  BY <1>1, <1>6 DEF IsReviewed, DiffOf, ProfileInv, Rows
<1>12. Rows(o)'
  BY <1>7, <1>8, <1>9, <1>10 DEF Rows, LockIsOwn
<1>13. PinIsLocked'
  BY <1>2, PinStays
<1>14. Busy(o)
  BY <1>1 DEF Busy
<1> QED BY <1>2, <1>5, <1>12, <1>13, <1>14, StepOf

LEMMA CreateCandidateLockKeeps ==
    ASSUME ProfileInv, NEW o \in Operations, CreateCandidateLock(o)
    PROVE  ProfileInv'
<1>1. /\ UNCHANGED <<tags, versions, locks, environment, operations>> /\ Goto(o, "materialize")
      /\ operations[o].kind = "apply" /\ workflows[o].pc = "lock"
  BY DEF CreateCandidateLock, unchangedProfiles, At
<1>2. /\ workflows' \in [Operations -> Workflow] /\ workflows'[o].pc = "materialize"
      /\ workflows'[o].pinned = workflows[o].pinned
      /\ workflows'[o].digests = workflows[o].digests
      /\ \A p \in Operations \ {o} : workflows'[p] = workflows[p]
  BY <1>1, GotoIs DEF Places, ProfileInv
<1> QED BY <1>1, <1>2, MaterializingKeeps DEF SameRequest

(* What a workflow remembers of its batch.                                 *)
LEMMA CallIs ==
    ASSUME TablesTyped, NEW o \in Operations, NEW k \in 0..MaxCalls, NEW b \in BOOLEAN,
           workflows' = [workflows EXCEPT ![o].call = k, ![o].lost = b]
    PROVE  /\ workflows' \in [Operations -> Workflow]
           /\ workflows'[o].pc = workflows[o].pc
           /\ workflows'[o].pinned = workflows[o].pinned
           /\ workflows'[o].digests = workflows[o].digests
           /\ workflows'[o].installed = workflows[o].installed
           /\ workflows'[o].call = k
           /\ \A p \in Operations \ {o} : workflows'[p] = workflows[p]
<1> DEFINE w == [workflows[o] EXCEPT !.call = k, !.lost = b]
<1>1. workflows \in [Operations -> Workflow]
  BY DEF TablesTyped
<1>2. /\ w \in Workflow /\ w.pc = workflows[o].pc /\ w.digests = workflows[o].digests
      /\ w.pinned = workflows[o].pinned /\ w.installed = workflows[o].installed /\ w.call = k
  BY <1>1 DEF Workflow
<1>3. workflows' = [workflows EXCEPT ![o] = w]
  BY <1>1
<1> HIDE DEF w
<1> QED BY <1>1, <1>2, <1>3

(* A workflow sends its batch, or gives up on it.                          *)
LEMMA SentIs ==
    ASSUME ProfileInv, NEW o \in Operations,
           \/ \E k \in Calls : workflows' = [workflows EXCEPT ![o].call = k]
           \/ workflows' = [workflows EXCEPT ![o].lost = TRUE]
           \/ workflows' = [workflows EXCEPT ![o].call = 0, ![o].lost = TRUE]
    PROVE  \E k \in 0..MaxCalls, b \in BOOLEAN :
               workflows' = [workflows EXCEPT ![o].call = k, ![o].lost = b]
<1> DEFINE w == workflows[o]
<1>1. workflows \in [Operations -> Workflow] /\ w \in Workflow /\ Calls \subseteq 0..MaxCalls
  BY BoundsAssumption DEF ProfileInv, TablesTyped, Calls
<1>2. w.call \in 0..MaxCalls /\ w.lost \in BOOLEAN
  BY <1>1 DEF Workflow
<1>3. ASSUME NEW k \in Calls, workflows' = [workflows EXCEPT ![o].call = k]
      PROVE  workflows' = [workflows EXCEPT ![o].call = k, ![o].lost = w.lost]
  BY <1>1, <1>3 DEF Workflow
<1>4. ASSUME workflows' = [workflows EXCEPT ![o].lost = TRUE]
      PROVE  workflows' = [workflows EXCEPT ![o].call = w.call, ![o].lost = TRUE]
  BY <1>1, <1>4 DEF Workflow
<1>5. 0 \in 0..MaxCalls
  BY BoundsAssumption
<1> QED BY <1>1, <1>2, <1>3, <1>4, <1>5

LEMMA CallKeeps ==
    ASSUME ProfileInv, NEW o \in Operations, At(o, "apply", "materialize"),
           \/ \E k \in Calls : workflows' = [workflows EXCEPT ![o].call = k]
           \/ workflows' = [workflows EXCEPT ![o].lost = TRUE]
           \/ workflows' = [workflows EXCEPT ![o].call = 0, ![o].lost = TRUE],
           UNCHANGED <<tags, versions, locks, environment, operations>>
    PROVE  ProfileInv'
<1>1. PICK k \in 0..MaxCalls, b \in BOOLEAN :
         workflows' = [workflows EXCEPT ![o].call = k, ![o].lost = b]
  BY SentIs
<1>2. TablesTyped
  BY DEF ProfileInv
<1>3. /\ workflows' \in [Operations -> Workflow] /\ workflows'[o].pc = workflows[o].pc
      /\ SameRequest(o) /\ \A p \in Operations \ {o} : workflows'[p] = workflows[p]
  BY <1>1, <1>2, CallIs DEF SameRequest
<1> QED BY <1>3, MaterializingKeeps DEF At

LEMMA EnsureEnvironmentCapsuleMaterializedKeeps ==
    ASSUME ProfileInv, NEW o \in Operations, EnsureEnvironmentCapsuleMaterialized(o)
    PROVE  ProfileInv'
<1>1. /\ UNCHANGED <<tags, versions, locks, environment, operations>>
      /\ At(o, "apply", "materialize")
  BY DEF EnsureEnvironmentCapsuleMaterialized, unchangedProfiles
<1>2. CASE Goto(o, "fail")
  BY <1>1, <1>2, FailKeeps DEF At
<1>3. CASE \/ \E k \in Calls : workflows' = [workflows EXCEPT ![o].call = k]
           \/ workflows' = [workflows EXCEPT ![o].lost = TRUE]
  BY <1>1, <1>3, CallKeeps
<1> QED BY <1>2, <1>3 DEF EnsureEnvironmentCapsuleMaterialized

LEMMA LoseAnswerKeeps ==
    ASSUME ProfileInv, NEW o \in Operations, LoseAnswer(o)
    PROVE  ProfileInv'
BY CallKeeps DEF LoseAnswer, unchangedProfiles

LEMMA MaterializationTimesOutKeeps ==
    ASSUME ProfileInv, NEW o \in Operations, MaterializationTimesOut(o)
    PROVE  ProfileInv'
BY FailKeeps DEF MaterializationTimesOut, unchangedProfiles, At, DeadlineOutcome

(* The lock an Operation persists is the only one of its ID and target.    *)
LEMMA LockIsAdded ==
    ASSUME ProfileInv, NEW o \in Operations, Known(workflows[o].pinned),
           Resolves(workflows[o].digests, operations[o].version),
           Persistable(Candidate(o)), PersistedId(Candidate(o)) = o,
           \A l \in locks : l.id = o => l = Candidate(o),
           locks' = locks \cup {Candidate(o)}, UNCHANGED versions
    PROVE  /\ TablesGrow /\ locks' \subseteq LockRow
           /\ \A l \in locks' : l.id = o => l = Candidate(o)
           /\ \A l \in locks' : l.id # o => l \in locks
<1>1. PICK k \in LockRow : k = Candidate(o) /\ k.id = o /\ Resolves(k.digests, k.version)
  BY CandidateTyped
<1>2. locks \subseteq LockRow /\ \A l \in locks : l.project = k.project
  BY DEF ProfileInv, TablesTyped, LockRow
<1>3. \A l \in locks : l.version = k.version => l = k
  <2> SUFFICES ASSUME NEW l \in locks, l.version = k.version PROVE l = k
    OBVIOUS
  <2>1. l \in AtTarget(k.version, k.project)
    BY <1>2 DEF AtTarget
  <2>2. LockDigest(l) = LockDigest(k)
    BY <1>1, <2>1 DEF Persistable
  <2> DEFINE m == CHOOSE x \in AtTarget(k.version, k.project) : LockDigest(x) = LockDigest(k)
  <2>3. m \in AtTarget(k.version, k.project) /\ m.id = o
    BY <1>1, <2>1, <2>2 DEF PersistedId
  <2> HIDE DEF m
  <2>4. m \in locks /\ m.version = k.version
    BY <2>3 DEF AtTarget
  <2>5. m = k
    BY <1>1, <2>3, <2>4
  <2> QED BY <2>4, <2>5 DEF ProfileInv, LocksAreUnique
<1>4. LocksAreUnique'
  BY <1>1, <1>3 DEF ProfileInv, LocksAreUnique, Resolves
<1> QED BY <1>1, <1>2, <1>4 DEF TablesGrow, VersionsStay

LEMMA KeptIsKept ==
    ASSUME ProfileInv,
           UNCHANGED <<tags, versions, locks, environment, operations, workflows>>
    PROVE  ProfileInv'
<1>1. TablesGrow
  BY TablesKept
<1>2. TablesTyped'
  BY DEF ProfileInv, TablesTyped
<1>3. PinIsLocked'
  BY <1>1, PinStays
<1>4. \A o \in Operations : Rows(o)'
  BY <1>1, RowStays
<1> QED BY <1>1, <1>2, <1>3, <1>4 DEF ProfileInv, TablesGrow, Busy

(* A step of a workflow that has nothing left to pin.                      *)
LEMMA EndKeeps ==
    ASSUME ProfileInv, NEW o \in Operations, workflows[o].pc \notin {"none", "record", "load"},
           SameRequest(o), UNCHANGED <<tags, versions, locks, environment>>,
           workflows' \in [Operations -> Workflow], operations' \in [Operations -> OperationRow],
           \A p \in Operations \ {o} :
               operations'[p] = operations[p] /\ workflows'[p] = workflows[p],
           workflows'[o].pc \in {"fail", "succeeded", "failed", "complete"},
           operations[o].kind = "resolve" => workflows'[o].pc # "fail",
           operations[o].kind = "apply" => workflows'[o].pc # "complete",
           \/ operations'[o].status = operations[o].status
           \/ operations[o].kind = "resolve" /\ operations'[o].status = "succeeded"
           \/ operations[o].status \in {"queued", "running"} /\ operations'[o].status = "failed"
    PROVE  ProfileInv'
<1>1. /\ Known(workflows[o].pinned) /\ operations[o].version \in DOMAIN versions
      /\ operations[o].kind \in {"apply", "resolve"}
  BY Acts DEF ProfileInv, Rows, OperationFits, TablesTyped, OperationRow
<1>2. TablesGrow
  BY TablesKept
<1>3. TablesTyped'
  BY DEF ProfileInv, TablesTyped, OperationRow
<1>4. Known(workflows[o].pinned)'
  BY <1>1, <1>2, OwnRow
<1>5. OperationFits(o)'
  BY <1>1 DEF OperationFits, SameRequest
<1>6. LockIsOwn(o)'
  <2> SUFFICES ASSUME NEW l \in locks, l.id = o
               PROVE  \/ operations[o].kind = "apply" /\ operations'[o].status = "succeeded"
                      \/ operations[o].kind = "resolve"
    BY DEF LockIsOwn, SameRequest
  <2> QED BY <1>1 DEF ProfileInv, Rows, LockIsOwn
<1>7. Rows(o)'
  BY <1>4, <1>5, <1>6 DEF Rows, WorkflowKnows, IsReviewed, At, SameRequest
<1>8. PinIsLocked'
  BY <1>2, PinStays
<1>9. Busy(o)' => Busy(o)
  BY DEF Busy
<1> QED BY <1>2, <1>3, <1>7, <1>8, <1>9, StepOf

LEMMA GoneToEnd ==
    ASSUME ProfileInv, NEW o \in Operations, workflows[o].pc \notin {"none", "record", "load"},
           NEW pc \in {"fail", "succeeded", "failed", "complete"}, Goto(o, pc),
           operations[o].kind = "resolve" => pc # "fail",
           operations[o].kind = "apply" => pc # "complete",
           UNCHANGED <<tags, versions, locks, environment, operations>>
    PROVE  ProfileInv'
<1>1. /\ workflows' \in [Operations -> Workflow] /\ workflows'[o].pc = pc
      /\ workflows'[o].pinned = workflows[o].pinned
      /\ workflows'[o].digests = workflows[o].digests
      /\ \A p \in Operations \ {o} : workflows'[p] = workflows[p]
  BY GotoIs DEF Places, ProfileInv
<1>2. SameRequest(o)
  BY <1>1 DEF SameRequest
<1>3. operations' \in [Operations -> OperationRow]
  BY DEF ProfileInv, TablesTyped, OperationRow
<1> QED BY <1>1, <1>2, <1>3, EndKeeps

LEMMA JournaledIs ==
    ASSUME ProfileInv, NEW o \in Operations, NEW pc \in Places, Journaled(o, pc)
    PROVE  /\ workflows' \in [Operations -> Workflow]
           /\ workflows'[o].pc \in {pc, workflows[o].pc}
           /\ workflows'[o].pinned = workflows[o].pinned
           /\ workflows'[o].digests = workflows[o].digests
           /\ \A p \in Operations \ {o} : workflows'[p] = workflows[p]
<1>1. CASE Goto(o, pc)
  BY <1>1, GotoIs DEF ProfileInv
<1>2. CASE UNCHANGED workflows
  BY <1>2 DEF ProfileInv, TablesTyped
<1> QED BY <1>1, <1>2 DEF Journaled

LEMMA CompleteProfileApplyKeeps ==
    ASSUME ProfileInv, NEW o \in Operations, CompleteProfileApply(o)
    PROVE  ProfileInv'
<1>1. /\ UNCHANGED <<tags, versions>>
      /\ operations[o].kind = "apply" /\ workflows[o].pc = "complete"
  BY DEF CompleteProfileApply, unchangedProfiles, At
<1>2. CASE /\ Goto(o, "succeeded") \/ Goto(o, "fail")
           /\ UNCHANGED <<locks, environment, operations>>
  BY <1>1, <1>2, GoneToEnd
<1>3. CASE /\ operations[o].status = "running" /\ environment.lock = workflows[o].pinned
           /\ Persistable(Candidate(o)) /\ PersistedId(Candidate(o)) = o
           /\ locks' = locks \cup {Candidate(o)}
           /\ environment' = [version |-> Candidate(o).version, lock |-> o,
                              installed |-> InstalledBy(Candidate(o))]
           /\ operations' = [operations EXCEPT ![o].status = "succeeded"]
           /\ Journaled(o, "succeeded")
  <2>1. /\ Known(workflows[o].pinned) /\ operations[o].version \in DOMAIN versions
        /\ Resolves(workflows[o].digests, operations[o].version)
    BY <1>1 DEF ProfileInv, Rows, OperationFits, WorkflowKnows
  <2>2. PICK k \in LockRow : k = Candidate(o) /\ k.id = o /\ k.version = operations[o].version
    BY <2>1, CandidateTyped
  <2>3. \A l \in locks : l.id # o
    BY <1>1, <1>3, NoLockYet
  <2>4. /\ TablesGrow /\ locks' \subseteq LockRow
        /\ \A l \in locks' : l.id # o => l \in locks
    BY <1>1, <1>3, <2>1, <2>3, LockIsAdded
  <2>5. /\ workflows' \in [Operations -> Workflow]
        /\ workflows'[o].pc \in {"succeeded", "complete"}
        /\ workflows'[o].pinned = workflows[o].pinned
        /\ workflows'[o].digests = workflows[o].digests
        /\ \A p \in Operations \ {o} : workflows'[p] = workflows[p]
    BY <1>1, <1>3, JournaledIs DEF Places
  <2>6. TablesTyped'
    BY <1>1, <1>3, <2>4, <2>5, StatusIs DEF ProfileInv, TablesTyped
  <2>7. /\ operations'[o].kind = "apply" /\ operations'[o].status = "succeeded"
        /\ operations'[o].version = operations[o].version
        /\ operations'[o].approved = operations[o].approved
        /\ \A p \in Operations \ {o} : operations'[p] = operations[p]
    BY <1>1, <1>3, StatusIs DEF ProfileInv
  <2>8. SameRequest(o)
    BY <1>1, <2>5, <2>7 DEF SameRequest
  <2>9. /\ Known(workflows[o].pinned)' /\ DiffOf(o)' = DiffOf(o)
        /\ Resolves(workflows[o].digests, operations[o].version)'
    BY <2>1, <2>4, <2>8, OwnRow
  <2>10. IsReviewed(o)'
    BY <1>1, <2>7, <2>9 DEF IsReviewed, DiffOf, ProfileInv, Rows
  <2>11. Rows(o)'
    BY <1>1, <2>1, <2>5, <2>7, <2>9, <2>10
       DEF Rows, OperationFits, WorkflowKnows, LockIsOwn, At
  <2>12. PinIsLocked'
    <3>1. InstalledBy(k)' = InstalledBy(k)
      BY <2>1, <2>2, <2>4, LockStays DEF TablesGrow
    <3>2. k \in locks'
      BY <1>3, <2>2
    <3>3. environment' = [version |-> k.version, lock |-> k.id, installed |-> InstalledBy(k)']
      BY <1>3, <2>2, <3>1
    <3> QED BY <3>2, <3>3 DEF PinIsLocked
  <2>13. ~Busy(o)'
    BY <2>7 DEF Busy
  <2> QED BY <1>1, <2>4, <2>5, <2>6, <2>7, <2>11, <2>12, <2>13, StepOf
<1> QED BY <1>2, <1>3 DEF CompleteProfileApply

LEMMA RecordProfileApplyFailureKeeps ==
    ASSUME ProfileInv, NEW o \in Operations, RecordProfileApplyFailure(o)
    PROVE  ProfileInv'
<1>1. /\ UNCHANGED <<tags, versions, locks, environment>>
      /\ operations[o].kind = "apply" /\ workflows[o].pc = "fail" /\ Journaled(o, "failed")
  BY DEF RecordProfileApplyFailure, unchangedProfiles, At
<1>2. PICK s \in {"none", "queued", "running", "succeeded", "failed"} :
         s = IF operations[o].status \in {"queued", "running"} THEN "failed" ELSE operations[o].status
  BY DEF ProfileInv, TablesTyped, OperationRow
<1>3. operations' = [operations EXCEPT ![o].status = s]
  BY <1>2 DEF RecordProfileApplyFailure
<1>4. /\ operations' \in [Operations -> OperationRow] /\ operations'[o].status = s
      /\ operations'[o].kind = operations[o].kind
      /\ operations'[o].version = operations[o].version
      /\ operations'[o].approved = operations[o].approved
      /\ \A p \in Operations \ {o} : operations'[p] = operations[p]
  BY <1>3, StatusIs DEF ProfileInv, OperationRow
<1>5. /\ workflows' \in [Operations -> Workflow]
      /\ workflows'[o].pc \in {"fail", "failed"}
      /\ workflows'[o].pinned = workflows[o].pinned
      /\ workflows'[o].digests = workflows[o].digests
      /\ \A p \in Operations \ {o} : workflows'[p] = workflows[p]
  BY <1>1, JournaledIs DEF Places
<1>6. SameRequest(o)
  BY <1>4, <1>5 DEF SameRequest
<1> QED BY <1>1, <1>2, <1>4, <1>5, <1>6, EndKeeps

LEMMA CompleteProfileResolveKeeps ==
    ASSUME ProfileInv, NEW o \in Operations, CompleteProfileResolve(o)
    PROVE  ProfileInv'
<1>1. /\ UNCHANGED <<tags, versions, locks, environment>>
      /\ operations[o].kind = "resolve" /\ workflows[o].pc = "complete"
      /\ Journaled(o, "succeeded") /\ operations' = [operations EXCEPT ![o].status = "succeeded"]
  BY DEF CompleteProfileResolve, unchangedProfiles, At
<1>2. /\ operations' \in [Operations -> OperationRow] /\ operations'[o].status = "succeeded"
      /\ operations'[o].kind = operations[o].kind
      /\ operations'[o].version = operations[o].version
      /\ operations'[o].approved = operations[o].approved
      /\ \A p \in Operations \ {o} : operations'[p] = operations[p]
  BY <1>1, StatusIs DEF ProfileInv, OperationRow
<1>3. /\ workflows' \in [Operations -> Workflow]
      /\ workflows'[o].pc \in {"complete", "succeeded"}
      /\ workflows'[o].pinned = workflows[o].pinned
      /\ workflows'[o].digests = workflows[o].digests
      /\ \A p \in Operations \ {o} : workflows'[p] = workflows[p]
  BY <1>1, JournaledIs DEF Places
<1>4. SameRequest(o)
  BY <1>2, <1>3 DEF SameRequest
<1> QED BY <1>1, <1>2, <1>3, <1>4, EndKeeps

LEMMA RecordProfileResolveInvocationKeeps ==
    ASSUME ProfileInv, NEW o \in Operations, RecordProfileResolveInvocation(o)
    PROVE  ProfileInv'
<1>1. /\ operations' = [operations EXCEPT ![o].status = "queued"]
      /\ workflows' = [workflows EXCEPT ![o].pc = "resolve", ![o].pinned = environment.lock]
      /\ UNCHANGED <<tags, versions, locks, environment>>
      /\ operations[o].kind = "resolve" /\ workflows[o].pc = "record" /\ ~Active
  BY DEF RecordProfileResolveInvocation, unchangedProfiles, At
<1>2. TablesGrow
  BY <1>1, TablesKept
<1>3. operations[o].version \in DOMAIN versions
  BY <1>1, Acts
<1>4. /\ workflows' \in [Operations -> Workflow] /\ workflows'[o].pc = "resolve"
      /\ workflows'[o].pinned = environment.lock
      /\ \A p \in Operations \ {o} : workflows'[p] = workflows[p]
  <2>1. PICK id \in 0..MaxOperations : id = environment.lock
    BY PinIsKnown
  <2>2. workflows' = [workflows EXCEPT ![o].pc = "resolve", ![o].pinned = id]
    BY <1>1, <2>1
  <2> QED BY <2>1, <2>2, PinnedIs DEF ProfileInv, Places
<1>5. /\ operations'[o].kind = "resolve" /\ operations'[o].status = "queued"
      /\ operations'[o].version = operations[o].version
      /\ \A p \in Operations \ {o} : operations'[p] = operations[p]
  BY <1>1, StatusIs DEF ProfileInv
<1>6. TablesTyped'
  BY <1>1, <1>4, StatusIs DEF ProfileInv, TablesTyped
<1>7. \A l \in locks' : l.id # o
  BY <1>1, NoLockYet
<1>8. Known(workflows[o].pinned)'
  BY <1>1, <1>4, PinIsKnown DEF Known
<1>9. Rows(o)'
  BY <1>1, <1>3, <1>4, <1>5, <1>7, <1>8
     DEF Rows, OperationFits, WorkflowKnows, LockIsOwn, IsReviewed, At
<1>10. PinIsLocked'
  BY <1>1, <1>2, PinStays
<1> QED BY <1>1, <1>2, <1>4, <1>5, <1>6, <1>9, <1>10, StepOf

LEMMA ResolveCapsulesKeeps ==
    ASSUME ProfileInv, NEW o \in Operations, ResolveCapsules(o)
    PROVE  ProfileInv'
<1>1. /\ UNCHANGED <<tags, versions, locks, environment, operations>>
      /\ operations[o].kind = "resolve" /\ workflows[o].pc = "resolve"
  BY DEF ResolveCapsules, unchangedProfiles, At
<1>2. PICK digests : digests = [i \in DOMAIN RefsOf(o) |-> Resolve(RefsOf(o)[i])]
  OBVIOUS
<1>3. CASE Goto(o, "failed")
  BY <1>1, <1>3, GoneToEnd
<1>4. CASE workflows' = [workflows EXCEPT ![o].pc = "persist", ![o].digests = digests]
  <2>1. TablesGrow
    BY <1>1, TablesKept
  <2>2. operations[o].version \in DOMAIN versions
    BY <1>1, Acts
  <2>3. digests \in Seq(Capsules) /\ Resolves(digests, operations[o].version)
    BY <1>2, <2>2, ResolvedIs
  <2>4. /\ workflows' \in [Operations -> Workflow] /\ workflows'[o].pc = "persist"
        /\ workflows'[o].pinned = workflows[o].pinned
        /\ workflows'[o].digests = digests
        /\ \A p \in Operations \ {o} : workflows'[p] = workflows[p]
    BY <1>4, <2>3, DigestsAre DEF ProfileInv, Places
  <2>5. TablesTyped'
    BY <1>1, <2>4 DEF ProfileInv, TablesTyped
  <2>6. Known(workflows[o].pinned)'
    BY <1>1, <2>4, Acts DEF Known
  <2>7. OperationFits(o)'
    BY <1>1, <2>2, <2>4 DEF ProfileInv, Rows, OperationFits
  <2>8. \A l \in locks' : l.id # o
    BY <1>1, NoLockYet
  <2>9. WorkflowKnows(o)'
    BY <1>1, <2>3, <2>4, <2>6 DEF WorkflowKnows, Resolves
  <2>10. Rows(o)'
    BY <1>1, <2>4, <2>7, <2>8, <2>9 DEF Rows, LockIsOwn, IsReviewed, At
  <2>11. PinIsLocked'
    BY <1>1, <2>1, PinStays
  <2>12. Busy(o)' => Busy(o)
    BY <1>1 DEF Busy
  <2> QED BY <1>1, <2>1, <2>4, <2>5, <2>10, <2>11, <2>12, StepOf
<1> QED BY <1>2, <1>3, <1>4 DEF ResolveCapsules

LEMMA PersistCapsuleLockKeeps ==
    ASSUME ProfileInv, NEW o \in Operations, PersistCapsuleLock(o)
    PROVE  ProfileInv'
<1>1. /\ UNCHANGED <<tags, versions, environment, operations>>
      /\ operations[o].kind = "resolve" /\ workflows[o].pc = "persist"
  BY DEF PersistCapsuleLock, unchangedProfiles, At
<1>3. CASE UNCHANGED locks /\ Journaled(o, "complete")
  <2>1. CASE Goto(o, "complete")
    BY <1>1, <1>3, <2>1, GoneToEnd
  <2>2. CASE UNCHANGED workflows
    BY <1>1, <1>3, <2>2, KeptIsKept
  <2> QED BY <1>3, <2>1, <2>2 DEF Journaled
<1>4. CASE /\ Persistable(Candidate(o)) /\ PersistedId(Candidate(o)) = o
           /\ locks' = locks \cup {Candidate(o)} /\ Journaled(o, "complete")
  <2>1. /\ Known(workflows[o].pinned) /\ operations[o].version \in DOMAIN versions
        /\ Resolves(workflows[o].digests, operations[o].version)
    BY <1>1 DEF ProfileInv, Rows, OperationFits, WorkflowKnows
  <2>2. \A l \in locks : l.id = o => l = Candidate(o)
    BY <1>1 DEF ProfileInv, Rows, LockIsOwn
  <2>3. /\ TablesGrow /\ locks' \subseteq LockRow
        /\ \A l \in locks' : l.id = o => l = Candidate(o)
        /\ \A l \in locks' : l.id # o => l \in locks
    BY <1>1, <1>4, <2>1, <2>2, LockIsAdded
  <2>4. /\ workflows' \in [Operations -> Workflow]
        /\ workflows'[o].pc \in {"complete", "persist"}
        /\ workflows'[o].pinned = workflows[o].pinned
        /\ workflows'[o].digests = workflows[o].digests
        /\ \A p \in Operations \ {o} : workflows'[p] = workflows[p]
    BY <1>1, <1>4, JournaledIs DEF Places
  <2>5. SameRequest(o)
    BY <1>1, <2>4 DEF SameRequest
  <2>6. TablesTyped'
    BY <1>1, <2>3, <2>4 DEF ProfileInv, TablesTyped
  <2>7. /\ Known(workflows[o].pinned)' /\ Candidate(o)' = Candidate(o)
        /\ Resolves(workflows[o].digests, operations[o].version)'
    BY <2>1, <2>3, <2>5, OwnRow
  <2>8. OperationFits(o)'
    BY <1>1, <2>4 DEF ProfileInv, Rows, OperationFits
  <2>9. LockIsOwn(o)'
    BY <1>1, <2>3, <2>4, <2>7 DEF LockIsOwn
  <2>10. Rows(o)'
    BY <1>1, <2>4, <2>7, <2>8, <2>9 DEF Rows, WorkflowKnows, IsReviewed, At
  <2>11. PinIsLocked'
    BY <1>1, <2>3, PinStays
  <2>12. Busy(o)' => Busy(o)
    BY <1>1 DEF Busy
  <2> QED BY <1>1, <2>3, <2>4, <2>6, <2>10, <2>11, <2>12, StepOf
<1> QED BY <1>3, <1>4 DEF PersistCapsuleLock

LEMMA InitHolds ==
    ASSUME ProfileInit
    PROVE  ProfileInv
<1> DEFINE digests == [i \in DOMAIN FirstComposition |-> FirstComposition[i].name]
           first == Lock(0, 1, ProjectCapsule, digests)
<1>1. FirstComposition \in Seq(CapsuleRefs)
  BY CompositionsAssumption
<1>2. digests \in Seq(Capsules) /\ DOMAIN digests = DOMAIN FirstComposition
  <2>1. DOMAIN FirstComposition = 1..Len(FirstComposition) /\ Len(FirstComposition) \in Nat
    BY <1>1
  <2> QED BY <2>1, FirstAssumption
<1> HIDE DEF digests
<1>3. /\ first = [id |-> 0, version |-> 1, project |-> ProjectCapsule, digests |-> digests]
      /\ first \in LockRow
  BY <1>2, BoundsAssumption DEF Lock, LockRow
<1>4. locks = {first} /\ versions = <<[refs |-> FirstComposition, parent |-> 0]>>
  BY DEF ProfileInit, digests
<1> HIDE DEF first
<1>5. /\ versions \in Seq(Version) /\ DOMAIN versions = {1} /\ versions[1].parent = 0
      /\ versions[1].refs = FirstComposition
  BY <1>1, <1>4 DEF Version
<1>6. LocksAreUnique
  BY <1>2, <1>3, <1>4, <1>5 DEF LocksAreUnique, Resolves
<1>7. LockOf(0) = first
  BY <1>3, <1>4 DEF LockOf
<1>8. environment = [version |-> 1, lock |-> 0, installed |-> InstalledBy(first)]
  BY <1>7 DEF ProfileInit, InstalledBy
<1>9. PinIsLocked
  BY <1>3, <1>4, <1>8 DEF PinIsLocked
<1>10. workflows \in [Operations -> Workflow]
  <2>1. [pc |-> "none", pinned |-> 0, digests |-> <<>>, call |-> 0, lost |-> FALSE,
         installed |-> [c \in Components |-> None]] \in Workflow
    BY BoundsAssumption DEF Workflow
  <2> QED BY <2>1 DEF ProfileInit
<1>11. operations \in [Operations -> OperationRow]
  BY DEF ProfileInit, OperationRow
<1>12. tags \in [Tags -> Capsules]
  BY DEF ProfileInit
<1>14. TablesTyped
  BY <1>3, <1>4, <1>5, <1>10, <1>11, <1>12 DEF TablesTyped
<1>15. \A o \in Operations : /\ operations[o].kind = "none" /\ operations[o].status = "none"
                            /\ workflows[o].pc = "none" /\ o # 0
  BY BoundsAssumption DEF ProfileInit, Operations
<1>16. \A o \in Operations : Rows(o)
  BY <1>3, <1>4, <1>15
     DEF Rows, OperationFits, WorkflowKnows, LockIsOwn, IsReviewed, At
<1> QED BY <1>6, <1>9, <1>14, <1>15, <1>16 DEF ProfileInv, Busy

-----------------------------------------------------------------------------
(* The batches in the guest.                                               *)

Desire(o) == LockComponents(Candidate(o))
Alters(o) == Transitions(Candidate(o), workflows[o].installed)

(* The workflow of an apply that has sent a batch.                         *)
Settled(o) ==
    /\ operations[o].kind = "apply"
    /\ workflows[o].pc \in {"materialize", "complete", "fail", "succeeded", "failed"}
    /\ Known(workflows[o].pinned) /\ Resolves(workflows[o].digests, operations[o].version)

GuestTyped ==
    /\ targets \in [Components -> Held] /\ calls \in [Calls -> Call]
    /\ strays \subseteq Components /\ faults \in Nat

(* What a batch knows of its targets: an edit that its plan and its        *)
(* backups do not have was made since.                                     *)
CallIsKept(k) ==
    LET b == calls[k] IN
    b.pc # "none" =>
        /\ b.op \in Operations /\ Settled(b.op)
        /\ b.pc = "rollback" => b.outcome # "done"
        /\ \A c \in Alters(b.op) : b.seen[c] # Edited
        /\ b.pc # "snapshot" =>
              \A c \in Alters(b.op) : targets[c] = Edited => b.backups[c] = Edited \/ c \in b.overtaken
        /\ b.pc = "write" => b.item \in Alters(b.op) /\ (targets[b.item] = Edited => b.item \in b.overtaken)

Holds(o, c) == targets[c] \in {Desire(o)[c], Edited} \/ c \in strays

(* What a workflow waits for has so far what it wrote and did not change.  *)
Awaits(o) ==
    LET w == workflows[o] IN
    w.call # 0 =>
        /\ At(o, "apply", "materialize") /\ w.call \in Calls
        /\ calls[w.call].pc # "none" /\ calls[w.call].op = o
        /\ calls[w.call].pc # "rollback" =>
              \A c \in DOMAIN Desire(o) : c \in calls[w.call].written \/ c \notin Alters(o) => Holds(o, c)

(* What is about to be pinned is held.                                     *)
IsHeld(o) ==
    At(o, "apply", "complete") /\ operations[o].status = "running" =>
        \A c \in DOMAIN Desire(o) : Holds(o, c)

BatchInv ==
    /\ GuestTyped /\ \A k \in Calls : CallIsKept(k)
    /\ \A o \in Operations : Awaits(o) /\ IsHeld(o)

(* Only one workflow waits for a batch or is about to pin.                 *)
LEMMA OneActs ==
    ASSUME ProfileInv, BatchInv, NEW o \in Operations, NEW p \in Operations,
           workflows[o].call # 0,
           workflows[p].call # 0 \/ (At(p, "apply", "complete") /\ operations[p].status = "running")
    PROVE  o = p /\ workflows[p].call # 0
<1>1. At(o, "apply", "materialize")
  BY DEF BatchInv, Awaits
<1>2. operations[o].status = "running" /\ Busy(o)
  BY <1>1 DEF At, ProfileInv, Rows, OperationFits, Busy
<1>3. Busy(p)
  <2>1. CASE workflows[p].call # 0
    <3>1. At(p, "apply", "materialize")
      BY <2>1 DEF BatchInv, Awaits
    <3> QED BY <3>1 DEF At, ProfileInv, Rows, OperationFits, Busy
  <2>2. CASE operations[p].status = "running"
    BY <2>2 DEF Busy
  <2> QED BY <2>1, <2>2
<1> QED BY <1>2, <1>3 DEF ProfileInv

LEMMA WhatIsSettled ==
    ASSUME ProfileInv, NEW o \in Operations,
           At(o, "apply", "materialize") \/ At(o, "apply", "complete")
    PROVE  Settled(o)
BY DEF At, Settled, ProfileInv, Rows, WorkflowKnows

(* The workflow of a batch that somebody waits for is answered.            *)
LEMMA AnswerBatchKeeps ==
    ASSUME ProfileInv, BatchInv, NEW k \in Calls, AnswerBatch(k)
    PROVE  ProfileInv'
<1>1. UNCHANGED <<tags, versions, locks, environment, operations>>
  BY DEF AnswerBatch, unchangedOutside, storeVars
<1>2. workflows \in [Operations -> Workflow] /\ k # 0
  BY BoundsAssumption DEF ProfileInv, TablesTyped, Calls
<1>3. \A o \in Operations : workflows[o].call # k => workflows'[o] = workflows[o]
  BY DEF AnswerBatch
<1>4. CASE \A o \in Operations : workflows[o].call # k
  <2>1. workflows' = workflows
    BY <1>2, <1>3, <1>4 DEF AnswerBatch
  <2> QED BY <1>1, <2>1, KeptIsKept
<1>5. ASSUME NEW o \in Operations, workflows[o].call = k
      PROVE  ProfileInv'
  <2>1. At(o, "apply", "materialize")
    BY <1>2, <1>5 DEF BatchInv, Awaits
  <2>2. \A p \in Operations \ {o} : workflows'[p] = workflows[p]
    BY <1>2, <1>3, <1>5, OneActs
  <2>3. PICK pc \in {"complete", "fail", "materialize"}, b \in BOOLEAN :
           workflows'[o] = [workflows[o] EXCEPT !.call = 0, !.lost = b, !.pc = pc]
    <3>1. workflows[o].pc = "materialize" /\ workflows[o].lost \in BOOLEAN
      BY <1>2, <2>1 DEF At, Workflow
    <3> QED BY <1>5, <3>1 DEF AnswerBatch
  <2>4. /\ workflows'[o] \in Workflow /\ workflows'[o].pc = pc
        /\ workflows'[o].pinned = workflows[o].pinned
        /\ workflows'[o].digests = workflows[o].digests
    <3>1. 0 \in 0..MaxCalls /\ workflows[o] \in Workflow
      BY <1>2, BoundsAssumption
    <3>2. pc \in {"complete", "fail", "materialize"} /\ b \in BOOLEAN
      OBVIOUS
    <3> QED BY <2>3, <3>1, <3>2 DEF Workflow
  <2>5. workflows' \in [Operations -> Workflow]
    <3>1. DOMAIN workflows' = Operations /\ workflows' = [p \in Operations |-> workflows'[p]]
      BY DEF AnswerBatch
    <3>2. \A p \in Operations : workflows'[p] \in Workflow
      BY <1>2, <2>2, <2>4
    <3> QED BY <3>1, <3>2
  <2>6. SameRequest(o)
    BY <1>1, <2>4 DEF SameRequest
  <2> QED BY <1>1, <2>1, <2>2, <2>4, <2>5, <2>6, MaterializingKeeps DEF At
<1> QED BY <1>4, <1>5

LEMMA GuestStepKeeps ==
    ASSUME ProfileInv, BatchInv, NEW k \in Calls, GuestStep(k)
    PROVE  ProfileInv'
<1>1. CASE AnswerBatch(k)
  BY <1>1, AnswerBatchKeeps
<1>2. CASE SnapshotBatch(k) \/ ObserveItem(k) \/ WriteItem(k) \/ RestoreBackup(k)
  <2>1. UNCHANGED <<storeVars, workflows>>
    BY <1>2 DEF SnapshotBatch, ObserveItem, WriteItem, RestoreBackup, unchangedOutside
  <2> QED BY <2>1, KeptIsKept DEF storeVars
<1> QED BY <1>1, <1>2 DEF GuestStep

LEMMA NextKeeps ==
    ASSUME ProfileInv, BatchInv, [ProfileNext]_profileVars
    PROVE  ProfileInv'
<1>1. CASE UNCHANGED profileVars
  BY <1>1, KeptIsKept DEF profileVars
<1>2. CASE \E o \in Operations : WorkflowStep(o)
  BY <1>2, LoadProfileApplyOperationKeeps, ResolveProfileVersionKeeps, CreateCandidateLockKeeps,
     EnsureEnvironmentCapsuleMaterializedKeeps, LoseAnswerKeeps, MaterializationTimesOutKeeps,
     CompleteProfileApplyKeeps, RecordProfileApplyFailureKeeps,
     RecordProfileResolveInvocationKeeps, ResolveCapsulesKeeps,
     PersistCapsuleLockKeeps, CompleteProfileResolveKeeps DEF WorkflowStep
<1>3. CASE LockElsewhere \/ EditTarget
  BY <1>3, KeptIsKept DEF LockElsewhere, EditTarget, storeVars
<1>4. CASE \E k \in Calls : GuestStep(k)
  BY <1>4, GuestStepKeeps
<1> QED BY <1>1, <1>2, <1>3, <1>4, PutCapsuleTagKeeps, PublishProfileVersionKeeps,
           ApplyProfileKeeps, SendProfileResolveKeeps DEF ProfileNext

(* A request that has sent a batch stays what it is.                       *)
LEMMA NextGrows ==
    ASSUME ProfileInv, ProfileInv', [ProfileNext]_profileVars
    PROVE  TablesGrow
<1>1. LocksAreUnique' /\ versions \in Seq(Version)
  BY DEF ProfileInv, TablesTyped
<1>2. CASE PublishProfileVersion
  <2>1. PICK refs : versions' = Append(versions, [refs |-> refs, parent |-> NextParent])
    BY <1>2 DEF PublishProfileVersion
  <2>2. UNCHANGED locks
    BY <1>2 DEF PublishProfileVersion
  <2> QED BY <1>1, <2>1, <2>2 DEF TablesGrow, VersionsStay
<1>3. CASE UNCHANGED versions /\ locks \subseteq locks'
  BY <1>1, <1>3 DEF TablesGrow, VersionsStay
<1>4. PutCapsuleTag \/ LockElsewhere \/ EditTarget \/ ApplyProfile \/ SendProfileResolve
      \/ UNCHANGED profileVars => UNCHANGED versions /\ locks \subseteq locks'
  BY DEF PutCapsuleTag, LockElsewhere, EditTarget, ApplyProfile, SendProfileResolve,
     unchangedProfiles, storeVars, profileVars
<1>5. \A o \in Operations : WorkflowStep(o) => UNCHANGED versions /\ locks \subseteq locks'
  BY DEF WorkflowStep, LoadProfileApplyOperation, ResolveProfileVersion, CreateCandidateLock,
     EnsureEnvironmentCapsuleMaterialized, LoseAnswer, MaterializationTimesOut,
     CompleteProfileApply, RecordProfileApplyFailure, RecordProfileResolveInvocation,
     ResolveCapsules, PersistCapsuleLock, CompleteProfileResolve, unchangedProfiles
<1>6. \A k \in Calls : GuestStep(k) => UNCHANGED <<versions, locks>>
  BY DEF GuestStep, SnapshotBatch, ObserveItem, WriteItem, RestoreBackup, AnswerBatch,
     unchangedOutside, storeVars
<1> QED BY <1>2, <1>3, <1>4, <1>5, <1>6 DEF ProfileNext

(* What a step may do to such a request.                                   *)
Goes(o) ==
    /\ SameRequest(o) /\ workflows'[o].installed = workflows[o].installed
    /\ workflows'[o].pc \in {"materialize", "complete", "fail", "succeeded", "failed"}

LEMMA GotoGoes ==
    ASSUME TablesTyped, NEW o \in Operations, NEW p \in Operations, NEW pc \in Places,
           Goto(p, pc), Settled(o), p = o => pc \in {"materialize", "complete", "fail", "succeeded", "failed"},
           operations'[o].kind = operations[o].kind, operations'[o].version = operations[o].version,
           operations'[o].approved = operations[o].approved
    PROVE  Goes(o)
<1>1. workflows' \in [Operations -> Workflow]
  BY GotoIs
<1>2. CASE p = o
  <2>1. /\ workflows'[o] = [workflows[o] EXCEPT !.pc = pc] /\ workflows[o] \in Workflow
        /\ workflows'[o].pc = pc /\ workflows'[o].pinned = workflows[o].pinned
        /\ workflows'[o].digests = workflows[o].digests
    BY <1>2, GotoIs DEF TablesTyped
  <2>2. workflows'[o].installed = workflows[o].installed
    BY <2>1 DEF Workflow
  <2> QED BY <1>2, <2>1, <2>2 DEF Goes, SameRequest
<1>3. CASE p # o
  <2>1. workflows'[o] = workflows[o]
    BY <1>3, GotoIs
  <2> QED BY <2>1 DEF Goes, SameRequest, Settled
<1> QED BY <1>2, <1>3

LEMMA RowGoes ==
    ASSUME NEW o \in Operations, Settled(o), workflows'[o] = workflows[o],
           operations'[o].kind = operations[o].kind, operations'[o].version = operations[o].version,
           operations'[o].approved = operations[o].approved
    PROVE  Goes(o)
BY DEF Goes, SameRequest, Settled

LEMMA JournaledGoes ==
    ASSUME TablesTyped, NEW o \in Operations, NEW p \in Operations, NEW pc \in Places,
           Journaled(p, pc), Settled(o), p = o => pc \in {"materialize", "complete", "fail", "succeeded", "failed"},
           operations'[o].kind = operations[o].kind, operations'[o].version = operations[o].version,
           operations'[o].approved = operations[o].approved
    PROVE  Goes(o)
BY GotoGoes, RowGoes DEF Journaled

(* Operations change their status only.                                    *)
LEMMA StatusGoes ==
    ASSUME TablesTyped, NEW o \in Operations, NEW p \in Operations, NEW s,
           operations' = [operations EXCEPT ![p].status = s]
    PROVE  /\ operations'[o].kind = operations[o].kind
           /\ operations'[o].version = operations[o].version
           /\ operations'[o].approved = operations[o].approved
<1>1. operations \in [Operations -> OperationRow]
  BY DEF TablesTyped
<1>2. operations[o] \in OperationRow
  BY <1>1
<1> QED BY <1>1, <1>2 DEF OperationRow

LEMMA WorkflowStepGoes ==
    ASSUME ProfileInv, NEW o \in Operations, Settled(o), NEW p \in Operations, WorkflowStep(p)
    PROVE  Goes(o)
<1>1. TablesTyped /\ operations \in [Operations -> OperationRow]
      /\ workflows \in [Operations -> Workflow]
  BY DEF ProfileInv, TablesTyped
<1> DEFINE Kept == /\ operations'[o].kind = operations[o].kind
                   /\ operations'[o].version = operations[o].version
                   /\ operations'[o].approved = operations[o].approved
<1>2. CASE LoadProfileApplyOperation(p)
  <2>1. p # o
    BY <1>2 DEF LoadProfileApplyOperation, At, Settled
  <2>2. workflows'[o] = workflows[o] /\ operations'[o] = operations[o]
    BY <1>1, <1>2, <2>1 DEF LoadProfileApplyOperation
  <2> QED BY <2>2, RowGoes
<1>3. CASE ResolveProfileVersion(p)
  <2>1. p # o /\ UNCHANGED operations
    BY <1>3 DEF ResolveProfileVersion, At, Settled
  <2>2. workflows'[o] = workflows[o]
    BY <1>1, <1>3, <2>1 DEF ResolveProfileVersion, Goto
  <2> QED BY <2>1, <2>2, RowGoes
<1>4. CASE CreateCandidateLock(p)
  BY <1>1, <1>4, GotoGoes DEF CreateCandidateLock, Places
<1>5. CASE EnsureEnvironmentCapsuleMaterialized(p) \/ LoseAnswer(p)
  <2>1. UNCHANGED operations /\ At(p, "apply", "materialize")
    BY <1>5 DEF EnsureEnvironmentCapsuleMaterialized, LoseAnswer
  <2>2. CASE Goto(p, "fail")
    BY <1>1, <2>1, <2>2, GotoGoes DEF Places
  <2>3. ASSUME \/ \E k \in Calls : workflows' = [workflows EXCEPT ![p].call = k]
               \/ workflows' = [workflows EXCEPT ![p].lost = TRUE]
               \/ workflows' = [workflows EXCEPT ![p].call = 0, ![p].lost = TRUE]
        PROVE  Goes(o)
    <3>1. PICK k \in 0..MaxCalls, b \in BOOLEAN :
             workflows' = [workflows EXCEPT ![p].call = k, ![p].lost = b]
      BY <2>3, SentIs
    <3>2. /\ workflows'[o].pc = workflows[o].pc
          /\ workflows'[o].pinned = workflows[o].pinned
          /\ workflows'[o].digests = workflows[o].digests
          /\ workflows'[o].installed = workflows[o].installed
      BY <1>1, <3>1, CallIs
    <3> QED BY <2>1, <3>2 DEF Goes, SameRequest, Settled
  <2> QED BY <1>5, <2>2, <2>3 DEF EnsureEnvironmentCapsuleMaterialized, LoseAnswer
<1>6. CASE MaterializationTimesOut(p)
  BY <1>1, <1>6, GotoGoes DEF MaterializationTimesOut, Places, DeadlineOutcome
<1>7. CASE CompleteProfileApply(p)
  <2>1. CASE UNCHANGED operations /\ (Goto(p, "succeeded") \/ Goto(p, "fail"))
    BY <1>1, <2>1, GotoGoes DEF Places
  <2>2. CASE operations' = [operations EXCEPT ![p].status = "succeeded"] /\ Journaled(p, "succeeded")
    <3>1. Kept
      BY <1>1, <2>2, StatusGoes
    <3> QED BY <1>1, <2>2, <3>1, JournaledGoes DEF Places
  <2> QED BY <1>7, <2>1, <2>2 DEF CompleteProfileApply
<1>8. CASE RecordProfileApplyFailure(p)
  <2>1. PICK s : operations' = [operations EXCEPT ![p].status = s]
    BY <1>8 DEF RecordProfileApplyFailure
  <2>2. Kept
    BY <1>1, <2>1, StatusGoes
  <2> QED BY <1>1, <1>8, <2>2, JournaledGoes DEF RecordProfileApplyFailure, Places
<1>9. CASE /\ operations[p].kind = "resolve"
           /\ RecordProfileResolveInvocation(p) \/ ResolveCapsules(p) \/ PersistCapsuleLock(p)
              \/ CompleteProfileResolve(p)
  <2>1. p # o
    BY <1>9 DEF Settled
  <2>2. workflows'[o] = workflows[o] /\ operations'[o] = operations[o]
    BY <1>1, <1>9, <2>1 DEF RecordProfileResolveInvocation, ResolveCapsules, PersistCapsuleLock,
       CompleteProfileResolve, Goto, Journaled
  <2> QED BY <2>2, RowGoes
<1> QED BY <1>2, <1>3, <1>4, <1>5, <1>6, <1>7, <1>8, <1>9
       DEF WorkflowStep, RecordProfileResolveInvocation, ResolveCapsules, PersistCapsuleLock,
           CompleteProfileResolve, At

(* The answer to the workflow that waits for it.                           *)
LEMMA AnswerIs ==
    ASSUME ProfileInv, BatchInv, NEW k \in Calls, AnswerBatch(k), NEW o \in Operations
    PROVE  /\ workflows[o].call # k => workflows'[o] = workflows[o]
           /\ workflows[o].call = k =>
                 /\ At(o, "apply", "materialize") /\ workflows'[o].call = 0
                 /\ workflows'[o].pc \in {"complete", "fail", "materialize"}
                 /\ workflows'[o].pc = "complete" => calls[k].outcome = "done"
                 /\ workflows'[o].pinned = workflows[o].pinned
                 /\ workflows'[o].digests = workflows[o].digests
                 /\ workflows'[o].installed = workflows[o].installed
<1>1. workflows[o] \in Workflow /\ k # 0
  BY BoundsAssumption DEF ProfileInv, TablesTyped, Calls
<1>2. workflows[o].call # k => workflows'[o] = workflows[o]
  BY DEF AnswerBatch
<1>3. CASE workflows[o].call = k
  <2>1. At(o, "apply", "materialize")
    BY <1>1, <1>3 DEF BatchInv, Awaits
  <2>2. calls[k].outcome \in {"done", "blocked", "error"}
    BY DEF BatchInv, GuestTyped, Call
  <2>3. PICK pc \in {"complete", "fail", "materialize"}, b \in BOOLEAN :
           /\ workflows'[o] = [workflows[o] EXCEPT !.call = 0, !.lost = b, !.pc = pc]
           /\ pc = "complete" => calls[k].outcome = "done"
    <3>1. workflows[o].pc = "materialize" /\ workflows[o].lost \in BOOLEAN
      BY <1>1, <2>1 DEF At, Workflow
    <3> QED BY <1>3, <2>2, <3>1 DEF AnswerBatch
  <2> QED BY <1>1, <1>3, <2>1, <2>3 DEF Workflow
<1> QED BY <1>2, <1>3

(* A new Operation leaves the others as they are.                          *)
LEMMA NewStays ==
    ASSUME ProfileInv, ApplyProfile \/ SendProfileResolve, NEW o \in Operations
    PROVE  \/ workflows'[o] = workflows[o] /\ operations'[o] = operations[o]
           \/ /\ workflows[o].pc = "none" /\ workflows'[o].call = workflows[o].call
              /\ workflows'[o].pc \in {"load", "record"}
<1>1. /\ operations \in [Operations -> OperationRow] /\ workflows \in [Operations -> Workflow]
      /\ workflows[o] \in Workflow
  BY DEF ProfileInv, TablesTyped
<1>2. CASE ApplyProfile
  <2>1. PICK p \in Operations : \E r :
           Unused(p) /\ Goto(p, "load") /\ operations' = [operations EXCEPT ![p] = r]
    BY <1>2 DEF ApplyProfile
  <2> QED BY <1>1, <2>1 DEF Unused, Goto, Workflow
<1>3. CASE SendProfileResolve
  <2>1. PICK p \in Operations : \E v :
           /\ Unused(p) /\ Goto(p, "record")
           /\ operations' = [operations EXCEPT ![p].kind = "resolve", ![p].version = v]
    BY <1>3 DEF SendProfileResolve
  <2> QED BY <1>1, <2>1 DEF Unused, Goto, Workflow
<1> QED BY <1>2, <1>3

LEMMA NextGoes ==
    ASSUME ProfileInv, BatchInv, [ProfileNext]_profileVars, NEW o \in Operations, Settled(o)
    PROVE  Goes(o)
<1>1. CASE UNCHANGED <<operations, workflows>>
  BY <1>1, RowGoes
<1>2. CASE ApplyProfile \/ SendProfileResolve
  BY <1>2, NewStays, RowGoes DEF Settled
<1>3. ASSUME NEW k \in Calls, GuestStep(k)
      PROVE  Goes(o)
  <2>1. CASE AnswerBatch(k)
    <3>1. UNCHANGED operations
      BY <2>1 DEF AnswerBatch, unchangedOutside, storeVars
    <3> QED BY <2>1, <3>1, AnswerIs, RowGoes DEF Goes, SameRequest
  <2>2. CASE SnapshotBatch(k) \/ ObserveItem(k) \/ WriteItem(k) \/ RestoreBackup(k)
    BY <1>1, <2>2 DEF SnapshotBatch, ObserveItem, WriteItem, RestoreBackup, unchangedOutside, storeVars
  <2> QED BY <1>3, <2>1, <2>2 DEF GuestStep
<1>4. PutCapsuleTag \/ PublishProfileVersion \/ LockElsewhere \/ EditTarget \/ UNCHANGED profileVars
      => UNCHANGED <<operations, workflows>>
  BY DEF PutCapsuleTag, PublishProfileVersion, LockElsewhere, EditTarget, storeVars, profileVars
<1> QED BY <1>1, <1>2, <1>3, <1>4, WorkflowStepGoes DEF ProfileNext

LEMMA RequestStays ==
    ASSUME ProfileInv, BatchInv, [ProfileNext]_profileVars, NEW o \in Operations, Settled(o)
    PROVE  /\ Goes(o) /\ Settled(o)' /\ Desire(o)' = Desire(o) /\ Alters(o)' = Alters(o)
<1>1. ProfileInv' /\ Goes(o)
  BY NextKeeps, NextGoes
<1>2. TablesGrow
  BY <1>1, NextGrows
<1>3. operations[o].version \in DOMAIN versions
  BY DEF Settled, Resolves
<1>4. /\ Candidate(o)' = Candidate(o) /\ Known(workflows[o].pinned)'
      /\ LockComponents(Candidate(o))' = LockComponents(Candidate(o))
      /\ Resolves(workflows[o].digests, operations[o].version)'
  BY <1>1, <1>2, <1>3, OwnRow DEF Goes, Settled
<1>5. Settled(o)'
  BY <1>1, <1>4 DEF Settled, Goes, SameRequest
<1>6. Desire(o)' = Desire(o)
  BY <1>4 DEF Desire
<1>7. Alters(o)' = Alters(o)
  <2>1. Alters(o) = {c \in DOMAIN Desire(o) : Desire(o)[c] # workflows[o].installed[c]}
    BY DEF Alters, Transitions, Desire
  <2>2. Alters(o)' = {c \in DOMAIN Desire(o)' : Desire(o)'[c] # workflows'[o].installed[c]}
    BY DEF Alters, Transitions, Desire
  <2> QED BY <1>1, <1>6, <2>1, <2>2 DEF Goes
<1> QED BY <1>1, <1>5, <1>6, <1>7

LEMMA DesireTyped ==
    ASSUME ProfileInv, NEW o \in Operations, Settled(o)
    PROVE  /\ DOMAIN Desire(o) \subseteq Components /\ Alters(o) \subseteq DOMAIN Desire(o)
           /\ \A c \in DOMAIN Desire(o) : Desire(o)[c] \in Layers
           /\ \A c \in DOMAIN Desire(o) \ Alters(o) : Desire(o)[c] = workflows[o].installed[c]
           /\ workflows[o].installed \in [Components -> Layers \cup {None}]
<1>1. PICK l \in LockRow : l = Candidate(o) /\ Resolves(l.digests, l.version)
  BY CandidateTyped DEF Settled
<1>2. /\ DOMAIN LockComponents(l) \subseteq Components
      /\ \A c \in DOMAIN LockComponents(l) : LockComponents(l)[c] \in Layers
  BY <1>1, ComponentsTyped DEF ProfileInv
<1>3. workflows[o].installed \in [Components -> Layers \cup {None}]
  BY DEF ProfileInv, TablesTyped, Workflow
<1> QED BY <1>1, <1>2, <1>3 DEF Desire, Alters, Transitions

-----------------------------------------------------------------------------
(* What a step leaves of a batch.                                          *)

(* An edit that is new to a batch with backups is one that overtakes it.   *)
LEMMA CallStays ==
    ASSUME ProfileInv, BatchInv, [ProfileNext]_profileVars, NEW j \in Calls,
           calls'[j].op = calls[j].op, calls'[j].pc = calls[j].pc,
           calls'[j].seen = calls[j].seen, calls'[j].backups = calls[j].backups,
           calls'[j].item = calls[j].item, calls'[j].outcome = calls[j].outcome,
           calls[j].overtaken \subseteq calls'[j].overtaken,
           \A c \in Components : targets'[c] = Edited =>
               \/ targets[c] = Edited
               \/ calls[j].pc \in {"observe", "write", "rollback"} /\ c \in Changes(j)
                     => c \in calls'[j].overtaken \/ (calls[j].pc # "write" /\ calls[j].backups[c] = Edited)
    PROVE  CallIsKept(j)'
<1> SUFFICES ASSUME calls[j].pc # "none" PROVE CallIsKept(j)'
  BY DEF CallIsKept
<1>1. PICK o \in Operations : o = calls[j].op /\ Settled(o)
  BY DEF BatchInv, CallIsKept
<1>2. Settled(o)' /\ Alters(o)' = Alters(o) /\ Alters(o) \subseteq Components
  BY <1>1, RequestStays, DesireTyped
<1>3. Changes(j) = Alters(o)
  BY <1>1 DEF Changes, Alters
<1>4. /\ calls[j].pc = "rollback" => calls[j].outcome # "done"
      /\ \A c \in Alters(o) : calls[j].seen[c] # Edited
      /\ calls[j].pc # "snapshot" =>
            \A c \in Alters(o) : targets[c] = Edited => calls[j].backups[c] = Edited \/ c \in calls[j].overtaken
      /\ calls[j].pc = "write" =>
            calls[j].item \in Alters(o) /\ (targets[calls[j].item] = Edited => calls[j].item \in calls[j].overtaken)
  BY <1>1 DEF BatchInv, CallIsKept
<1>5. calls[j].pc \in {"none", "snapshot", "observe", "write", "rollback"}
  BY DEF BatchInv, GuestTyped, Call
<1>6. calls'[j].op = o
  BY <1>1
<1>7. \A c \in Alters(o) : calls[j].pc # "snapshot" /\ targets'[c] = Edited =>
         calls[j].backups[c] = Edited \/ c \in calls'[j].overtaken
  BY <1>2, <1>3, <1>4, <1>5
<1>8. calls[j].pc = "write" => calls[j].item \in Alters(o)
         /\ (targets'[calls[j].item] = Edited => calls[j].item \in calls'[j].overtaken)
  BY <1>2, <1>3, <1>4, <1>5
<1> QED BY <1>2, <1>4, <1>6, <1>7, <1>8 DEF CallIsKept

LEMMA CallsStay ==
    ASSUME ProfileInv, BatchInv, [ProfileNext]_profileVars, UNCHANGED targets, NEW j \in Calls,
           calls'[j] = calls[j]
    PROVE  CallIsKept(j)'
BY CallStays

(* A workflow that waits goes on to wait for the same batch.               *)
LEMMA AwaitStays ==
    ASSUME ProfileInv, BatchInv, [ProfileNext]_profileVars, NEW p \in Operations,
           NEW j, j = workflows[p].call,
           workflows'[p].call # 0 =>
              /\ workflows'[p] = workflows[p] /\ operations'[p] = operations[p]
              /\ calls'[j].pc # "none" /\ calls'[j].op = calls[j].op
              /\ calls'[j].pc # "rollback" =>
                    /\ calls[j].pc # "rollback"
                    /\ \A c \in DOMAIN Desire(p) :
                          c \in calls'[j].written \ calls[j].written \/ Holds(p, c) => Holds(p, c)'
    PROVE  Awaits(p)'
<1> SUFFICES ASSUME workflows'[p].call # 0 PROVE Awaits(p)'
  BY DEF Awaits
<1>1. workflows'[p] = workflows[p] /\ operations'[p] = operations[p] /\ j # 0
  OBVIOUS
<1>2. /\ At(p, "apply", "materialize") /\ j \in Calls
      /\ calls[j].pc # "none" /\ calls[j].op = p
      /\ calls[j].pc # "rollback" =>
            \A c \in DOMAIN Desire(p) : c \in calls[j].written \/ c \notin Alters(p) => Holds(p, c)
  BY <1>1 DEF BatchInv, Awaits
<1>3. Desire(p)' = Desire(p) /\ Alters(p)' = Alters(p)
  BY <1>2, WhatIsSettled, RequestStays
<1>4. At(p, "apply", "materialize")'
  BY <1>1, <1>2 DEF At
<1>5. calls'[j].pc # "rollback" =>
         \A c \in DOMAIN Desire(p) : c \in calls'[j].written \/ c \notin Alters(p) => Holds(p, c)'
  BY <1>2
<1>6. workflows'[p].call = j
  BY <1>1
<1> QED BY <1>2, <1>3, <1>4, <1>5, <1>6 DEF Awaits

(* What is about to be pinned stays held, unless a step takes it away.     *)
LEMMA HeldStays ==
    ASSUME ProfileInv, BatchInv, [ProfileNext]_profileVars, NEW p \in Operations,
           At(p, "apply", "complete")' /\ operations'[p].status = "running" =>
              /\ At(p, "apply", "complete") /\ operations[p].status = "running"
              /\ \A c \in DOMAIN Desire(p) : Holds(p, c) => Holds(p, c)'
    PROVE  IsHeld(p)'
<1> SUFFICES ASSUME At(p, "apply", "complete")' /\ operations'[p].status = "running"
             PROVE  \A c \in DOMAIN Desire(p)' : Holds(p, c)'
  BY DEF IsHeld
<1>1. \A c \in DOMAIN Desire(p) : Holds(p, c)'
  BY DEF BatchInv, IsHeld
<1>2. Desire(p)' = Desire(p)
  BY WhatIsSettled, RequestStays
<1> QED BY <1>1, <1>2

LEMMA HoldStays ==
    ASSUME ProfileInv, BatchInv, [ProfileNext]_profileVars, NEW p \in Operations, Settled(p),
           NEW c, Holds(p, c), strays \subseteq strays',
           targets'[c] \in {targets[c], Edited} \/ c \in strays'
    PROVE  Holds(p, c)'
<1>1. Desire(p)' = Desire(p)
  BY RequestStays
<1> QED BY <1>1 DEF Holds

(* A step that leaves the guest alone, its batches and who waits for them. *)
LEMMA QuietKeeps ==
    ASSUME ProfileInv, BatchInv, [ProfileNext]_profileVars, UNCHANGED guestVars, faults' \in Nat,
           \A p \in Operations :
              /\ workflows'[p].call # 0 => workflows'[p] = workflows[p] /\ operations'[p] = operations[p]
              /\ At(p, "apply", "complete")' /\ operations'[p].status = "running" =>
                    At(p, "apply", "complete") /\ operations[p].status = "running"
    PROVE  BatchInv'
<1>1. UNCHANGED <<targets, calls, strays>>
  BY DEF guestVars
<1>2. GuestTyped'
  BY <1>1 DEF BatchInv, GuestTyped
<1>3. \A k \in Calls : CallIsKept(k)'
  BY <1>1, CallsStay
<1>4. \A p \in Operations : \A c : Settled(p) /\ Holds(p, c) => Holds(p, c)'
  BY <1>1, HoldStays
<1>5. ASSUME NEW p \in Operations PROVE Awaits(p)'
  <2>1. workflows'[p].call # 0 => At(p, "apply", "materialize") /\ calls[workflows[p].call].pc # "none"
    BY DEF BatchInv, Awaits
  <2>2. workflows'[p].call # 0 => Settled(p)
    BY <2>1, WhatIsSettled
  <2> QED BY <1>1, <1>4, <2>1, <2>2, AwaitStays
<1>6. ASSUME NEW p \in Operations PROVE IsHeld(p)'
  BY <1>4, WhatIsSettled, HeldStays
<1> QED BY <1>2, <1>3, <1>5, <1>6 DEF BatchInv

(* A step of the guest in which the batch k changes or ends.               *)
LEMMA BatchKeeps ==
    ASSUME ProfileInv, BatchInv, [ProfileNext]_profileVars, NEW k \in Calls, NEW b \in Call,
           GuestStep(k), UNCHANGED <<operations, workflows, targets, strays>>, faults' \in Nat,
           calls' = [calls EXCEPT ![k] = b],
           calls[k].pc # "none", b.pc # "none", b.op = calls[k].op, b.written = calls[k].written,
           b.pc # "rollback" => calls[k].pc # "rollback", CallIsKept(k)'
    PROVE  BatchInv'
<1>1. calls \in [Calls -> Call]
  BY DEF BatchInv, GuestTyped
<1>2. calls' \in [Calls -> Call] /\ calls'[k] = b /\ \A j \in Calls \ {k} : calls'[j] = calls[j]
  BY <1>1
<1>3. GuestTyped'
  BY <1>2 DEF BatchInv, GuestTyped
<1>4. \A j \in Calls : CallIsKept(j)'
  BY <1>2, CallsStay
<1>5. \A p \in Operations : \A c : Settled(p) /\ Holds(p, c) => Holds(p, c)'
  BY HoldStays
<1>6. ASSUME NEW p \in Operations PROVE Awaits(p)'
  <2> DEFINE j == workflows[p].call
  <2>1. j # 0 => At(p, "apply", "materialize") /\ calls[j].pc # "none" /\ j \in Calls
    BY DEF BatchInv, Awaits
  <2>2. j # 0 => Settled(p)
    BY <2>1, WhatIsSettled
  <2>3. j # 0 => /\ calls'[j].pc # "none" /\ calls'[j].op = calls[j].op
                 /\ calls'[j].written = calls[j].written
                 /\ calls'[j].pc # "rollback" => calls[j].pc # "rollback"
    BY <1>2, <2>1
  <2> QED BY <1>5, <2>2, <2>3, AwaitStays
<1>7. ASSUME NEW p \in Operations PROVE IsHeld(p)'
  BY <1>5, WhatIsSettled, HeldStays DEF At
<1> QED BY <1>3, <1>4, <1>6, <1>7 DEF BatchInv

LEMMA CallTyped ==
    ASSUME ProfileInv, BatchInv, NEW k \in Calls, calls[k].pc # "none"
    PROVE  /\ calls[k] \in Call /\ calls[k].op \in Operations /\ Settled(calls[k].op)
           /\ Changes(k) = Alters(calls[k].op) /\ Changes(k) \subseteq Components
           /\ Desired(k) = Desire(calls[k].op)
           /\ \A c \in Changes(k) : Desired(k)[c] \in Layers
<1>1. calls[k] \in Call /\ calls[k].op \in Operations /\ Settled(calls[k].op)
  BY DEF BatchInv, GuestTyped, CallIsKept
<1>2. Changes(k) = Alters(calls[k].op) /\ Desired(k) = Desire(calls[k].op)
  BY DEF Changes, Alters, Desired, Desire
<1> QED BY <1>1, <1>2, DesireTyped

LEMMA SnapshotBatchGoes ==
    ASSUME ProfileInv, BatchInv, [ProfileNext]_profileVars, NEW k \in Calls, SnapshotBatch(k)
    PROVE  BatchInv'
<1> DEFINE s == [c \in Components |-> IF c \in Changes(k) THEN targets[c] ELSE None]
           b == [calls[k] EXCEPT !.pc = "observe", !.backups = s]
<1>1. /\ calls[k].pc = "snapshot" /\ UNCHANGED <<operations, workflows, targets, strays, faults>>
      /\ GuestStep(k) /\ faults \in Nat /\ targets \in [Components -> Held]
  BY DEF SnapshotBatch, unchangedOutside, storeVars, GuestStep, BatchInv, GuestTyped
<1>2. /\ calls[k] \in Call /\ calls[k].op \in Operations /\ Settled(calls[k].op)
      /\ Changes(k) = Alters(calls[k].op) /\ Changes(k) \subseteq Components
  BY <1>1, CallTyped
<1>3. s \in [Components -> Held]
  BY <1>1 DEF Held
<1>4. /\ b \in Call /\ b.op = calls[k].op /\ b.pc = "observe" /\ b.written = calls[k].written
      /\ b.seen = calls[k].seen /\ b.backups = s
  BY <1>2, <1>3 DEF Call
<1>5. calls' = [calls EXCEPT ![k] = b] /\ calls'[k] = b
  BY DEF SnapshotBatch, BatchInv, GuestTyped
<1>6. CallIsKept(k)'
  <2>1. PICK o \in Operations : o = calls[k].op
    BY <1>2
  <2>2. Settled(o)' /\ Alters(o)' = Alters(o)
    BY <1>2, <2>1, RequestStays
  <2>3. \A c \in Alters(o) : b.seen[c] # Edited /\ b.backups[c] = targets[c]
    BY <1>1, <1>2, <1>4, <2>1 DEF BatchInv, CallIsKept
  <2>4. calls'[k].op = o
    BY <1>4, <1>5, <2>1
  <2> HIDE DEF b, s
  <2> QED BY <1>1, <1>4, <1>5, <2>2, <2>3, <2>4 DEF CallIsKept
<1> HIDE DEF b, s
<1> QED BY <1>1, <1>4, <1>5, <1>6, BatchKeeps

LEMMA ObserveItemGoes ==
    ASSUME ProfileInv, BatchInv, [ProfileNext]_profileVars, NEW k \in Calls, ObserveItem(k)
    PROVE  BatchInv'
<1>1. /\ calls[k].pc = "observe" /\ UNCHANGED <<operations, workflows, targets, strays, faults>>
      /\ GuestStep(k) /\ faults \in Nat
  BY DEF ObserveItem, unchangedOutside, storeVars, GuestStep, BatchInv, GuestTyped
<1>2. /\ calls[k] \in Call /\ calls[k].op \in Operations /\ Settled(calls[k].op)
      /\ Changes(k) = Alters(calls[k].op) /\ Changes(k) \subseteq Components
  BY <1>1, CallTyped
<1>3. PICK c \in Changes(k) :
         calls' = IF HoldsPlanned(k, c)
                  THEN [calls EXCEPT ![k].pc = "write", ![k].item = c]
                  ELSE [calls EXCEPT ![k].pc = "rollback", ![k].outcome = "blocked"]
  BY DEF ObserveItem
<1> DEFINE b == IF HoldsPlanned(k, c) THEN [calls[k] EXCEPT !.pc = "write", !.item = c]
                ELSE [calls[k] EXCEPT !.pc = "rollback", !.outcome = "blocked"]
<1>4. /\ b \in Call /\ b.op = calls[k].op /\ b.pc \in {"write", "rollback"} /\ b.written = calls[k].written
      /\ b.seen = calls[k].seen /\ b.backups = calls[k].backups /\ b.overtaken = calls[k].overtaken
      /\ b.pc = "rollback" => b.outcome # "done"
      /\ b.pc = "write" => b.item = c /\ targets[c] = calls[k].seen[c]
  BY <1>2, <1>3 DEF Call, HoldsPlanned
<1>5. calls' = [calls EXCEPT ![k] = b] /\ calls'[k] = b
  BY <1>3 DEF BatchInv, GuestTyped
<1>6. CallIsKept(k)'
  <2>1. PICK o \in Operations : o = calls[k].op
    BY <1>2
  <2>2. Settled(o)' /\ Alters(o)' = Alters(o)
    BY <1>2, <2>1, RequestStays
  <2>3. \A x \in Alters(o) : /\ calls[k].seen[x] # Edited
                             /\ targets[x] = Edited => calls[k].backups[x] = Edited \/ x \in calls[k].overtaken
    BY <1>1, <1>2, <2>1 DEF BatchInv, CallIsKept
  <2>4. calls'[k].op = o
    BY <1>4, <1>5, <2>1
  <2> HIDE DEF b
  <2> QED BY <1>1, <1>2, <1>4, <1>5, <2>1, <2>2, <2>3, <2>4 DEF CallIsKept
<1> HIDE DEF b
<1> QED BY <1>1, <1>4, <1>5, <1>6, BatchKeeps

(* A target is touched: by the batch somebody waits for, or as a stray.    *)
LEMMA TouchKeeps ==
    ASSUME ProfileInv, BatchInv, [ProfileNext]_profileVars,
           NEW k \in Calls, NEW c \in Components, NEW x \in Held, Put(k, c, x), calls[k].pc # "none",
           UNCHANGED <<operations, workflows>>, calls' \in [Calls -> Call], faults' \in Nat,
           \A j \in Calls : CallIsKept(j)',
           \A j \in Calls : /\ calls'[j].op = calls[j].op /\ (calls'[j].pc = "none" <=> calls[j].pc = "none")
                            /\ calls'[j].pc = "rollback" <=> calls[j].pc = "rollback"
                            /\ j # k => calls'[j].written = calls[j].written,
           calls'[k].pc # "rollback" => x = Desired(k)[c] /\ calls'[k].written \subseteq calls[k].written \cup {c}
    PROVE  BatchInv'
<1>1. /\ targets \in [Components -> Held] /\ targets' = [targets EXCEPT ![c] = x]
      /\ strays' = IF Awaited(k) THEN strays ELSE strays \cup {c}
      /\ strays \subseteq Components
  BY DEF Put, BatchInv, GuestTyped
<1>2. /\ targets' \in [Components -> Held] /\ targets'[c] = x /\ strays \subseteq strays'
      /\ strays' \subseteq Components
      /\ \A d \in Components \ {c} : targets'[d] = targets[d]
  BY <1>1
<1>3. GuestTyped'
  BY <1>2 DEF GuestTyped
<1>4. k # 0
  BY BoundsAssumption DEF Calls
<1>5. ASSUME NEW p \in Operations,
             workflows[p].call \notin {0, k} \/ (At(p, "apply", "complete") /\ operations[p].status = "running")
      PROVE  c \in strays'
  <2>1. ~Awaited(k)
    <3> SUFFICES ASSUME NEW q \in Operations, workflows[q].call = k PROVE FALSE
      BY DEF Awaited
    <3>1. q = p /\ workflows[p].call # 0
      BY <1>4, <1>5, OneActs
    <3>2. At(p, "apply", "materialize")
      BY <3>1 DEF BatchInv, Awaits
    <3> QED BY <1>5, <3>1, <3>2 DEF At
  <2> QED BY <1>1, <2>1
<1>6. ASSUME NEW p \in Operations, Settled(p), NEW d \in DOMAIN Desire(p), Holds(p, d), d # c \/ c \in strays'
      PROVE  Holds(p, d)'
  <2>1. d \in Components
    BY <1>6, DesireTyped
  <2> QED BY <1>2, <1>6, <2>1, HoldStays
<1>7. ASSUME NEW p \in Operations PROVE Awaits(p)'
  <2> DEFINE j == workflows[p].call
  <2> SUFFICES ASSUME j # 0 PROVE Awaits(p)'
    BY DEF Awaits
  <2>1. At(p, "apply", "materialize") /\ calls[j].pc # "none" /\ j \in Calls /\ calls[j].op = p
    BY DEF BatchInv, Awaits
  <2>2. Settled(p)
    BY <2>1, WhatIsSettled
  <2>3. CASE j # k
    <3>1. \A d \in DOMAIN Desire(p) : Holds(p, d) => Holds(p, d)'
      BY <1>5, <1>6, <2>2, <2>3
    <3> QED BY <2>1, <2>3, <3>1, AwaitStays
  <2>4. CASE j = k
    <3>1. Desired(k) = Desire(p) /\ Desire(p)' = Desire(p)
      BY <2>1, <2>2, <2>4, CallTyped, RequestStays
    <3>2. calls'[k].pc # "rollback" => Holds(p, c)'
      BY <1>2, <3>1 DEF Holds
    <3>3. calls'[k].pc # "rollback" => \A d \in DOMAIN Desire(p) :
             d \in calls'[k].written \ calls[k].written \/ Holds(p, d) => Holds(p, d)'
      BY <1>6, <2>2, <3>2
    <3> QED BY <2>1, <2>4, <3>3, AwaitStays
  <2> QED BY <2>3, <2>4
<1>8. ASSUME NEW p \in Operations PROVE IsHeld(p)'
  <2>1. At(p, "apply", "complete")' => At(p, "apply", "complete")
    BY DEF At
  <2>2. At(p, "apply", "complete") => Settled(p)
    BY WhatIsSettled
  <2>3. At(p, "apply", "complete") /\ operations[p].status = "running" =>
           \A d \in DOMAIN Desire(p) : Holds(p, d) => Holds(p, d)'
    BY <1>5, <1>6, <2>2
  <2> QED BY <2>1, <2>3, HeldStays
<1> QED BY <1>3, <1>7, <1>8 DEF BatchInv

LEMMA WriteItemGoes ==
    ASSUME ProfileInv, BatchInv, [ProfileNext]_profileVars, NEW k \in Calls, WriteItem(k)
    PROVE  BatchInv'
<1> DEFINE c == calls[k].item
<1>1. /\ calls[k].pc = "write" /\ UNCHANGED <<operations, workflows>> /\ GuestStep(k)
      /\ faults \in Nat /\ targets \in [Components -> Held] /\ calls \in [Calls -> Call]
  BY DEF WriteItem, unchangedOutside, storeVars, GuestStep, BatchInv, GuestTyped
<1>2. /\ calls[k] \in Call /\ calls[k].op \in Operations /\ Settled(calls[k].op)
      /\ Changes(k) = Alters(calls[k].op) /\ Changes(k) \subseteq Components
      /\ \A x \in Changes(k) : Desired(k)[x] \in Layers
  BY <1>1, CallTyped
<1>3. /\ c \in Changes(k)
      /\ \A x \in Changes(k) : /\ calls[k].seen[x] # Edited
                               /\ targets[x] = Edited => calls[k].backups[x] = Edited \/ x \in calls[k].overtaken
  BY <1>1, <1>2 DEF BatchInv, CallIsKept
<1>4. PICK o \in Operations : o = calls[k].op
  BY <1>2
<1>5. Settled(o)' /\ Alters(o)' = Alters(o)
  BY <1>2, <1>4, RequestStays
<1>6. CASE /\ Put(k, c, Desired(k)[c]) /\ UNCHANGED faults
           /\ calls' = [calls EXCEPT ![k].pc = "observe", ![k].item = None, ![k].written = @ \cup {c}]
  <2> DEFINE b == [calls[k] EXCEPT !.pc = "observe", !.item = None, !.written = @ \cup {c}]
  <2>1. c \in Components /\ Desired(k)[c] \in Layers
    BY <1>2, <1>3
  <2>2. /\ b \in Call /\ b.op = calls[k].op /\ b.pc = "observe" /\ b.written = calls[k].written \cup {c}
        /\ b.seen = calls[k].seen /\ b.backups = calls[k].backups /\ b.overtaken = calls[k].overtaken
    <3>1. calls[k].written \cup {c} \subseteq Components
      BY <1>2, <2>1 DEF Call
    <3> QED BY <1>2, <3>1 DEF Call
  <2>3. calls' = [calls EXCEPT ![k] = b]
    BY <1>1, <1>6
  <2> HIDE DEF b
  <2>4. calls' \in [Calls -> Call] /\ calls'[k] = b /\ \A j \in Calls \ {k} : calls'[j] = calls[j]
    BY <1>1, <2>2, <2>3
  <2>5. Desired(k)[c] \in Held /\ Desired(k)[c] # Edited
    BY <2>1, EditedAssumption DEF Held
  <2>6. \A x \in Components : targets'[x] = Edited => targets[x] = Edited
    BY <1>1, <1>6, <2>1, <2>5 DEF Put
  <2>7. CallIsKept(k)'
    BY <1>2, <1>3, <1>4, <1>5, <2>2, <2>4, <2>6 DEF CallIsKept
  <2>8. \A j \in Calls : CallIsKept(j)'
    BY <2>4, <2>6, <2>7, CallStays
  <2> HIDE DEF c
  <2> QED BY <1>1, <1>6, <2>1, <2>2, <2>4, <2>5, <2>8, TouchKeeps
<1>7. CASE /\ calls' = [calls EXCEPT ![k].pc = "rollback", ![k].item = None, ![k].outcome = "error"]
           /\ Fault /\ UNCHANGED <<targets, strays>>
  <2> DEFINE b == [calls[k] EXCEPT !.pc = "rollback", !.item = None, !.outcome = "error"]
  <2>1. /\ b \in Call /\ b.op = calls[k].op /\ b.pc = "rollback" /\ b.written = calls[k].written
        /\ b.seen = calls[k].seen /\ b.backups = calls[k].backups /\ b.overtaken = calls[k].overtaken
        /\ b.outcome = "error"
    BY <1>2 DEF Call
  <2>2. calls' = [calls EXCEPT ![k] = b] /\ calls'[k] = b
    BY <1>1, <1>7
  <2> HIDE DEF b
  <2>3. CallIsKept(k)'
    <3>1. calls'[k].op = o /\ targets' = targets /\ Changes(k) = Alters(o)
      BY <1>2, <1>4, <1>7, <2>1, <2>2
    <3>2. \A x \in Alters(o) : /\ b.seen[x] # Edited
                               /\ targets'[x] = Edited => b.backups[x] = Edited \/ x \in b.overtaken
      BY <1>3, <2>1, <3>1
    <3> QED BY <1>5, <2>1, <2>2, <3>1, <3>2 DEF CallIsKept
  <2>4. faults' \in Nat
    BY <1>1, <1>7 DEF Fault
  <2> QED BY <1>1, <1>7, <2>1, <2>2, <2>3, <2>4, BatchKeeps
<1> QED BY <1>6, <1>7 DEF WriteItem

LEMMA OvertakenTyped ==
    ASSUME BatchInv, NEW c \in Components
    PROVE  Overtaken(c) \in [Calls -> Call]
<1>1. calls \in [Calls -> Call]
  BY DEF BatchInv, GuestTyped
<1>2. ASSUME NEW i \in Calls
      PROVE  [calls[i] EXCEPT !.overtaken = @ \cup {c}] \in Call
  <2>1. calls[i] \in Call
    BY <1>1
  <2>2. calls[i].overtaken \cup {c} \subseteq Components
    BY <2>1 DEF Call
  <2> QED BY <2>1, <2>2 DEF Call
<1> QED BY <1>1, <1>2 DEF Overtaken

(* Every batch with backups is overtaken by an edit of a target of its.    *)
LEMMA OvertakenIs ==
    ASSUME BatchInv, NEW c \in Components, NEW j \in Calls
    PROVE  /\ Overtaken(c)[j].op = calls[j].op /\ Overtaken(c)[j].pc = calls[j].pc
           /\ Overtaken(c)[j].seen = calls[j].seen /\ Overtaken(c)[j].backups = calls[j].backups
           /\ Overtaken(c)[j].item = calls[j].item /\ Overtaken(c)[j].outcome = calls[j].outcome
           /\ Overtaken(c)[j].written = calls[j].written
           /\ calls[j].overtaken \subseteq Overtaken(c)[j].overtaken
           /\ calls[j].pc \in {"observe", "write", "rollback"} /\ c \in Changes(j)
                 => c \in Overtaken(c)[j].overtaken
<1>1. calls[j] \in Call
  BY DEF BatchInv, GuestTyped
<1> DEFINE b == [calls[j] EXCEPT !.overtaken = @ \cup {c}]
<1>2. /\ b.op = calls[j].op /\ b.pc = calls[j].pc /\ b.seen = calls[j].seen
      /\ b.backups = calls[j].backups /\ b.item = calls[j].item /\ b.outcome = calls[j].outcome
      /\ b.written = calls[j].written /\ b.overtaken = calls[j].overtaken \cup {c}
  BY <1>1 DEF Call
<1>3. Overtaken(c)[j] = IF calls[j].pc \in {"observe", "write", "rollback"} /\ c \in Changes(j)
                        THEN b ELSE calls[j]
  BY DEF Overtaken
<1> HIDE DEF b
<1> QED BY <1>2, <1>3

LEMMA EditTargetGoes ==
    ASSUME ProfileInv, BatchInv, [ProfileNext]_profileVars, EditTarget
    PROVE  BatchInv'
<1>1. PICK c \in Components : targets' = [targets EXCEPT ![c] = Edited] /\ calls' = Overtaken(c)
  BY DEF EditTarget
<1>2. /\ UNCHANGED <<operations, workflows, strays, faults>> /\ targets \in [Components -> Held]
      /\ strays \subseteq Components /\ faults \in Nat
  BY DEF EditTarget, storeVars, BatchInv, GuestTyped
<1>3. \A x \in Components : targets'[x] \in {targets[x], Edited} /\ (x # c => targets'[x] = targets[x])
  BY <1>1, <1>2
<1>4. GuestTyped'
  BY <1>1, <1>2, OvertakenTyped DEF GuestTyped, Held
<1>5. \A j \in Calls : CallIsKept(j)'
  BY <1>1, <1>3, OvertakenIs, CallStays
<1>6. ASSUME NEW p \in Operations, Settled(p), NEW d \in DOMAIN Desire(p), Holds(p, d)
      PROVE  Holds(p, d)'
  BY <1>2, <1>3, <1>6, HoldStays, DesireTyped
<1>7. ASSUME NEW p \in Operations PROVE Awaits(p)'
  <2> DEFINE j == workflows[p].call
  <2> SUFFICES ASSUME j # 0 PROVE Awaits(p)'
    BY <1>2 DEF Awaits
  <2>1. At(p, "apply", "materialize") /\ calls[j].pc # "none" /\ j \in Calls
    BY DEF BatchInv, Awaits
  <2>2. Settled(p)
    BY <2>1, WhatIsSettled
  <2>3. calls'[j].pc = calls[j].pc /\ calls'[j].op = calls[j].op /\ calls'[j].written = calls[j].written
    BY <1>1, <2>1, OvertakenIs
  <2> QED BY <1>2, <1>6, <2>1, <2>2, <2>3, AwaitStays
<1>8. ASSUME NEW p \in Operations PROVE IsHeld(p)'
  BY <1>2, <1>6, WhatIsSettled, HeldStays DEF At
<1> QED BY <1>4, <1>5, <1>7, <1>8 DEF BatchInv

LEMMA RestoreBackupGoes ==
    ASSUME ProfileInv, BatchInv, [ProfileNext]_profileVars, NEW k \in Calls, RestoreBackup(k)
    PROVE  BatchInv'
<1>1. /\ calls[k].pc = "rollback" /\ UNCHANGED <<operations, workflows>> /\ GuestStep(k)
      /\ faults \in Nat /\ targets \in [Components -> Held] /\ calls \in [Calls -> Call]
  BY DEF RestoreBackup, unchangedOutside, storeVars, GuestStep, BatchInv, GuestTyped
<1>2. calls[k] \in Call /\ Changes(k) \subseteq Components
  BY <1>1, CallTyped
<1>0. PICK c \in Changes(k) :
         LET others == IF calls[k].backups[c] = Edited THEN Overtaken(c) ELSE calls IN
         \/ /\ Put(k, c, calls[k].backups[c])
            /\ calls' = [others EXCEPT ![k].restored = @ \cup {c}]
            /\ UNCHANGED faults
         \/ /\ Put(k, c, None)
            /\ calls' = [calls EXCEPT ![k].restored = @ \cup {c}]
            /\ Fault
  BY DEF RestoreBackup
<1>3. PICK x \in Held, others \in {calls, Overtaken(c)} :
         /\ Put(k, c, x) /\ faults' \in Nat
         /\ calls' = [others EXCEPT ![k].restored = @ \cup {c}]
         /\ x = Edited => others = Overtaken(c) /\ calls[k].backups[c] = Edited
  <2>1. calls[k].backups[c] \in Held /\ None \in Held /\ None # Edited
    BY <1>2, EditedAssumption DEF Call, Held
  <2>2. faults' \in Nat
    BY <1>0, <1>1 DEF Fault
  <2> QED BY <1>0, <2>1, <2>2
<1>4. c \in Components
  BY <1>2
<1>5. \A j \in Calls :
         /\ others \in [Calls -> Call]
         /\ others[j].op = calls[j].op /\ others[j].pc = calls[j].pc
         /\ others[j].seen = calls[j].seen /\ others[j].backups = calls[j].backups
         /\ others[j].item = calls[j].item /\ others[j].outcome = calls[j].outcome
         /\ others[j].written = calls[j].written
         /\ calls[j].overtaken \subseteq others[j].overtaken
         /\ x = Edited /\ calls[j].pc \in {"observe", "write", "rollback"} /\ c \in Changes(j)
               => c \in others[j].overtaken
  BY <1>1, <1>3, <1>4, OvertakenTyped, OvertakenIs
<1> DEFINE b == [others[k] EXCEPT !.restored = @ \cup {c}]
<1>6. /\ b \in Call /\ b.op = others[k].op /\ b.pc = others[k].pc /\ b.seen = others[k].seen
      /\ b.backups = others[k].backups /\ b.item = others[k].item /\ b.outcome = others[k].outcome
      /\ b.written = others[k].written /\ b.overtaken = others[k].overtaken
  <2>1. others[k] \in Call
    BY <1>5
  <2>2. others[k].restored \cup {c} \subseteq Components
    BY <1>4, <2>1 DEF Call
  <2> QED BY <2>1, <2>2 DEF Call
<1>7. calls' = [others EXCEPT ![k] = b]
  BY <1>3
<1> HIDE DEF b
<1>8. calls' \in [Calls -> Call] /\ calls'[k] = b /\ \A j \in Calls \ {k} : calls'[j] = others[j]
  BY <1>5, <1>6, <1>7
<1>9. \A j \in Calls :
         /\ calls'[j].op = calls[j].op /\ calls'[j].pc = calls[j].pc
         /\ calls'[j].seen = calls[j].seen /\ calls'[j].backups = calls[j].backups
         /\ calls'[j].item = calls[j].item /\ calls'[j].outcome = calls[j].outcome
         /\ calls'[j].written = calls[j].written
         /\ calls[j].overtaken \subseteq calls'[j].overtaken
         /\ x = Edited /\ calls[j].pc \in {"observe", "write", "rollback"} /\ c \in Changes(j)
               => c \in calls'[j].overtaken
  BY <1>5, <1>6, <1>8
<1>10. targets'[c] = x /\ \A d \in Components \ {c} : targets'[d] = targets[d]
  BY <1>1, <1>3, <1>4 DEF Put
<1>11. \A j \in Calls : CallIsKept(j)'
  BY <1>9, <1>10, CallStays
<1> QED BY <1>1, <1>3, <1>4, <1>8, <1>9, <1>11, TouchKeeps

(* A batch is answered: what is about to be pinned was written.            *)
LEMMA AnswerBatchGoes ==
    ASSUME ProfileInv, BatchInv, [ProfileNext]_profileVars, NEW k \in Calls, AnswerBatch(k)
    PROVE  BatchInv'
<1>1. /\ UNCHANGED <<operations, targets, strays, faults>> /\ calls' = [calls EXCEPT ![k] = NoCall]
      /\ calls \in [Calls -> Call] /\ calls[k].pc # "none" /\ k # 0
      /\ GuestTyped
  <2>1. k # 0
    BY BoundsAssumption DEF Calls
  <2>2. calls[k].pc # "none"
    BY DEF AnswerBatch, BatchIsOver
  <2> QED BY <2>1, <2>2 DEF AnswerBatch, unchangedOutside, storeVars, BatchInv, GuestTyped
<1>2. NoCall \in Call /\ NoCall.pc = "none"
  <2>1. [c \in Components |-> None] \in [Components -> Held]
    BY DEF Held
  <2>2. 0 \in 0..MaxOperations
    BY BoundsAssumption
  <2> QED BY <2>1, <2>2 DEF NoCall, Call
<1>3. calls' \in [Calls -> Call] /\ calls'[k].pc = "none" /\ \A j \in Calls \ {k} : calls'[j] = calls[j]
  BY <1>1, <1>2
<1>4. GuestTyped'
  BY <1>1, <1>3 DEF GuestTyped
<1>5. ASSUME NEW j \in Calls PROVE CallIsKept(j)'
  <2>1. CASE j = k
    BY <1>3, <2>1 DEF CallIsKept
  <2>2. CASE j # k
    BY <1>1, <1>3, <2>2, CallsStay
  <2> QED BY <2>1, <2>2
<1>6. \A p \in Operations : \A c : Settled(p) /\ Holds(p, c) => Holds(p, c)'
  BY <1>1, HoldStays
<1>7. ASSUME NEW p \in Operations PROVE Awaits(p)'
  <2> DEFINE j == workflows[p].call
  <2>1. CASE j = k
    BY <2>1, AnswerIs DEF Awaits
  <2>2. CASE j = 0
    BY <1>1, <2>2, AnswerIs DEF Awaits
  <2>3. CASE j # 0 /\ j # k
    <3>1. At(p, "apply", "materialize") /\ calls[j].pc # "none" /\ j \in Calls
      BY <2>3 DEF BatchInv, Awaits
    <3>2. Settled(p) /\ workflows'[p] = workflows[p] /\ calls'[j] = calls[j]
      BY <1>3, <2>3, <3>1, WhatIsSettled, AnswerIs
    <3> QED BY <1>1, <1>6, <3>1, <3>2, AwaitStays
  <2> QED BY <2>1, <2>2, <2>3
<1>8. ASSUME NEW p \in Operations PROVE IsHeld(p)'
  <2>1. CASE workflows[p].call # k
    <3>1. workflows'[p] = workflows[p]
      BY <2>1, AnswerIs
    <3> QED BY <1>1, <1>6, <3>1, WhatIsSettled, HeldStays DEF At
  <2>2. CASE workflows[p].call = k
    <3> SUFFICES ASSUME At(p, "apply", "complete")'
                 PROVE  \A c \in DOMAIN Desire(p)' : Holds(p, c)'
      BY DEF IsHeld
    <3>1. At(p, "apply", "materialize") /\ calls[k].outcome = "done"
      BY <2>2, AnswerIs DEF At
    <3>2. Settled(p) /\ Desire(p)' = Desire(p)
      BY <3>1, WhatIsSettled, RequestStays
    <3>3. calls[k].pc # "rollback"
      BY <3>1 DEF BatchInv, CallIsKept
    <3>4. Changes(k) = calls[k].written
      BY <3>3 DEF AnswerBatch, BatchIsOver
    <3>5. /\ calls[k].op = p
          /\ \A c \in DOMAIN Desire(p) : c \in calls[k].written \/ c \notin Alters(p) => Holds(p, c)
      BY <1>1, <2>2, <3>3 DEF BatchInv, Awaits
    <3>6. Changes(k) = Alters(p)
      BY <1>1, <3>5, CallTyped
    <3>7. \A c \in DOMAIN Desire(p) : Holds(p, c)'
      BY <1>6, <3>2, <3>4, <3>5, <3>6
    <3> QED BY <3>2, <3>7
  <2> QED BY <2>1, <2>2
<1> QED BY <1>4, <1>5, <1>7, <1>8 DEF BatchInv

-----------------------------------------------------------------------------
(* The steps of the workflows.                                             *)

(* A workflow's step, as its row has it: it waits for no other batch, and  *)
(* nothing is about to be pinned that was not.                             *)
Quiet(p) ==
    /\ workflows'[p].call # 0 => workflows'[p] = workflows[p] /\ operations'[p] = operations[p]
    /\ At(p, "apply", "complete")' /\ operations'[p].status = "running" =>
          At(p, "apply", "complete") /\ operations[p].status = "running"

LEMMA SameIsQuiet ==
    ASSUME NEW p \in Operations, workflows'[p] = workflows[p] /\ operations'[p] = operations[p]
    PROVE  Quiet(p)
BY DEF Quiet, At

(* A workflow that is not materializing waits for nothing.                 *)
LEMMA GotoIsQuiet ==
    ASSUME ProfileInv, BatchInv, NEW p \in Operations, NEW pc \in Places, Goto(p, pc),
           workflows[p].call = 0, operations'[p].kind = "apply" => pc # "complete"
    PROVE  Quiet(p)
<1>1. workflows \in [Operations -> Workflow] /\ workflows[p] \in Workflow
  BY DEF ProfileInv, TablesTyped
<1>2. workflows'[p] = [workflows[p] EXCEPT !.pc = pc]
  BY <1>1 DEF Goto
<1>3. workflows'[p].pc = pc /\ workflows'[p].call = 0
  BY <1>1, <1>2 DEF Workflow
<1> QED BY <1>3 DEF Quiet, At

LEMMA WaitsOnlyThere ==
    ASSUME BatchInv, NEW p \in Operations, ~At(p, "apply", "materialize")
    PROVE  workflows[p].call = 0
BY DEF BatchInv, Awaits

LEMMA WorkflowStepIsQuiet ==
    ASSUME ProfileInv, BatchInv, NEW o \in Operations, WorkflowStep(o), NEW p \in Operations,
           UNCHANGED calls
    PROVE  Quiet(p)
<1>1. /\ operations \in [Operations -> OperationRow] /\ workflows \in [Operations -> Workflow]
      /\ workflows[p] \in Workflow /\ workflows[o] \in Workflow
      /\ operations[o] \in OperationRow
  BY DEF ProfileInv, TablesTyped
<1>2. CASE p # o
  <2>1. operations'[p] = operations[p]
    BY <1>1, <1>2 DEF WorkflowStep, LoadProfileApplyOperation, ResolveProfileVersion, CreateCandidateLock,
       EnsureEnvironmentCapsuleMaterialized, LoseAnswer, MaterializationTimesOut,
       CompleteProfileApply, RecordProfileApplyFailure, RecordProfileResolveInvocation,
       ResolveCapsules, PersistCapsuleLock, CompleteProfileResolve
  <2>2. workflows'[p] = workflows[p]
    BY <1>1, <1>2 DEF WorkflowStep, LoadProfileApplyOperation, ResolveProfileVersion, CreateCandidateLock,
       EnsureEnvironmentCapsuleMaterialized, LoseAnswer, MaterializationTimesOut,
       CompleteProfileApply, RecordProfileApplyFailure, RecordProfileResolveInvocation,
       ResolveCapsules, PersistCapsuleLock, CompleteProfileResolve, Goto, Journaled
  <2> QED BY <2>1, <2>2, SameIsQuiet
<1>3. CASE p = o
  <2>1. CASE LoadProfileApplyOperation(o) \/ RecordProfileResolveInvocation(o)
    <3>1. workflows[o].call = 0
      BY <2>1, WaitsOnlyThere DEF LoadProfileApplyOperation, RecordProfileResolveInvocation, At
    <3>2. workflows'[o].pc = "resolve" /\ workflows'[o].call = workflows[o].call
      BY <1>1, <2>1 DEF LoadProfileApplyOperation, RecordProfileResolveInvocation, Workflow
    <3> QED BY <1>3, <3>1, <3>2 DEF Quiet, At
  <2>2. CASE ResolveProfileVersion(o) \/ ResolveCapsules(o)
    <3>1. workflows[o].call = 0
      BY <2>2, WaitsOnlyThere DEF ResolveProfileVersion, ResolveCapsules, At
    <3>2. \/ \E pc \in {"fail", "failed"} : workflows' = [workflows EXCEPT ![o].pc = pc]
          \/ \E pc \in {"lock", "persist"} : \E d : workflows' = [workflows EXCEPT ![o].pc = pc, ![o].digests = d]
      BY <2>2 DEF ResolveProfileVersion, ResolveCapsules, Goto
    <3>3. workflows'[o].pc # "complete" /\ workflows'[o].call = workflows[o].call
      BY <1>1, <3>2 DEF Workflow
    <3> QED BY <1>3, <3>1, <3>3 DEF Quiet, At
  <2>3. CASE CreateCandidateLock(o)
    <3>1. workflows[o].call = 0
      BY <2>3, WaitsOnlyThere DEF CreateCandidateLock, At
    <3> QED BY <1>3, <2>3, <3>1, GotoIsQuiet DEF CreateCandidateLock, Places
  <2>4. CASE EnsureEnvironmentCapsuleMaterialized(o) \/ LoseAnswer(o)
    <3>1. CASE Goto(o, "fail") /\ workflows[o].call = 0
      BY <1>3, <3>1, GotoIsQuiet DEF Places
    <3>2. CASE \/ workflows' = [workflows EXCEPT ![o].lost = TRUE] /\ workflows[o].call = 0
               \/ workflows' = [workflows EXCEPT ![o].call = 0, ![o].lost = TRUE]
      <4>1. workflows'[o].call = 0 /\ workflows'[o].pc = workflows[o].pc
        BY <1>1, <3>2 DEF Workflow
      <4>2. workflows[o].pc = "materialize"
        BY <2>4 DEF EnsureEnvironmentCapsuleMaterialized, LoseAnswer, At
      <4> QED BY <1>3, <4>1, <4>2 DEF Quiet, At
    <3>3. \A k \in Calls : calls[k].pc = "none" =>
             calls' # [calls EXCEPT ![k] = [NoCall EXCEPT !.op = o, !.pc = "snapshot", !.seen = targets]]
      BY DEF BatchInv, GuestTyped, NoCall
    <3> QED BY <2>4, <3>1, <3>2, <3>3 DEF EnsureEnvironmentCapsuleMaterialized, LoseAnswer
  <2>5. CASE MaterializationTimesOut(o)
    BY <1>3, <2>5, GotoIsQuiet DEF MaterializationTimesOut, Places, DeadlineOutcome
  <2>6. CASE CompleteProfileApply(o)
    <3>1. workflows[o].call = 0
      BY <2>6, WaitsOnlyThere DEF CompleteProfileApply, At
    <3>2. CASE Goto(o, "succeeded") \/ Goto(o, "fail")
      BY <1>3, <3>1, <3>2, GotoIsQuiet DEF Places
    <3>3. CASE operations' = [operations EXCEPT ![o].status = "succeeded"] /\ UNCHANGED workflows
      <4>1. operations'[o].status = "succeeded"
        BY <1>1, <3>3 DEF OperationRow
      <4> QED BY <1>3, <3>1, <3>3, <4>1 DEF Quiet
    <3> QED BY <2>6, <3>2, <3>3 DEF CompleteProfileApply, Journaled
  <2>7. CASE RecordProfileApplyFailure(o)
    <3>1. workflows[o].call = 0 /\ workflows[o].pc = "fail"
      BY <2>7, WaitsOnlyThere DEF RecordProfileApplyFailure, At
    <3>2. CASE Goto(o, "failed")
      BY <1>3, <3>1, <3>2, GotoIsQuiet DEF Places
    <3>3. CASE UNCHANGED workflows
      BY <1>3, <3>1, <3>3 DEF Quiet, At
    <3> QED BY <2>7, <3>2, <3>3 DEF RecordProfileApplyFailure, Journaled
  <2>8. CASE PersistCapsuleLock(o) \/ CompleteProfileResolve(o)
    <3>1. operations[o].kind = "resolve" /\ workflows[o].call = 0
      BY <2>8, WaitsOnlyThere DEF PersistCapsuleLock, CompleteProfileResolve, At
    <3>2. operations'[o].kind = "resolve"
      BY <1>1, <2>8, <3>1 DEF PersistCapsuleLock, CompleteProfileResolve, OperationRow
    <3>3. CASE Goto(o, "complete") \/ Goto(o, "succeeded")
      BY <1>3, <3>1, <3>2, <3>3, GotoIsQuiet DEF Places
    <3>4. CASE UNCHANGED workflows
      BY <1>3, <3>1, <3>2, <3>4 DEF Quiet, At
    <3> QED BY <2>8, <3>3, <3>4 DEF PersistCapsuleLock, CompleteProfileResolve, Journaled
  <2> QED BY <2>1, <2>2, <2>3, <2>4, <2>5, <2>6, <2>7, <2>8 DEF WorkflowStep
<1> QED BY <1>2, <1>3

(* The guest plans a batch: its targets hold what was recorded.            *)
LEMMA StartGoes ==
    ASSUME ProfileInv, BatchInv, [ProfileNext]_profileVars, NEW o \in Operations,
           At(o, "apply", "materialize"), workflows[o].call = 0,
           UNCHANGED <<operations, targets, strays, faults>>,
           ~ObservationChanged(Candidate(o), workflows[o].installed),
           NEW k \in Calls, calls[k].pc = "none", workflows' = [workflows EXCEPT ![o].call = k],
           calls' = [calls EXCEPT ![k] = [NoCall EXCEPT !.op = o, !.pc = "snapshot", !.seen = targets]]
    PROVE  BatchInv'
<1> DEFINE b == [NoCall EXCEPT !.op = o, !.pc = "snapshot", !.seen = targets]
<1>1. GuestTyped /\ calls \in [Calls -> Call] /\ targets \in [Components -> Held] /\ k # 0
  <2>1. k # 0
    BY BoundsAssumption DEF Calls
  <2> QED BY <2>1 DEF BatchInv, GuestTyped
<1>2. b \in Call /\ b.op = o /\ b.pc = "snapshot" /\ b.seen = targets /\ b.written = {}
  <2>1. [c \in Components |-> None] \in [Components -> Held]
    BY DEF Held
  <2>2. o \in 0..MaxOperations
    BY BoundsAssumption DEF Operations
  <2> QED BY <1>1, <2>1, <2>2 DEF NoCall, Call
<1> HIDE DEF b
<1>3. calls' \in [Calls -> Call] /\ calls'[k] = b /\ \A j \in Calls \ {k} : calls'[j] = calls[j]
  BY <1>1, <1>2 DEF b
<1>4. GuestTyped'
  BY <1>1, <1>3 DEF GuestTyped
<1>5. /\ Settled(o) /\ Settled(o)' /\ Desire(o)' = Desire(o) /\ Alters(o)' = Alters(o)
      /\ Alters(o) \subseteq DOMAIN Desire(o) /\ DOMAIN Desire(o) \subseteq Components
      /\ \A c \in DOMAIN Desire(o) \ Alters(o) : Desire(o)[c] = workflows[o].installed[c]
      /\ workflows[o].installed \in [Components -> Layers \cup {None}]
  BY WhatIsSettled, RequestStays, DesireTyped
<1>6. \A c \in DOMAIN Desire(o) : targets[c] = workflows[o].installed[c] /\ targets[c] # Edited
  <2>1. \A c \in DOMAIN Desire(o) : targets[c] = workflows[o].installed[c]
    BY <1>5 DEF ObservationChanged, Desire
  <2> QED BY <1>5, <2>1, EditedAssumption
<1>7. ASSUME NEW j \in Calls PROVE CallIsKept(j)'
  <2>1. CASE j = k
    <3>1. /\ calls'[j].op = o /\ calls'[j].pc = "snapshot"
          /\ \A c \in Alters(o) : calls'[j].seen[c] # Edited
      BY <1>2, <1>3, <1>5, <1>6, <2>1
    <3> QED BY <1>5, <3>1 DEF CallIsKept
  <2>2. CASE j # k
    BY <1>3, <2>2, CallsStay
  <2> QED BY <2>1, <2>2
<1>8. \A p \in Operations : \A c : Settled(p) /\ Holds(p, c) => Holds(p, c)'
  BY HoldStays
<1>9. /\ workflows \in [Operations -> Workflow]
      /\ workflows'[o].call = k /\ workflows'[o].pc = workflows[o].pc
      /\ \A p \in Operations \ {o} : workflows'[p] = workflows[p]
  BY DEF ProfileInv, TablesTyped, Workflow
<1>10. ASSUME NEW p \in Operations PROVE Awaits(p)'
  <2>1. CASE p = o
    <3>1. \A c \in DOMAIN Desire(o) : c \notin Alters(o) => Holds(o, c)'
      BY <1>5, <1>6 DEF Holds
    <3>2. At(o, "apply", "materialize")'
      BY <1>9 DEF At
    <3>3. calls'[k].pc = "snapshot" /\ calls'[k].op = o /\ calls'[k].written = {}
      BY <1>2, <1>3
    <3> QED BY <1>5, <1>9, <2>1, <3>1, <3>2, <3>3 DEF Awaits
  <2>2. CASE p # o
    <3> DEFINE j == workflows[p].call
    <3> SUFFICES ASSUME j # 0 PROVE Awaits(p)'
      BY <1>9, <2>2 DEF Awaits
    <3>1. At(p, "apply", "materialize") /\ calls[j].pc # "none" /\ j \in Calls
      BY DEF BatchInv, Awaits
    <3>2. Settled(p) /\ workflows'[p] = workflows[p] /\ calls'[j] = calls[j]
      BY <1>3, <1>9, <2>2, <3>1, WhatIsSettled
    <3> QED BY <1>8, <3>1, <3>2, AwaitStays
  <2> QED BY <2>1, <2>2
<1>11. ASSUME NEW p \in Operations PROVE IsHeld(p)'
  <2>1. At(p, "apply", "complete")' => At(p, "apply", "complete")
    BY <1>9 DEF At
  <2> QED BY <1>8, <2>1, WhatIsSettled, HeldStays
<1> QED BY <1>4, <1>7, <1>10, <1>11 DEF BatchInv

LEMMA WorkflowStepHolds ==
    ASSUME ProfileInv, BatchInv, [ProfileNext]_profileVars, NEW o \in Operations, WorkflowStep(o)
    PROVE  BatchInv'
<1>1. faults \in Nat
  BY DEF BatchInv, GuestTyped
<1>2. CASE UNCHANGED guestVars /\ faults' \in Nat
  <2>1. \A p \in Operations : Quiet(p)
    BY <1>2, WorkflowStepIsQuiet DEF guestVars
  <2> QED BY <1>2, <2>1, QuietKeeps DEF Quiet
<1>3. CASE EnsureEnvironmentCapsuleMaterialized(o)
  <2>1. /\ At(o, "apply", "materialize") /\ workflows[o].call = 0
        /\ UNCHANGED <<operations, targets, strays>>
    BY <1>3 DEF EnsureEnvironmentCapsuleMaterialized
  <2>2. CASE UNCHANGED calls /\ (UNCHANGED faults \/ Fault)
    BY <1>1, <1>2, <2>1, <2>2 DEF guestVars, Fault
  <2>3. ASSUME UNCHANGED faults, ~Blocked(Candidate(o), workflows[o].installed, operations[o].approved),
               NEW k \in Calls, calls[k].pc = "none", workflows' = [workflows EXCEPT ![o].call = k],
               calls' = [calls EXCEPT ![k] = [NoCall EXCEPT !.op = o, !.pc = "snapshot", !.seen = targets]]
        PROVE  BatchInv'
    <3>1. ~ObservationChanged(Candidate(o), workflows[o].installed)
      BY <2>3 DEF Blocked
    <3> QED BY <2>1, <2>3, <3>1, StartGoes
  <2> QED BY <1>3, <2>2, <2>3 DEF EnsureEnvironmentCapsuleMaterialized
<1>4. CASE ~EnsureEnvironmentCapsuleMaterialized(o)
  <2>1. UNCHANGED guestVars
    BY <1>4 DEF WorkflowStep, LoadProfileApplyOperation, ResolveProfileVersion, CreateCandidateLock,
       LoseAnswer, MaterializationTimesOut, CompleteProfileApply, RecordProfileApplyFailure,
       RecordProfileResolveInvocation, ResolveCapsules, PersistCapsuleLock, CompleteProfileResolve
  <2>2. faults' \in {faults, faults + 1}
    BY <1>4 DEF WorkflowStep, LoadProfileApplyOperation, ResolveProfileVersion, CreateCandidateLock,
       LoseAnswer, MaterializationTimesOut, CompleteProfileApply, RecordProfileApplyFailure,
       RecordProfileResolveInvocation, ResolveCapsules, PersistCapsuleLock, CompleteProfileResolve,
       Journaled, Fault
  <2> QED BY <1>1, <1>2, <2>1, <2>2
<1> QED BY <1>3, <1>4

LEMMA NextHolds ==
    ASSUME ProfileInv, BatchInv, [ProfileNext]_profileVars
    PROVE  BatchInv'
<1>1. faults \in Nat
  BY DEF BatchInv, GuestTyped
<1>2. CASE UNCHANGED <<operations, workflows, guestVars, faults>>
  BY <1>1, <1>2, QuietKeeps, SameIsQuiet DEF Quiet
<1>3. PutCapsuleTag \/ PublishProfileVersion \/ LockElsewhere \/ UNCHANGED profileVars
      => UNCHANGED <<operations, workflows, guestVars, faults>>
  BY DEF PutCapsuleTag, PublishProfileVersion, LockElsewhere, guestVars, profileVars
<1>4. CASE ApplyProfile \/ SendProfileResolve
  <2>1. UNCHANGED guestVars /\ faults' \in Nat
    BY <1>1, <1>4 DEF ApplyProfile, SendProfileResolve
  <2>2. ASSUME NEW p \in Operations PROVE Quiet(p)
    <3>1. CASE workflows'[p] = workflows[p] /\ operations'[p] = operations[p]
      BY <3>1, SameIsQuiet
    <3>2. CASE /\ workflows[p].pc = "none" /\ workflows'[p].call = workflows[p].call
               /\ workflows'[p].pc \in {"load", "record"}
      <4>1. workflows[p].call = 0
        BY <3>2, WaitsOnlyThere DEF At
      <4> QED BY <3>2, <4>1 DEF Quiet, At
    <3> QED BY <1>4, <3>1, <3>2, NewStays
  <2> QED BY <2>1, <2>2, QuietKeeps DEF Quiet
<1>5. CASE \E k \in Calls : GuestStep(k)
  BY <1>5, SnapshotBatchGoes, ObserveItemGoes, WriteItemGoes, RestoreBackupGoes, AnswerBatchGoes
     DEF GuestStep
<1> QED BY <1>2, <1>3, <1>4, <1>5, EditTargetGoes, WorkflowStepHolds DEF ProfileNext

LEMMA InitHoldsBatches == ProfileInit => BatchInv
<1> SUFFICES ASSUME ProfileInit PROVE BatchInv
  OBVIOUS
<1>1. ProfileInv
  BY InitHolds
<1>2. targets \in [Components -> Held]
  <2>1. environment.installed \in Records
    BY <1>1, PinIsKnown
  <2> QED BY <2>1 DEF ProfileInit, Records, Held
<1>3. NoCall \in Call /\ NoCall.pc = "none"
  <2>1. [c \in Components |-> None] \in [Components -> Held]
    BY DEF Held
  <2>2. 0 \in 0..MaxOperations
    BY BoundsAssumption
  <2> QED BY <2>1, <2>2 DEF NoCall, Call
<1>4. calls \in [Calls -> Call] /\ \A k \in Calls : calls[k].pc = "none"
  BY <1>3 DEF ProfileInit
<1>5. GuestTyped
  BY <1>2, <1>4 DEF GuestTyped, ProfileInit
<1>6. \A o \in Operations : workflows[o].pc = "none" /\ workflows[o].call = 0
  BY DEF ProfileInit
<1> QED BY <1>4, <1>5, <1>6 DEF BatchInv, CallIsKept, Awaits, IsHeld, At

-----------------------------------------------------------------------------
(* The theorems.                                                           *)

(* The inductive invariant holds in every state of profile.apply,          *)
(* profile.resolve, PublishProfileVersion, PutCapsuleTag and the batches   *)
(* in the guest.                                                           *)
THEOREM ProfileInvariance == ProfileSpec => [](ProfileInv /\ BatchInv)
<1>1. ProfileInit => ProfileInv /\ BatchInv
  BY InitHolds, InitHoldsBatches
<1>2. ProfileInv /\ BatchInv /\ [ProfileNext]_profileVars => (ProfileInv /\ BatchInv)'
  BY NextKeeps, NextHolds
<1> QED BY <1>1, <1>2, PTL DEF ProfileSpec

(* The tables the store reads, the journals of the workflows and the       *)
(* batches of the guest are of their types, whatever the Capsules,         *)
(* compositions and bounds.                                                *)
THEOREM ProfileTypeCorrect == ProfileSpec => []ProfileTypeOK
<1>1. ProfileInv /\ BatchInv => ProfileTypeOK
  <2> SUFFICES ASSUME ProfileInv, BatchInv PROVE ProfileTypeOK
    OBVIOUS
  <2>1. \A l \in locks : l.version \in DOMAIN versions /\ l.id \in 0..MaxOperations
    BY DEF ProfileInv, LocksAreUnique, Resolves, TablesTyped, LockRow
  <2>2. environment.lock \in {l.id : l \in locks}
    BY PinIsKnown DEF Known
  <2>3. environment.installed \in [Components -> Layers \cup {None}]
    BY PinIsKnown DEF Records
  <2>4. targets \in [Components -> Held] /\ calls \in [Calls -> Call] /\ strays \subseteq Components
    BY DEF BatchInv, GuestTyped
  <2> QED BY <2>1, <2>2, <2>3, <2>4 DEF ProfileInv, TablesTyped, ProfileTypeOK
<1> QED BY <1>1, ProfileInvariance, PTL

(* CompleteProfileApply: the pinned version, the pinned lock and the       *)
(* recorded Materializations belong together, and a version and a project  *)
(* Capsule have one lock, for any number of Operations, lost answers and   *)
(* moves of a tag.                                                         *)
THEOREM PinWhole == ProfileSpec => []PinIsWhole
<1>1. ProfileInv => PinIsWhole
  BY PinIsKnown DEF ProfileInv, LocksAreUnique, PinIsWhole
<1> QED BY <1>1, ProfileInvariance, PTL

(* The pin changes in CompleteProfileApply only.                           *)
LEMMA PinnedBy ==
    ASSUME ProfileInv, [ProfileNext]_profileVars, environment'.lock # environment.lock
    PROVE  \E o \in Operations :
               /\ At(o, "apply", "complete") /\ operations[o].status = "running"
               /\ environment.lock = workflows[o].pinned
               /\ environment' = [version |-> Candidate(o).version, lock |-> o,
                                  installed |-> InstalledBy(Candidate(o))]
<1>1. environment' # environment
  OBVIOUS
<1>2. ~UNCHANGED profileVars
  BY <1>1 DEF profileVars
<1>3. ~(PutCapsuleTag \/ PublishProfileVersion \/ LockElsewhere \/ EditTarget \/ ApplyProfile
        \/ SendProfileResolve)
  BY <1>1 DEF PutCapsuleTag, PublishProfileVersion, LockElsewhere, EditTarget, ApplyProfile,
     SendProfileResolve, storeVars
<1>4. ~\E k \in Calls : GuestStep(k)
  BY <1>1 DEF GuestStep, SnapshotBatch, ObserveItem, WriteItem, RestoreBackup, AnswerBatch,
     unchangedOutside, storeVars
<1>5. PICK o \in Operations : WorkflowStep(o)
  BY <1>2, <1>3, <1>4 DEF ProfileNext
<1>6. CompleteProfileApply(o)
  BY <1>1, <1>5 DEF WorkflowStep, LoadProfileApplyOperation, ResolveProfileVersion, CreateCandidateLock,
     EnsureEnvironmentCapsuleMaterialized, LoseAnswer, MaterializationTimesOut, RecordProfileApplyFailure,
     RecordProfileResolveInvocation, ResolveCapsules, PersistCapsuleLock, CompleteProfileResolve
<1> QED BY <1>1, <1>6 DEF CompleteProfileApply

(* profile.apply: what becomes the pin is held by the guest, except what   *)
(* the User edited and what a batch without a caller touched, and what it  *)
(* changes under a review ref was approved.                                *)
THEOREM PinEarned == ProfileSpec => PinIsEarned
<1> DEFINE Earned ==
        environment'.lock # environment.lock =>
          /\ \A c \in Components : \/ environment'.installed[c] = None
                                   \/ targets[c] \in {environment'.installed[c], Edited}
                                   \/ c \in strays
          /\ \A o \in Operations : environment'.lock = o =>
                DiffSinceLastApproval(RefsOf(o), workflows[o].digests, LockOf(environment.lock))
                    \subseteq operations[o].approved
<1>1. ProfileInv /\ BatchInv /\ [ProfileNext]_profileVars => Earned
  <2> SUFFICES ASSUME ProfileInv, BatchInv, [ProfileNext]_profileVars, environment'.lock # environment.lock
               PROVE  Earned
    OBVIOUS
  <2>1. PICK o \in Operations :
           /\ At(o, "apply", "complete") /\ operations[o].status = "running"
           /\ environment.lock = workflows[o].pinned
           /\ environment' = [version |-> Candidate(o).version, lock |-> o,
                              installed |-> InstalledBy(Candidate(o))]
    BY PinnedBy
  <2>2. environment'.lock = o /\ environment'.installed = InstalledBy(Candidate(o))
    BY <2>1
  <2>3. \A c \in Components : \/ environment'.installed[c] = None
                              \/ targets[c] \in {environment'.installed[c], Edited}
                              \/ c \in strays
    <3>1. \A c \in DOMAIN Desire(o) : targets[c] \in {Desire(o)[c], Edited} \/ c \in strays
      BY <2>1 DEF BatchInv, IsHeld, Holds
    <3>2. \A c \in Components : InstalledBy(Candidate(o))[c] =
             IF c \in DOMAIN Desire(o) THEN Desire(o)[c] ELSE None
      BY DEF InstalledBy, InitialInstalled, Desire
    <3> QED BY <2>2, <3>1, <3>2
  <2>4. DiffSinceLastApproval(RefsOf(o), workflows[o].digests, LockOf(environment.lock))
            \subseteq operations[o].approved
    BY <2>1 DEF ProfileInv, Rows, IsReviewed, At
  <2> QED BY <2>2, <2>3, <2>4
<1> QED BY <1>1, ProfileInvariance, PTL DEF ProfileSpec, PinIsEarned

(* ApplyProfileMaterializations, step by step: an edit is overwritten only *)
(* by a batch whose backups were made before it, and lost only to a        *)
(* restore that fails.                                                     *)
THEOREM EditsStayed == ProfileSpec => EditsStay
<1> DEFINE Stay == \A c \in Components : targets[c] = Edited =>
                      \/ targets'[c] = Edited
                      \/ \E k \in Calls : c \in calls[k].overtaken
                      \/ faults' > faults
<1>1. ProfileInv /\ BatchInv /\ [ProfileNext]_profileVars => Stay
  <2> SUFFICES ASSUME ProfileInv, BatchInv, [ProfileNext]_profileVars PROVE Stay
    OBVIOUS
  <2>1. CASE UNCHANGED targets
    BY <2>1
  <2>2. CASE EditTarget
    BY <2>2 DEF EditTarget, BatchInv, GuestTyped
  <2>3. ASSUME NEW k \in Calls, WriteItem(k), ~UNCHANGED targets
        PROVE  Stay
    <3>1. targets' = [targets EXCEPT ![calls[k].item] = Desired(k)[calls[k].item]] /\ calls[k].pc = "write"
      BY <2>3 DEF WriteItem, Put
    <3>2. targets[calls[k].item] = Edited => calls[k].item \in calls[k].overtaken
      BY <3>1 DEF BatchInv, CallIsKept
    <3> QED BY <3>1, <3>2 DEF BatchInv, GuestTyped
  <2>4. ASSUME NEW k \in Calls, RestoreBackup(k)
        PROVE  Stay
    <3>1. calls[k].pc = "rollback" /\ faults \in Nat /\ targets \in [Components -> Held]
      BY <2>4 DEF RestoreBackup, BatchInv, GuestTyped
    <3>2. PICK c \in Changes(k) :
             \/ targets' = [targets EXCEPT ![c] = calls[k].backups[c]]
             \/ faults' = faults + 1
      BY <2>4 DEF RestoreBackup, Put, Fault
    <3>3. targets[c] = Edited => calls[k].backups[c] = Edited \/ c \in calls[k].overtaken
      BY <3>1, CallTyped DEF BatchInv, CallIsKept
    <3> QED BY <3>1, <3>2, <3>3
  <2>5. \A o \in Operations : WorkflowStep(o) => UNCHANGED targets
    BY DEF WorkflowStep, LoadProfileApplyOperation, ResolveProfileVersion, CreateCandidateLock,
       EnsureEnvironmentCapsuleMaterialized, LoseAnswer, MaterializationTimesOut, CompleteProfileApply,
       RecordProfileApplyFailure, RecordProfileResolveInvocation, ResolveCapsules, PersistCapsuleLock,
       CompleteProfileResolve, guestVars
  <2>6. \A k \in Calls : SnapshotBatch(k) \/ ObserveItem(k) \/ AnswerBatch(k) => UNCHANGED targets
    BY DEF SnapshotBatch, ObserveItem, AnswerBatch
  <2>7. PutCapsuleTag \/ PublishProfileVersion \/ LockElsewhere \/ ApplyProfile \/ SendProfileResolve
        \/ UNCHANGED profileVars => UNCHANGED targets
    BY DEF PutCapsuleTag, PublishProfileVersion, LockElsewhere, ApplyProfile, SendProfileResolve,
       guestVars, profileVars
  <2> QED BY <2>1, <2>2, <2>3, <2>4, <2>5, <2>6, <2>7 DEF ProfileNext, GuestStep
<1> QED BY <1>1, ProfileInvariance, PTL DEF ProfileSpec, EditsStay

=============================================================================
