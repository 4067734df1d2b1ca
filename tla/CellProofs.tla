----------------------------- MODULE CellProofs -----------------------------
(***************************************************************************)
(* Proofs about the two programs of a regional cell, the guest supervisor  *)
(* and the SSH proxy: for any number of requests, connections, Intents,    *)
(* Environments and failures, and for any size of a batch.                 *)
(***************************************************************************)
EXTENDS GuestControl, SSHProxy, FiniteSetTheorems, TLAPS

-----------------------------------------------------------------------------
(* GuestControl *)

GuestStates == [phase : {"down", "mounted", "identified", "serving"}, level : 0..AgentsValidated,
                key : HostKeys \cup {None, ImageKey}, quiescing : BOOLEAN, inFlight : Nat, applied : BOOLEAN]
DiskStates == [identity : HostKeys \cup {None}, sshd : HostKeys \cup {None, ImageKey},
               workspace : {"absent", "empty", "foreign", "seeded", "worked"}, private : BOOLEAN,
               staging : SUBSET Requests]
RequestStates == [kind : Kinds \cup {"none"},
                  pc : Running \cup {"none", "admitted", "refused", "over", "done", "failed", "blocked",
                                     "waiting", "sync"},
                  index : Items \cup {0},
                  observed : [Items -> TargetContents] \cup {<<>>},
                  backups : [Items -> TargetContents] \cup {<<>>}]

GuestTyped ==
    /\ guest \in GuestStates
    /\ disk \in DiskStates
    /\ targets \in [Items -> TargetContents]
    /\ requests \in [Requests -> RequestStates]
    /\ stops \in 0..MaxStops /\ edits \in 0..MaxEdits /\ faults \in 0..MaxFaults

InFlight == {r \in Requests : requests[r].pc \in Running}

\* inFlight is the number of mutations that run.
MutationsAreCounted == guest.inFlight = Cardinality(InFlight)

\* Only a mutation runs; and a shutdown that was admitted has made the guest quiescing, and
\* goes on when it has seen that nothing runs.
QuiescingIsQuiet ==
    \A r \in Requests :
        /\ requests[r].pc \in Running => requests[r].kind \in Mutating
        /\ requests[r].pc \in {"waiting", "sync"} => requests[r].kind = "shutdown"
        /\ requests[r].kind = "shutdown" /\ requests[r].pc \in {"waiting", "sync", "done"} => guest.quiescing
        /\ requests[r].kind = "shutdown" /\ requests[r].pc \in {"sync", "done"} => InFlight = {}

\* A batch has backups from its snapshot on.
BackupsAreTaken ==
    \A r \in Requests :
        /\ requests[r].pc \in {"observe", "write", "rollback"} =>
              requests[r].index \in Items /\ requests[r].backups # <<>>
        /\ requests[r].backups # <<>> =>
              requests[r].pc \in {"observe", "write", "rollback", "advance", "done", "failed"}

\* A batch that is the only one to have touched the targets.
Alone(r) ==
    /\ requests[r].backups # <<>> /\ edits = 0
    /\ \A q \in Requests \ {r} : requests[q].backups = <<>>

\* rollbackMaterializations has restored the items behind its index, or removed them.
IsRestored(j, backups) == targets[j] \in {backups[j], "removed"}

RollbackIsUnderWay ==
    \A r \in Requests : Alone(r) =>
        /\ requests[r].pc = "rollback" =>
              \A j \in Items : j > requests[r].index => IsRestored(j, requests[r].backups)
        /\ requests[r].pc = "failed" => \A j \in Items : IsRestored(j, requests[r].backups)

GuestInv ==
    GuestTyped /\ MutationsAreCounted /\ QuiescingIsQuiet /\ BackupsAreTaken /\ RollbackIsUnderWay

USE GuestAssumption, BatchAssumption, KindsAssumption DEF Items, HostKeys, TargetContents, AgentsValidated,
    DataMounted, SSHReady, ProjectReady

LEMMA BatchIsNotEmpty ==
  /\ 1 \in Items /\ BatchSize \in Items /\ <<>> \notin [Items -> TargetContents]
  <1>1. DOMAIN <<>> = {}
    OBVIOUS
  <1> QED
    BY <1>1

\* What one request does leaves the others as they are.
Only(r) == \A q \in Requests \ {r} : requests'[q] = requests[q]

LEMMA GotoIs ==
  ASSUME GuestTyped, NEW r \in Requests, NEW to, Goto(r, to),
         to \in Running \cup {"done", "failed", "refused", "blocked", "waiting", "sync"}
  PROVE  /\ requests' \in [Requests -> RequestStates] /\ Only(r)
         /\ requests'[r] \in RequestStates /\ requests'[r].pc = to
         /\ requests'[r].kind = requests[r].kind /\ requests'[r].index = requests[r].index
         /\ requests'[r].observed = requests[r].observed /\ requests'[r].backups = requests[r].backups
  BY ZenonT(60) DEF GuestTyped, Goto, RequestStates, Only

LEMMA CountIsFinite ==
  IsFiniteSet(InFlight) /\ Cardinality(InFlight) \in Nat
  BY FS_Subset, FS_CardinalityType DEF InFlight

LEMMA CountBegins ==
  ASSUME MutationsAreCounted, NEW r \in Requests, Only(r), guest.inFlight \in Nat,
         requests[r].pc \notin Running, requests'[r].pc \in Running, guest'.inFlight = guest.inFlight + 1
  PROVE  MutationsAreCounted'
  <1>1. InFlight' = InFlight \cup {r} /\ r \notin InFlight
    BY DEF InFlight, Only
  <1>2. Cardinality(InFlight \cup {r}) = Cardinality(InFlight) + 1
    BY <1>1, CountIsFinite, FS_AddElement
  <1> QED
    BY <1>1, <1>2 DEF MutationsAreCounted

LEMMA CountEnds ==
  ASSUME MutationsAreCounted, NEW r \in Requests, Only(r), guest.inFlight \in Nat,
         requests[r].pc \in Running, requests'[r].pc \notin Running, guest'.inFlight = guest.inFlight - 1
  PROVE  MutationsAreCounted' /\ guest'.inFlight \in Nat
  <1>1. InFlight' = InFlight \ {r} /\ r \in InFlight
    BY DEF InFlight, Only
  <1>2. IsFiniteSet(InFlight \ {r}) /\ Cardinality(InFlight \ {r}) = Cardinality(InFlight) - 1
    BY <1>1, CountIsFinite, FS_RemoveElement
  <1>3. Cardinality(InFlight \ {r}) \in Nat
    BY <1>2, FS_CardinalityType
  <1> QED
    BY <1>1, <1>2, <1>3 DEF MutationsAreCounted

LEMMA CountStays ==
  ASSUME MutationsAreCounted, guest'.inFlight = guest.inFlight,
         \A q \in Requests : requests'[q].pc \in Running <=> requests[q].pc \in Running
  PROVE  MutationsAreCounted'
  <1>1. InFlight' = InFlight
    BY DEF InFlight
  <1> QED
    BY <1>1 DEF MutationsAreCounted

\* A handler that answers.
LEMMA AnswerIs ==
  ASSUME GuestTyped, MutationsAreCounted, NEW r \in Requests, requests[r].pc \in Running,
         Goto(r, "done") \/ Goto(r, "failed") \/ Goto(r, "blocked"),
         NEW g \in GuestStates, g.inFlight = guest.inFlight, guest' = endMutation(g)
  PROVE  /\ guest' \in GuestStates /\ MutationsAreCounted'
         /\ guest'.quiescing = g.quiescing
         /\ guest'.inFlight = guest.inFlight - 1
  <1>1. guest.inFlight \in Nat /\ guest'.inFlight = guest.inFlight - 1
    BY DEF GuestTyped, GuestStates, endMutation
  <1>2. Only(r) /\ requests'[r].pc \in {"done", "failed", "blocked"}
    BY GotoIs
  <1>3. MutationsAreCounted' /\ guest'.inFlight \in Nat
    BY <1>1, <1>2, CountEnds DEF Running
  <1> QED
    BY <1>1, <1>3 DEF GuestStates, endMutation

\* A request that runs leaves what QuiescingIsQuiet says of shutdowns.
LEMMA RunningIsQuiet ==
  ASSUME QuiescingIsQuiet, NEW r \in Requests, Only(r), requests[r].pc \in Running,
         requests'[r].kind = requests[r].kind, requests'[r].pc \notin {"waiting", "sync"},
         guest'.quiescing = guest.quiescing
  PROVE  QuiescingIsQuiet'
  <1>1. InFlight' \subseteq InFlight
    BY DEF InFlight, Only
  <1>2. requests[r].kind \in Mutating /\ requests[r].kind # "shutdown"
    BY DEF QuiescingIsQuiet, Mutating
  <1> SUFFICES ASSUME NEW q \in Requests
               PROVE  /\ requests'[q].pc \in Running => requests'[q].kind \in Mutating
                      /\ requests'[q].pc \in {"waiting", "sync"} => requests'[q].kind = "shutdown"
                      /\ requests'[q].kind = "shutdown" /\ requests'[q].pc \in {"waiting", "sync", "done"}
                            => guest'.quiescing
                      /\ requests'[q].kind = "shutdown" /\ requests'[q].pc \in {"sync", "done"} => InFlight' = {}
    BY DEF QuiescingIsQuiet
  <1>3. CASE q = r
    BY <1>2, <1>3
  <1>4. CASE q # r
    <2>1. requests'[q] = requests[q]
      BY <1>4 DEF Only
    <2> QED
      BY <2>1, <1>1 DEF QuiescingIsQuiet
  <1> QED
    BY <1>3, <1>4

\* Nothing changes but a request, which neither begins a rollback elsewhere than at the last
\* item nor ends one.
LEMMA RollbackStays ==
  ASSUME RollbackIsUnderWay, NEW r \in Requests, Only(r), targets' = targets, edits' = edits,
         edits \in Nat, targets \in [Items -> TargetContents],
         requests'[r].backups = requests[r].backups,
         requests'[r].pc = "rollback" => \/ requests[r].pc = "rollback" /\ requests'[r].index = requests[r].index
                                         \/ requests'[r].index = BatchSize,
         requests'[r].pc = "failed" => requests[r].pc = "failed" \/ requests[r].backups = <<>>
  PROVE  RollbackIsUnderWay'
  <1>1. \A q \in Requests : requests'[q].backups = requests[q].backups
    BY DEF Only
  <1>2. \A q \in Requests : Alone(q)' => Alone(q)
    BY <1>1 DEF Alone
  <1> SUFFICES ASSUME NEW q \in Requests, Alone(q)'
               PROVE  /\ requests'[q].pc = "rollback" =>
                            \A j \in Items : j > requests'[q].index => targets'[j] \in {requests'[q].backups[j], "removed"}
                      /\ requests'[q].pc = "failed" =>
                            \A j \in Items : targets'[j] \in {requests'[q].backups[j], "removed"}
    BY DEF RollbackIsUnderWay, IsRestored
  <1>3. Alone(q)
    BY <1>2
  <1>4. CASE q = r
    BY <1>1, <1>3, <1>4 DEF RollbackIsUnderWay, IsRestored, Alone
  <1>5. CASE q # r
    BY <1>3, <1>5 DEF RollbackIsUnderWay, IsRestored, Only
  <1> QED
    BY <1>4, <1>5

\* A request with backups is the only one the rollback of which has to be looked at.
LEMMA RollbackIsOwn ==
  ASSUME NEW r \in Requests, requests'[r].backups # <<>>,
         Alone(r)' /\ requests'[r].pc = "rollback" =>
            \A j \in Items : j > requests'[r].index => targets'[j] \in {requests'[r].backups[j], "removed"},
         Alone(r)' /\ requests'[r].pc = "failed" =>
            \A j \in Items : targets'[j] \in {requests'[r].backups[j], "removed"}
  PROVE  RollbackIsUnderWay'
  BY DEF RollbackIsUnderWay, IsRestored, Alone

LEMMA BackupsStay ==
  ASSUME BackupsAreTaken, NEW r \in Requests, Only(r),
         requests'[r].pc \in {"observe", "write", "rollback"} =>
              requests'[r].index \in Items /\ requests'[r].backups # <<>>,
         requests'[r].backups # <<>> =>
              requests'[r].pc \in {"observe", "write", "rollback", "advance", "done", "failed"}
  PROVE  BackupsAreTaken'
  BY DEF BackupsAreTaken, Only

LEMMA InitGuest == GuestInit => GuestInv
  <1> SUFFICES ASSUME GuestInit PROVE GuestInv
    OBVIOUS
  <1>1. GuestTyped
    BY DEF GuestInit, GuestTyped, Down, Unsent, GuestStates, DiskStates, RequestStates
  <1>2. InFlight = {}
    BY DEF GuestInit, InFlight, Unsent, Running
  <1>3. MutationsAreCounted
    BY <1>2, FS_EmptySet DEF GuestInit, MutationsAreCounted, Down
  <1>4. QuiescingIsQuiet /\ BackupsAreTaken
    BY DEF GuestInit, QuiescingIsQuiet, BackupsAreTaken, Unsent, Running
  <1>5. RollbackIsUnderWay
    BY DEF GuestInit, RollbackIsUnderWay, Unsent, Alone
  <1> QED
    BY <1>1, <1>3, <1>4, <1>5 DEF GuestInv

\* A request that runs, goes on running and leaves guest alone.
LEMMA GoesOn ==
  ASSUME GuestInv, NEW r \in Requests, Only(r), requests[r].pc \in Running, requests'[r].pc \in Running,
         requests'[r].kind = requests[r].kind, guest' = guest
  PROVE  MutationsAreCounted' /\ QuiescingIsQuiet'
  <1>1. \A q \in Requests : requests'[q].pc \in Running <=> requests[q].pc \in Running
    BY DEF Only
  <1>2. requests'[r].pc \notin {"waiting", "sync"}
    BY DEF Running
  <1> QED
    BY <1>1, <1>2, CountStays, RunningIsQuiet DEF GuestInv

\* A request that runs and answers.
LEMMA AnswersWell ==
  ASSUME GuestInv, NEW r \in Requests, requests[r].pc \in Running,
         Goto(r, "done") \/ Goto(r, "failed") \/ Goto(r, "blocked"),
         NEW g \in GuestStates, g.inFlight = guest.inFlight, g.quiescing = guest.quiescing,
         guest' = endMutation(g)
  PROVE  /\ guest' \in GuestStates /\ MutationsAreCounted' /\ QuiescingIsQuiet'
         /\ requests' \in [Requests -> RequestStates] /\ Only(r)
         /\ requests'[r].pc \in {"done", "failed", "blocked"}
         /\ requests'[r].backups = requests[r].backups /\ requests'[r].index = requests[r].index
  <1>1. /\ requests' \in [Requests -> RequestStates] /\ Only(r)
        /\ requests'[r].pc \in {"done", "failed", "blocked"}
        /\ requests'[r].backups = requests[r].backups /\ requests'[r].index = requests[r].index
        /\ requests'[r].kind = requests[r].kind
    BY GotoIs DEF GuestInv
  <1>2. guest' \in GuestStates /\ MutationsAreCounted' /\ guest'.quiescing = g.quiescing
    BY AnswerIs DEF GuestInv
  <1> QED
    BY <1>1, <1>2, RunningIsQuiet DEF GuestInv

LEMMA AnswerAnswers ==
  ASSUME GuestInv, NEW r \in Requests, requests[r].pc \in Running, NEW to \in {"done", "failed", "blocked"},
         Answer(r, to)
  PROVE  /\ guest' \in GuestStates /\ MutationsAreCounted' /\ QuiescingIsQuiet'
         /\ requests' \in [Requests -> RequestStates] /\ Only(r)
         /\ requests'[r].pc = to
         /\ requests'[r].backups = requests[r].backups /\ requests'[r].index = requests[r].index
  <1>1. guest \in GuestStates
    BY DEF GuestInv, GuestTyped
  <1>2. Goto(r, to) /\ guest' = endMutation(guest)
    BY DEF Answer
  <1>3. requests'[r].pc = to
    BY <1>2, GotoIs DEF GuestInv
  <1> QED
    BY <1>1, <1>2, <1>3, AnswersWell

LEMMA BootKeeps == GuestInv /\ Boot => GuestInv'
  <1> SUFFICES ASSUME GuestInv, Boot PROVE GuestInv'
    OBVIOUS
  <1>1. /\ UNCHANGED <<targets, requests, stops, edits, faults>>
        /\ guest'.inFlight = guest.inFlight /\ guest'.quiescing = guest.quiescing
        /\ guest' \in GuestStates /\ disk' \in DiskStates
    <2>0. guest \in GuestStates /\ disk \in DiskStates /\ stops \in 0..MaxStops
      BY DEF GuestInv, GuestTyped
    <2>1. CASE BootstrapPersistentState
      <3>1. guest' \in GuestStates /\ guest'.inFlight = guest.inFlight /\ guest'.quiescing = guest.quiescing
        <4>1. guest' = [guest EXCEPT !.phase = "mounted", !.level = 2]
          BY <2>1 DEF BootstrapPersistentState
        <4>2. \A g \in GuestStates, n \in 0..5 :
                 LET h == [g EXCEPT !.phase = "mounted", !.level = n] IN
                 h \in GuestStates /\ h.inFlight = g.inFlight /\ h.quiescing = g.quiescing
          BY DEF GuestStates
        <4>3. 2 \in 0..5
          OBVIOUS
        <4> QED
          BY <2>0, <4>1, <4>2, <4>3, Zenon
      <3>2. disk' \in DiskStates
        BY <2>0, <2>1 DEF BootstrapPersistentState, DiskStates
      <3> QED
        BY <2>1, <3>1, <3>2 DEF BootstrapPersistentState
    <2>2. CASE PersistHostIdentity
      BY <2>0, <2>2 DEF PersistHostIdentity, GuestStates, DiskStates
    <2>3. CASE RestoreSSHHostIdentity
      <3>1. disk' \in DiskStates
        BY <2>0, <2>3 DEF RestoreSSHHostIdentity, ActivateHostIdentity, MaterializedHostKey, DiskStates
      <3>2. Advanced(3) \in 0..5 /\ MaterializedHostKey \in HostKeys \cup {None}
        BY <2>0 DEF MaterializedHostKey, Advanced, GuestStates, DiskStates
      <3>3. guest' \in GuestStates /\ guest'.inFlight = guest.inFlight /\ guest'.quiescing = guest.quiescing
        BY <2>0, <2>3, <3>2 DEF RestoreSSHHostIdentity, ActivateHostIdentity, GuestStates
      <3> QED
        BY <2>3, <3>1, <3>3 DEF RestoreSSHHostIdentity
    <2> QED
      BY <2>1, <2>2, <2>3 DEF Boot
  <1>2. InFlight' = InFlight
    BY <1>1 DEF InFlight
  <1> QED
    BY <1>1, <1>2 DEF GuestInv, GuestTyped, MutationsAreCounted, QuiescingIsQuiet, BackupsAreTaken,
                      RollbackIsUnderWay, IsRestored, Alone

LEMMA StopKeeps == GuestInv /\ Stop => GuestInv'
  <1> SUFFICES ASSUME GuestInv, Stop PROVE GuestInv'
    OBVIOUS
  <1>1. /\ guest' = Down /\ UNCHANGED <<targets, edits, faults>> /\ stops' \in 0..MaxStops
        /\ disk' \in DiskStates
    BY SMTT(30) DEF Stop, GuestInv, GuestTyped, DiskStates
  <1>2. \A r \in Requests : requests'[r] = Unsent \/ requests'[r] = [Unsent EXCEPT !.pc = "over"]
    BY DEF Stop
  <1>3. /\ Unsent \in RequestStates /\ [Unsent EXCEPT !.pc = "over"] \in RequestStates
        /\ Unsent.pc = "none" /\ [Unsent EXCEPT !.pc = "over"].pc = "over"
        /\ Unsent.backups = <<>> /\ [Unsent EXCEPT !.pc = "over"].backups = <<>>
    BY DEF Unsent, RequestStates
  <1>4. \A r \in Requests : /\ requests'[r] \in RequestStates /\ requests'[r].pc \in {"none", "over"}
                            /\ requests'[r].backups = <<>>
    BY <1>2, <1>3
  <1>5. DOMAIN requests' = Requests /\ requests' = [r \in Requests |-> requests'[r]]
    BY DEF Stop
  <1>6. requests' \in [Requests -> RequestStates]
    BY <1>4, <1>5
  <1>7. InFlight' = {} /\ guest'.inFlight = 0
    BY <1>1, <1>4 DEF InFlight, Running, Down
  <1>8. MutationsAreCounted'
    BY <1>7, FS_EmptySet DEF MutationsAreCounted
  <1>9. QuiescingIsQuiet' /\ BackupsAreTaken' /\ RollbackIsUnderWay'
    BY <1>4, <1>7 DEF QuiescingIsQuiet, BackupsAreTaken, RollbackIsUnderWay, Alone, Running
  <1>10. guest' \in GuestStates
    BY <1>1 DEF Down, GuestStates
  <1> QED
    BY <1>1, <1>6, <1>8, <1>9, <1>10 DEF GuestInv, GuestTyped

LEMMA UserKeeps == GuestInv /\ (EditTarget \/ WorkInWorkspace \/ OpenWorkspace) => GuestInv'
  <1>1. ASSUME GuestInv, EditTarget PROVE GuestInv'
    <2>1. /\ UNCHANGED <<guest, disk, requests, stops, faults>> /\ edits' \in 0..MaxEdits /\ edits' > 0
          /\ targets' \in [Items -> TargetContents]
      BY <1>1 DEF EditTarget, GuestInv, GuestTyped
    <2>2. InFlight' = InFlight
      BY <2>1 DEF InFlight
    <2> QED
      BY <1>1, <2>1, <2>2 DEF GuestInv, GuestTyped, MutationsAreCounted, QuiescingIsQuiet, BackupsAreTaken,
                      RollbackIsUnderWay, IsRestored, Alone
  <1>2. ASSUME GuestInv, WorkInWorkspace PROVE GuestInv'
    <2>1. /\ UNCHANGED <<guest, targets, requests, stops, edits, faults>> /\ disk' \in DiskStates
      BY <1>2 DEF WorkInWorkspace, GuestInv, GuestTyped, DiskStates
    <2>2. InFlight' = InFlight
      BY <2>1 DEF InFlight
    <2> QED
      BY <1>2, <2>1, <2>2 DEF GuestInv, GuestTyped, MutationsAreCounted, QuiescingIsQuiet, BackupsAreTaken,
                      RollbackIsUnderWay, IsRestored, Alone
  <1>3. ASSUME GuestInv, OpenWorkspace PROVE GuestInv'
    <2>1. /\ UNCHANGED <<guest, targets, requests, stops, faults>> /\ edits' \in 0..MaxEdits /\ edits' > 0
          /\ disk' \in DiskStates
      <3>1. disk' = [disk EXCEPT !.private = FALSE] /\ disk \in DiskStates
        BY <1>3 DEF OpenWorkspace, GuestInv, GuestTyped
      <3>2. disk' \in DiskStates
        BY <3>1 DEF DiskStates
      <3> QED
        BY <1>3, <3>2 DEF OpenWorkspace, GuestInv, GuestTyped
    <2>2. InFlight' = InFlight
      BY <2>1 DEF InFlight
    <2> QED
      BY <1>3, <2>1, <2>2 DEF GuestInv, GuestTyped, MutationsAreCounted, QuiescingIsQuiet, BackupsAreTaken,
                      RollbackIsUnderWay, IsRestored, Alone
  <1> QED
    BY <1>1, <1>2, <1>3

\* A request that is not running before nor after, and leaves the disk and the targets alone.
LEMMA OutsideKeeps ==
  ASSUME GuestInv, NEW r \in Requests, Only(r), requests' \in [Requests -> RequestStates],
         requests[r].pc \in {"none", "admitted", "waiting", "sync"}, requests'[r].pc \notin Running,
         requests'[r].backups = requests[r].backups,
         guest' \in GuestStates, guest'.inFlight = guest.inFlight,
         guest.quiescing => guest'.quiescing,
         UNCHANGED <<disk, targets, stops, edits, faults>>,
         requests'[r].pc \in {"waiting", "sync"} => requests'[r].kind = "shutdown",
         requests'[r].kind = "shutdown" /\ requests'[r].pc \in {"waiting", "sync", "done"} => guest'.quiescing,
         requests'[r].kind = "shutdown" /\ requests'[r].pc \in {"sync", "done"} =>
            \/ guest.inFlight = 0
            \/ requests[r].kind = "shutdown" /\ requests[r].pc = "sync"
  PROVE  GuestInv'
  <1>1. requests[r].backups = <<>> /\ requests[r].pc \notin Running
    BY DEF GuestInv, BackupsAreTaken, Running
  <1>2. InFlight' = InFlight /\ MutationsAreCounted'
    <2>1. \A q \in Requests : requests'[q].pc \in Running <=> requests[q].pc \in Running
      BY <1>1 DEF Only
    <2> QED
      BY <2>1, CountStays DEF InFlight, GuestInv
  <1>3. guest.inFlight = 0 => InFlight = {}
    BY CountIsFinite, FS_EmptySet DEF GuestInv, MutationsAreCounted
  <1>4. QuiescingIsQuiet'
    <2> SUFFICES ASSUME NEW q \in Requests
               PROVE  /\ requests'[q].pc \in Running => requests'[q].kind \in Mutating
                      /\ requests'[q].pc \in {"waiting", "sync"} => requests'[q].kind = "shutdown"
                      /\ requests'[q].kind = "shutdown" /\ requests'[q].pc \in {"waiting", "sync", "done"}
                            => guest'.quiescing
                      /\ requests'[q].kind = "shutdown" /\ requests'[q].pc \in {"sync", "done"} => InFlight' = {}
      BY DEF QuiescingIsQuiet
    <2>1. CASE q = r
      BY <2>1, <1>2, <1>3 DEF GuestInv, QuiescingIsQuiet
    <2>2. CASE q # r
      <3>1. requests'[q] = requests[q]
        BY <2>2 DEF Only
      <3> QED
        BY <3>1, <1>2 DEF GuestInv, QuiescingIsQuiet
    <2> QED
      BY <2>1, <2>2
  <1>5. BackupsAreTaken'
    <2>1. requests'[r].pc \notin {"observe", "write", "rollback"}
      BY DEF Running
    <2> QED
      BY <1>1, <2>1, BackupsStay DEF GuestInv
  <1>6. RollbackIsUnderWay'
    <2>1. requests'[r].pc # "rollback" /\ edits \in Nat /\ edits' = edits /\ targets' = targets
      BY DEF Running, GuestInv, GuestTyped
    <2> QED
      BY <1>1, <2>1, RollbackStays DEF GuestInv, GuestTyped
  <1> QED
    BY <1>2, <1>4, <1>5, <1>6 DEF GuestInv, GuestTyped

LEMMA ServeKeeps ==
  ASSUME GuestInv, NEW r \in Requests, ServeHTTP(r)
  PROVE  GuestInv'
  <1>1. PICK kind \in Kinds : requests' = [requests EXCEPT ![r].kind = kind,
                          ![r].pc = IF kind \in Mutating /\ guest.quiescing THEN "refused" ELSE "admitted"]
    BY DEF ServeHTTP
  <1>2. /\ requests' \in [Requests -> RequestStates] /\ Only(r)
        /\ requests'[r].pc \in {"refused", "admitted"} /\ requests'[r].backups = requests[r].backups
    <2>1. PICK to \in {"refused", "admitted"} : requests' = [requests EXCEPT ![r].kind = kind, ![r].pc = to]
      BY <1>1
    <2>2. requests \in [Requests -> RequestStates]
      BY DEF GuestInv, GuestTyped
    <2>3. \A s \in RequestStates : [s EXCEPT !.kind = kind, !.pc = to] \in RequestStates
      BY DEF RequestStates
    <2>4. requests' = [requests EXCEPT ![r] = [requests[r] EXCEPT !.kind = kind, !.pc = to]]
      BY <2>1
    <2>5. Only(r) /\ requests'[r] = [requests[r] EXCEPT !.kind = kind, !.pc = to]
      BY <2>2, <2>4 DEF Only
    <2>6. requests' \in [Requests -> RequestStates]
      BY <2>2, <2>3, <2>4
    <2> QED
      BY <2>2, <2>5, <2>6 DEF RequestStates
  <1>3. UNCHANGED <<guest, disk, targets, stops, edits, faults>> /\ requests[r].pc = "none" /\ guest' \in GuestStates
    BY DEF ServeHTTP, unchangedGuest, GuestInv, GuestTyped
  <1>4. requests'[r].pc \notin Running
    BY <1>2 DEF Running
  <1> QED
    BY <1>2, <1>3, <1>4, OutsideKeeps

LEMMA BeginKeeps ==
  ASSUME GuestInv, NEW r \in Requests, beginMutation(r)
  PROVE  GuestInv'
  <1> USE DEF beginMutation
  <1>1. CASE ~MayBegin
    <2>1. Goto(r, "refused") /\ UNCHANGED <<guest, disk, targets, stops, edits, faults>> /\ guest' \in GuestStates
      BY <1>1 DEF unchangedGuest, GuestInv, GuestTyped
    <2>2. /\ requests' \in [Requests -> RequestStates] /\ Only(r)
          /\ requests'[r].pc = "refused" /\ requests'[r].backups = requests[r].backups
      BY <2>1, GotoIs DEF GuestInv
    <2>3. requests'[r].pc \notin Running
      BY <2>2 DEF Running
    <2> QED
      BY <2>1, <2>2, <2>3, OutsideKeeps
  <1>2. CASE MayBegin
    <2>1. UNCHANGED <<disk, targets, stops, edits, faults>> /\ ~guest.quiescing
      BY <1>2 DEF unchangedGuest, MayBegin
    <2>2. guest' \in GuestStates /\ guest'.quiescing = guest.quiescing /\ guest'.inFlight = guest.inFlight + 1
          /\ guest.inFlight \in Nat
      BY <1>2, SMTT(30) DEF GuestInv, GuestTyped, GuestStates
    <2>3. FirstStep[requests[r].kind] \in {"prepare", "restore", "plan"}
      BY DEF FirstStep, Mutating
    <2>4. /\ requests' \in [Requests -> RequestStates] /\ Only(r)
          /\ requests'[r].pc \in {"prepare", "restore", "plan"}
          /\ requests'[r].backups = requests[r].backups /\ requests'[r].kind = requests[r].kind
      <3>1. FirstStep[requests[r].kind] \in Running
        BY <2>3 DEF Running
      <3>2. GuestTyped /\ Goto(r, FirstStep[requests[r].kind])
        BY <1>2 DEF GuestInv
      <3> HIDE DEF beginMutation
      <3> QED
        BY <2>3, <3>1, <3>2, GotoIs
    <2>5. requests[r].pc \notin Running /\ requests'[r].pc \in Running /\ requests[r].backups = <<>>
      BY <2>4 DEF Running, GuestInv, BackupsAreTaken
    <2>6. MutationsAreCounted'
      BY <2>2, <2>4, <2>5, CountBegins DEF GuestInv
    <2>7. QuiescingIsQuiet'
      <3>1. \A q \in Requests : requests[q].kind = "shutdown" => requests[q].pc \notin {"waiting", "sync", "done"}
        BY <2>1 DEF GuestInv, QuiescingIsQuiet
      <3>2. \A q \in Requests : requests'[q].kind = "shutdown" => requests'[q].pc \notin {"waiting", "sync", "done"}
        BY <3>1, <2>4 DEF Only
      <3>3. \A q \in Requests : requests'[q].pc \in Running => requests'[q].kind \in Mutating
        BY <2>4 DEF Only, GuestInv, QuiescingIsQuiet
      <3>4. \A q \in Requests : requests'[q].pc \in {"waiting", "sync"} => requests'[q].kind = "shutdown"
        BY <2>4 DEF Only, GuestInv, QuiescingIsQuiet
      <3> QED
        BY <3>2, <3>3, <3>4 DEF QuiescingIsQuiet
    <2>8. BackupsAreTaken'
      BY <2>4, <2>5, BackupsStay DEF GuestInv
    <2>9. RollbackIsUnderWay'
      <3>1. requests'[r].pc # "rollback" /\ requests'[r].pc # "failed" /\ edits \in Nat
        BY <2>4 DEF GuestInv, GuestTyped
      <3> QED
        BY <2>1, <2>4, <3>1, RollbackStays DEF GuestInv, GuestTyped
    <2> QED
      BY <2>1, <2>2, <2>4, <2>6, <2>7, <2>8, <2>9 DEF GuestInv, GuestTyped
  <1> QED
    BY <1>1, <1>2

LEMMA ShutdownKeeps ==
  ASSUME GuestInv, NEW r \in Requests, Quiesce(r) \/ QuiesceEnds(r) \/ PrepareShutdown(r)
  PROVE  GuestInv'
  <1> USE DEF unchangedGuest
  <1>1. PICK to \in {"sync", "waiting", "failed", "done"} : Goto(r, to)
    BY DEF Quiesce, QuiesceEnds, PrepareShutdown
  <1>2. /\ requests' \in [Requests -> RequestStates] /\ Only(r)
        /\ requests'[r].pc = to /\ requests'[r].backups = requests[r].backups
        /\ requests'[r].kind = requests[r].kind
    BY <1>1, GotoIs DEF GuestInv
  <1>3. requests'[r].pc \notin Running
    BY <1>2 DEF Running
  <1>4. UNCHANGED <<disk, targets, stops, edits, faults>>
    BY DEF Quiesce, QuiesceEnds, PrepareShutdown
  <1>5. guest \in GuestStates /\ guest.inFlight \in Nat
    BY DEF GuestInv, GuestTyped, GuestStates
  <1>6. CASE Quiesce(r)
    <2>1. guest' \in GuestStates /\ guest'.inFlight = guest.inFlight /\ guest'.quiescing
      BY <1>5, <1>6 DEF Quiesce, GuestStates
    <2>2. requests[r].pc = "admitted" /\ requests[r].kind = "shutdown"
      BY <1>6 DEF Quiesce
    <2>3. requests'[r].pc \in {"sync", "done"} => guest.inFlight = 0
      BY <1>6, GotoIs DEF Quiesce, GuestInv
    <2> QED
      BY <1>2, <1>3, <1>4, <2>1, <2>2, <2>3, OutsideKeeps
  <1>7. CASE QuiesceEnds(r)
    <2>1. guest' = guest /\ requests[r].pc = "waiting" /\ requests[r].kind = "shutdown" /\ guest.quiescing
      BY <1>7 DEF QuiesceEnds, GuestInv, QuiescingIsQuiet
    <2>2. requests'[r].pc \in {"sync", "done"} => guest.inFlight = 0
      BY <1>7, GotoIs DEF QuiesceEnds, GuestInv
    <2> QED
      BY <1>2, <1>3, <1>4, <1>5, <2>1, <2>2, OutsideKeeps
  <1>8. CASE PrepareShutdown(r)
    <2>1. guest' = guest /\ requests[r].pc = "sync" /\ requests[r].kind = "shutdown" /\ guest.quiescing
      BY <1>8 DEF PrepareShutdown, GuestInv, QuiescingIsQuiet
    <2>2. requests'[r].pc = "done"
      BY <1>8, GotoIs DEF PrepareShutdown, GuestInv
    <2> QED
      BY <1>2, <1>3, <1>4, <1>5, <2>1, <2>2, OutsideKeeps
  <1> QED
    BY <1>6, <1>7, <1>8

\* The requests of a mutation.
LEMMA MutationKeeps ==
  ASSUME GuestInv, NEW r \in Requests,
         Advance(r) \/ RestoreOnRequest(r) \/ PrepareWorkspace(r) \/ StageSeed(r) \/ PublishSeed(r) \/ PlanBatch(r)
  PROVE  GuestInv'
  <1> USE DEF unchangedGuest
  <1>1. requests[r].pc \in Running /\ targets' = targets /\ stops' = stops /\ edits' = edits
        /\ edits \in Nat /\ guest \in GuestStates /\ disk \in DiskStates
        /\ requests[r].pc \notin {"observe", "write", "rollback"}
    BY DEF Advance, RestoreOnRequest, PrepareWorkspace, StageSeed, PublishSeed, PlanBatch, Running, Fault,
           GuestInv, GuestTyped, GotoIs
  <1>2. requests[r].pc # "advance" => requests[r].backups = <<>>
    BY <1>1 DEF GuestInv, BackupsAreTaken, Running
  <1>3. disk' \in DiskStates /\ faults' \in 0..MaxFaults
    <2>1. disk' \in DiskStates
      <3>1. CASE disk' = disk
        BY <1>1, <3>1
      <3>2. CASE RestoreOnRequest(r)
        BY <1>1, <3>2 DEF RestoreOnRequest, MaterializedHostKey, DiskStates
      <3>3. CASE PrepareWorkspace(r)
        BY <1>1, <3>3 DEF PrepareWorkspace, DiskStates
      <3>4. CASE StageSeed(r)
        BY <1>1, <3>4 DEF StageSeed, DiskStates
      <3>5. CASE PublishSeed(r)
        BY <1>1, <3>5 DEF PublishSeed, DiskStates
      <3> QED
        BY <3>1, <3>2, <3>3, <3>4, <3>5 DEF Advance, PlanBatch
    <2>2. faults' \in 0..MaxFaults
      BY DEF Advance, RestoreOnRequest, PrepareWorkspace, StageSeed, PublishSeed, PlanBatch, Fault, GuestInv, GuestTyped
    <2> QED
      BY <2>1, <2>2
  <1> DEFINE Result ==
        /\ guest' \in GuestStates /\ MutationsAreCounted' /\ QuiescingIsQuiet'
        /\ requests' \in [Requests -> RequestStates] /\ Only(r)
        /\ requests'[r].pc \in {"done", "failed", "blocked", "advance", "stage", "publish", "snapshot"}
        /\ requests'[r].backups = requests[r].backups
        /\ requests'[r].pc \notin {"done", "advance"} => requests[r].pc # "advance"
  <1>4. ASSUME Goto(r, "advance") \/ Goto(r, "stage") \/ Goto(r, "publish"), guest' = guest,
               requests[r].pc # "advance"
        PROVE  Result
    <2>1. PICK to \in {"advance", "stage", "publish"} : Goto(r, to)
      BY <1>4
    <2>2. to \in Running
      BY DEF Running
    <2>3. /\ requests' \in [Requests -> RequestStates] /\ Only(r) /\ requests'[r].pc = to
          /\ requests'[r].kind = requests[r].kind /\ requests'[r].backups = requests[r].backups
      BY <2>1, <2>2, GotoIs DEF GuestInv
    <2>4. MutationsAreCounted' /\ QuiescingIsQuiet'
      BY <1>1, <1>4, <2>2, <2>3, GoesOn
    <2> QED
      BY <1>1, <1>4, <2>3, <2>4
  <1>5. ASSUME Answer(r, "failed") \/ Answer(r, "blocked"), requests[r].pc # "advance"
        PROVE  Result
    <2>1. PICK to \in {"failed", "blocked"} : Answer(r, to)
      BY <1>5
    <2> QED
      BY <1>1, <1>5, <2>1, AnswerAnswers
  <1>6. Result
    <2>1. CASE Advance(r)
      <3>1. PICK level \in 4..5 :
               guest' = endMutation([guest EXCEPT !.level = Advanced(level), !.applied = @ \/ level = AgentsValidated])
        <4> DEFINE level == IF requests[r].kind = "seed" THEN ProjectReady ELSE AgentsValidated
        <4>1. level \in 4..5
          OBVIOUS
        <4>2. guest' = endMutation([guest EXCEPT !.level = Advanced(level), !.applied = @ \/ level = AgentsValidated])
          BY <2>1, Zenon DEF Advance
        <4> QED
          BY <4>1, <4>2
      <3> DEFINE g == [guest EXCEPT !.level = Advanced(level), !.applied = @ \/ level = AgentsValidated]
      <3>2. Advanced(level) \in 0..5
        BY <1>1 DEF Advanced, GuestStates
      <3>3. g \in GuestStates /\ g.inFlight = guest.inFlight /\ g.quiescing = guest.quiescing
        BY <1>1, <3>2 DEF GuestStates
      <3>4. guest' = endMutation(g) /\ Goto(r, "done")
        BY <2>1, <3>1 DEF Advance
      <3> HIDE DEF g
      <3>5. requests'[r].pc = "done"
        BY <3>4, GotoIs DEF GuestInv
      <3> QED
        BY <1>1, <3>3, <3>4, <3>5, AnswersWell
    <2>2. CASE RestoreOnRequest(r)
      <3> DEFINE g == [guest EXCEPT !.key = MaterializedHostKey]
      <3>1. g \in GuestStates /\ g.inFlight = guest.inFlight /\ g.quiescing = guest.quiescing
        BY <1>1 DEF GuestStates, DiskStates, MaterializedHostKey
      <3>2. guest' = endMutation(g) /\ Goto(r, "done")
        BY <2>2 DEF RestoreOnRequest
      <3> HIDE DEF g
      <3>3. requests'[r].pc = "done"
        BY <3>2, GotoIs DEF GuestInv
      <3> QED
        BY <1>1, <3>1, <3>2, <3>3, AnswersWell
    <2>3. CASE PrepareWorkspace(r)
      BY <2>3, <1>4, <1>5 DEF PrepareWorkspace
    <2>4. CASE StageSeed(r)
      BY <2>4, <1>4, <1>5 DEF StageSeed
    <2>5. CASE PublishSeed(r)
      BY <2>5, <1>4, <1>5 DEF PublishSeed
    <2>6. CASE PlanBatch(r)
      <3>1. CASE Answer(r, "blocked")
        BY <2>6, <3>1, <1>5 DEF PlanBatch
      <3>2. CASE requests' = [requests EXCEPT ![r].pc = "snapshot", ![r].observed = targets] /\ UNCHANGED guest
        <4>1. requests \in [Requests -> RequestStates] /\ targets \in [Items -> TargetContents]
          BY DEF GuestInv, GuestTyped
        <4>2. \A s \in RequestStates : [s EXCEPT !.pc = "snapshot", !.observed = targets] \in RequestStates
          BY <4>1 DEF RequestStates, Running
        <4>3. requests' = [requests EXCEPT ![r] = [requests[r] EXCEPT !.pc = "snapshot", !.observed = targets]]
          BY <3>2
        <4>4. Only(r) /\ requests'[r] = [requests[r] EXCEPT !.pc = "snapshot", !.observed = targets]
          BY <4>1, <4>3 DEF Only
        <4>5. requests' \in [Requests -> RequestStates]
          BY <4>1, <4>2, <4>3
        <4>6. /\ requests'[r].pc = "snapshot" /\ requests'[r].kind = requests[r].kind
              /\ requests'[r].backups = requests[r].backups
          BY <4>1, <4>4 DEF RequestStates
        <4>7. MutationsAreCounted' /\ QuiescingIsQuiet'
          BY <1>1, <3>2, <4>4, <4>6, GoesOn DEF Running
        <4> QED
          BY <1>1, <2>6, <3>2, <4>4, <4>5, <4>6, <4>7 DEF PlanBatch
      <3> QED
        BY <2>6, <3>1, <3>2 DEF PlanBatch
    <2> QED
      BY <2>1, <2>2, <2>3, <2>4, <2>5, <2>6
  <1>7. requests'[r].backups # <<>> => requests'[r].pc \in {"done", "advance"}
    BY <1>2, <1>6
  <1>8. BackupsAreTaken'
    BY <1>6, <1>7, BackupsStay DEF GuestInv
  <1>9. RollbackIsUnderWay'
    <2>1. requests'[r].pc # "rollback" /\ (requests'[r].pc = "failed" => requests[r].backups = <<>>)
      BY <1>2, <1>6
    <2> QED
      BY <1>1, <1>6, <2>1, RollbackStays DEF GuestInv, GuestTyped
  <1> QED
    BY <1>1, <1>3, <1>6, <1>8, <1>9 DEF GuestInv, GuestTyped

\* The requests of a batch that has, or gets, its backups.
LEMMA BatchKeeps ==
  ASSUME GuestInv, NEW r \in Requests,
         SnapshotBatch(r) \/ ObserveItem(r) \/ WriteItem(r) \/ RestoreBackup(r)
  PROVE  GuestInv'
  <1> USE DEF unchangedGuest
  <1>1. /\ requests[r].pc \in Running /\ disk' = disk /\ stops' = stops /\ edits' = edits
        /\ guest \in GuestStates /\ requests \in [Requests -> RequestStates]
        /\ targets \in [Items -> TargetContents] /\ requests[r] \in RequestStates
        /\ requests[r].backups \in [Items -> TargetContents] \cup {<<>>}
    BY DEF SnapshotBatch, ObserveItem, WriteItem, RestoreBackup, Running, Fault, GuestInv, GuestTyped, RequestStates
  <1>2. requests[r].pc # "snapshot" => requests[r].index \in Items /\ requests[r].backups # <<>>
    BY DEF GuestInv, BackupsAreTaken, SnapshotBatch, ObserveItem, WriteItem, RestoreBackup
  <1>3. faults' \in 0..MaxFaults
    BY DEF SnapshotBatch, ObserveItem, WriteItem, RestoreBackup, Fault, GuestInv, GuestTyped
  \* A step to another step.
  <1>4. ASSUME NEW to \in {"observe", "write", "rollback", "advance"}, NEW index \in Items,
               NEW backups \in [Items -> TargetContents],
               requests' = [requests EXCEPT ![r] = [requests[r] EXCEPT !.pc = to, !.index = index, !.backups = backups]],
               guest' = guest, targets' \in [Items -> TargetContents],
               Alone(r)' /\ to = "rollback" => \A j \in Items : j > index => targets'[j] \in {backups[j], "removed"}
        PROVE  GuestInv'
    <2>1. \A s \in RequestStates : [s EXCEPT !.pc = to, !.index = index, !.backups = backups] \in RequestStates
      BY DEF RequestStates, Running
    <2>2. Only(r) /\ requests'[r] = [requests[r] EXCEPT !.pc = to, !.index = index, !.backups = backups]
      BY <1>1, <1>4 DEF Only
    <2>3. requests' \in [Requests -> RequestStates]
      BY <1>1, <1>4, <2>1
    <2>4. /\ requests'[r].pc = to /\ requests'[r].kind = requests[r].kind
          /\ requests'[r].index = index /\ requests'[r].backups = backups /\ backups # <<>>
      BY <1>1, <2>2, BatchIsNotEmpty DEF RequestStates
    <2>5. to \in Running /\ to # "failed"
      BY DEF Running
    <2>6. MutationsAreCounted' /\ QuiescingIsQuiet'
      BY <1>1, <1>4, <2>2, <2>4, <2>5, GoesOn
    <2>7. BackupsAreTaken'
      BY <2>2, <2>4, BackupsStay DEF GuestInv
    <2>8. RollbackIsUnderWay'
      BY <1>4, <2>4, <2>5, RollbackIsOwn
    <2> QED
      BY <1>1, <1>3, <1>4, <2>3, <2>6, <2>7, <2>8 DEF GuestInv, GuestTyped
  \* A step that ends the batch.
  <1>5. ASSUME NEW to \in {"done", "failed"}, Answer(r, to), requests[r].pc # "snapshot",
               targets' \in [Items -> TargetContents],
               Alone(r)' /\ to = "failed" => \A j \in Items : targets'[j] \in {requests[r].backups[j], "removed"}
        PROVE  GuestInv'
    <2>1. /\ guest' \in GuestStates /\ MutationsAreCounted' /\ QuiescingIsQuiet'
          /\ requests' \in [Requests -> RequestStates] /\ Only(r)
          /\ requests'[r].pc = to /\ requests'[r].backups = requests[r].backups
      BY <1>1, <1>5, AnswerAnswers
    <2>2. BackupsAreTaken'
      BY <2>1, BackupsStay DEF GuestInv
    <2>3. RollbackIsUnderWay'
      BY <1>2, <1>5, <2>1, RollbackIsOwn
    <2> QED
      BY <1>1, <1>3, <1>5, <2>1, <2>2, <2>3 DEF GuestInv, GuestTyped
  <1>6. CASE SnapshotBatch(r)
    <2>1. requests' = [requests EXCEPT ![r] = [requests[r] EXCEPT !.pc = "observe", !.index = 1, !.backups = targets]]
      BY <1>6 DEF SnapshotBatch
    <2>2. guest' = guest /\ targets' = targets
      BY <1>6 DEF SnapshotBatch
    <2> QED
      BY <1>1, <1>4, <2>1, <2>2, BatchIsNotEmpty
  <1> DEFINE b == requests[r].backups
             i == requests[r].index
             Goes(to, n) == [requests EXCEPT ![r] = [requests[r] EXCEPT !.pc = to, !.index = n, !.backups = b]]
  <1>7. ASSUME requests[r].pc # "snapshot" PROVE b \in [Items -> TargetContents] /\ i \in Items
    BY <1>1, <1>2, <1>7
  <1>8. \A to : [requests EXCEPT ![r].pc = to] = Goes(to, i)
    BY <1>1 DEF RequestStates
  <1>9. \A to, n : [requests EXCEPT ![r].pc = to, ![r].index = n] = Goes(to, n)
    BY <1>1 DEF RequestStates
  <1>10. CASE ObserveItem(r)
    <2>1. requests[r].pc # "snapshot" /\ guest' = guest /\ targets' = targets
      BY <1>10 DEF ObserveItem
    <2>2. requests' = Goes("write", i) \/ requests' = Goes("rollback", BatchSize)
      BY <1>8, <1>9, <1>10, ZenonT(60) DEF ObserveItem, Goto
    <2>3. \A j \in Items : ~(j > BatchSize)
      OBVIOUS
    <2> QED
      BY <1>1, <1>4, <1>7, <2>1, <2>2, <2>3, BatchIsNotEmpty
  <1>11. CASE WriteItem(r)
    <2>1. requests[r].pc # "snapshot" /\ targets' \in [Items -> TargetContents]
      BY <1>1, <1>7, <1>11 DEF WriteItem, Merged
    <2>2. \/ requests' = Goes("observe", i + 1) /\ i + 1 \in Items /\ guest' = guest
          \/ requests' = Goes("advance", i) /\ guest' = guest
          \/ Answer(r, "done")
          \/ requests' = Goes("rollback", BatchSize) /\ guest' = guest
      <3>1. \/ requests' = [requests EXCEPT ![r].pc = "observe", ![r].index = i + 1] /\ i + 1 \in Items /\ guest' = guest
            \/ requests' = [requests EXCEPT ![r].pc = "advance"] /\ guest' = guest
            \/ Answer(r, "done")
            \/ requests' = [requests EXCEPT ![r].pc = "rollback", ![r].index = BatchSize] /\ guest' = guest
        BY <1>11, Zenon DEF WriteItem, Goto
      <3> HIDE DEF Goes, i
      <3> QED
        BY <1>8, <1>9, <3>1
    <2>3. \A j \in Items : ~(j > BatchSize)
      OBVIOUS
    <2> QED
      BY <1>4, <1>5, <1>7, <2>1, <2>2, <2>3, BatchIsNotEmpty
  <1>12. CASE RestoreBackup(r)
    <2>0. requests[r].pc = "rollback" /\ b \in [Items -> TargetContents] /\ i \in Items
      BY <1>7, <1>12 DEF RestoreBackup
    <2>1. \/ targets' = [j \in Items |-> IF SameFile(i, j) THEN b[j] ELSE targets[j]]
          \/ targets' = [j \in Items |-> IF SameFile(i, j) THEN "removed" ELSE targets[j]]
      BY <1>12 DEF RestoreBackup, Restored, Removed
    <2>2. targets' \in [Items -> TargetContents]
      BY <1>1, <2>0, <2>1
    <2>3. /\ targets'[i] \in {b[i], "removed"}
          /\ \A j \in Items : targets[j] \in {b[j], "removed"} => targets'[j] \in {b[j], "removed"}
      BY <2>0, <2>1 DEF SameFile
    <2>4. CASE i = 1
      <3>1. Answer(r, "failed")
        BY <1>12, <2>4 DEF RestoreBackup, IsLastBackup
      <3>2. Only(r) /\ requests'[r].backups = requests[r].backups
        BY <1>1, <3>1, AnswerAnswers
      <3>3. Alone(r)' => \A j \in Items : j > 1 => targets[j] \in {b[j], "removed"}
        BY <1>1, <2>0, <2>4, <3>2 DEF Alone, Only, GuestInv, RollbackIsUnderWay, IsRestored
      <3>4. Alone(r)' => \A j \in Items : targets'[j] \in {b[j], "removed"}
        BY <2>3, <2>4, <3>3
      <3> QED
        BY <1>5, <2>0, <2>2, <3>1, <3>4
    <2>5. CASE i # 1
      <3>1. i - 1 \in Items /\ guest' = guest
        BY <1>12, <2>0, <2>5 DEF RestoreBackup, IsLastBackup
      <3>2. requests' = [requests EXCEPT ![r].index = i - 1]
        BY <1>12, <2>5 DEF RestoreBackup, IsLastBackup
      <3>3. requests' = Goes("rollback", i - 1)
        BY <1>1, <2>0, <3>2 DEF RequestStates
      <3>4. \A q \in Requests : requests'[q].backups = requests[q].backups
        BY <1>1, <3>2 DEF RequestStates
      <3>5. Alone(r)' => \A j \in Items : j > i => targets[j] \in {b[j], "removed"}
        BY <1>1, <2>0, <3>4 DEF Alone, GuestInv, RollbackIsUnderWay, IsRestored
      <3>6. Alone(r)' => \A j \in Items : j > i - 1 => targets'[j] \in {b[j], "removed"}
        <4>1. \A j \in Items : j > i - 1 => j = i \/ j > i
          BY <2>0
        <4> QED
          BY <2>3, <3>5, <4>1
      <3> QED
        BY <1>4, <2>0, <2>2, <3>1, <3>3, <3>6
    <2> QED
      BY <2>4, <2>5
  <1> QED
    BY <1>6, <1>10, <1>11, <1>12

LEMMA GuestPreserves == GuestInv /\ [GuestNext]_guestVars => GuestInv'
  <1> SUFFICES ASSUME GuestInv, [GuestNext]_guestVars PROVE GuestInv'
    OBVIOUS
  <1>1. ASSUME NEW r \in Requests, Handle(r) PROVE GuestInv'
    BY <1>1, BeginKeeps, MutationKeeps, BatchKeeps, ShutdownKeeps DEF Handle
  <1>2. CASE UNCHANGED guestVars
    <2>1. UNCHANGED <<guest, disk, targets, requests, stops, edits, faults>>
      BY <1>2 DEF guestVars
    <2>2. InFlight' = InFlight
      BY <2>1 DEF InFlight
    <2> QED
      BY <2>1, <2>2 DEF GuestInv, GuestTyped, MutationsAreCounted, QuiescingIsQuiet, BackupsAreTaken,
                        RollbackIsUnderWay, IsRestored, Alone
  <1> QED
    BY <1>1, <1>2, BootKeeps, StopKeeps, UserKeeps, ServeKeeps DEF GuestNext

\* The supervisor, its volume and its requests keep the invariant, whatever requests, stops,
\* faults and edits interleave.
THEOREM GuestInvariant == GuestSpec => []GuestInv
  BY InitGuest, GuestPreserves, PTL DEF GuestSpec

\* What the supervisor, the volume and the handlers hold is of its type, and the counter of
\* control.go is the number of mutations that run.
THEOREM GuestTypeCorrect == GuestSpec => []GuestTypeOK
  <1>1. GuestInv => GuestTypeOK
    <2> SUFFICES ASSUME GuestInv PROVE GuestTypeOK
      OBVIOUS
    <2>1. /\ guest.phase \in {"down", "mounted", "identified", "serving"}
          /\ guest.level \in 0..AgentsValidated /\ guest.key \in HostKeys \cup {None, ImageKey}
      BY DEF GuestInv, GuestTyped, GuestStates
    <2>2. /\ disk.workspace \in {"absent", "empty", "foreign", "seeded", "worked"}
          /\ disk.staging \subseteq Requests /\ disk.private \in BOOLEAN
      BY DEF GuestInv, GuestTyped, DiskStates
    <2>3. \A r \in Requests : requests[r].index \in Items \cup {0}
      BY DEF GuestInv, GuestTyped, RequestStates
    <2> QED
      BY <2>1, <2>2, <2>3 DEF GuestInv, GuestTyped, GuestTypeOK, MutationsAreCounted, InFlight
  <1> QED
    BY <1>1, GuestInvariant, PTL

\* Once a shutdown is prepared nothing mutates the volume, for any number of requests: the
\* counter that quiesce waits for cannot miss one that was admitted before.
THEOREM ShutdownsAreQuiet == GuestSpec => []ShutdownIsQuiet
  <1>1. GuestInv => ShutdownIsQuiet
    BY DEF GuestInv, QuiescingIsQuiet, ShutdownIsQuiet, InFlight
  <1> QED
    BY <1>1, GuestInvariant, PTL

\* A batch that failed alone left every target as it was, or gone with a file that could not be
\* restored, for any number of items and however they share files.
THEOREM FailedBatchesRestore == GuestSpec => []FailedBatchRestores
  <1>1. GuestInv => FailedBatchRestores
    BY DEF GuestInv, RollbackIsUnderWay, IsRestored, FailedBatchRestores, Alone
  <1> QED
    BY <1>1, GuestInvariant, PTL

\* The identity of the Environment and what the User made of the workspace are never replaced.
THEOREM DurableStateIsKept == GuestSpec => DurableStateStays
  <1>1. GuestInv /\ [GuestNext]_guestVars => [KeepsDurableState]_guestVars
    <2> SUFFICES ASSUME GuestInv, GuestNext PROVE KeepsDurableState
      OBVIOUS
    <2>1. disk \in DiskStates
      BY DEF GuestInv, GuestTyped
    <2> USE <2>1 DEF KeepsDurableState, DiskStates
    <2>2. CASE Boot
      BY <2>2 DEF Boot, BootstrapPersistentState, PersistHostIdentity, IdentityIsMissing,
                  RestoreSSHHostIdentity, ActivateHostIdentity
    <2>3. CASE Stop
      BY <2>3 DEF Stop
    <2>4. ASSUME NEW r \in Requests, ServeHTTP(r) \/ Handle(r) PROVE KeepsDurableState
      <3>1. CASE disk' = disk
        BY <3>1
      <3>2. CASE RestoreOnRequest(r)
        BY <3>2 DEF RestoreOnRequest
      <3>3. CASE PrepareWorkspace(r)
        BY <3>3 DEF PrepareWorkspace, Replayed
      <3>4. CASE StageSeed(r)
        BY <3>4 DEF StageSeed
      <3>5. CASE PublishSeed(r)
        BY <3>5 DEF PublishSeed, MayRename
      <3> QED
        BY <2>4, <3>1, <3>2, <3>3, <3>4, <3>5 DEF ServeHTTP, Handle, beginMutation, Advance, PlanBatch,
           SnapshotBatch, ObserveItem, WriteItem, RestoreBackup, Quiesce, QuiesceEnds, PrepareShutdown
    <2>5. CASE EditTarget \/ WorkInWorkspace \/ OpenWorkspace
      BY <2>5 DEF EditTarget, WorkInWorkspace, OpenWorkspace
    <2> QED
      BY <2>2, <2>3, <2>4, <2>5 DEF GuestNext
  <1> QED
    BY <1>1, GuestInvariant, PTL DEF GuestSpec, DurableStateStays


-----------------------------------------------------------------------------
(* SSHProxy *)

Waiting == Preparing \ {"preflight", "dial", "dialed"}
AdmissionCounts == [global : Nat, byEnvironment : [ProxyEnvironments -> Nat]]
IntentRows == [state : {"none", "fresh", "used", "expired"}, op : BOOLEAN]
ActiveOperations == {Nil} \cup [type : {"start", "stop"}, key : StartKeys \cup {Nil}]
RuntimeRows == [status : {"stopped", "starting", "ready", "stopping", "error"},
                boot : Nat, version : Nat \ {0}, active : ActiveOperations]

ProxyTyped ==
    /\ sockets \in [Connections -> Socket]
    /\ admissions \in AdmissionCounts
    /\ intents \in [Intents -> IntentRows]
    /\ runtime \in [ProxyEnvironments -> RuntimeRows]
    /\ DOMAIN operations \subseteq StartKeys
    /\ proxyStops \in 0..MaxRuntimeStops /\ proxyFailures \in 0..MaxFailures

Holders == {c \in Connections : sockets[c].held}
HoldersOf(e) == {c \in Holders : EnvOf(c) = e}

\* The counters are exact, and within their limits.
CountsAreExact ==
    /\ admissions.global = Cardinality(Holders) /\ admissions.global <= MaxWaiting
    /\ \A e \in ProxyEnvironments :
          /\ admissions.byEnvironment[e] = Cardinality(HoldersOf(e))
          /\ admissions.byEnvironment[e] <= MaxWaitingPerEnvironment

\* A connection that was opened has an Intent; it has an admission only where it may wait,
\* and asks for a start, under a key of its own, only when its Intent has no Operation.
SocketsAgree ==
    \A c \in Connections :
        LET s == sockets[c] IN
        /\ s.pc # "none" => s.intent \in Intents /\ intents[s.intent].state # "none"
        /\ s.held => s.pc \in Waiting
        /\ s.spent => s.intent \in Intents /\ intents[s.intent].state = "used" /\ s.pc # "none"
        /\ s.pc \in {"start", "post"} => ~intents[s.intent].op
        /\ s.pc = "post" => s.key \in StartKeys /\ s.key.by = c

SpentOnce ==
    \A c, d \in Connections :
        sockets[c].spent /\ sockets[d].spent /\ sockets[c].intent = sockets[d].intent => c = d

\* A connection that has not asked for a start has no key in operations, and one that asks
\* again asks under the same key.
Unasked == {"none", "preflight", "accepted", "start"}

KeysAgree ==
    \A k \in DOMAIN operations :
        /\ sockets[k.by].pc \notin Unasked
        /\ sockets[k.by].pc = "post" => k = sockets[k.by].key
        /\ ~intents[sockets[k.by].intent].op
        /\ \A l \in DOMAIN operations : l.by = k.by => l = k

ProxyInv == ProxyTyped /\ CountsAreExact /\ SocketsAgree /\ SpentOnce /\ KeysAgree

HIDE GuestAssumption
HIDE KindsAssumption
HIDE BatchAssumption DEF Items, HostKeys, TargetContents, AgentsValidated, DataMounted, SSHReady, ProjectReady
USE ProxyAssumption, LimitsAssumption, IntentAssumption

LEMMA HoldersAreFinite ==
  /\ IsFiniteSet(Holders) /\ Cardinality(Holders) \in Nat
  /\ \A e \in ProxyEnvironments : IsFiniteSet(HoldersOf(e)) /\ Cardinality(HoldersOf(e)) \in Nat
  <1>1. IsFiniteSet(Holders)
    BY FS_Subset DEF Holders
  <1>2. \A e \in ProxyEnvironments : IsFiniteSet(HoldersOf(e))
    BY <1>1, FS_Subset DEF HoldersOf
  <1> QED
    BY <1>1, <1>2, FS_CardinalityType

\* What one connection does leaves the others as they are.
Others(c) == \A d \in Connections \ {c} : sockets'[d] = sockets[d]

LEMMA EnvironmentKnown ==
  ASSUME NEW i \in Intents
  PROVE  IntentEnv[i] \in ProxyEnvironments
  BY DEF ProxyEnvironments

LEMMA CountsStay ==
  ASSUME CountsAreExact, NEW c \in Connections, Others(c),
         sockets'[c].held = sockets[c].held, sockets[c].held => sockets'[c].intent = sockets[c].intent,
         admissions' = admissions
  PROVE  CountsAreExact'
  <1>1. Holders' = Holders /\ \A e \in ProxyEnvironments : HoldersOf(e)' = HoldersOf(e)
    BY DEF Holders, HoldersOf, EnvOf, Others
  <1> QED
    BY <1>1 DEF CountsAreExact

LEMMA CountsReleased ==
  ASSUME CountsAreExact, admissions \in AdmissionCounts, NEW c \in Connections, Others(c),
         sockets[c].held \in BOOLEAN, sockets[c].held => sockets[c].intent \in Intents,
         ~sockets'[c].held, releaseWaitingAdmission(c)
  PROVE  CountsAreExact' /\ admissions' \in AdmissionCounts
  <1>1. CASE ~sockets[c].held
    <2>1. admissions' = admissions /\ sockets'[c].held = FALSE /\ sockets[c].held = FALSE
      BY <1>1 DEF releaseWaitingAdmission
    <2>2. Holders' = Holders /\ \A e \in ProxyEnvironments : HoldersOf(e)' = HoldersOf(e)
      BY <2>1, <1>1 DEF Holders, HoldersOf, EnvOf, Others
    <2> QED
      BY <2>1, <2>2 DEF CountsAreExact
  <1>2. CASE sockets[c].held
    <2>1. PICK f \in ProxyEnvironments : f = EnvOf(c)
      BY <1>2, EnvironmentKnown DEF EnvOf
    <2>2. c \in Holders /\ c \in HoldersOf(f) /\ Holders' = Holders \ {c}
      BY <1>2, <2>1 DEF Holders, HoldersOf, Others
    <2>3. \A e \in ProxyEnvironments : HoldersOf(e)' = HoldersOf(e) \ {c}
      BY <1>2 DEF Holders, HoldersOf, Others, EnvOf
    <2>4. \A e \in ProxyEnvironments : e # f => HoldersOf(e)' = HoldersOf(e)
      BY <2>1, <2>3 DEF HoldersOf
    <2>5. /\ Cardinality(Holders \ {c}) = Cardinality(Holders) - 1 /\ Cardinality(Holders \ {c}) \in Nat
      BY <2>2, HoldersAreFinite, FS_RemoveElement, FS_CardinalityType
    <2>6. /\ Cardinality(HoldersOf(f) \ {c}) = Cardinality(HoldersOf(f)) - 1
          /\ Cardinality(HoldersOf(f) \ {c}) \in Nat
      <3>1. IsFiniteSet(HoldersOf(f))
        BY <2>1, HoldersAreFinite
      <3> QED
        BY <2>2, <3>1, FS_RemoveElement, FS_CardinalityType
    <2>7. admissions' = [admissions EXCEPT !.global = @ - 1, !.byEnvironment[f] = @ - 1]
      BY <1>2, <2>1 DEF releaseWaitingAdmission
    <2>8. /\ admissions.global = Cardinality(Holders) /\ admissions.global <= MaxWaiting
          /\ \A e \in ProxyEnvironments :
                /\ admissions.byEnvironment[e] = Cardinality(HoldersOf(e))
                /\ admissions.byEnvironment[e] <= MaxWaitingPerEnvironment
      BY DEF CountsAreExact
    <2>9. admissions.global - 1 \in Nat /\ admissions.byEnvironment[f] - 1 \in Nat
      BY <2>1, <2>5, <2>6, <2>8
    <2>10. /\ admissions' \in AdmissionCounts /\ admissions'.global = admissions.global - 1
           /\ admissions'.byEnvironment[f] = admissions.byEnvironment[f] - 1
           /\ \A e \in ProxyEnvironments : e # f => admissions'.byEnvironment[e] = admissions.byEnvironment[e]
           /\ admissions.global \in Nat /\ admissions.byEnvironment[f] \in Nat
      BY <2>1, <2>7, <2>9 DEF AdmissionCounts
    <2>11. /\ admissions'.global = Cardinality(Holders') /\ admissions'.global <= MaxWaiting
      BY <2>2, <2>5, <2>8, <2>10
    <2>12. ASSUME NEW e \in ProxyEnvironments
           PROVE  /\ admissions'.byEnvironment[e] = Cardinality(HoldersOf(e)')
                  /\ admissions'.byEnvironment[e] <= MaxWaitingPerEnvironment
      <3>1. CASE e = f
        <4>1. HoldersOf(e)' = HoldersOf(f) \ {c}
          BY <2>1, <2>3, <3>1
        <4> QED
          BY <2>1, <2>6, <2>8, <2>9, <2>10, <3>1, <4>1
      <3>2. CASE e # f
        BY <2>4, <2>8, <2>10, <3>2
      <3> QED
        BY <3>1, <3>2
    <2> QED
      BY <2>10, <2>11, <2>12 DEF CountsAreExact
  <1> QED
    BY <1>1, <1>2

LEMMA CountsAcquired ==
  ASSUME CountsAreExact, admissions \in AdmissionCounts, NEW c \in Connections, Others(c),
         ~sockets[c].held, sockets[c].intent \in Intents, sockets'[c].intent = sockets[c].intent,
         sockets'[c].held, HasRoom(EnvOf(c)), acquire(EnvOf(c))
  PROVE  CountsAreExact' /\ admissions' \in AdmissionCounts
  <1>1. PICK f \in ProxyEnvironments : f = EnvOf(c)
    BY EnvironmentKnown DEF EnvOf
  <1>2. c \notin Holders /\ c \notin HoldersOf(f) /\ Holders' = Holders \cup {c}
    BY <1>1 DEF Holders, HoldersOf, Others
  <1>3. HoldersOf(f)' = HoldersOf(f) \cup {c}
    BY <1>1 DEF Holders, HoldersOf, Others, EnvOf
  <1>4. \A e \in ProxyEnvironments : e # f => HoldersOf(e)' = HoldersOf(e)
    BY <1>1 DEF Holders, HoldersOf, Others, EnvOf
  <1>5. Cardinality(Holders \cup {c}) = Cardinality(Holders) + 1
    BY <1>2, HoldersAreFinite, FS_AddElement
  <1>6. Cardinality(HoldersOf(f) \cup {c}) = Cardinality(HoldersOf(f)) + 1
    <2>1. IsFiniteSet(HoldersOf(f))
      BY <1>1, HoldersAreFinite
    <2> QED
      BY <1>2, <2>1, FS_AddElement
  <1>7. admissions' = [admissions EXCEPT !.global = @ + 1, !.byEnvironment[f] = @ + 1]
    BY <1>1 DEF acquire
  <1>8. admissions.global < MaxWaiting /\ admissions.byEnvironment[f] < MaxWaitingPerEnvironment
    BY <1>1 DEF HasRoom
  <1>9. /\ admissions.global = Cardinality(Holders) /\ admissions.global <= MaxWaiting
        /\ \A e \in ProxyEnvironments :
              /\ admissions.byEnvironment[e] = Cardinality(HoldersOf(e))
              /\ admissions.byEnvironment[e] <= MaxWaitingPerEnvironment
    BY DEF CountsAreExact
  <1>10. /\ admissions' \in AdmissionCounts /\ admissions'.global = admissions.global + 1
         /\ admissions'.byEnvironment[f] = admissions.byEnvironment[f] + 1
         /\ \A e \in ProxyEnvironments : e # f => admissions'.byEnvironment[e] = admissions.byEnvironment[e]
         /\ admissions.global \in Nat /\ admissions.byEnvironment[f] \in Nat
    <2>1. /\ admissions.global \in Nat /\ admissions.byEnvironment[f] \in Nat
          /\ admissions.global + 1 \in Nat /\ admissions.byEnvironment[f] + 1 \in Nat
      BY DEF AdmissionCounts
    <2> QED
      BY <1>1, <1>7, <2>1 DEF AdmissionCounts
  <1>11. admissions'.global = Cardinality(Holders') /\ admissions'.global <= MaxWaiting
    BY <1>2, <1>5, <1>8, <1>9, <1>10
  <1>12. ASSUME NEW e \in ProxyEnvironments
         PROVE  /\ admissions'.byEnvironment[e] = Cardinality(HoldersOf(e)')
                /\ admissions'.byEnvironment[e] <= MaxWaitingPerEnvironment
    <2>1. CASE e = f
      <3>1. Cardinality(HoldersOf(e)') = Cardinality(HoldersOf(f)) + 1
        BY <1>3, <1>6, <2>1
      <3> QED
        BY <1>1, <1>8, <1>9, <1>10, <2>1, <3>1
    <2>2. CASE e # f
      BY <1>4, <1>9, <1>10, <2>2
    <2> QED
      BY <2>1, <2>2
  <1> QED
    BY <1>10, <1>11, <1>12 DEF CountsAreExact

\* A connection that was opened and is beyond its own start.
LEMMA LaterSockets ==
  ASSUME ProxyInv, NEW c \in Connections, Others(c), intents' = intents,
         sockets[c].pc # "none", sockets'[c].intent = sockets[c].intent, sockets'[c].spent = sockets[c].spent,
         sockets'[c].pc \notin Unasked \cup {"post"}, sockets'[c].held => sockets'[c].pc \in Waiting
  PROVE  SocketsAgree' /\ SpentOnce'
  <1>1. SocketsAgree'
    <2> SUFFICES ASSUME NEW d \in Connections
                 PROVE  LET s == sockets'[d] IN
                        /\ s.pc # "none" => s.intent \in Intents /\ intents'[s.intent].state # "none"
                        /\ s.held => s.pc \in Waiting
                        /\ s.spent => s.intent \in Intents /\ intents'[s.intent].state = "used" /\ s.pc # "none"
                        /\ s.pc \in {"start", "post"} => ~intents'[s.intent].op
                        /\ s.pc = "post" => s.key \in StartKeys /\ s.key.by = d
      BY DEF SocketsAgree
    <2>1. CASE d = c
      BY <2>1 DEF ProxyInv, SocketsAgree, Unasked
    <2>2. CASE d # c
      <3>1. sockets'[d] = sockets[d]
        BY <2>2 DEF Others
      <3> QED
        BY <3>1 DEF ProxyInv, SocketsAgree
    <2> QED
      BY <2>1, <2>2
  <1>2. SpentOnce'
    <2>1. \A d \in Connections : sockets'[d].spent = sockets[d].spent /\ sockets'[d].intent = sockets[d].intent
      BY DEF Others
    <2> QED
      BY <2>1 DEF ProxyInv, SpentOnce
  <1> QED
    BY <1>1, <1>2

LEMMA LaterKeeps ==
  ASSUME ProxyInv, NEW c \in Connections, Others(c), DOMAIN operations' = DOMAIN operations, intents' = intents,
         sockets[c].pc # "none", sockets'[c].intent = sockets[c].intent, sockets'[c].spent = sockets[c].spent,
         sockets'[c].pc \notin Unasked \cup {"post"}, sockets'[c].held => sockets'[c].pc \in Waiting
  PROVE  SocketsAgree' /\ SpentOnce' /\ KeysAgree'
  <1>1. SocketsAgree' /\ SpentOnce'
    BY LaterSockets
  <1>3. KeysAgree'
    <2>1. \A k \in DOMAIN operations : k.by \in Connections
      BY DEF ProxyInv, ProxyTyped, StartKeys
    <2>2. ASSUME NEW k \in DOMAIN operations'
          PROVE  /\ sockets'[k.by].pc \notin Unasked
                 /\ sockets'[k.by].pc = "post" => k = sockets'[k.by].key
                 /\ ~intents'[sockets'[k.by].intent].op
      <3>1. k \in DOMAIN operations /\ k.by \in Connections
        BY <2>1
      <3>2. CASE k.by = c
        BY <3>1, <3>2 DEF ProxyInv, KeysAgree
      <3>3. CASE k.by # c
        <4>1. sockets'[k.by] = sockets[k.by]
          BY <3>1, <3>3 DEF Others
        <4> QED
          BY <3>1, <4>1 DEF ProxyInv, KeysAgree
      <3> QED
        BY <3>2, <3>3
    <2> QED
      BY <2>2 DEF ProxyInv, KeysAgree
  <1> QED
    BY <1>1, <1>3

LEMMA EndsIs ==
  ASSUME ProxyTyped, NEW c \in Connections, Ends(c)
  PROVE  /\ sockets' \in [Connections -> Socket] /\ Others(c)
         /\ sockets'[c].pc = "ended" /\ ~sockets'[c].held
         /\ sockets'[c].intent = sockets[c].intent /\ sockets'[c].spent = sockets[c].spent
  <1>1. sockets \in [Connections -> Socket]
    BY DEF ProxyTyped
  <1>2. sockets' = [sockets EXCEPT ![c] = [sockets[c] EXCEPT !.pc = "ended", !.held = FALSE, !.route = 0, !.key = Nil]]
    BY DEF Ends
  <1>3. \A s \in Socket : [s EXCEPT !.pc = "ended", !.held = FALSE, !.route = 0, !.key = Nil] \in Socket
    BY DEF Socket
  <1>4. Others(c) /\ sockets'[c] = [sockets[c] EXCEPT !.pc = "ended", !.held = FALSE, !.route = 0, !.key = Nil]
    BY <1>1, <1>2 DEF Others
  <1> QED
    BY <1>1, <1>2, <1>3, <1>4 DEF Socket

LEMMA ReleasedIs ==
  ASSUME ProxyTyped, NEW c \in Connections, NEW to \in Preparing, NEW boot \in Nat, Released(c, to, boot)
  PROVE  /\ sockets' \in [Connections -> Socket] /\ Others(c)
         /\ sockets'[c].pc = to /\ ~sockets'[c].held /\ sockets'[c].route = boot
         /\ sockets'[c].intent = sockets[c].intent /\ sockets'[c].spent = sockets[c].spent
  <1>1. sockets \in [Connections -> Socket]
    BY DEF ProxyTyped
  <1>2. sockets' = [sockets EXCEPT ![c] = [sockets[c] EXCEPT !.pc = to, !.held = FALSE, !.route = boot]]
    BY DEF Released
  <1>3. \A s \in Socket : [s EXCEPT !.pc = to, !.held = FALSE, !.route = boot] \in Socket
    BY DEF Socket
  <1>4. Others(c) /\ sockets'[c] = [sockets[c] EXCEPT !.pc = to, !.held = FALSE, !.route = boot]
    BY <1>1, <1>2 DEF Others
  <1> QED
    BY <1>1, <1>2, <1>3, <1>4 DEF Socket

LEMMA MovesIs ==
  ASSUME ProxyTyped, NEW c \in Connections, NEW to \in Preparing \cup {"bridged", "half"}, Moves(c, to)
  PROVE  /\ sockets' \in [Connections -> Socket] /\ Others(c) /\ admissions' = admissions
         /\ sockets'[c].pc = to /\ sockets'[c].held = sockets[c].held
         /\ sockets'[c].intent = sockets[c].intent /\ sockets'[c].spent = sockets[c].spent
  <1>1. sockets \in [Connections -> Socket]
    BY DEF ProxyTyped
  <1>2. sockets' = [sockets EXCEPT ![c] = [sockets[c] EXCEPT !.pc = to]]
    BY DEF Moves
  <1>3. \A s \in Socket : [s EXCEPT !.pc = to] \in Socket
    BY DEF Socket
  <1>4. Others(c) /\ sockets'[c] = [sockets[c] EXCEPT !.pc = to]
    BY <1>1, <1>2 DEF Others
  <1> QED
    BY <1>1, <1>2, <1>3, <1>4 DEF Socket, Moves

LEMMA ReleaseKeeps ==
  ASSUME ProxyInv, NEW c \in Connections, Others(c), ~sockets'[c].held, releaseWaitingAdmission(c)
  PROVE  CountsAreExact' /\ admissions' \in AdmissionCounts
  <1>1. sockets[c].held \in BOOLEAN /\ (sockets[c].held => sockets[c].intent \in Intents)
    BY DEF ProxyInv, ProxyTyped, SocketsAgree, Socket, Waiting, Preparing
  <1> QED
    BY <1>1, CountsReleased DEF ProxyInv, ProxyTyped

\* The step of a connection that ends, or that is beyond its own start.
LEMMA EndsKeeps ==
  ASSUME ProxyInv, NEW c \in Connections, Ends(c), sockets[c].pc # "none",
         UNCHANGED <<intents, runtime, operations, proxyStops, proxyFailures>>
  PROVE  ProxyInv'
  <1>1. /\ sockets' \in [Connections -> Socket] /\ Others(c)
        /\ sockets'[c].pc = "ended" /\ ~sockets'[c].held
        /\ sockets'[c].intent = sockets[c].intent /\ sockets'[c].spent = sockets[c].spent
    BY EndsIs DEF ProxyInv
  <1>2. CountsAreExact' /\ admissions' \in AdmissionCounts
    BY <1>1, ReleaseKeeps DEF Ends
  <1>3. SocketsAgree' /\ SpentOnce' /\ KeysAgree'
    <2>1. "ended" \notin Unasked \cup {"post"} /\ DOMAIN operations' = DOMAIN operations
      BY DEF Unasked
    <2> QED
      BY <1>1, <2>1, LaterKeeps
  <1> QED
    BY <1>1, <1>2, <1>3 DEF ProxyInv, ProxyTyped

LEMMA ReleasedKeeps ==
  ASSUME ProxyInv, NEW c \in Connections, NEW to \in {"confirm", "dial"}, NEW boot \in Nat,
         Released(c, to, boot), sockets[c].pc # "none",
         UNCHANGED <<intents, runtime, operations, proxyStops, proxyFailures>>
  PROVE  ProxyInv'
  <1>1. to \in Preparing /\ to \notin Unasked \cup {"post"} /\ DOMAIN operations' = DOMAIN operations
    BY DEF Preparing, Unasked
  <1>2. /\ sockets' \in [Connections -> Socket] /\ Others(c)
        /\ sockets'[c].pc = to /\ ~sockets'[c].held
        /\ sockets'[c].intent = sockets[c].intent /\ sockets'[c].spent = sockets[c].spent
    BY <1>1, ReleasedIs DEF ProxyInv
  <1>3. CountsAreExact' /\ admissions' \in AdmissionCounts
    BY <1>2, ReleaseKeeps DEF Released
  <1>4. SocketsAgree' /\ SpentOnce' /\ KeysAgree'
    BY <1>1, <1>2, LaterKeeps
  <1> QED
    BY <1>2, <1>3, <1>4 DEF ProxyInv, ProxyTyped

LEMMA MovesKeeps ==
  ASSUME ProxyInv, NEW c \in Connections,
         NEW to \in {"settling", "settle", "wait", "rewait", "dialed", "bridged", "half"},
         Moves(c, to), sockets[c].pc # "none", to \in {"dialed", "bridged", "half"} => ~sockets[c].held,
         UNCHANGED <<intents, runtime, operations, proxyStops, proxyFailures>>
  PROVE  ProxyInv'
  <1>1. /\ to \in Preparing \cup {"bridged", "half"} /\ to \notin Unasked \cup {"post"}
        /\ to \in Waiting \/ ~sockets[c].held
        /\ DOMAIN operations' = DOMAIN operations
    BY DEF Preparing, Unasked, Waiting
  <1>2. /\ sockets' \in [Connections -> Socket] /\ Others(c) /\ admissions' = admissions
        /\ sockets'[c].pc = to /\ sockets'[c].held = sockets[c].held
        /\ sockets'[c].intent = sockets[c].intent /\ sockets'[c].spent = sockets[c].spent
    BY <1>1, MovesIs DEF ProxyInv
  <1>3. CountsAreExact'
    BY <1>2, CountsStay DEF ProxyInv
  <1>4. SocketsAgree' /\ SpentOnce' /\ KeysAgree'
    BY <1>1, <1>2, LaterKeeps
  <1> QED
    BY <1>2, <1>3, <1>4 DEF ProxyInv, ProxyTyped

LEMMA RouteIsBoot ==
  ASSUME ProxyTyped, NEW e \in ProxyEnvironments
  PROVE  /\ ResolveSSH(e) \in Int
         /\ ResolveSSH(e) > 0 => runtime[e].status = "ready" /\ ResolveSSH(e) = runtime[e].boot /\ ResolveSSH(e) \in Nat
  <1>1. runtime[e] \in RuntimeRows
    BY DEF ProxyTyped
  <1>2. runtime[e].boot \in Nat
    BY <1>1 DEF RuntimeRows
  <1> QED
    BY <1>2 DEF ResolveSSH

LEMMA EnvironmentOfConnection ==
  ASSUME ProxyInv, NEW c \in Connections, sockets[c].pc # "none"
  PROVE  /\ sockets[c].intent \in Intents /\ EnvOf(c) \in ProxyEnvironments
         /\ ResolveSSH(EnvOf(c)) \in Int
         /\ ResolveSSH(EnvOf(c)) > 0 => ResolveSSH(EnvOf(c)) \in Nat
  <1>1. sockets[c].intent \in Intents
    BY DEF ProxyInv, SocketsAgree
  <1>2. EnvOf(c) \in ProxyEnvironments
    BY <1>1, EnvironmentKnown DEF EnvOf
  <1> QED
    BY <1>1, <1>2, RouteIsBoot DEF ProxyInv

\* A connection that does not wait and is admitted to.
LEMMA AdmittedKeeps ==
  ASSUME ProxyInv, NEW c \in Connections, NEW to \in {"accepted", "rewait"}, sockets[c].pc \in {"preflight", "confirm"},
         ~sockets[c].held, HasRoom(EnvOf(c)), acquire(EnvOf(c)),
         sockets' = [sockets EXCEPT ![c].pc = to, ![c].held = TRUE]
  PROVE  /\ sockets' \in [Connections -> Socket] /\ Others(c)
         /\ sockets'[c].pc = to /\ sockets'[c].held
         /\ sockets'[c].intent = sockets[c].intent /\ sockets'[c].spent = sockets[c].spent
         /\ CountsAreExact' /\ admissions' \in AdmissionCounts
  <1> DEFINE s == [sockets[c] EXCEPT !.pc = to, !.held = TRUE]
  <1>1. sockets \in [Connections -> Socket]
    BY DEF ProxyInv, ProxyTyped
  <1>2. sockets' = [sockets EXCEPT ![c] = s]
    OBVIOUS
  <1>3. /\ s \in Socket /\ s.pc = to /\ s.held /\ s.intent = sockets[c].intent /\ s.spent = sockets[c].spent
    BY <1>1 DEF Socket, Preparing
  <1> HIDE DEF s
  <1>4. Others(c) /\ sockets'[c] = s
    BY <1>1, <1>2 DEF Others
  <1>5. sockets' \in [Connections -> Socket]
    BY <1>1, <1>2, <1>3
  <1>6. sockets[c].intent \in Intents
    BY EnvironmentOfConnection
  <1> QED
    BY <1>3, <1>4, <1>5, <1>6, CountsAcquired DEF ProxyInv, ProxyTyped

LEMMA SettleKeeps ==
  ASSUME ProxyInv, NEW c \in Connections, Settle(c)
  PROVE  ProxyInv'
  <1>1. sockets[c].pc # "none" /\ UNCHANGED <<intents, runtime, operations, proxyStops, proxyFailures>>
    BY DEF Settle
  <1>2. ResolveSSH(EnvOf(c)) > 0 => ResolveSSH(EnvOf(c)) \in Nat
    BY <1>1, EnvironmentOfConnection
  <1>3. \/ ResolveSSH(EnvOf(c)) > 0 /\ Released(c, "confirm", ResolveSSH(EnvOf(c)))
        \/ Ends(c) \/ Moves(c, "settle")
    BY DEF Settle
  <1> QED
    BY <1>1, <1>2, <1>3, EndsKeeps, ReleasedKeeps, MovesKeeps

LEMMA WaitKeeps ==
  ASSUME ProxyInv, NEW c \in Connections, waitForRoute(c)
  PROVE  ProxyInv'
  <1>1. sockets[c].pc # "none" /\ UNCHANGED <<intents, runtime, operations, proxyStops, proxyFailures>>
    BY DEF waitForRoute
  <1>2. ResolveSSH(EnvOf(c)) > 0 => ResolveSSH(EnvOf(c)) \in Nat
    BY <1>1, EnvironmentOfConnection
  <1>3. CASE ResolveSSH(EnvOf(c)) > 0 /\ Released(c, "confirm", ResolveSSH(EnvOf(c)))
    BY <1>1, <1>2, <1>3, ReleasedKeeps
  <1>4. CASE Ends(c)
    BY <1>1, <1>4, EndsKeeps
  <1>5. ASSUME NEW route \in Nat, sockets' = [sockets EXCEPT ![c].pc = "confirm", ![c].route = route],
               admissions' = admissions
        PROVE  ProxyInv'
    <2>1. sockets \in [Connections -> Socket]
      BY DEF ProxyInv, ProxyTyped
    <2>2. sockets' = [sockets EXCEPT ![c] = [sockets[c] EXCEPT !.pc = "confirm", !.route = route]]
      BY <1>5
    <2>3. \A s \in Socket : [s EXCEPT !.pc = "confirm", !.route = route] \in Socket
      BY DEF Socket, Preparing
    <2>4. Others(c) /\ sockets'[c] = [sockets[c] EXCEPT !.pc = "confirm", !.route = route]
      BY <2>1, <2>2 DEF Others
    <2>5. /\ sockets' \in [Connections -> Socket]
          /\ sockets'[c].pc = "confirm" /\ sockets'[c].held = sockets[c].held
          /\ sockets'[c].intent = sockets[c].intent /\ sockets'[c].spent = sockets[c].spent
      BY <2>1, <2>2, <2>3, <2>4 DEF Socket
    <2>6. "confirm" \notin Unasked \cup {"post"} /\ "confirm" \in Waiting /\ DOMAIN operations' = DOMAIN operations
      BY <1>1 DEF Unasked, Waiting, Preparing
    <2>7. SocketsAgree' /\ SpentOnce' /\ KeysAgree'
      BY <1>1, <2>4, <2>5, <2>6, LaterKeeps
    <2>8. CountsAreExact'
      BY <1>5, <2>4, <2>5, CountsStay DEF ProxyInv
    <2> QED
      BY <1>1, <1>5, <2>5, <2>7, <2>8 DEF ProxyInv, ProxyTyped
  <1> QED
    BY <1>2, <1>3, <1>4, <1>5 DEF waitForRoute

LEMMA ConfirmKeeps ==
  ASSUME ProxyInv, NEW c \in Connections, confirmRouteBeforeDial(c)
  PROVE  ProxyInv'
  <1>1. sockets[c].pc = "confirm" /\ UNCHANGED <<intents, runtime, operations, proxyStops, proxyFailures>>
    BY DEF confirmRouteBeforeDial
  <1>2. sockets[c].route \in Nat
    BY DEF ProxyInv, ProxyTyped, Socket
  <1>3. CASE Released(c, "dial", sockets[c].route)
    BY <1>1, <1>2, <1>3, ReleasedKeeps
  <1>4. CASE Ends(c)
    BY <1>1, <1>4, EndsKeeps
  <1>5. CASE Moves(c, "rewait")
    BY <1>1, <1>5, MovesKeeps
  <1>6. CASE /\ ~sockets[c].held /\ HasRoom(EnvOf(c)) /\ acquire(EnvOf(c))
             /\ sockets' = [sockets EXCEPT ![c].pc = "rewait", ![c].held = TRUE]
    <2>1. /\ sockets' \in [Connections -> Socket] /\ Others(c)
          /\ sockets'[c].pc = "rewait" /\ sockets'[c].held
          /\ sockets'[c].intent = sockets[c].intent /\ sockets'[c].spent = sockets[c].spent
          /\ CountsAreExact' /\ admissions' \in AdmissionCounts
      BY <1>1, <1>6, AdmittedKeeps
    <2>2. "rewait" \notin Unasked \cup {"post"} /\ "rewait" \in Waiting /\ DOMAIN operations' = DOMAIN operations
      BY <1>1 DEF Unasked, Waiting, Preparing
    <2>3. SocketsAgree' /\ SpentOnce' /\ KeysAgree'
      BY <1>1, <2>1, <2>2, LaterKeeps
    <2> QED
      BY <1>1, <2>1, <2>3 DEF ProxyInv, ProxyTyped
  <1> QED
    BY <1>3, <1>4, <1>5, <1>6 DEF confirmRouteBeforeDial

LEMMA BridgeKeeps ==
  ASSUME ProxyInv, NEW c \in Connections,
         dialRuntime(c) \/ Ready(c) \/ StartTimeout(c) \/ watchPreBridgeClient(c) \/ bridge(c)
  PROVE  ProxyInv'
  <1>1. sockets[c].pc # "none" /\ UNCHANGED <<intents, runtime, operations, proxyStops, proxyFailures>>
    BY DEF dialRuntime, Ready, StartTimeout, watchPreBridgeClient, bridge, Timed, Preparing
  <1>2. \/ Ends(c)
        \/ sockets[c].pc \in {"dial", "dialed", "bridged"}
           /\ (Moves(c, "dialed") \/ Moves(c, "bridged") \/ Moves(c, "half"))
    BY DEF dialRuntime, Ready, StartTimeout, watchPreBridgeClient, bridge
  <1>3. sockets[c].pc \in {"dial", "dialed", "bridged"} => ~sockets[c].held
    BY DEF ProxyInv, SocketsAgree, Waiting, Preparing
  <1> QED
    BY <1>1, <1>2, <1>3, EndsKeeps, MovesKeeps

\* The steps up to a connection's own start: what it becomes is looked at.
LEMMA EarlyKeeps ==
  ASSUME ProxyInv, NEW c \in Connections, Others(c), intents' = intents,
         DOMAIN operations' = DOMAIN operations,
         NEW s \in Socket, sockets'[c] = s, s.spent = sockets[c].spent,
         s.spent => s.intent = sockets[c].intent,
         s.pc # "none" /\ s.intent \in Intents /\ intents[s.intent].state # "none",
         s.held => s.pc \in Waiting,
         s.pc \in {"start", "post"} => ~intents[s.intent].op,
         s.pc = "post" => s.key \in StartKeys /\ s.key.by = c,
         sockets[c].pc \in Unasked
  PROVE  SocketsAgree' /\ SpentOnce' /\ KeysAgree'
  <1>1. SocketsAgree'
    <2> SUFFICES ASSUME NEW d \in Connections
                 PROVE  LET t == sockets'[d] IN
                        /\ t.pc # "none" => t.intent \in Intents /\ intents'[t.intent].state # "none"
                        /\ t.held => t.pc \in Waiting
                        /\ t.spent => t.intent \in Intents /\ intents'[t.intent].state = "used" /\ t.pc # "none"
                        /\ t.pc \in {"start", "post"} => ~intents'[t.intent].op
                        /\ t.pc = "post" => t.key \in StartKeys /\ t.key.by = d
      BY DEF SocketsAgree
    <2>1. CASE d = c
      BY <2>1 DEF ProxyInv, SocketsAgree
    <2>2. CASE d # c
      <3>1. sockets'[d] = sockets[d]
        BY <2>2 DEF Others
      <3> QED
        BY <3>1 DEF ProxyInv, SocketsAgree
    <2> QED
      BY <2>1, <2>2
  <1>2. SpentOnce'
    <2>1. \A d \in Connections : /\ sockets'[d].spent = sockets[d].spent
                                 /\ sockets'[d].spent => sockets'[d].intent = sockets[d].intent
      BY DEF Others
    <2> QED
      BY <2>1 DEF ProxyInv, SpentOnce
  <1>3. KeysAgree'
    <2>1. \A k \in DOMAIN operations : k.by \in Connections /\ k.by # c
      BY DEF ProxyInv, ProxyTyped, StartKeys, KeysAgree
    <2>2. \A k \in DOMAIN operations' : k \in DOMAIN operations /\ sockets'[k.by] = sockets[k.by]
      BY <2>1 DEF Others
    <2> QED
      BY <2>2 DEF ProxyInv, KeysAgree
  <1> QED
    BY <1>1, <1>2, <1>3

LEMMA OpenKeeps ==
  ASSUME ProxyInv, NEW c \in Connections, NEW i \in Intents, Open(c, i)
  PROVE  ProxyInv'
  <1>1. PICK to \in {"preflight", "ended"} : sockets' = [sockets EXCEPT ![c].intent = i, ![c].pc = to]
    BY DEF Open
  <1>2. /\ sockets[c].pc = "none" /\ intents[i].state # "none"
        /\ UNCHANGED <<admissions, intents, runtime, operations, proxyStops, proxyFailures>>
    BY DEF Open
  <1>3. ~sockets[c].held /\ ~sockets[c].spent
    BY <1>2 DEF ProxyInv, SocketsAgree, Waiting, Preparing
  <1>4. sockets \in [Connections -> Socket]
    BY DEF ProxyInv, ProxyTyped
  <1> DEFINE s == [sockets[c] EXCEPT !.intent = i, !.pc = to]
  <1>5. sockets' = [sockets EXCEPT ![c] = s]
    BY <1>1
  <1>6. /\ s \in Socket /\ s.pc = to /\ s.intent = i /\ s.held = sockets[c].held /\ s.spent = sockets[c].spent
    BY <1>4 DEF Socket, Preparing
  <1> HIDE DEF s
  <1>7. sockets' \in [Connections -> Socket] /\ Others(c) /\ sockets'[c] = s
    BY <1>4, <1>5, <1>6 DEF Others
  <1>8. CountsAreExact'
    BY <1>2, <1>3, <1>6, <1>7, CountsStay DEF ProxyInv
  <1>9. SocketsAgree' /\ SpentOnce' /\ KeysAgree'
    <2>1. sockets[c].pc \in Unasked /\ DOMAIN operations' = DOMAIN operations
      BY <1>2 DEF Unasked
    <2> QED
      BY <1>2, <1>3, <1>6, <1>7, <2>1, EarlyKeeps
  <1> QED
    BY <1>2, <1>7, <1>8, <1>9 DEF ProxyInv, ProxyTyped

LEMMA PreflightKeeps ==
  ASSUME ProxyInv, NEW c \in Connections, Preflight(c)
  PROVE  ProxyInv'
  <1>1. sockets[c].pc = "preflight" /\ UNCHANGED <<intents, runtime, operations, proxyStops, proxyFailures>>
    BY DEF Preflight
  <1>2. /\ ~sockets[c].held /\ sockets[c].intent \in Intents /\ intents[sockets[c].intent].state # "none"
    BY <1>1 DEF ProxyInv, SocketsAgree, Waiting, Preparing
  <1>3. ResolveSSH(EnvOf(c)) > 0 => ResolveSSH(EnvOf(c)) \in Nat
    BY <1>1, EnvironmentOfConnection
  <1>4. /\ sockets[c].pc \in Unasked /\ DOMAIN operations' = DOMAIN operations /\ "accepted" \in Preparing
        /\ "accepted" \in Waiting
    BY <1>1 DEF Unasked, Preparing, Waiting
  <1>5. ASSUME sockets' \in [Connections -> Socket], Others(c), sockets'[c].pc = "accepted",
               sockets'[c].intent = sockets[c].intent, sockets'[c].spent = sockets[c].spent,
               CountsAreExact', admissions' \in AdmissionCounts
        PROVE  ProxyInv'
    <2>1. SocketsAgree' /\ SpentOnce' /\ KeysAgree'
      BY <1>1, <1>2, <1>4, <1>5, EarlyKeeps
    <2> QED
      BY <1>1, <1>5, <2>1 DEF ProxyInv, ProxyTyped
  <1>6. CASE ResolveSSH(EnvOf(c)) > 0 /\ Released(c, "accepted", ResolveSSH(EnvOf(c)))
    <2>1. /\ sockets' \in [Connections -> Socket] /\ Others(c)
          /\ sockets'[c].pc = "accepted" /\ ~sockets'[c].held
          /\ sockets'[c].intent = sockets[c].intent /\ sockets'[c].spent = sockets[c].spent
      BY <1>3, <1>4, <1>6, ReleasedIs DEF ProxyInv
    <2>2. CountsAreExact' /\ admissions' \in AdmissionCounts
      BY <1>6, <2>1, ReleaseKeeps DEF Released
    <2> QED
      BY <1>5, <2>1, <2>2
  <1>7. CASE Ends(c)
    BY <1>1, <1>7, EndsKeeps
  <1>8. CASE /\ HasRoom(EnvOf(c)) /\ acquire(EnvOf(c))
             /\ sockets' = [sockets EXCEPT ![c].pc = "accepted", ![c].held = TRUE]
    <2>1. /\ sockets' \in [Connections -> Socket] /\ Others(c)
          /\ sockets'[c].pc = "accepted"
          /\ sockets'[c].intent = sockets[c].intent /\ sockets'[c].spent = sockets[c].spent
          /\ CountsAreExact' /\ admissions' \in AdmissionCounts
      BY <1>1, <1>2, <1>8, AdmittedKeeps
    <2> QED
      BY <1>5, <2>1
  <1> QED
    BY <1>6, <1>7, <1>8 DEF Preflight

LEMMA AttemptKeeps ==
  ASSUME ProxyInv, NEW c \in Connections, CurrentBootAttempt(c)
  PROVE  ProxyInv'
  <1> DEFINE key == runtimeStartKey(c, runtime[EnvOf(c)])
             s == [sockets[c] EXCEPT !.pc = "post", !.key = key]
  <1>1. /\ sockets[c].pc = "start" /\ UNCHANGED <<admissions, intents, runtime, operations, proxyStops, proxyFailures>>
        /\ sockets' = [sockets EXCEPT ![c] = s]
    BY DEF CurrentBootAttempt
  <1>2. /\ sockets[c].intent \in Intents /\ intents[sockets[c].intent].state # "none"
        /\ ~intents[sockets[c].intent].op
    BY <1>1 DEF ProxyInv, SocketsAgree
  <1>3. key \in StartKeys /\ key.by = c
    <2>1. runtime[EnvOf(c)] \in RuntimeRows
      BY <1>1, EnvironmentOfConnection DEF ProxyInv, ProxyTyped
    <2>2. runtime[EnvOf(c)].version \in Nat \ {0}
      BY <2>1 DEF RuntimeRows
    <2>3. \A n \in Nat \ {0} : n - 1 \in Nat /\ n - 0 \in Nat
      OBVIOUS
    <2> QED
      BY <2>2, <2>3 DEF runtimeStartKey, StartKeys
  <1>4. sockets \in [Connections -> Socket]
    BY DEF ProxyInv, ProxyTyped
  <1> HIDE DEF key
  <1>5. /\ s \in Socket /\ s.pc = "post" /\ s.intent = sockets[c].intent /\ s.held = sockets[c].held
        /\ s.spent = sockets[c].spent /\ s.key = key
    BY <1>3, <1>4, ZenonT(60) DEF Socket, Preparing
  <1> HIDE DEF s
  <1>6. sockets' \in [Connections -> Socket] /\ Others(c) /\ sockets'[c] = s
    BY <1>1, <1>4, <1>5 DEF Others
  <1>7. CountsAreExact'
    BY <1>1, <1>5, <1>6, CountsStay DEF ProxyInv
  <1>8. SocketsAgree' /\ SpentOnce' /\ KeysAgree'
    <2>1. sockets[c].pc \in Unasked /\ DOMAIN operations' = DOMAIN operations /\ "post" \in Waiting
      BY <1>1 DEF Unasked, Waiting, Preparing
    <2> QED
      BY <1>1, <1>2, <1>3, <1>5, <1>6, <2>1, EarlyKeeps
  <1> QED
    BY <1>1, <1>6, <1>7, <1>8 DEF ProxyInv, ProxyTyped

LEMMA ConsumeKeeps ==
  ASSUME ProxyInv, NEW c \in Connections, Consume(c)
  PROVE  ProxyInv'
  <1>1. sockets[c].pc = "accepted" /\ UNCHANGED <<runtime, operations, proxyStops, proxyFailures>>
    BY DEF Consume
  <1>2. PICK i \in Intents : i = sockets[c].intent
    BY <1>1 DEF ProxyInv, SocketsAgree
  <1>3. CASE ~Spendable(i)
    <2>1. Ends(c) /\ UNCHANGED intents
      BY <1>2, <1>3 DEF Consume
    <2> QED
      BY <1>1, <2>1, EndsKeeps
  <1>4. CASE Spendable(i)
    <2>1. /\ intents' = [intents EXCEPT ![i].state = "used"] /\ intents[i].state = "fresh"
          /\ sockets' = [sockets EXCEPT ![c].pc = AfterConsume(c), ![c].spent = TRUE]
          /\ admissions' = admissions
      BY <1>2, <1>4 DEF Consume, Spendable
    <2>2. /\ intents' \in [Intents -> IntentRows] /\ intents'[i].state = "used"
          /\ \A j \in Intents : /\ intents'[j].op = intents[j].op
                                /\ j # i => intents'[j] = intents[j]
      BY <2>1 DEF ProxyInv, ProxyTyped, IntentRows
    <2>3. PICK to \in {"confirm", "wait", "start"} : to = AfterConsume(c)
      BY DEF AfterConsume
    <2>4. to = "start" => ~intents[i].op
      BY <1>2, <2>3 DEF AfterConsume
    <2>5. sockets \in [Connections -> Socket]
      BY DEF ProxyInv, ProxyTyped
    <2> DEFINE s == [sockets[c] EXCEPT !.pc = to, !.spent = TRUE]
    <2>6. sockets' = [sockets EXCEPT ![c] = s]
      BY <2>1, <2>3
    <2>7. s \in Socket /\ s.pc = to /\ s.spent /\ s.intent = i /\ s.held = sockets[c].held
      BY <1>2, <2>5 DEF Socket, Preparing
    <2> HIDE DEF s
    <2>8. sockets' \in [Connections -> Socket] /\ Others(c) /\ sockets'[c] = s
      BY <2>5, <2>6, <2>7 DEF Others
    <2>9. CountsAreExact'
      BY <1>2, <2>1, <2>7, <2>8, CountsStay DEF ProxyInv
    <2>10. \A d \in Connections : sockets[d].spent => sockets[d].intent \in Intents /\ sockets[d].intent # i
      BY <2>1 DEF ProxyInv, SocketsAgree
    <2>11. SocketsAgree'
      <3> SUFFICES ASSUME NEW d \in Connections
                   PROVE  LET t == sockets'[d] IN
                          /\ t.pc # "none" => t.intent \in Intents /\ intents'[t.intent].state # "none"
                          /\ t.held => t.pc \in Waiting
                          /\ t.spent => t.intent \in Intents /\ intents'[t.intent].state = "used" /\ t.pc # "none"
                          /\ t.pc \in {"start", "post"} => ~intents'[t.intent].op
                          /\ t.pc = "post" => t.key \in StartKeys /\ t.key.by = d
        BY DEF SocketsAgree
      <3>1. CASE d = c
        BY <2>2, <2>4, <2>7, <2>8, <3>1 DEF Waiting, Preparing
      <3>2. CASE d # c
        <4>1. sockets'[d] = sockets[d]
          BY <2>8, <3>2 DEF Others
        <4>2. \A j \in Intents : /\ intents[j].state # "none" => intents'[j].state # "none"
                                 /\ intents[j].state = "used" => intents'[j].state = "used"
          BY <2>2
        <4>3. sockets[d].pc # "none" => sockets[d].intent \in Intents
          BY DEF ProxyInv, SocketsAgree
        <4>4. sockets[d].pc \in {"start", "post"} => ~intents'[sockets[d].intent].op
          BY <2>2, <4>3 DEF ProxyInv, SocketsAgree
        <4>5. LET t == sockets[d] IN
              /\ t.pc # "none" => t.intent \in Intents /\ intents[t.intent].state # "none"
              /\ t.held => t.pc \in Waiting
              /\ t.spent => t.intent \in Intents /\ intents[t.intent].state = "used" /\ t.pc # "none"
              /\ t.pc = "post" => t.key \in StartKeys /\ t.key.by = d
          BY DEF ProxyInv, SocketsAgree
        <4>6. sockets[d].pc # "none" => sockets[d].intent \in Intents /\ intents'[sockets[d].intent].state # "none"
          BY <4>2, <4>5
        <4>7. sockets[d].spent => /\ sockets[d].intent \in Intents /\ intents'[sockets[d].intent].state = "used"
                                  /\ sockets[d].pc # "none"
          BY <4>2, <4>5
        <4> QED
          BY <4>1, <4>4, <4>5, <4>6, <4>7
      <3> QED
        BY <3>1, <3>2
    <2>12. SpentOnce'
      <3>1. \A d \in Connections \ {c} : sockets'[d].spent => sockets'[d].intent # i
        BY <2>8, <2>10 DEF Others
      <3>2. \A d, f \in Connections \ {c} : sockets'[d] = sockets[d] /\ sockets'[f] = sockets[f]
        BY <2>8 DEF Others
      <3> QED
        BY <2>7, <2>8, <3>1, <3>2 DEF ProxyInv, SpentOnce
    <2>13. KeysAgree'
      <3>1. \A k \in DOMAIN operations : k.by \in Connections /\ k.by # c /\ sockets[k.by].pc # "none"
        BY <1>1 DEF ProxyInv, ProxyTyped, StartKeys, KeysAgree, Unasked
      <3>2. \A k \in DOMAIN operations : sockets'[k.by] = sockets[k.by] /\ sockets[k.by].intent \in Intents
        BY <2>8, <3>1 DEF Others, ProxyInv, SocketsAgree
      <3>3. DOMAIN operations' = DOMAIN operations
        BY <1>1
      <3>4. \A k \in DOMAIN operations : ~intents'[sockets'[k.by].intent].op
        BY <2>2, <3>2 DEF ProxyInv, KeysAgree
      <3> QED
        BY <3>2, <3>3, <3>4 DEF ProxyInv, KeysAgree
    <2> QED
      BY <1>1, <2>1, <2>2, <2>8, <2>9, <2>11, <2>12, <2>13 DEF ProxyInv, ProxyTyped
  <1> QED
    BY <1>3, <1>4

\* The start that a connection reserves under its key is its only one.
LEMMA ReserveKeeps ==
  ASSUME ProxyInv, NEW c \in Connections, sockets[c].pc = "post", Reserves(c), intents' = intents, Others(c),
         sockets'[c].intent = sockets[c].intent, sockets'[c].key = sockets[c].key, sockets'[c].pc \notin Unasked
  PROVE  /\ KeysAgree' /\ DOMAIN operations' \subseteq StartKeys
         /\ runtime' \in [ProxyEnvironments -> RuntimeRows]
  <1> DEFINE key == sockets[c].key
  <1>1. key \in StartKeys /\ key.by = c /\ ~intents[sockets[c].intent].op
    BY DEF ProxyInv, SocketsAgree
  <1>2. \A k \in DOMAIN operations : /\ k.by \in Connections
                                     /\ k.by = c => k = key
    BY DEF ProxyInv, ProxyTyped, KeysAgree, StartKeys
  <1>3. DOMAIN operations' \subseteq DOMAIN operations \cup {key}
    BY DEF Reserves, RequestKey
  <1>4. runtime' \in [ProxyEnvironments -> RuntimeRows]
    <2>1. CASE StartAnswer(c) # "reserved"
      BY <2>1 DEF Reserves, ProxyInv, ProxyTyped
    <2>2. CASE StartAnswer(c) = "reserved"
      <3> DEFINE a == [type |-> "start", key |-> key]
      <3>1. a \in ActiveOperations
        BY <1>1 DEF ActiveOperations
      <3>2. runtime' = [runtime EXCEPT ![EnvOf(c)].active = a] /\ runtime \in [ProxyEnvironments -> RuntimeRows]
        BY <2>2 DEF Reserves, RequestKey, ProxyInv, ProxyTyped
      <3> HIDE DEF a
      <3>3. \A r \in RuntimeRows : [r EXCEPT !.active = a] \in RuntimeRows
        BY <3>1 DEF RuntimeRows
      <3>4. EnvOf(c) \in ProxyEnvironments
        BY EnvironmentOfConnection
      <3> QED
        BY <3>2, <3>3, <3>4
    <2> QED
      BY <2>1, <2>2
  <1> HIDE DEF key
  <1>5. ASSUME NEW k \in DOMAIN operations'
        PROVE  /\ sockets'[k.by].pc \notin Unasked
               /\ sockets'[k.by].pc = "post" => k = sockets'[k.by].key
               /\ ~intents'[sockets'[k.by].intent].op
               /\ k.by = c => k = key
               /\ k.by # c => k \in DOMAIN operations
    <2>1. CASE k.by = c
      <3>1. k = key
        BY <1>1, <1>2, <1>3, <2>1
      <3> QED
        BY <1>1, <2>1, <3>1 DEF key
    <2>2. CASE k.by # c
      <3>0. k # key
        BY <1>1, <2>2
      <3>1. k \in DOMAIN operations
        BY <1>3, <3>0, Zenon
      <3>1a. k.by \in Connections
        BY <1>2, <3>1, Zenon
      <3>2. sockets'[k.by] = sockets[k.by]
        BY <2>2, <3>1a DEF Others
      <3> QED
        BY <2>2, <3>1, <3>2 DEF ProxyInv, KeysAgree
    <2> QED
      BY <2>1, <2>2
  <1>6. \A k, l \in DOMAIN operations' : l.by = k.by => l = k
    BY <1>5 DEF ProxyInv, KeysAgree
  <1>7. KeysAgree'
    BY <1>5, <1>6 DEF KeysAgree
  <1>8. DOMAIN operations' \subseteq StartKeys
    BY <1>1, <1>3 DEF ProxyInv, ProxyTyped
  <1> QED
    BY <1>4, <1>7, <1>8

LEMMA EnsureKeeps ==
  ASSUME ProxyInv, NEW c \in Connections, EnsureStarted(c)
  PROVE  ProxyInv'
  <1>1. sockets[c].pc = "post" /\ UNCHANGED <<intents, proxyStops, proxyFailures>>
    BY DEF EnsureStarted
  <1>2. StartAnswer(c) \in {"failed", "accepted", "state", "conflict", "reserved"}
    BY DEF StartAnswer
  <1>3. \/ Ends(c) /\ UNCHANGED <<runtime, operations>>
        \/ UNCHANGED <<runtime, operations>> /\ (Moves(c, "wait") \/ Moves(c, "settling"))
        \/ Reserves(c) /\ Moves(c, "wait")
    BY <1>2 DEF EnsureStarted, Reserves
  <1>4. CASE Ends(c) /\ UNCHANGED <<runtime, operations>>
    BY <1>1, <1>4, EndsKeeps
  <1>5. CASE UNCHANGED <<runtime, operations>> /\ (Moves(c, "wait") \/ Moves(c, "settling"))
    BY <1>1, <1>5, MovesKeeps
  <1>6. CASE Reserves(c) /\ Moves(c, "wait")
    <2>1. "wait" \in Preparing /\ "wait" \in Waiting /\ "wait" \notin Unasked
      BY DEF Preparing, Waiting, Unasked
    <2>2. /\ sockets' \in [Connections -> Socket] /\ Others(c) /\ admissions' = admissions
          /\ sockets'[c].pc = "wait" /\ sockets'[c].held = sockets[c].held
          /\ sockets'[c].intent = sockets[c].intent /\ sockets'[c].spent = sockets[c].spent
      BY <1>6, <2>1, MovesIs DEF ProxyInv
    <2>3. sockets'[c].key = sockets[c].key
      BY <1>6 DEF Moves, ProxyInv, ProxyTyped, Socket
    <2>4. /\ KeysAgree' /\ DOMAIN operations' \subseteq StartKeys
          /\ runtime' \in [ProxyEnvironments -> RuntimeRows]
      BY <1>1, <1>6, <2>1, <2>2, <2>3, ReserveKeeps
    <2>5. CountsAreExact'
      BY <2>2, CountsStay DEF ProxyInv
    <2>6. SocketsAgree' /\ SpentOnce'
      BY <1>1, <2>1, <2>2, LaterSockets
    <2> QED
      BY <1>1, <2>2, <2>4, <2>5, <2>6 DEF ProxyInv, ProxyTyped
  <1> QED
    BY <1>3, <1>4, <1>5, <1>6

LEMMA ResentKeeps ==
  ASSUME ProxyInv, NEW c \in Connections, StartResent(c)
  PROVE  ProxyInv'
  <1>1. /\ sockets[c].pc = "post" /\ UNCHANGED <<sockets, admissions, intents, proxyStops>> /\ Reserves(c)
        /\ proxyFailures' \in 0..MaxFailures
    BY DEF StartResent, ProxyInv, ProxyTyped
  <1>2. Others(c) /\ sockets'[c].pc \notin Unasked
    BY <1>1 DEF Others, Unasked
  <1>3. /\ KeysAgree' /\ DOMAIN operations' \subseteq StartKeys
        /\ runtime' \in [ProxyEnvironments -> RuntimeRows]
    BY <1>1, <1>2, ReserveKeeps
  <1>4. CountsAreExact'
    BY <1>1, <1>2, CountsStay DEF ProxyInv
  <1> QED
    BY <1>1, <1>3, <1>4 DEF ProxyInv, ProxyTyped, SocketsAgree, SpentOnce

LEMMA IntentsKeep ==
  ASSUME ProxyInv, NEW i \in Intents, CreateConnectionIntent(i) \/ IntentExpires(i)
  PROVE  ProxyInv'
  <1>1. UNCHANGED <<sockets, admissions, operations, proxyStops, proxyFailures>>
    BY DEF CreateConnectionIntent, IntentExpires
  <1>2. /\ intents' \in [Intents -> IntentRows]
        /\ \A j \in Intents : intents[j].state # "none" =>
              /\ intents'[j].state # "none" /\ intents'[j].op = intents[j].op
              /\ intents[j].state = "used" => intents'[j].state = "used"
    <2>1. intents \in [Intents -> IntentRows]
      BY DEF ProxyInv, ProxyTyped
    <2>2. CASE CreateConnectionIntent(i)
      <3>1. PICK op \in BOOLEAN : intents' = [intents EXCEPT ![i] = [state |-> "fresh", op |-> op]]
        BY <2>2 DEF CreateConnectionIntent
      <3>2. intents[i].state = "none"
        BY <2>2 DEF CreateConnectionIntent
      <3>3. [state |-> "fresh", op |-> op] \in IntentRows
        BY DEF IntentRows
      <3> QED
        BY <2>1, <3>1, <3>2, <3>3
    <2>3. CASE IntentExpires(i)
      BY <2>1, <2>3 DEF IntentExpires, IntentRows
    <2> QED
      BY <2>2, <2>3
  <1>3. runtime' \in [ProxyEnvironments -> RuntimeRows]
    <2>1. CASE runtime' = runtime
      BY <2>1 DEF ProxyInv, ProxyTyped
    <2>2. CASE runtime' = [runtime EXCEPT ![IntentEnv[i]].active = [type |-> "start", key |-> Nil]]
      BY <2>2, ZenonT(60) DEF ProxyInv, ProxyTyped, RuntimeRows, ActiveOperations
    <2> QED
      BY <2>1, <2>2 DEF CreateConnectionIntent, IntentExpires
  <1>4. CountsAreExact'
    <2>1. Holders' = Holders /\ \A e \in ProxyEnvironments : HoldersOf(e)' = HoldersOf(e)
      BY <1>1 DEF Holders, HoldersOf, EnvOf
    <2> QED
      BY <1>1, <2>1 DEF ProxyInv, CountsAreExact
  <1>5. SocketsAgree'
    <2> SUFFICES ASSUME NEW d \in Connections
                 PROVE  LET t == sockets[d] IN
                        /\ t.pc # "none" => t.intent \in Intents /\ intents'[t.intent].state # "none"
                        /\ t.held => t.pc \in Waiting
                        /\ t.spent => t.intent \in Intents /\ intents'[t.intent].state = "used" /\ t.pc # "none"
                        /\ t.pc \in {"start", "post"} => ~intents'[t.intent].op
                        /\ t.pc = "post" => t.key \in StartKeys /\ t.key.by = d
      BY <1>1 DEF SocketsAgree
    <2>1. LET t == sockets[d] IN
          /\ t.pc # "none" => t.intent \in Intents /\ intents[t.intent].state # "none"
          /\ t.held => t.pc \in Waiting
          /\ t.spent => t.intent \in Intents /\ intents[t.intent].state = "used" /\ t.pc # "none"
          /\ t.pc \in {"start", "post"} => ~intents[t.intent].op
          /\ t.pc = "post" => t.key \in StartKeys /\ t.key.by = d
      BY DEF ProxyInv, SocketsAgree
    <2> QED
      BY <1>2, <2>1
  <1>6. SpentOnce'
    BY <1>1 DEF ProxyInv, SpentOnce
  <1>7. KeysAgree'
    <2>1. \A k \in DOMAIN operations : k.by \in Connections /\ sockets[k.by].pc # "none"
      BY DEF ProxyInv, ProxyTyped, StartKeys, KeysAgree, Unasked
    <2>2. \A k \in DOMAIN operations :
             sockets[k.by].intent \in Intents /\ intents[sockets[k.by].intent].state # "none"
      BY <2>1 DEF ProxyInv, SocketsAgree
    <2>3. \A k \in DOMAIN operations : ~intents'[sockets[k.by].intent].op
      BY <1>2, <2>2 DEF ProxyInv, KeysAgree
    <2> QED
      BY <1>1, <2>3 DEF ProxyInv, KeysAgree
  <1> QED
    BY <1>1, <1>2, <1>3, <1>4, <1>5, <1>6, <1>7 DEF ProxyInv, ProxyTyped

LEMMA RuntimeKeeps ==
  ASSUME ProxyInv, NEW e \in ProxyEnvironments, StartRuntime(e) \/ StopRuntime(e)
  PROVE  ProxyInv'
  <1>1. UNCHANGED <<sockets, admissions, intents>> /\ DOMAIN operations' = DOMAIN operations
    BY DEF StartRuntime, StopRuntime, OperationEnds
  <1>2. proxyStops' \in 0..MaxRuntimeStops /\ proxyFailures' \in 0..MaxFailures
    <2>1. proxyStops \in 0..MaxRuntimeStops /\ proxyFailures \in 0..MaxFailures
      BY DEF ProxyInv, ProxyTyped
    <2>2. \/ proxyFailures' = proxyFailures
          \/ proxyFailures < MaxFailures /\ proxyFailures' = proxyFailures + 1
      BY DEF StartRuntime, StopRuntime
    <2>3. \/ proxyStops' = proxyStops
          \/ proxyStops < MaxRuntimeStops /\ proxyStops' = proxyStops + 1
      BY DEF StartRuntime, StopRuntime
    <2> QED
      BY <2>1, <2>2, <2>3
  <1>3. runtime' \in [ProxyEnvironments -> RuntimeRows]
    <2>1. runtime \in [ProxyEnvironments -> RuntimeRows] /\ runtime[e] \in RuntimeRows
      BY DEF ProxyInv, ProxyTyped
    <2>2. PICK r \in RuntimeRows : runtime' = [runtime EXCEPT ![e] = r]
      <3>1. Nil \in ActiveOperations /\ [type |-> "stop", key |-> Nil] \in ActiveOperations
        BY DEF ActiveOperations
      <3>2. \A v \in Nat : v + 1 \in Nat \ {0} /\ v + 1 \in Nat
        OBVIOUS
      <3> DEFINE r == runtime[e]
      <3>3. CASE StartRuntime(e)
        <4>1. \/ runtime' = [runtime EXCEPT ![e] = [r EXCEPT !.status = "starting", !.version = @ + 1]]
              \/ runtime' = [runtime EXCEPT ![e] = [r EXCEPT !.status = "ready", !.boot = @ + 1,
                                                            !.version = @ + 1, !.active = Nil]]
              \/ runtime' = [runtime EXCEPT ![e] = [r EXCEPT !.active = Nil]]
              \/ runtime' = [runtime EXCEPT ![e] = [r EXCEPT !.active = Nil, !.status = IF @ = "starting" THEN "error" ELSE @]]
          BY <3>3 DEF StartRuntime
        <4>2. /\ [r EXCEPT !.status = "starting", !.version = @ + 1] \in RuntimeRows
              /\ [r EXCEPT !.status = "ready", !.boot = @ + 1, !.version = @ + 1, !.active = Nil] \in RuntimeRows
          BY <2>1, <3>1, <3>2 DEF RuntimeRows
        <4>3. /\ [r EXCEPT !.active = Nil] \in RuntimeRows
              /\ [r EXCEPT !.active = Nil, !.status = IF @ = "starting" THEN "error" ELSE @] \in RuntimeRows
          BY <2>1, <3>1, <3>2 DEF RuntimeRows
        <4> HIDE DEF r
        <4> QED
          BY <4>1, <4>2, <4>3
      <3>4. CASE StopRuntime(e)
        <4>1. \/ runtime' = [runtime EXCEPT ![e] = [r EXCEPT !.active = [type |-> "stop", key |-> Nil]]]
              \/ runtime' = [runtime EXCEPT ![e] = [r EXCEPT !.status = "stopping", !.version = @ + 1]]
              \/ runtime' = [runtime EXCEPT ![e] = [r EXCEPT !.status = "stopped", !.version = @ + 1, !.active = Nil]]
          BY <3>4 DEF StopRuntime
        <4>2. /\ [r EXCEPT !.active = [type |-> "stop", key |-> Nil]] \in RuntimeRows
              /\ [r EXCEPT !.status = "stopping", !.version = @ + 1] \in RuntimeRows
              /\ [r EXCEPT !.status = "stopped", !.version = @ + 1, !.active = Nil] \in RuntimeRows
          BY <2>1, <3>1, <3>2 DEF RuntimeRows
        <4> HIDE DEF r
        <4> QED
          BY <4>1, <4>2
      <3> QED
        BY <3>3, <3>4
    <2> QED
      BY <2>1, <2>2
  <1>4. CountsAreExact'
    <2>1. Holders' = Holders /\ \A f \in ProxyEnvironments : HoldersOf(f)' = HoldersOf(f)
      BY <1>1 DEF Holders, HoldersOf, EnvOf
    <2> QED
      BY <1>1, <2>1 DEF ProxyInv, CountsAreExact
  <1> QED
    BY <1>1, <1>2, <1>3, <1>4 DEF ProxyInv, ProxyTyped, SocketsAgree, SpentOnce, KeysAgree

LEMMA RestartKeeps == ProxyInv /\ ProxyRestart => ProxyInv'
  <1> SUFFICES ASSUME ProxyInv, ProxyRestart PROVE ProxyInv'
    OBVIOUS
  <1>1. /\ UNCHANGED <<intents, runtime, operations, proxyStops>> /\ proxyFailures' \in 0..MaxFailures
        /\ admissions' = [global |-> 0, byEnvironment |-> [e \in ProxyEnvironments |-> 0]]
        /\ sockets' = [c \in Connections |->
              IF sockets[c].pc \in {"none", "ended"} THEN sockets[c]
              ELSE [sockets[c] EXCEPT !.pc = "ended", !.held = FALSE, !.route = 0, !.key = Nil]]
    <2>1. proxyFailures \in 0..MaxFailures
      BY DEF ProxyInv, ProxyTyped
    <2>2. proxyFailures' \in 0..MaxFailures
      <3>1. proxyFailures < MaxFailures /\ proxyFailures' = proxyFailures + 1
        BY DEF ProxyRestart
      <3> QED
        BY <2>1, <3>1
    <2> QED
      BY <2>2, Zenon DEF ProxyRestart
  <1>2. sockets \in [Connections -> Socket]
    BY DEF ProxyInv, ProxyTyped
  <1>3. \A s \in Socket :
           LET t == [s EXCEPT !.pc = "ended", !.held = FALSE, !.route = 0, !.key = Nil] IN
           t \in Socket /\ t.pc = "ended" /\ ~t.held /\ t.intent = s.intent /\ t.spent = s.spent
    BY DEF Socket
  <1>4. sockets' \in [Connections -> Socket]
    BY <1>1, <1>2, <1>3
  <1>5. ASSUME NEW c \in Connections
        PROVE  /\ ~sockets'[c].held
               /\ sockets'[c].intent = sockets[c].intent /\ sockets'[c].spent = sockets[c].spent
               /\ sockets[c].pc = "none" => sockets'[c].pc = "none"
               /\ sockets[c].pc # "none" => sockets'[c].pc = "ended"
    <2>1. CASE sockets[c].pc \in {"none", "ended"}
      BY <1>1, <2>1 DEF ProxyInv, SocketsAgree, Waiting, Preparing
    <2>2. CASE sockets[c].pc \notin {"none", "ended"}
      <3>1. /\ sockets'[c] = [sockets[c] EXCEPT !.pc = "ended", !.held = FALSE, !.route = 0, !.key = Nil]
            /\ sockets[c] \in Socket
        BY <1>1, <1>2, <2>2
      <3> QED
        BY <1>3, <2>2, <3>1
    <2> QED
      BY <2>1, <2>2
  <1>6. Holders' = {} /\ \A e \in ProxyEnvironments : HoldersOf(e)' = {}
    BY <1>5 DEF Holders, HoldersOf
  <1>7. CountsAreExact' /\ admissions' \in AdmissionCounts
    <2>1. Cardinality({}) = 0 /\ 0 <= MaxWaiting /\ 0 <= MaxWaitingPerEnvironment
      BY FS_EmptySet
    <2>2. admissions'.global = 0 /\ \A e \in ProxyEnvironments : admissions'.byEnvironment[e] = 0
      BY <1>1
    <2>3. admissions' \in AdmissionCounts
      BY <1>1 DEF AdmissionCounts
    <2> QED
      BY <1>6, <2>1, <2>2, <2>3 DEF CountsAreExact
  <1>8. SocketsAgree' /\ SpentOnce'
    <2>1. SocketsAgree'
      <3> SUFFICES ASSUME NEW d \in Connections
                   PROVE  LET t == sockets'[d] IN
                          /\ t.pc # "none" => t.intent \in Intents /\ intents[t.intent].state # "none"
                          /\ t.held => t.pc \in Waiting
                          /\ t.spent => t.intent \in Intents /\ intents[t.intent].state = "used" /\ t.pc # "none"
                          /\ t.pc \in {"start", "post"} => ~intents[t.intent].op
                          /\ t.pc = "post" => t.key \in StartKeys /\ t.key.by = d
        BY <1>1 DEF SocketsAgree
      <3>1. /\ sockets[d].pc # "none" => sockets[d].intent \in Intents /\ intents[sockets[d].intent].state # "none"
            /\ sockets[d].spent => /\ sockets[d].intent \in Intents /\ intents[sockets[d].intent].state = "used"
                                   /\ sockets[d].pc # "none"
        BY DEF ProxyInv, SocketsAgree
      <3> QED
        BY <1>5, <3>1
    <2>2. SpentOnce'
      BY <1>5 DEF ProxyInv, SpentOnce
    <2> QED
      BY <2>1, <2>2
  <1>9. KeysAgree'
    <2>1. \A k \in DOMAIN operations : k.by \in Connections /\ sockets[k.by].pc # "none"
      BY DEF ProxyInv, ProxyTyped, StartKeys, KeysAgree, Unasked
    <2>2. \A k \in DOMAIN operations : sockets'[k.by].pc = "ended" /\ sockets'[k.by].intent = sockets[k.by].intent
      BY <1>5, <2>1
    <2> QED
      BY <1>1, <2>2 DEF ProxyInv, KeysAgree, Unasked
  <1> QED
    BY <1>1, <1>4, <1>7, <1>8, <1>9 DEF ProxyInv, ProxyTyped

LEMMA InitProxy == ProxyInit => ProxyInv
  <1> SUFFICES ASSUME ProxyInit PROVE ProxyInv
    OBVIOUS
  <1>1. Unopened \in Socket /\ Unopened.pc = "none" /\ ~Unopened.held /\ ~Unopened.spent
    BY DEF Unopened, Socket
  <1>2. \A c \in Connections : sockets[c] = Unopened
    BY DEF ProxyInit
  <1>3. ProxyTyped
    <2>1. sockets \in [Connections -> Socket]
      BY <1>1 DEF ProxyInit
    <2>2. runtime \in [ProxyEnvironments -> RuntimeRows]
      BY DEF ProxyInit, RuntimeRows, ActiveOperations
    <2>3. admissions \in AdmissionCounts /\ intents \in [Intents -> IntentRows]
      BY DEF ProxyInit, AdmissionCounts, IntentRows
    <2> QED
      BY <2>1, <2>2, <2>3 DEF ProxyTyped, ProxyInit
  <1>4. Holders = {} /\ \A e \in ProxyEnvironments : HoldersOf(e) = {}
    BY <1>1, <1>2 DEF Holders, HoldersOf
  <1>5. CountsAreExact
    <2>1. Cardinality({}) = 0 /\ 0 <= MaxWaiting /\ 0 <= MaxWaitingPerEnvironment
      BY FS_EmptySet
    <2>2. admissions.global = 0 /\ \A e \in ProxyEnvironments : admissions.byEnvironment[e] = 0
      BY DEF ProxyInit
    <2> QED
      BY <1>4, <2>1, <2>2 DEF CountsAreExact
  <1>6. SocketsAgree /\ SpentOnce /\ KeysAgree
    BY <1>1, <1>2 DEF SocketsAgree, SpentOnce, KeysAgree, ProxyInit
  <1> QED
    BY <1>3, <1>5, <1>6 DEF ProxyInv

LEMMA ProxyPreserves == ProxyInv /\ [ProxyNext]_proxyVars => ProxyInv'
  <1> SUFFICES ASSUME ProxyInv, [ProxyNext]_proxyVars PROVE ProxyInv'
    OBVIOUS
  <1>1. ASSUME NEW c \in Connections, Handles(c) PROVE ProxyInv'
    BY <1>1, PreflightKeeps, ConsumeKeeps, AttemptKeeps, EnsureKeeps, SettleKeeps, WaitKeeps, ConfirmKeeps,
       BridgeKeeps DEF Handles
  <1>2. CASE UNCHANGED proxyVars
    <2>1. UNCHANGED <<sockets, admissions, intents, runtime, operations, proxyStops, proxyFailures>>
      BY <1>2 DEF proxyVars
    <2>2. Holders' = Holders /\ \A e \in ProxyEnvironments : HoldersOf(e)' = HoldersOf(e)
      BY <2>1 DEF Holders, HoldersOf, EnvOf
    <2> QED
      BY <2>1, <2>2 DEF ProxyInv, ProxyTyped, CountsAreExact, SocketsAgree, SpentOnce, KeysAgree
  <1> QED
    BY <1>1, <1>2, IntentsKeep, RuntimeKeeps, OpenKeeps, ResentKeeps, BridgeKeeps, RestartKeeps DEF ProxyNext

\* The handlers, the counters and the rows keep the invariant, for any number of connections
\* and whatever the control plane does between two of their steps.
THEOREM ProxyInvariant == ProxySpec => []ProxyInv
  BY InitProxy, ProxyPreserves, PTL DEF ProxySpec

\* What the handlers, the counters and the rows hold is of its type.
THEOREM ProxyTypeCorrect == ProxySpec => []ProxyTypeOK
  <1>1. ProxyInv => ProxyTypeOK
    BY DEF ProxyInv, ProxyTyped, ProxyTypeOK, AdmissionCounts, IntentRows, RuntimeRows, ActiveOperations
  <1> QED
    BY <1>1, ProxyInvariant, PTL

\* The counters of waitingAdmissions are the connections that wait, globally and for each
\* Environment, and never exceed their limits.
THEOREM AdmissionsExact == ProxySpec => []AdmissionsAreExact
  <1>1. ProxyInv => AdmissionsAreExact
    <2> SUFFICES ASSUME ProxyInv PROVE AdmissionsAreExact
      OBVIOUS
    <2>1. \A c \in Holders : sockets[c].pc \in Preparing \ {"preflight", "dial", "dialed"}
      BY DEF ProxyInv, SocketsAgree, Holders, Waiting
    <2> QED
      BY <2>1 DEF ProxyInv, CountsAreExact, AdmissionsAreExact, Holders, HoldersOf
  <1> QED
    BY <1>1, ProxyInvariant, PTL

\* An Intent is spent by one connection, and a connection reserves at most one start, none
\* when its Intent has an Operation.
THEOREM ConnectionsSpend == ProxySpec => []ConnectionsSpendOnce
  <1>1. ProxyInv => ConnectionsSpendOnce
    BY DEF ProxyInv, SpentOnce, KeysAgree, ConnectionsSpendOnce
  <1> QED
    BY <1>1, ProxyInvariant, PTL
=============================================================================
