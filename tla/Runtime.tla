------------------------------ MODULE Runtime ------------------------------
(***************************************************************************)
(* The Runtime aggregate of libs/domain/runtime.go: the snapshot of one    *)
(* disposable compute instance, the validity rules every snapshot obeys    *)
(* and the transitions, as operators.  A transition T has a guard          *)
(* CanT(s, ...), the conditions under which the Go method returns no error *)
(* before it finalizes, and a result T(s, ...), the snapshot it returns.   *)
(* A transition is accepted when the guard holds and the result passes the *)
(* validation that finalizeRuntimeTransition repeats.                      *)
(*                                                                         *)
(* Times are natural numbers of microseconds, the resolution PostgreSQL    *)
(* keeps.  Names, regions and presets never change and are left out.       *)
(***************************************************************************)
EXTENDS Naturals

CONSTANTS
    Refs,       \* provider instance references, boot IDs and addresses
    Images,     \* image versions
    None        \* the nil pointer of an optional field

ASSUME NoneAssumption == None \notin Refs /\ None \notin Nat

RuntimeStatuses == {"absent", "provisioning", "starting", "ready",
                    "stopping", "stopped", "replacing", "error"}

OptionalTime == Nat \cup {None}
OptionalRef == Refs \cup {None}

RuntimeSnapshot ==
    [status     : RuntimeStatuses,
     sequence   : Nat \ {0},
     image      : Images,
     provider   : OptionalRef,      \* ProviderInstanceRef
     address    : OptionalRef,      \* PrivateAddress
     boot       : OptionalRef,      \* BootID
     startedAt  : OptionalTime,
     stoppedAt  : OptionalTime,
     retiredAt  : OptionalTime,
     createdAt  : Nat,
     updatedAt  : Nat,
     version    : Nat \ {0}]

-----------------------------------------------------------------------------
(* Validity. *)

NoRoute(s) == s.address = None /\ s.boot = None

NoBootObservations(s) ==
    s.startedAt = None /\ s.stoppedAt = None /\ NoRoute(s)

WithinLifetime(t, s) == t = None \/ (s.createdAt <= t /\ t <= s.updatedAt)

validateRuntimeState(s) ==
    IF s.status = "absent"
    THEN IF s.retiredAt = None
         THEN s.provider = None /\ NoBootObservations(s)
         ELSE s.provider # None /\ NoRoute(s)
    ELSE /\ s.retiredAt = None
         /\ \/ s.status = "error" /\ s.provider = None /\ NoBootObservations(s)
            \/ /\ s.provider # None
               /\ s.status = "provisioning" => NoBootObservations(s)
               /\ s.status \in {"starting", "stopping"} =>
                     s.startedAt # None /\ s.stoppedAt = None /\ NoRoute(s)
               /\ s.status = "ready" =>
                     /\ s.startedAt # None /\ s.stoppedAt = None
                     /\ s.address # None /\ s.boot # None
               /\ s.status = "stopped" =>
                     s.startedAt # None /\ s.stoppedAt # None /\ NoRoute(s)
               /\ s.status \in {"replacing", "error"} => NoRoute(s)

ValidRuntime(s) ==
    /\ s \in RuntimeSnapshot
    /\ s.createdAt <= s.updatedAt
    /\ \A t \in {s.startedAt, s.stoppedAt, s.retiredAt} : WithinLifetime(t, s)
    /\ validateRuntimeState(s)

-----------------------------------------------------------------------------
(* Reservation and transitions. *)

ReserveRuntime(sequence, image, at) ==
    [status |-> "absent", sequence |-> sequence, image |-> image,
     provider |-> None, address |-> None, boot |-> None,
     startedAt |-> None, stoppedAt |-> None, retiredAt |-> None,
     createdAt |-> at, updatedAt |-> at, version |-> 1]

(* transition(at) refuses an invalid snapshot and a time before UpdatedAt. *)
CanTransition(s, at) == ValidRuntime(s) /\ s.updatedAt <= at

finalizeRuntimeTransition(next, at) ==
    [next EXCEPT !.updatedAt = at, !.version = @ + 1]

(* validateCurrentRuntimeObservation: an observation of another instance,  *)
(* or of an earlier version, is stale.                                     *)
CurrentObservation(s, ref, expectedVersion) ==
    expectedVersion = s.version /\ s.provider # None /\ s.provider = ref

CanProvision(s, ref, at) ==
    CanTransition(s, at) /\ s.status = "absent" /\ s.retiredAt = None
Provision(s, ref, at) ==
    finalizeRuntimeTransition(
        [s EXCEPT !.status = "provisioning", !.provider = ref], at)

CanMarkProvisionError(s, at) ==
    CanTransition(s, at) /\ s.status = "absent" /\ s.retiredAt = None
MarkProvisionError(s, at) ==
    finalizeRuntimeTransition([s EXCEPT !.status = "error"], at)

CanBeginStart(s, at) ==
    CanTransition(s, at) /\ s.status \in {"provisioning", "stopped"}
BeginStart(s, at) ==
    finalizeRuntimeTransition(
        [s EXCEPT !.status = "starting", !.startedAt = at, !.stoppedAt = None,
                  !.address = None, !.boot = None], at)

CanMarkReady(s, ref, version, at) ==
    /\ s.status = "starting"
    /\ CurrentObservation(s, ref, version)
    /\ CanTransition(s, at)
MarkReady(s, boot, address, at) ==
    finalizeRuntimeTransition(
        [s EXCEPT !.status = "ready", !.boot = boot, !.address = address], at)

CanBeginStop(s, at) == CanTransition(s, at) /\ s.status = "ready"
BeginStop(s, at) ==
    finalizeRuntimeTransition(
        [s EXCEPT !.status = "stopping", !.address = None, !.boot = None], at)

CanMarkStopped(s, ref, version, at) ==
    /\ s.status = "stopping"
    /\ CurrentObservation(s, ref, version)
    /\ CanTransition(s, at)
MarkStopped(s, at) ==
    finalizeRuntimeTransition(
        [s EXCEPT !.status = "stopped", !.stoppedAt = at], at)

CanMarkError(s, ref, version, at) ==
    /\ s.status \notin {"absent", "replacing"}
    /\ ~(s.status = "error" /\ s.provider = ref)    \* already marked: returned as it is
    /\ CurrentObservation(s, ref, version)
    /\ CanTransition(s, at)
MarkError(s, at) ==
    finalizeRuntimeTransition(
        [s EXCEPT !.status = "error", !.address = None, !.boot = None], at)

CanBeginReplacement(s, at) ==
    CanTransition(s, at) /\ s.status \in {"ready", "stopped", "error"}
BeginReplacement(s, at) ==
    finalizeRuntimeTransition(
        [s EXCEPT !.status = "replacing", !.address = None, !.boot = None], at)

CanRetire(s, ref, version, at) ==
    /\ s.status = "replacing"
    /\ CurrentObservation(s, ref, version)
    /\ CanTransition(s, at)
Retire(s, at) ==
    finalizeRuntimeTransition(
        [s EXCEPT !.status = "absent", !.retiredAt = at], at)
=============================================================================
