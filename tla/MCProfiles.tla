----------------------------- MODULE MCProfiles -----------------------------
(* Profiles, for TLC.                                                      *)
EXTENDS Profiles, TLC
CONSTANTS c1, c2, c3, l1, l2, l3, p0, d1, d2, dp, t1

MCContents == (d1 :> (c1 :> l1)) @@ (d2 :> (c1 :> l2 @@ c2 :> l3)) @@ (dp :> (c3 :> p0))

Exact(d) == [name |-> d, freshness |-> "pin", exclusions |-> {}]
Tagged(freshness) == [name |-> t1, freshness |-> freshness, exclusions |-> {}]

(* The first version pins d1.  Later ones review what the tag names, or    *)
(* follow it beside d1: a conflict if the tag names d2, the same Component *)
(* twice if it names d1 or the project Capsule dp.                         *)
MCFirst == <<Exact(d1)>>
MCCompositions == {<<Tagged("review")>>, <<Exact(d1), Tagged("track")>>, <<>>}
MCApprovals == {{}, {t1, c2}}

(* Two kinds of behaviours: broad ones with two Operations, while the tag  *)
(* moves; and fair ones of one Operation, which is to end, with a version  *)
(* that may have no Capsules and another Environment's digest.             *)
VARIABLE behaviour
Fair == behaviour = "fair"

MCInit == behaviour \in {"broad", "fair"} /\ ProfileInit

MCNext ==
    /\ ProfileNext
    /\ IF Fair THEN tags' = tags /\ operations'[2] = operations[2]
       ELSE foreign' = foreign /\ \A i \in DOMAIN versions' : versions'[i].refs # <<>>
    /\ UNCHANGED behaviour

\* The fairness of ProfileSpec.
MCFairness ==
    /\ WF_profileVars(Fair /\ WorkflowStep(1))
    /\ \A k \in Calls : WF_profileVars(Fair /\ GuestStep(k))

MCSpec == MCInit /\ [][MCNext]_<<profileVars, behaviour>> /\ MCFairness

\* AppliesEnd, of the one Operation of a fair behaviour.
FairApplyEnds == Fair => AppliesEnd
=============================================================================
