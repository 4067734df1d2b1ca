------------------------ MODULE MCEnvironmentCreate ------------------------
(* The creation of Environments, for TLC.                                  *)
EXTENDS EnvironmentCreate, TLC

(* A behaviour has a permanent failure, or is one of those in which every  *)
(* creation is to end: fairness and CreationsEnd are about the latter.     *)
VARIABLE failing

(* Two commands that share neither a name nor a Seed, the second of the    *)
(* Profile Version of the first, of another one, and of one that has no    *)
(* lock; under another key each of them conflicts with itself.             *)
Command(n, s, v) == [name |-> n, seed |-> s, version |-> v]
Commands == {Command("n1", "s1", "v1"), Command("n2", "s2", "v1"),
             Command("n2", "s2", "v2"), Command("n2", "s2", "v3")}

MCInit == CreateInit /\ failing \in BOOLEAN
MCNext == CreateNext /\ (failing \/ faults' = 0) /\ UNCHANGED failing
MCFairness ==
    /\ WF_vars(~failing /\ DispatchPendingEnvironmentCreates)
    /\ \A o \in Operations :
          WF_vars(~failing /\ WorkflowStep(o)) /\ WF_vars(~failing /\ RunRuntimeOperation(o))
MCSpec == MCInit /\ [][MCNext]_<<vars, failing>> /\ MCFairness

\* CreationsEnd, where nothing fails for good.
UnfailingCreationsEnd == ~failing => CreationsEnd
=============================================================================
