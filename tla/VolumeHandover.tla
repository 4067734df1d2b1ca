--------------------------- MODULE VolumeHandover ---------------------------
(***************************************************************************)
(* What replacing a Runtime promises about the Environment's persistent    *)
(* Data Volume: an Environment goes through generations of compute, each   *)
(* launched once; only the present generation holds the volume, and the    *)
(* next one begins only when the compute of this one is gone and has let   *)
(* the volume go.                                                          *)
(***************************************************************************)
EXTENDS Naturals

CONSTANT None

VARIABLES
    generation,     \* the present generation
    compute,        \* "none", "up" or "gone": its compute
    holder          \* the generation that holds the volume, or None

vars == <<generation, compute, holder>>

TypeOK ==
    /\ generation \in Nat
    /\ compute \in {"none", "up", "gone"}
    /\ holder \in Nat \cup {None}

Init == generation = 1 /\ compute = "up" /\ holder = 1

Launch ==
    /\ compute = "none" /\ compute' = "up"
    /\ UNCHANGED <<generation, holder>>

Terminate ==
    /\ compute = "up" /\ compute' = "gone"
    /\ UNCHANGED <<generation, holder>>

Attach ==
    /\ compute = "up" /\ holder = None /\ holder' = generation
    /\ UNCHANGED <<generation, compute>>

Detach ==
    /\ holder # None /\ holder' = None
    /\ UNCHANGED <<generation, compute>>

Handover ==
    /\ compute = "gone" /\ holder = None
    /\ generation' = generation + 1 /\ compute' = "none"
    /\ UNCHANGED holder

Next == Launch \/ Terminate \/ Attach \/ Detach \/ Handover

Spec == Init /\ [][Next]_vars
=============================================================================
