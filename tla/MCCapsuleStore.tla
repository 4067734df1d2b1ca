--------------------------- MODULE MCCapsuleStore ---------------------------
(***************************************************************************)
(* Two Capsules that share a layer, one of whose layers is read at a time, *)
(* and two Owners, one of whom publishes nothing and puts objects with a   *)
(* client of their own.  A behaviour is one of two kinds: two publishers   *)
(* start from an empty bucket; or both Capsules are published, and two     *)
(* loads of one guest overlap with each other and with requests that move  *)
(* the tag.  A load reads no more of a publication than TagIsPullable      *)
(* says.                                                                   *)
(***************************************************************************)
EXTENDS CapsuleStore

VARIABLE phase    \* the kind of this behaviour

MCOwnerOf == [p \in {"p1", "p2"} |-> "o1"]

MCLayersOf == [c \in {"c1", "c2"} |-> IF c = "c1" THEN <<"shared", "own">> ELSE <<"shared">>]

\* The state after publications of both Capsules.
Published ==
    /\ bucket = [o \in Owners |-> [x \in Objects |-> IF o = GuestOwner THEN "stored" ELSE "absent"]]
    /\ tag \in [Owners -> Capsules \cup {Nothing}]
    /\ \A o \in Owners : tag[o] # Nothing <=> o = GuestOwner
    /\ push = [p \in Publishers |-> NoPush]
    /\ blobs = [b \in Blobs |-> "absent"]
    /\ cached = [c \in Capsules |-> Nothing]
    /\ load = [g \in Loads |-> NoLoad]
    /\ mishaps = {}

MCInit ==
    \/ phase = "publish" /\ CapsuleInit
    \/ phase = "load" /\ Published

MCNext ==
    /\ UNCHANGED phase
    /\ CapsuleNext
    /\ phase = "publish" => UNCHANGED load
    /\ phase = "load" => UNCHANGED push /\ \A o \in Direct : bucket'[o] = bucket[o]

MCSpec == MCInit /\ [][MCNext]_<<capsuleVars, phase>> /\ CapsuleFairness
=============================================================================
