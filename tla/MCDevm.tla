------------------------------- MODULE MCDevm -------------------------------
(***************************************************************************)
(* The four state machines of the CLI: a bare `devm` (Provisioning), SSH   *)
(* setup, the token session and the authoring of Profiles.  They share no  *)
(* variable, so that their product would only multiply their states: a     *)
(* behaviour is one of one of them, and what is checked of each is what a  *)
(* run of its own would check.                                             *)
(*                                                                         *)
(* Provisioning has two processes and two repositories whose directories   *)
(* have the same name and whose clean trees share the empty tracked patch; *)
(* the first repository can be edited, also into trees no Seed is made of. *)
(***************************************************************************)
EXTENDS Provisioning, SSHSetup, TokenSession, Authoring

VARIABLE machine    \* the state machine this behaviour is of

devmVars == <<machine, provisionVars, setupVars, tokenVars, authoringVars>>

MCTrees == {"t1", "t1edited", "t1secret", "t1big", "t1heavy", "t2"}
MCRepoOf == [t \in MCTrees |-> IF t = "t2" THEN "r2" ELSE "r1"]
MCPartsOf == [t \in MCTrees |-> CASE t = "t1" -> <<"m1", "empty">>
                                  [] t \in {"t1edited", "t1secret", "t1heavy"} -> <<"m1", "patch">>
                                  [] t = "t1big" -> <<"m1", "bigpatch">>
                                  [] t = "t2" -> <<"m2", "empty">>]
MCFirstTree == [r \in {"r1", "r2"} |-> IF r = "r1" THEN "t1" ELSE "t2"]

\* The states after `devm profile create n1`, and an `add` of x: commands that meet need a
\* draft to meet in.
FirstProfile ==
    /\ \E refs \in {<<>>, <<"x">>} :
          drafts = [n \in ProfileNames |-> IF n = "n1" THEN Draft(0, refs) ELSE NoDraft]
    /\ selection = "n1"
    /\ origins = [n \in ProfileNames |-> IF n = "n1" THEN <<"create">> ELSE <<>>]
    /\ versions = [n \in ProfileNames |-> <<>>]
    /\ author = [a \in Authors |-> Resting] /\ authored = 0

DevmInit ==
    /\ machine \in {"provisioning", "setup", "token", "authoring"}
    /\ ProvisionInit /\ SetupInit /\ TokenInit /\ FirstProfile

DevmNext ==
    \/ /\ machine = "provisioning" /\ ProvisionNext
       /\ UNCHANGED <<machine, setupVars, tokenVars, authoringVars>>
    \/ /\ machine = "setup" /\ SetupNext
       /\ UNCHANGED <<machine, provisionVars, tokenVars, authoringVars>>
    \/ /\ machine = "token" /\ TokenNext
       /\ UNCHANGED <<machine, provisionVars, setupVars, authoringVars>>
    \/ /\ machine = "authoring" /\ AuthoringNext
       /\ UNCHANGED <<machine, provisionVars, setupVars, tokenVars>>

Bare == machine = "provisioning"

\* The fairness of ProvisionSpec.
DevmFairness ==
    /\ \A p \in Procs : WF_provisionVars(Bare /\ ProcessStep(p))
    /\ \A r \in Repos : SF_provisionVars(Bare /\ \E p \in Procs : runBare(p, r))
    /\ WF_provisionVars(Bare /\ ServerStep)

DevmSpec == DevmInit /\ [][DevmNext]_devmVars /\ DevmFairness

\* Repeated runs of a bare `devm` end with the repository bound, or refused from then on
\* (RepositoriesAreBound), where the behaviour is one of Provisioning.
BareRunsBind == Bare => RepositoriesAreBound
=============================================================================
