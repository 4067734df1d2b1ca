------------------------------- MODULE MCCell -------------------------------
(***************************************************************************)
(* The two programs that run in a regional cell: the SSH proxy and the     *)
(* guest supervisor.  They share no variable, so that their product would  *)
(* only multiply their states: a behaviour is one of one of them, and what *)
(* is checked of each is what a run of its own would check.  The other one *)
(* rests meanwhile.                                                        *)
(*                                                                         *)
(* The proxy has two connections, with Intents of one Environment.  The    *)
(* last two items of the guest's batch share a file.                       *)
(***************************************************************************)
EXTENDS GuestControl, SSHProxy

VARIABLE machine    \* the state machine this behaviour is of

cellVars == <<machine, guestVars, proxyVars>>

MCFileOf == <<1, 2, 2>>
MCIntentEnv == <<"e1", "e1">>

\* The Runtimes are ready and nobody connects.
ProxyRests == ProxyInit /\ \A e \in ProxyEnvironments : runtime[e].status = "ready"

CellInit ==
    \/ machine = "guest" /\ GuestInit /\ ProxyRests
    \/ machine = "proxy" /\ GuestInit /\ ProxyInit

CellNext ==
    \/ machine = "guest" /\ GuestNext /\ UNCHANGED <<machine, proxyVars>>
    \/ machine = "proxy" /\ ProxyNext /\ UNCHANGED <<machine, guestVars>>

\* The fairness of ProxySpec.
CellFairness ==
    \A c \in Connections : /\ WF_proxyVars(machine = "proxy" /\ Handles(c))
                           /\ WF_proxyVars(machine = "proxy" /\ StartTimeout(c))

CellSpec == CellInit /\ [][CellNext]_cellVars /\ CellFairness
=============================================================================
