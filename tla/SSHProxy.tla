------------------------------ MODULE SSHProxy ------------------------------
(***************************************************************************)
(* The regional SSH proxy: one handler per WebSocket, which spends the     *)
(* Connection Intent, takes one of a bounded number of admissions to wait, *)
(* requests a start of its own when the Intent has none, polls until the   *)
(* Runtime is ready, confirms the route, dials and bridges.                *)
(*                                                                         *)
(* The Runtime and the Operations that start and stop it belong to the     *)
(* control plane: they change between any two steps of a handler.          *)
(***************************************************************************)
EXTENDS Integers, FiniteSets

CONSTANTS
    Nil,
    Connections,        \* WebSockets, numbered in the order they are opened
    Intents, IntentEnv, \* Connection Intents, and the Environment of each
    MaxWaiting, MaxWaitingPerEnvironment,
    MaxRuntimeStops,    \* stops of a Runtime by other Operations
    MaxFailures         \* starts that fail, answers that are lost, restarts

ASSUME LimitsAssumption == MaxWaiting \in Nat \ {0} /\ MaxWaitingPerEnvironment \in Nat \ {0}
ASSUME IntentAssumption == DOMAIN IntentEnv = Intents
ASSUME ProxyAssumption == IsFiniteSet(Connections) /\ MaxRuntimeStops \in Nat /\ MaxFailures \in Nat

VARIABLES
    sockets,      \* the handlers
    admissions,   \* waitingAdmissions
    intents,      \* connection_intent_idempotency
    runtime,      \* the current Runtime of each Environment
    operations,   \* the starts the proxy reserved: key -> failed?
    proxyStops, proxyFailures

proxyVars == <<sockets, admissions, intents, runtime, operations, proxyStops, proxyFailures>>

ProxyEnvironments == {IntentEnv[i] : i \in Intents}

(* The idempotency key of a start: the nonce of the connection, which is   *)
(* the connection, and the version of the Runtime the start is asked of.   *)
StartKeys == [by : Connections, version : Nat]

(* Before the client is told that the Runtime is ready.                    *)
Preparing == {"preflight", "accepted", "start", "post", "settling", "settle",
              "wait", "rewait", "confirm", "dial", "dialed"}

Socket ==
    [pc     : Preparing \cup {"none", "bridged", "half", "ended"},
     intent : Intents \cup {Nil},
     spent  : BOOLEAN,              \* it consumed the Intent
     route  : Nat,                  \* the boot of the candidate, 0 when not ready
     key    : StartKeys \cup {Nil},
     held   : BOOLEAN]              \* waitingAdmitted

(* What the handlers, the counters and the rows hold is of its type: no    *)
(* counter is ever below zero.                                             *)
ProxyTypeOK ==
    /\ sockets \in [Connections -> Socket]
    /\ admissions \in [global : Nat, byEnvironment : [ProxyEnvironments -> Nat]]
    /\ intents \in [Intents -> [state : {"none", "fresh", "used", "expired"}, op : BOOLEAN]]
    /\ runtime \in [ProxyEnvironments ->
                      [status : {"stopped", "starting", "ready", "stopping", "error"},
                       boot : Nat, version : Nat \ {0},
                       active : {Nil} \cup [type : {"start", "stop"}, key : StartKeys \cup {Nil}]]]
    /\ DOMAIN operations \subseteq StartKeys
    /\ proxyStops \in 0..MaxRuntimeStops /\ proxyFailures \in 0..MaxFailures

Unopened == [pc |-> "none", intent |-> Nil, spent |-> FALSE, route |-> 0, key |-> Nil, held |-> FALSE]

ProxyInit ==
    /\ sockets = [c \in Connections |-> Unopened]
    /\ admissions = [global |-> 0, byEnvironment |-> [e \in ProxyEnvironments |-> 0]]
    /\ intents = [i \in Intents |-> [state |-> "none", op |-> FALSE]]
    /\ runtime \in [ProxyEnvironments -> [status : {"stopped", "ready"}, boot : {1}, version : {1}, active : {Nil}]]
    /\ operations = [k \in {} |-> FALSE]
    /\ proxyStops = 0 /\ proxyFailures = 0

-----------------------------------------------------------------------------
(* waitingAdmissions.                                                      *)

EnvOf(c) == IntentEnv[sockets[c].intent]

HasRoom(e) ==
    admissions.global < MaxWaiting /\ admissions.byEnvironment[e] < MaxWaitingPerEnvironment

acquire(e) ==
    admissions' = [admissions EXCEPT !.global = @ + 1, !.byEnvironment[e] = @ + 1]

(* Mutant: the flag that guards the release is not looked at.              *)
ReleasesAlways(c) ==
    admissions' = [admissions EXCEPT !.global = @ - 1, !.byEnvironment[EnvOf(c)] = @ - 1]

(* releaseWaitingAdmission: nothing when no admission is held.             *)
releaseWaitingAdmission(c) ==
    admissions' = IF sockets[c].held
                  THEN [admissions EXCEPT !.global = @ - 1, !.byEnvironment[EnvOf(c)] = @ - 1]
                  ELSE admissions

(* The deferred releaseWaitingAdmission of serveSSH.                       *)
Ends(c) ==
    /\ releaseWaitingAdmission(c)
    /\ sockets' = [sockets EXCEPT ![c].pc = "ended", ![c].held = FALSE,
                                  ![c].route = 0, ![c].key = Nil]

(* To a step that does not wait, and to one that does.                     *)
Released(c, pc, boot) ==
    /\ releaseWaitingAdmission(c)
    /\ sockets' = [sockets EXCEPT ![c].pc = pc, ![c].held = FALSE, ![c].route = boot]
Moves(c, pc) ==
    /\ sockets' = [sockets EXCEPT ![c].pc = pc]
    /\ UNCHANGED admissions

-----------------------------------------------------------------------------
(* The control plane and the Runtime, as the proxy meets them.             *)

(* CreateConnectionIntent answers with the start it reserved or joined, or *)
(* with none when the Runtime is ready.                                    *)
CreateConnectionIntent(i) ==
    LET r == runtime[IntentEnv[i]] IN
    /\ intents[i].state = "none"
    /\ \A j \in Intents : j < i => intents[j].state # "none"
    /\ \/ /\ r.active = Nil /\ r.status = "ready"
          /\ intents' = [intents EXCEPT ![i] = [state |-> "fresh", op |-> FALSE]]
          /\ UNCHANGED runtime
       \/ /\ r.active = Nil /\ r.status = "stopped"
          /\ intents' = [intents EXCEPT ![i] = [state |-> "fresh", op |-> TRUE]]
          /\ runtime' = [runtime EXCEPT ![IntentEnv[i]].active = [type |-> "start", key |-> Nil]]
       \/ /\ r.active # Nil /\ r.active.type = "start"
          /\ intents' = [intents EXCEPT ![i] = [state |-> "fresh", op |-> TRUE]]
          /\ UNCHANGED runtime
    /\ UNCHANGED <<sockets, admissions, operations, proxyStops, proxyFailures>>

IntentExpires(i) ==
    /\ intents[i].state = "fresh"
    /\ intents' = [intents EXCEPT ![i].state = "expired"]
    /\ UNCHANGED <<sockets, admissions, runtime, operations, proxyStops, proxyFailures>>

(* The active Operation ends: with a key the proxy made, it is remembered. *)
OperationEnds(e, failed) ==
    operations' = [k \in DOMAIN operations |->
                     IF k = runtime[e].active.key THEN failed ELSE operations[k]]

(* runtime.start on a Runtime that is ready succeeds at once.              *)
StartRuntime(e) ==
    /\ runtime[e].active # Nil /\ runtime[e].active.type = "start"
    /\ \/ /\ runtime[e].status = "stopped"
          /\ runtime' = [runtime EXCEPT ![e].status = "starting", ![e].version = @ + 1]
          /\ UNCHANGED <<operations, proxyFailures>>
       \/ /\ runtime[e].status = "starting"
          /\ runtime' = [runtime EXCEPT ![e].status = "ready", ![e].boot = @ + 1,
                                        ![e].version = @ + 1, ![e].active = Nil]
          /\ OperationEnds(e, FALSE) /\ UNCHANGED proxyFailures
       \/ /\ runtime[e].status = "ready"
          /\ runtime' = [runtime EXCEPT ![e].active = Nil]
          /\ OperationEnds(e, FALSE) /\ UNCHANGED proxyFailures
       \/ /\ proxyFailures < MaxFailures /\ proxyFailures' = proxyFailures + 1
          /\ runtime' = [runtime EXCEPT ![e].active = Nil,
                            ![e].status = IF @ = "starting" THEN "error" ELSE @]
          /\ OperationEnds(e, TRUE)
    /\ UNCHANGED <<sockets, admissions, intents, proxyStops>>

StopRuntime(e) ==
    /\ \/ /\ runtime[e].status = "ready" /\ runtime[e].active = Nil
          /\ proxyStops < MaxRuntimeStops /\ proxyStops' = proxyStops + 1
          /\ runtime' = [runtime EXCEPT ![e].active = [type |-> "stop", key |-> Nil]]
       \/ /\ runtime[e].status = "ready" /\ runtime[e].active # Nil /\ runtime[e].active.type = "stop"
          /\ runtime' = [runtime EXCEPT ![e].status = "stopping", ![e].version = @ + 1]
          /\ UNCHANGED proxyStops
       \/ /\ runtime[e].status = "stopping"
          /\ runtime' = [runtime EXCEPT ![e].status = "stopped", ![e].version = @ + 1, ![e].active = Nil]
          /\ UNCHANGED proxyStops
    /\ UNCHANGED <<sockets, admissions, intents, operations, proxyFailures>>

-----------------------------------------------------------------------------
(* The handshake.                                                          *)

(* ResolveSSH: a route, not ready yet, or a start that failed.             *)
ResolveSSH(e) ==
    CASE runtime[e].status = "ready" -> runtime[e].boot
      [] runtime[e].status = "error" -> -1
      [] OTHER -> 0

(* Validate reads the Intent, and spends nothing.                          *)
Open(c, i) ==
    /\ sockets[c].pc = "none"
    /\ \A d \in Connections : d < c => sockets[d].pc # "none"
    /\ sockets' = [sockets EXCEPT ![c].intent = i,
                     ![c].pc = IF intents[i].state = "fresh" THEN "preflight" ELSE "ended"]
    /\ intents[i].state # "none"
    /\ UNCHANGED <<admissions, intents, runtime, operations, proxyStops, proxyFailures>>

(* The route is read, and a client that must wait is admitted, or turned   *)
(* away, before the upgrade.                                               *)
Preflight(c) ==
    LET e == EnvOf(c)
        route == ResolveSSH(e) IN
    /\ sockets[c].pc = "preflight"
    /\ \/ route > 0 /\ Released(c, "accepted", route)
       \/ route < 0 /\ Ends(c)
       \/ route = 0 /\ ~HasRoom(e) /\ Ends(c)
       \/ /\ route = 0 /\ HasRoom(e) /\ acquire(e)
          /\ sockets' = [sockets EXCEPT ![c].pc = "accepted", ![c].held = TRUE]
    /\ UNCHANGED <<intents, runtime, operations, proxyStops, proxyFailures>>

(* Mutant: what Validate saw is taken for granted.                         *)
SpendableWhenOpened(i) == intents[i].state # "none"

(* The condition of ConsumeConnectionIntent's UPDATE.                      *)
Spendable(i) == intents[i].state = "fresh"

(* The route of the preflight is used; the Intent's Operation, if any, is  *)
(* waited for.                                                             *)
AfterConsume(c) ==
    IF sockets[c].route > 0 THEN "confirm"
    ELSE IF intents[sockets[c].intent].op THEN "wait" ELSE "start"

Consume(c) ==
    LET i == sockets[c].intent IN
    /\ sockets[c].pc = "accepted"
    /\ IF Spendable(i)
       THEN /\ intents' = [intents EXCEPT ![i].state = "used"]
            /\ sockets' = [sockets EXCEPT ![c].pc = AfterConsume(c), ![c].spent = TRUE]
            /\ UNCHANGED admissions
       ELSE Ends(c) /\ UNCHANGED intents
    /\ UNCHANGED <<runtime, operations, proxyStops, proxyFailures>>

-----------------------------------------------------------------------------
(* The proxy's own start.                                                  *)

(* runtimeStartKey: a start that is under way is asked for under the       *)
(* version of the Runtime it left.                                         *)
runtimeStartKey(c, r) ==
    [by |-> c, version |-> r.version - (IF r.status = "starting" THEN 1 ELSE 0)]

CurrentBootAttempt(c) ==
    /\ sockets[c].pc = "start"
    /\ sockets' = [sockets EXCEPT ![c].pc = "post",
                                  ![c].key = runtimeStartKey(c, runtime[EnvOf(c)])]
    /\ UNCHANGED <<admissions, intents, runtime, operations, proxyStops, proxyFailures>>

(* The Idempotency-Key of the request.                                     *)
RequestKey(c) == sockets[c].key

(* What the start command does, and answers.                               *)
StartAnswer(c) ==
    LET r == runtime[EnvOf(c)]
        key == RequestKey(c) IN
    IF key \in DOMAIN operations THEN IF operations[key] THEN "failed" ELSE "accepted"
    ELSE IF r.status \notin {"ready", "stopped"} THEN "state"
    ELSE IF r.active # Nil THEN "conflict" ELSE "reserved"

Reserves(c) ==
    LET key == RequestKey(c) IN
    IF StartAnswer(c) = "reserved"
    THEN /\ runtime' = [runtime EXCEPT ![EnvOf(c)].active = [type |-> "start", key |-> key]]
         /\ operations' = [k \in DOMAIN operations \cup {key} |->
                             IF k \in DOMAIN operations THEN operations[k] ELSE FALSE]
    ELSE UNCHANGED <<runtime, operations>>

(* The answer, or a refusal of the credit policy or of the token.          *)
EnsureStarted(c) ==
    /\ sockets[c].pc = "post"
    /\ \/ /\ Reserves(c)
          /\ CASE StartAnswer(c) \in {"accepted", "reserved"} -> Moves(c, "wait")
               [] StartAnswer(c) = "state" -> Moves(c, "settling")
               [] OTHER -> Ends(c)
       \/ StartAnswer(c) = "reserved" /\ Ends(c) /\ UNCHANGED <<runtime, operations>>
    /\ UNCHANGED <<intents, proxyStops, proxyFailures>>

(* A request with an Idempotency-Key is sent again by the HTTP client when *)
(* its connection is lost.                                                 *)
StartResent(c) ==
    /\ sockets[c].pc = "post"
    /\ proxyFailures < MaxFailures /\ proxyFailures' = proxyFailures + 1
    /\ Reserves(c)
    /\ UNCHANGED <<sockets, admissions, intents, proxyStops>>

-----------------------------------------------------------------------------
(* Waiting for the route, confirming it, dialing it.                       *)

(* After RUNTIME_COMMAND_INVALID_STATE: the start of another may settle.   *)
Settle(c) ==
    LET route == ResolveSSH(EnvOf(c)) IN
    /\ sockets[c].pc = "settling"
    /\ \/ route > 0 /\ Released(c, "confirm", route)
       \/ route < 0 /\ Ends(c)
       \/ route = 0 /\ Moves(c, "settle")
    /\ UNCHANGED <<intents, runtime, operations, proxyStops, proxyFailures>>

(* One poll of waitForRoute.  The wait of confirmRouteBeforeDial keeps its *)
(* admission until the route is confirmed.                                 *)
waitForRoute(c) ==
    LET route == ResolveSSH(EnvOf(c)) IN
    /\ \/ /\ sockets[c].pc \in {"wait", "settle"} /\ route > 0
          /\ Released(c, "confirm", route)
       \/ /\ sockets[c].pc = "rewait" /\ route > 0
          /\ sockets' = [sockets EXCEPT ![c].pc = "confirm", ![c].route = route]
          /\ UNCHANGED admissions
       \/ sockets[c].pc \in {"wait", "settle", "rewait"} /\ route < 0 /\ Ends(c)
    /\ UNCHANGED <<intents, runtime, operations, proxyStops, proxyFailures>>

(* sameSSHRoute, of the candidate and of a route that was read again.      *)
RouteIsConfirmed(c) == ResolveSSH(EnvOf(c)) > 0 /\ ResolveSSH(EnvOf(c)) = sockets[c].route

(* The last read of the route: what it finds may change before the dial.   *)
confirmRouteBeforeDial(c) ==
    LET e == EnvOf(c)
        read == ResolveSSH(e) IN
    /\ sockets[c].pc = "confirm"
    /\ \/ RouteIsConfirmed(c) /\ Released(c, "dial", sockets[c].route)
       \/ ~RouteIsConfirmed(c) /\ read < 0 /\ Ends(c)
       \/ ~RouteIsConfirmed(c) /\ read >= 0 /\ sockets[c].held /\ Moves(c, "rewait")
       \/ ~RouteIsConfirmed(c) /\ read >= 0 /\ ~sockets[c].held /\ ~HasRoom(e) /\ Ends(c)
       \/ /\ ~RouteIsConfirmed(c) /\ read >= 0 /\ ~sockets[c].held /\ HasRoom(e) /\ acquire(e)
          /\ sockets' = [sockets EXCEPT ![c].pc = "rewait", ![c].held = TRUE]
    /\ UNCHANGED <<intents, runtime, operations, proxyStops, proxyFailures>>

(* A step of its own: the Runtime may have stopped since the route was     *)
(* confirmed, and another boot may have its address.  The dial answers, is *)
(* refused or runs into its timeout.                                       *)
dialRuntime(c) ==
    /\ sockets[c].pc = "dial"
    /\ Ends(c) \/ Moves(c, "dialed")
    /\ UNCHANGED <<intents, runtime, operations, proxyStops, proxyFailures>>

(* The client is told, or turns out to be gone; the bytes are bridged.     *)
Ready(c) ==
    /\ sockets[c].pc = "dialed"
    /\ Ends(c) \/ Moves(c, "bridged")
    /\ UNCHANGED <<intents, runtime, operations, proxyStops, proxyFailures>>

(* Mutant: the wait that follows a changed route has no limit.             *)
FirstWaitIsTimed == {"post", "settling", "settle", "wait", "confirm", "dial"}

(* waitContext and settleContext bound every step from Consume on.         *)
Timed == {"start", "post", "settling", "settle", "wait", "rewait", "confirm", "dial"}

StartTimeout(c) ==
    /\ sockets[c].pc \in Timed
    /\ Ends(c)
    /\ UNCHANGED <<intents, runtime, operations, proxyStops, proxyFailures>>

(* A client that is gone, or speaks before it is told that the Runtime is  *)
(* ready.  A handshake that is not upgraded yet ends the same way.         *)
watchPreBridgeClient(c) ==
    /\ sockets[c].pc \in Preparing
    /\ Ends(c)
    /\ UNCHANGED <<intents, runtime, operations, proxyStops, proxyFailures>>

(* bridge: a direction that ends cleanly leaves the other open; an error,  *)
(* or the idle deadline, ends both.                                        *)
bridge(c) ==
    /\ \/ sockets[c].pc = "bridged" /\ Moves(c, "half")
       \/ sockets[c].pc \in {"bridged", "half"} /\ Ends(c)
    /\ UNCHANGED <<intents, runtime, operations, proxyStops, proxyFailures>>

(* The process of the proxy is restarted: what it counted is gone.         *)
ProxyRestart ==
    /\ proxyFailures < MaxFailures /\ proxyFailures' = proxyFailures + 1
    /\ sockets' = [c \in Connections |->
          IF sockets[c].pc \in {"none", "ended"} THEN sockets[c]
          ELSE [sockets[c] EXCEPT !.pc = "ended", !.held = FALSE, !.route = 0, !.key = Nil]]
    /\ admissions' = [global |-> 0, byEnvironment |-> [e \in ProxyEnvironments |-> 0]]
    /\ UNCHANGED <<intents, runtime, operations, proxyStops>>

Handles(c) ==
    \/ Preflight(c) \/ Consume(c) \/ CurrentBootAttempt(c) \/ EnsureStarted(c)
    \/ Settle(c) \/ waitForRoute(c) \/ confirmRouteBeforeDial(c) \/ dialRuntime(c)
    \/ Ready(c)

ProxyNext ==
    \/ \E i \in Intents : CreateConnectionIntent(i) \/ IntentExpires(i)
    \/ \E e \in ProxyEnvironments : StartRuntime(e) \/ StopRuntime(e)
    \/ \E c \in Connections, i \in Intents : Open(c, i)
    \/ \E c \in Connections :
          \/ Handles(c) \/ StartResent(c) \/ StartTimeout(c)
          \/ watchPreBridgeClient(c) \/ bridge(c)
    \/ ProxyRestart

(* The handler is a goroutine and its timers fire; nothing is assumed of   *)
(* the control plane, the Runtime or the client.                           *)
ProxyFairness == \A c \in Connections : WF_proxyVars(Handles(c)) /\ WF_proxyVars(StartTimeout(c))

ProxySpec == ProxyInit /\ [][ProxyNext]_proxyVars /\ ProxyFairness

-----------------------------------------------------------------------------
(* Properties.                                                             *)

(* The counters of waitingAdmissions are the connections that wait: none   *)
(* is counted twice, none is left behind by an error path, a connection    *)
(* that dials or is bridged holds none, and the limits are kept.           *)
AdmissionsAreExact ==
    LET Holders == {c \in Connections : sockets[c].held} IN
    /\ admissions.global = Cardinality(Holders)
    /\ \A e \in ProxyEnvironments :
          admissions.byEnvironment[e] = Cardinality({c \in Holders : EnvOf(c) = e})
    /\ admissions.global <= MaxWaiting
    /\ \A e \in ProxyEnvironments : admissions.byEnvironment[e] <= MaxWaitingPerEnvironment
    /\ \A c \in Holders : sockets[c].pc \in Preparing \ {"preflight", "dial", "dialed"}

(* An Intent is spent by one connection, however many present it and       *)
(* whatever Validate told them; and a connection reserves at most one      *)
(* start, although its request may be delivered again, and none when its   *)
(* Intent has an Operation.                                                *)
ConnectionsSpendOnce ==
    /\ \A c, d \in Connections :
          (sockets[c].spent /\ sockets[d].spent /\ sockets[c].intent = sockets[d].intent) => c = d
    /\ \A k \in DOMAIN operations :
          /\ \A l \in DOMAIN operations : l.by = k.by => l = k
          /\ ~intents[sockets[k.by].intent].op

(* serveSSH: every connection is told that the Runtime is ready, or ends:  *)
(* also when the route it found is gone when it confirms it or dials, and  *)
(* when the one it then waits for is never there.                          *)
ConnectionsEnd ==
    \A c \in Connections :
       sockets[c].pc \in Preparing ~> sockets[c].pc \in {"bridged", "half", "ended"}
=============================================================================
