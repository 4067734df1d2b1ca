--------------------------- MODULE CommandsProofs ---------------------------
(***************************************************************************)
(* Proofs about Commands: for any number of requests, Operations,          *)
(* Environments, keys, losses and ticks of the clock.                      *)
(***************************************************************************)
EXTENDS Commands, TLAPS

\* The type and the key of the Operation that a request reserves, as in CommandOf and KeyOf.
TypeFor(r) == IF r.kind = "connect" THEN "start" ELSE r.kind
KeyFor(q, r) == IF r.kind = "connect" THEN q ELSE r.key

Exists(o) == o \in Operations /\ operations[o].status # "none"

\* The Operation of a request is the one its key names, and is what it asked for.
IsCommandOf(o, q, r) ==
    /\ Exists(o)
    /\ operations[o].key = KeyFor(q, r) /\ operations[o].env = r.env /\ operations[o].type = TypeFor(r)

\* The steps that only the request for a Connection Intent takes.
ForIntents == {"environment", "runtime", "intent", "prepare", "join", "again", "rejoin", "persist"}

\* What a request knows: its Operation, when it has one; an Operation that was active; and a
\* reading of the clock that is not in the future.
Agrees(q, r) ==
    /\ r.pc = "unsent" => r.op = None
    /\ r.pc # "unsent" => r.kind \in Kinds /\ r.env \in Environments /\ r.key \in Keys
    /\ r.at <= now
    /\ r.pc \in {"pending", "send", "defer"} => IsCommandOf(r.op, q, r)
    /\ r.pc = "answered" /\ r.kind # "connect" => IsCommandOf(r.op, q, r)
    /\ r.pc \in ForIntents => r.kind = "connect"
    /\ r.kind = "connect" /\ r.op # None => Exists(r.op) /\ operations[r.op].type = "start"
    /\ r.active # None => Exists(r.active)
    /\ r.pc = "join" => r.active # None

RequestsAgree == \A q \in Requests : Agrees(q, requests[q])

\* How far Restate is with the workflow of an Operation tells what the database has of it.
WorkflowsAgree ==
    /\ \A o \in Operations :
          /\ operations[o].status = "none" => operations[o].key = None
          /\ operations[o].status # "none" => operations[o].type \in Types /\ operations[o].env \in Environments
          /\ invocations[o] = "none" => operations[o].status \in {"none", "queued"}
          /\ invocations[o] = "accepted" => operations[o].status = "queued"
          /\ invocations[o] = "begun" => operations[o].status = "running"
          /\ operations[o].status = "none" => invocations[o] = "none"
    /\ \A o \in recovery : Exists(o)

\* The two unique indexes.
OneActive == \A e \in Environments : \A o, p \in Active(e) : o = p
OneOfKey == \A o, p \in Operations : Exists(o) /\ Exists(p) /\ operations[o].key = operations[p].key => o = p

IntentsAgree ==
    \A k \in Keys :
        /\ intents[k] # None => /\ intents[k].id <= minted
                                /\ intents[k].op # None =>
                                      Exists(intents[k].op) /\ operations[intents[k].op].type = "start"
        /\ Live(k, now) => OfKey(k) = {}

CommandsInv == TypeOK /\ RequestsAgree /\ WorkflowsAgree /\ OneActive /\ OneOfKey /\ IntentsAgree

USE BoundsAssumption, NoneAssumption, KindsAssumption, BatchAssumption, KeysAssumption, RowsAssumption

-----------------------------------------------------------------------------
(* Requests *)

PCs == {"unsent", "replay", "credits", "reserve", "pending", "send", "defer", "environment", "runtime", "intent",
        "prepare", "join", "again", "rejoin", "persist", "answered", "refused"}

\* The sets of the fields, named so that a record is reasoned about without them.
KindSet == Kinds \cup {None}
EnvSet == Environments \cup {None}
KeySet == Keys \cup {None}
TimeSet == 0..MaxTime
OpSet == Operations \cup {None}
StatusSet == RuntimeStatuses \cup {None, "retired"}
WhySet == Refusals \cup {None}

LEMMA RequestIs ==
  Request = [kind : KindSet, env : EnvSet, key : KeySet, pc : PCs, at : TimeSet, op : OpSet, active : OpSet,
             read : Nat, status : StatusSet, intent : Nat, why : WhySet]
  BY DEF Request, KindSet, EnvSet, KeySet, PCs, TimeSet, OpSet, StatusSet, WhySet

LEMMA RequestFields ==
  ASSUME NEW r \in Request
  PROVE  /\ r.kind \in Kinds \cup {None} /\ r.env \in Environments \cup {None} /\ r.key \in Keys \cup {None}
         /\ r.pc \in PCs /\ r.at \in 0..MaxTime /\ r.op \in Operations \cup {None}
         /\ r.active \in Operations \cup {None}
  BY DEF Request, PCs

LEMMA RequestTyped ==
  ASSUME TypeOK, NEW q \in Requests
  PROVE  requests[q] \in Request
  BY DEF TypeOK

LEMMA PcChanges ==
  ASSUME NEW r \in Request, NEW pc \in PCs
  PROVE  LET s == [r EXCEPT !.pc = pc] IN
         /\ s \in Request /\ s.pc = pc /\ s.kind = r.kind /\ s.env = r.env /\ s.key = r.key
         /\ s.at = r.at /\ s.op = r.op /\ s.active = r.active
  BY RequestIs

LEMMA WhyChanges ==
  ASSUME NEW r \in Request, NEW why \in Refusals
  PROVE  LET s == [r EXCEPT !.pc = "refused", !.why = why] IN
         /\ s \in Request /\ s.pc = "refused" /\ s.kind = r.kind /\ s.env = r.env /\ s.key = r.key
         /\ s.at = r.at /\ s.op = r.op /\ s.active = r.active
  <1>1. "refused" \in PCs /\ why \in WhySet
    BY DEF PCs, WhySet
  <1> QED
    BY <1>1, RequestIs

\* An Operation that exists stays what it is, but for its status.
Frozen ==
    \A o \in Operations : operations[o].status # "none" =>
        /\ operations'[o].status # "none" /\ operations'[o].type = operations[o].type
        /\ operations'[o].env = operations[o].env /\ operations'[o].key = operations[o].key

LEMMA AgreesStays ==
  ASSUME Frozen, now \in Nat, now' \in Nat, now <= now', NEW q, NEW r \in Request, Agrees(q, r)
  PROVE  Agrees(q, r)'
  <1>1. \A o : Exists(o) => Exists(o)' /\ operations'[o].type = operations[o].type
    BY DEF Exists, Frozen
  <1>2. \A o : IsCommandOf(o, q, r) => IsCommandOf(o, q, r)'
    BY DEF IsCommandOf, Exists, Frozen
  <1>3. r.at <= now'
    BY RequestFields DEF Agrees
  <1> QED
    BY <1>1, <1>2, <1>3 DEF Agrees

LEMMA GoesKeeps ==
  ASSUME CommandsInv, NEW q \in Requests, NEW s \in Request, Goes(q, s), Agrees(q, s)', Frozen,
         now' \in Nat, now <= now'
  PROVE  requests' \in [Requests -> Request] /\ RequestsAgree'
  <1>1. requests \in [Requests -> Request] /\ now \in Nat
    BY DEF CommandsInv, TypeOK
  <1>2. Forgets(s)' = Forgets(s)
    BY DEF Forgets
  <1>3. Forgets(s) \in Request
    BY ZenonT(60) DEF Forgets, Request
  <1>4. Agrees(q, Forgets(s))'
    <2>1. CASE s.pc \in {"runtime", "intent", "prepare", "rejoin", "join"}
      BY <2>1 DEF Forgets
    <2>2. CASE s.pc \notin {"runtime", "intent", "prepare", "rejoin", "join"}
      <3>1. PICK t : t = [s EXCEPT !.active = None, !.read = 0, !.status = None]
        OBVIOUS
      <3>2. /\ t.pc = s.pc /\ t.kind = s.kind /\ t.env = s.env /\ t.key = s.key
            /\ t.at = s.at /\ t.op = s.op /\ t.active = None
        BY <3>1 DEF Request
      <3>3. TypeFor(t) = TypeFor(s) /\ KeyFor(q, t) = KeyFor(q, s) /\ Forgets(s) = t
        BY <2>2, <3>1, <3>2 DEF TypeFor, KeyFor, Forgets
      <3>4. Agrees(q, t)'
        BY <2>2, <3>2, <3>3 DEF Agrees, IsCommandOf
      <3> QED
        BY <3>3, <3>4
    <2> QED
      BY <2>1, <2>2
  <1>5. requests' = [requests EXCEPT ![q] = Forgets(s)]
    BY DEF Goes
  <1>6. requests' \in [Requests -> Request] /\ requests'[q] = Forgets(s)
    BY <1>1, <1>3, <1>5
  <1>7. ASSUME NEW p \in Requests PROVE Agrees(p, requests[p])' 
    <2>1. CASE p = q
      BY <1>4, <1>6, <2>1
    <2>2. CASE p # q
      <3>1. PICK r \in Request : r = requests[p]
        BY <1>1
      <3>2. requests'[p] = r
        BY <1>1, <1>5, <2>2, <3>1
      <3>3. Agrees(p, r)
        BY <3>1 DEF CommandsInv, RequestsAgree
      <3>4. Agrees(p, r)'
        BY <1>1, <3>3, AgreesStays
      <3> QED
        BY <3>2, <3>4
    <2> QED
      BY <2>1, <2>2
  <1> QED
    BY <1>6, <1>7 DEF RequestsAgree

-----------------------------------------------------------------------------
(* Steps that leave the tables alone *)

LEMMA RowsStay ==
  ASSUME CommandsInv, UNCHANGED <<operations, intents, minted, invocations, now>>,
         recovery' \subseteq recovery
  PROVE  WorkflowsAgree' /\ OneActive' /\ OneOfKey' /\ IntentsAgree' /\ Frozen
  <1>1. \A o : Exists(o)' <=> Exists(o)
    BY DEF Exists
  <1>2. WorkflowsAgree'
    BY <1>1 DEF CommandsInv, WorkflowsAgree
  <1>3. \A e : Active(e)' = Active(e)
    BY DEF Active
  <1>4. OneActive'
    BY <1>3 DEF CommandsInv, OneActive
  <1>5. OneOfKey'
    BY <1>1 DEF CommandsInv, OneOfKey
  <1>6. \A k : OfKey(k)' = OfKey(k) /\ (Live(k, now)' <=> Live(k, now))
    BY DEF OfKey, Live
  <1>7. IntentsAgree'
    BY <1>1, <1>6 DEF CommandsInv, IntentsAgree
  <1>8. Frozen
    BY DEF Frozen
  <1> QED
    BY <1>2, <1>4, <1>5, <1>7, <1>8

\* What requests know stays true when no request moves and no Operation changes its identity.
LEMMA RequestsStay ==
  ASSUME CommandsInv, requests' = requests, Frozen, now' \in Nat, now <= now'
  PROVE  RequestsAgree'
  <1>1. requests \in [Requests -> Request] /\ now \in Nat
    BY DEF CommandsInv, TypeOK
  <1>2. ASSUME NEW p \in Requests PROVE Agrees(p, requests[p])'
    <2>1. PICK r \in Request : r = requests[p]
      BY <1>1
    <2>2. Agrees(p, r)
      BY <2>1 DEF CommandsInv, RequestsAgree
    <2>3. Agrees(p, r)'
      BY <1>1, <2>2, AgreesStays
    <2> QED
      BY <2>1, <2>3
  <1> QED
    BY <1>2 DEF RequestsAgree

\* A request moves to a record that agrees with the database.
Stands(q) == \E s \in Request : Agrees(q, s) /\ Goes(q, s)

LEMMA StandsKeeps ==
  ASSUME CommandsInv, NEW q \in Requests, Stands(q), UNCHANGED <<operations, now>>
  PROVE  requests' \in [Requests -> Request] /\ RequestsAgree'
  <1>1. PICK s \in Request : Agrees(q, s) /\ Goes(q, s)
    BY DEF Stands
  <1>2. now \in Nat /\ now' \in Nat /\ now <= now' /\ Frozen
    BY DEF CommandsInv, TypeOK, Frozen
  <1>3. Agrees(q, s)'
    BY <1>1, <1>2, AgreesStays
  <1> QED
    BY <1>1, <1>2, <1>3, GoesKeeps

LEMMA StandsAlone ==
  ASSUME CommandsInv, NEW q \in Requests, Stands(q),
         UNCHANGED <<operations, outbox, intents, minted, runtime, invocations, recovery, now, skews>>,
         losses' \in 0..MaxLosses
  PROVE  CommandsInv'
  <1>1. requests' \in [Requests -> Request] /\ RequestsAgree'
    BY StandsKeeps
  <1>2. WorkflowsAgree' /\ OneActive' /\ OneOfKey' /\ IntentsAgree'
    BY RowsStay
  <1>3. TypeOK'
    BY <1>1 DEF CommandsInv, TypeOK
  <1> QED
    BY <1>1, <1>2, <1>3 DEF CommandsInv

\* A request under way, and the record that it has.
LEMMA UnderWay ==
  ASSUME CommandsInv, NEW q \in Requests, requests[q].pc # "unsent"
  PROVE  /\ requests[q] \in Request /\ Agrees(q, requests[q])
         /\ requests[q].kind \in Kinds /\ requests[q].env \in Environments /\ requests[q].key \in Keys
         /\ KeyOf(q) = KeyFor(q, requests[q]) /\ CommandOf(q) = TypeFor(requests[q])
         /\ CommandOf(q) \in Types /\ KeyOf(q) \in Keys \cup Requests /\ KeyOf(q) # None
  <1>1. requests[q] \in Request /\ Agrees(q, requests[q])
    BY RequestTyped DEF CommandsInv, RequestsAgree
  <1>2. requests[q].kind \in Kinds /\ requests[q].env \in Environments /\ requests[q].key \in Keys
    BY <1>1 DEF Agrees
  <1>3. KeyOf(q) = KeyFor(q, requests[q]) /\ CommandOf(q) = TypeFor(requests[q])
    BY DEF KeyOf, KeyFor, CommandOf, TypeFor
  <1>4. CommandOf(q) \in Types
    BY <1>2 DEF CommandOf, Types
  <1>5. KeyOf(q) \in Keys \cup Requests
    BY <1>2 DEF KeyOf
  <1> QED
    BY <1>1, <1>2, <1>3, <1>4, <1>5

LEMMA RefusesStands ==
  ASSUME CommandsInv, NEW q \in Requests, requests[q].pc # "unsent", NEW why \in Refusals, Refuses(q, why)
  PROVE  Stands(q)
  <1>1. PICK r \in Request : r = requests[q] /\ Agrees(q, r) /\ r.pc # "unsent"
    BY UnderWay
  <1> DEFINE s == [r EXCEPT !.pc = "refused", !.why = why]
  <1>2. /\ s \in Request /\ s.pc = "refused" /\ s.kind = r.kind /\ s.env = r.env /\ s.key = r.key
        /\ s.at = r.at /\ s.op = r.op /\ s.active = r.active
    BY WhyChanges
  <1>3. Goes(q, s)
    BY <1>1 DEF Refuses
  <1> HIDE DEF s
  <1>4. Agrees(q, s)
    BY <1>1, <1>2 DEF Agrees, ForIntents
  <1> QED
    BY <1>2, <1>3, <1>4 DEF Stands

LEMMA GoesToStands ==
  ASSUME CommandsInv, NEW q \in Requests, requests[q].pc # "unsent", NEW pc \in PCs, pc # "unsent",
         GoesTo(q, pc), pc \in ForIntents => requests[q].kind = "connect",
         pc = "join" => requests[q].active # None,
         pc \in {"pending", "send", "defer"} => IsCommandOf(requests[q].op, q, requests[q]),
         pc = "answered" /\ requests[q].kind # "connect" => IsCommandOf(requests[q].op, q, requests[q])
  PROVE  Stands(q)
  <1>1. PICK r \in Request : r = requests[q] /\ Agrees(q, r) /\ r.pc # "unsent"
    BY UnderWay
  <1> DEFINE s == [r EXCEPT !.pc = pc]
  <1>2. /\ s \in Request /\ s.pc = pc /\ s.kind = r.kind /\ s.env = r.env /\ s.key = r.key
        /\ s.at = r.at /\ s.op = r.op /\ s.active = r.active
    BY PcChanges
  <1>3. Goes(q, s)
    BY <1>1 DEF GoesTo
  <1> HIDE DEF s
  <1>4. \A o : IsCommandOf(o, q, r) => IsCommandOf(o, q, s)
    BY <1>2 DEF IsCommandOf, KeyFor, TypeFor
  <1>5. Agrees(q, s)
    BY <1>1, <1>2, <1>4 DEF Agrees
  <1> QED
    BY <1>2, <1>3, <1>5 DEF Stands

\* A request takes an Operation that is what it asked for.
LEMMA OpStands ==
  ASSUME CommandsInv, NEW q \in Requests, requests[q].pc # "unsent", NEW pc \in PCs,
         pc \in {"pending", "persist"}, NEW op \in Operations,
         Goes(q, [requests[q] EXCEPT !.pc = pc, !.op = op]),
         pc = "pending" => IsCommandOf(op, q, requests[q]),
         pc = "persist" => requests[q].kind = "connect" /\ Exists(op) /\ operations[op].type = "start"
  PROVE  Stands(q)
  <1>1. PICK r \in Request : r = requests[q] /\ Agrees(q, r) /\ r.pc # "unsent"
    BY UnderWay
  <1> DEFINE s == [r EXCEPT !.pc = pc, !.op = op]
  <1>2. /\ s \in Request /\ s.pc = pc /\ s.kind = r.kind /\ s.env = r.env /\ s.key = r.key
        /\ s.at = r.at /\ s.op = op /\ s.active = r.active
    <2>1. op \in Operations \cup {None}
      OBVIOUS
    <2> QED
      BY <2>1, RequestIs DEF OpSet
  <1>3. Goes(q, s)
    BY <1>1
  <1> HIDE DEF s
  <1>4. IsCommandOf(op, q, r) => IsCommandOf(op, q, s)
    BY <1>2 DEF IsCommandOf, KeyFor, TypeFor
  <1>5. r.kind = "connect" /\ IsCommandOf(op, q, r) => Exists(op) /\ operations[op].type = "start"
    BY DEF IsCommandOf, TypeFor
  <1>6. Agrees(q, s)
    BY <1>1, <1>2, <1>4, <1>5 DEF Agrees, ForIntents
  <1> QED
    BY <1>2, <1>3, <1>6 DEF Stands

-----------------------------------------------------------------------------
(* Steps of the requests that only move the request *)

\* The Operations of a key exist, and there is at most one.
LEMMA OfKeyExist ==
  ASSUME CommandsInv, NEW k, k # None
  PROVE  /\ \A o \in OfKey(k) : Exists(o) /\ operations[o].key = k
         /\ \A o, p \in OfKey(k) : o = p
  <1>1. \A o \in OfKey(k) : Exists(o) /\ operations[o].key = k
    BY DEF OfKey, Exists, CommandsInv, WorkflowsAgree
  <1>2. \A o, p \in OfKey(k) : o = p
    BY <1>1 DEF OfKey, CommandsInv, OneOfKey
  <1> QED
    BY <1>1, <1>2

LEMMA ReplaysStands ==
  ASSUME CommandsInv, NEW q \in Requests, requests[q].pc # "unsent", Replays(q)
  PROVE  Stands(q)
  <1>1. KeyOf(q) # None /\ KeyOf(q) = KeyFor(q, requests[q]) /\ CommandOf(q) = TypeFor(requests[q])
    BY UnderWay
  <1>2. CASE \E o \in OfKey(KeyOf(q)) : SameCommand(o, q)
    <2>1. PICK o \in OfKey(KeyOf(q)) : SameCommand(o, q)
      BY <1>2
    <2>2. (CHOOSE p \in OfKey(KeyOf(q)) : TRUE) = o
      BY <1>1, <2>1, OfKeyExist
    <2>3. IsCommandOf(o, q, requests[q]) /\ o \in Operations
      BY <1>1, <2>1, OfKeyExist DEF IsCommandOf, SameCommand, OfKey
    <2>4. Goes(q, [requests[q] EXCEPT !.pc = "pending", !.op = o])
      BY <1>2, <2>2 DEF Replays
    <2>5. "pending" \in PCs
      BY DEF PCs
    <2> QED
      BY <2>3, <2>4, <2>5, OpStands
  <1>3. CASE ~ \E o \in OfKey(KeyOf(q)) : SameCommand(o, q)
    <2>1. Refuses(q, "conflict") /\ "conflict" \in Refusals
      BY <1>3 DEF Replays, Refusals
    <2> QED
      BY <2>1, RefusesStands
  <1> QED
    BY <1>2, <1>3

LEMMA SubmitStands ==
  ASSUME CommandsInv, NEW q \in Requests, NEW kind \in Kinds, NEW e \in Environments, NEW key \in Keys,
         Submit(q, kind, e, key)
  PROVE  Stands(q)
  <1>1. PICK r \in Request : r = requests[q] /\ Agrees(q, r) /\ r.pc = "unsent"
    BY RequestTyped DEF Submit, CommandsInv, RequestsAgree
  <1>2. PICK pc \in PCs : pc = IF kind = "connect" THEN "environment"
                               ELSE IF kind = "start" THEN "replay" ELSE "reserve"
    BY DEF PCs
  <1> DEFINE s == [r EXCEPT !.kind = kind, !.env = e, !.key = key, !.pc = pc]
  <1>3. /\ s \in Request /\ s.pc = pc /\ s.kind = kind /\ s.env = e /\ s.key = key
        /\ s.at = r.at /\ s.op = r.op /\ s.active = r.active
    <2>1. kind \in KindSet /\ e \in EnvSet /\ key \in KeySet
      BY DEF KindSet, EnvSet, KeySet
    <2> QED
      BY <2>1, RequestIs
  <1>4. Goes(q, s)
    BY <1>1, <1>2 DEF Submit
  <1> HIDE DEF s
  <1>5. pc \in {"environment", "replay", "reserve"} /\ (pc = "environment" => kind = "connect")
    BY <1>2
  <1>6. Agrees(q, s)
    BY <1>1, <1>3, <1>5 DEF Agrees, ForIntents
  <1> QED
    BY <1>3, <1>4, <1>6 DEF Stands

LEMMA CommandStands ==
  ASSUME CommandsInv, NEW q \in Requests,
         ReplayRuntimeOperation(q) \/ CreditBalance(q) \/ PendingRuntimeOperation(q) \/ RequestLost(q)
  PROVE  Stands(q)
  <1> USE DEF PCs, Refusals, ForIntents
  <1>1. CASE ReplayRuntimeOperation(q)
    <2>1. CASE Replays(q)
      BY <1>1, <2>1, ReplaysStands DEF ReplayRuntimeOperation
    <2>2. CASE GoesTo(q, "credits")
      BY <1>1, <2>2, GoesToStands DEF ReplayRuntimeOperation
    <2> QED
      BY <1>1, <2>1, <2>2 DEF ReplayRuntimeOperation
  <1>2. CASE CreditBalance(q)
    <2>1. CASE GoesTo(q, "reserve")
      BY <1>2, <2>1, GoesToStands DEF CreditBalance
    <2>2. CASE Refuses(q, "credits")
      BY <1>2, <2>2, RefusesStands DEF CreditBalance
    <2> QED
      BY <1>2, <2>1, <2>2 DEF CreditBalance
  <1>3. CASE PendingRuntimeOperation(q)
    <2>1. requests[q].pc = "pending"
      BY <1>3 DEF PendingRuntimeOperation
    <2>2. IsCommandOf(requests[q].op, q, requests[q])
      BY <2>1, UnderWay DEF Agrees
    <2>3. PICK pc : GoesTo(q, pc) /\ pc \in {"send", "persist", "answered"}
                    /\ (pc = "persist" => requests[q].kind = "connect")
      BY <1>3 DEF PendingRuntimeOperation, Dispatched
    <2> QED
      BY <2>1, <2>2, <2>3, GoesToStands
  <1>4. CASE RequestLost(q)
    BY <1>4, RefusesStands DEF RequestLost
  <1> QED
    BY <1>1, <1>2, <1>3, <1>4

-----------------------------------------------------------------------------
(* The Connection Intents' reads *)

LEMMA ReadEnvironmentStands ==
  ASSUME CommandsInv, NEW q \in Requests, ReadEnvironment(q)
  PROVE  Stands(q)
  <1>1. PICK r \in Request : /\ r = requests[q] /\ Agrees(q, r) /\ r.pc \in {"environment", "again"}
                             /\ r.env \in Environments
    BY UnderWay DEF ReadEnvironment
  <1>2. PICK a : a = ActiveOperation(r.env)
    OBVIOUS
  <1>3. a \in Operations \cup {None} /\ (a # None => Exists(a))
    BY <1>2 DEF ActiveOperation, Active, Exists
  <1>4. PICK id \in Nat : id = runtime[r.env].id
    BY <1>1 DEF CommandsInv, TypeOK
  <1>5. PICK pc \in PCs : pc = IF r.pc = "again" THEN "rejoin" ELSE "runtime"
    BY DEF PCs
  <1> DEFINE s == [r EXCEPT !.active = a, !.read = id, !.pc = pc]
  <1>6. /\ s \in Request /\ s.pc = pc /\ s.kind = r.kind /\ s.env = r.env /\ s.key = r.key
        /\ s.at = r.at /\ s.op = r.op /\ s.active = a
    BY <1>3, RequestIs DEF OpSet
  <1>7. Goes(q, s)
    <2>1. requests[q].pc = r.pc /\ requests[q].env = r.env
      BY <1>1
    <2> QED
      BY <1>1, <1>2, <1>4, <1>5, <2>1 DEF ReadEnvironment
  <1> HIDE DEF s
  <1>8. pc \in {"rejoin", "runtime"}
    BY <1>5
  <1>9. Agrees(q, s)
    BY <1>1, <1>3, <1>6, <1>8 DEF Agrees, ForIntents
  <1> QED
    BY <1>6, <1>7, <1>9 DEF Stands

LEMMA ReadRuntimeStands ==
  ASSUME CommandsInv, NEW q \in Requests, ReadRuntime(q)
  PROVE  Stands(q)
  <1>1. PICK r \in Request : /\ r = requests[q] /\ Agrees(q, r) /\ r.pc \in {"runtime", "rejoin"}
                             /\ r.env \in Environments
    BY UnderWay DEF ReadRuntime
  <1>2. r.kind = "connect"
    BY <1>1 DEF Agrees, ForIntents
  <1>3. PICK status \in RuntimeStatuses \cup {"retired"} :
           status = IF runtime[r.env].id = r.read THEN runtime[r.env].status ELSE "retired"
    BY <1>1 DEF CommandsInv, TypeOK
  <1>4. CASE r.pc = "runtime"
    <2>1. PICK at \in 0..MaxTime : at = now
      BY DEF CommandsInv, TypeOK
    <2> DEFINE s == [r EXCEPT !.status = status, !.at = at, !.pc = "intent"]
    <2>2. /\ s \in Request /\ s.pc = "intent" /\ s.kind = r.kind /\ s.env = r.env /\ s.key = r.key
          /\ s.at = at /\ s.op = r.op /\ s.active = r.active
      <3>1. "intent" \in PCs /\ status \in StatusSet /\ at \in TimeSet
        BY DEF PCs, StatusSet, TimeSet
      <3> QED
        BY <3>1, RequestIs
    <2>3. Goes(q, s)
      BY <1>1, <1>3, <1>4, <2>1 DEF ReadRuntime
    <2> HIDE DEF s
    <2>4. Agrees(q, s)
      BY <1>1, <1>2, <1>4, <2>1, <2>2 DEF Agrees, ForIntents
    <2> QED
      BY <2>2, <2>3, <2>4 DEF Stands
  <1>5. CASE r.pc = "rejoin"
    <2>1. (GoesTo(q, "join") /\ requests[q].active # None) \/ GoesTo(q, "persist") \/ Refuses(q, "state")
      BY <1>1, <1>5 DEF ReadRuntime
    <2>2. requests[q].pc # "unsent" /\ requests[q].kind = "connect"
      BY <1>1, <1>2, <1>5
    <2>3. "join" \in PCs /\ "persist" \in PCs /\ "state" \in Refusals
      BY DEF PCs, Refusals
    <2> QED
      BY <2>1, <2>2, <2>3, GoesToStands, RefusesStands
  <1> QED
    BY <1>1, <1>4, <1>5

LEMMA ReplaysIntentStands ==
  ASSUME CommandsInv, NEW q \in Requests, requests[q].pc \in ForIntents, ReplaysIntent(q),
         intents[requests[q].key] # None
  PROVE  Stands(q)
  <1>1. PICK r \in Request : /\ r = requests[q] /\ Agrees(q, r) /\ r.pc \in ForIntents
                             /\ r.key \in Keys
    BY UnderWay DEF ForIntents
  <1>2. r.kind = "connect" /\ r.pc # "unsent"
    BY <1>1 DEF Agrees, ForIntents
  <1>3. PICK row \in IntentRow : row = intents[r.key]
    BY <1>1 DEF CommandsInv, TypeOK
  <1>4. PICK op \in Operations \cup {None} : op = row.op
    BY <1>3 DEF IntentRow
  <1>5. PICK id \in Nat : id = row.id
    BY <1>3 DEF IntentRow
  <1>6. op # None => Exists(op) /\ operations[op].type = "start"
    BY <1>1, <1>3, <1>4 DEF CommandsInv, IntentsAgree
  <1>7. CASE row.env = r.env
    <2> DEFINE s == [r EXCEPT !.pc = "answered", !.intent = id, !.op = op]
    <2>1. "answered" \in PCs
      BY DEF PCs
    <2>2. /\ s \in Request /\ s.pc = "answered" /\ s.kind = r.kind /\ s.env = r.env /\ s.key = r.key
          /\ s.at = r.at /\ s.op = op /\ s.active = r.active
      BY <2>1, RequestIs DEF OpSet
    <2>3. Goes(q, s)
      BY <1>1, <1>3, <1>4, <1>5, <1>7 DEF ReplaysIntent
    <2> HIDE DEF s
    <2>4. Agrees(q, s)
      BY <1>1, <1>2, <1>6, <2>2 DEF Agrees, ForIntents
    <2> QED
      BY <2>2, <2>3, <2>4 DEF Stands
  <1>8. CASE row.env # r.env
    <2>1. Refuses(q, "conflict") /\ "conflict" \in Refusals
      BY <1>1, <1>3, <1>8 DEF ReplaysIntent, Refusals
    <2> QED
      BY <1>1, <1>2, <2>1, RefusesStands
  <1> QED
    BY <1>7, <1>8

LEMMA IntentStands ==
  ASSUME CommandsInv, NEW q \in Requests,
         replayConnectionIntent(q) \/ prepareConnectionIntentStart(q) \/ joinConnectionStart(q)
  PROVE  Stands(q)
  <1>1. requests[q].pc \in {"intent", "prepare", "join"}
    BY DEF replayConnectionIntent, prepareConnectionIntentStart, joinConnectionStart
  <1>2. requests[q].pc # "unsent" /\ requests[q].pc \in ForIntents /\ requests[q].kind = "connect"
    BY <1>1, UnderWay DEF Agrees, ForIntents
  <1>3. ASSUME NEW why \in Refusals, Refuses(q, why) PROVE Stands(q)
    BY <1>2, <1>3, RefusesStands
  <1>4. ASSUME NEW pc \in {"prepare", "join", "persist", "replay"}, GoesTo(q, pc),
               pc = "join" => requests[q].active # None
        PROVE  Stands(q)
    <2>1. pc \in PCs /\ pc # "unsent" /\ pc # "answered" /\ pc \notin {"pending", "send", "defer"}
      BY <1>4 DEF PCs
    <2> QED
      BY <1>2, <1>4, <2>1, GoesToStands
  <1>5. {"conflict", "state", "busy"} \subseteq Refusals
    BY DEF Refusals
  <1>6. CASE replayConnectionIntent(q)
    <2>1. CASE Live(requests[q].key, requests[q].at)
      BY <1>2, <1>6, <2>1, ReplaysIntentStands DEF replayConnectionIntent, Live
    <2>2. CASE ~Live(requests[q].key, requests[q].at)
      BY <1>3, <1>4, <1>5, <1>6, <2>2 DEF replayConnectionIntent
    <2> QED
      BY <2>1, <2>2
  <1>7. CASE prepareConnectionIntentStart(q)
    <2>1. \/ GoesTo(q, "join") /\ requests[q].active # None
          \/ GoesTo(q, "persist") \/ Refuses(q, "state") \/ GoesTo(q, "replay")
      BY <1>7 DEF prepareConnectionIntentStart
    <2> QED
      BY <1>3, <1>4, <1>5, <2>1
  <1>8. CASE joinConnectionStart(q)
    <2>1. CASE operations[requests[q].active].type = "start"
      <3>1. requests[q].active \in Operations /\ Exists(requests[q].active)
        BY <1>2, <1>8, UnderWay DEF joinConnectionStart, Agrees, Exists
      <3>2. Goes(q, [requests[q] EXCEPT !.pc = "persist", !.op = requests[q].active])
        BY <1>8, <2>1 DEF joinConnectionStart
      <3>3. "persist" \in PCs
        BY DEF PCs
      <3> QED
        BY <1>2, <2>1, <3>1, <3>2, <3>3, OpStands
    <2>2. CASE operations[requests[q].active].type # "start"
      BY <1>3, <1>5, <1>8, <2>2 DEF joinConnectionStart
    <2> QED
      BY <2>1, <2>2
  <1> QED
    BY <1>6, <1>7, <1>8

-----------------------------------------------------------------------------
(* Reservations *)

LEMMA InsertKeeps ==
  ASSUME CommandsInv, NEW q \in Requests, requests[q].pc = "reserve", NEW o \in Operations,
         ~Live(KeyOf(q), now), OfKey(KeyOf(q)) = {}, Active(requests[q].env) = {},
         operations[o].status = "none",
         operations' = [operations EXCEPT ![o] =
             [type |-> CommandOf(q), env |-> requests[q].env, runtime |-> runtime[requests[q].env].id,
              key |-> KeyOf(q), status |-> "queued"]],
         Goes(q, [requests[q] EXCEPT !.pc = "pending", !.op = o]),
         UNCHANGED <<outbox, intents, minted, runtime, invocations, recovery, now, losses, skews>>
  PROVE  CommandsInv'
  <1>1. PICK r \in Request : /\ r = requests[q] /\ Agrees(q, r) /\ r.pc = "reserve"
                             /\ r.env \in Environments /\ r.kind \in Kinds /\ r.key \in Keys
                             /\ KeyOf(q) = KeyFor(q, r) /\ CommandOf(q) = TypeFor(r)
                             /\ CommandOf(q) \in Types /\ KeyOf(q) \in Keys \cup Requests /\ KeyOf(q) # None
    BY UnderWay
  <1>2. PICK row : row = [type |-> CommandOf(q), env |-> r.env, runtime |-> runtime[r.env].id,
                          key |-> KeyOf(q), status |-> "queued"]
    OBVIOUS
  <1>3. runtime[r.env].id \in Nat
    BY <1>1 DEF CommandsInv, TypeOK
  <1>4. row \in OperationRow
    BY <1>1, <1>2, <1>3 DEF OperationRow
  <1>5. /\ row.type = TypeFor(r) /\ row.env = r.env /\ row.key = KeyFor(q, r) /\ row.status = "queued"
        /\ row.key = KeyOf(q)
    BY <1>1, <1>2
  <1>6. operations \in [Operations -> OperationRow] /\ operations' = [operations EXCEPT ![o] = row]
    BY <1>1, <1>2 DEF CommandsInv, TypeOK
  <1>7. operations' \in [Operations -> OperationRow]
    BY <1>4, <1>6
  <1>8. operations'[o] = row /\ \A p \in Operations : p # o => operations'[p] = operations[p]
    BY <1>6
  <1>9. Frozen
    BY <1>8 DEF Frozen
  <1>10. \A p : Exists(p)' <=> (p = o \/ Exists(p))
    BY <1>5, <1>8 DEF Exists
  <1>11. now \in Nat /\ now' \in Nat /\ now <= now' /\ now' = now
    BY DEF CommandsInv, TypeOK
  <1>12. requests' \in [Requests -> Request] /\ RequestsAgree'
    <2> DEFINE s == [r EXCEPT !.pc = "pending", !.op = o]
    <2>1. o \in OpSet /\ "pending" \in PCs
      BY DEF OpSet, PCs
    <2>2. /\ s \in Request /\ s.pc = "pending" /\ s.kind = r.kind /\ s.env = r.env /\ s.key = r.key
          /\ s.at = r.at /\ s.op = o /\ s.active = r.active
      BY <2>1, RequestIs
    <2>3. Goes(q, s)
      BY <1>1
    <2>4. PICK t \in Request : t = s
      BY <2>2
    <2>5. /\ t.pc = "pending" /\ t.kind = r.kind /\ t.env = r.env /\ t.key = r.key
          /\ t.at = r.at /\ t.op = o /\ t.active = r.active /\ Goes(q, t)
      BY <2>2, <2>3, <2>4
    <2> HIDE DEF s
    <2>6. IsCommandOf(o, q, t)'
      BY <1>5, <1>8, <2>5 DEF IsCommandOf, Exists, KeyFor, TypeFor
    <2>7. Exists(o)' /\ (t.kind = "connect" => operations'[o].type = "start")
      BY <1>5, <1>8, <1>10, <2>5 DEF TypeFor
    <2>8. r.active # None => Exists(r.active)'
      BY <1>1, <1>10 DEF Agrees
    <2>9. Agrees(q, t)'
      BY <1>1, <1>11, <2>5, <2>6, <2>7, <2>8 DEF Agrees, ForIntents
    <2> QED
      BY <1>9, <1>11, <2>5, <2>9, GoesKeeps
  <1>13. WorkflowsAgree'
    <2>1. invocations[o] = "none"
      BY DEF CommandsInv, WorkflowsAgree
    <2> QED
      BY <1>1, <1>5, <1>8, <1>10, <2>1 DEF CommandsInv, WorkflowsAgree
  <1>14. OneActive'
    <2>1. ASSUME NEW e \in Environments, NEW a \in Active(e)', NEW b \in Active(e)' PROVE a = b
      <3>1. a \in Operations /\ b \in Operations
        BY DEF Active
      <3>2. \A p \in Active(e)' : p # o => p \in Active(e)
        BY <1>8 DEF Active
      <3>3. o \in Active(e)' => Active(e) = {}
        BY <1>1, <1>5, <1>8 DEF Active
      <3> QED
        BY <3>1, <3>2, <3>3 DEF CommandsInv, OneActive
    <2> QED
      BY <2>1 DEF OneActive
  <1>15. OneOfKey'
    <2>1. \A p \in Operations : operations[p].key # KeyOf(q)
      BY DEF OfKey
    <2> QED
      BY <1>5, <1>8, <1>10, <2>1 DEF CommandsInv, OneOfKey
  <1>16. IntentsAgree'
    <2>1. \A k : OfKey(k)' = {} \/ OfKey(k) # {} \/ k = KeyOf(q)
      BY <1>5, <1>8 DEF OfKey
    <2>2. \A k : Live(k, now)' <=> Live(k, now)
      BY DEF Live
    <2>3. \A p : Exists(p) /\ operations[p].type = "start" => Exists(p)' /\ operations'[p].type = "start"
      BY <1>8, <1>10 DEF Exists
    <2> QED
      BY <2>1, <2>2, <2>3 DEF CommandsInv, IntentsAgree
  <1>17. TypeOK'
    BY <1>7, <1>12 DEF CommandsInv, TypeOK
  <1> QED
    BY <1>12, <1>13, <1>14, <1>15, <1>16, <1>17 DEF CommandsInv

LEMMA ReserveKeeps ==
  ASSUME CommandsInv, NEW q \in Requests, ReserveRuntimeOperation(q)
  PROVE  CommandsInv'
  <1>1. /\ requests[q].pc = "reserve"
        /\ UNCHANGED <<outbox, intents, minted, runtime, invocations, recovery, now, losses, skews>>
    BY DEF ReserveRuntimeOperation
  <1>2. ASSUME Stands(q), UNCHANGED operations PROVE CommandsInv'
    <2>1. losses' \in 0..MaxLosses
      BY <1>1 DEF CommandsInv, TypeOK
    <2> QED
      BY <1>1, <1>2, <2>1, StandsAlone
  <1>3. ASSUME NEW why \in Refusals, Refuses(q, why), UNCHANGED operations PROVE CommandsInv'
    BY <1>1, <1>2, <1>3, RefusesStands
  <1>4. {"conflict", "state", "busy"} \subseteq Refusals /\ "again" \in PCs
    BY DEF Refusals, PCs
  <1>5. CASE Live(KeyOf(q), now)
    BY <1>3, <1>4, <1>5 DEF ReserveRuntimeOperation
  <1>6. CASE ~Live(KeyOf(q), now) /\ OfKey(KeyOf(q)) # {}
    BY <1>1, <1>2, <1>6, ReplaysStands DEF ReserveRuntimeOperation
  <1>7. CASE ~Live(KeyOf(q), now) /\ OfKey(KeyOf(q)) = {}
    <2>1. InsertRuntimeOperation(q)
      BY <1>7 DEF ReserveRuntimeOperation
    <2>2. CASE UNCHANGED operations /\ (Refuses(q, "state") \/ Refuses(q, "busy"))
      BY <1>3, <1>4, <2>2
    <2>3. CASE UNCHANGED operations /\ requests[q].kind = "connect" /\ GoesTo(q, "again")
      <3>1. Stands(q)
        BY <1>1, <1>4, <2>3, GoesToStands
      <3> QED
        BY <1>2, <2>3, <3>1
    <2>4. CASE Active(requests[q].env) = {} /\
               \E o \in Operations :
                  /\ operations[o].status = "none"
                  /\ operations' = [operations EXCEPT ![o] =
                        [type |-> CommandOf(q), env |-> requests[q].env,
                         runtime |-> runtime[requests[q].env].id, key |-> KeyOf(q), status |-> "queued"]]
                  /\ Goes(q, [requests[q] EXCEPT !.pc = "pending", !.op = o])
      BY <1>1, <1>7, <2>4, InsertKeeps
    <2> QED
      BY <2>1, <2>2, <2>3, <2>4, Zenon DEF InsertRuntimeOperation
  <1> QED
    BY <1>5, <1>6, <1>7

-----------------------------------------------------------------------------
(* Dispatch *)

\* Restate accepts an Operation that exists, or nothing happens to its invocation.
LEMMA AcceptKeeps ==
  ASSUME CommandsInv, NEW o, Exists(o), Accept(o) \/ UNCHANGED invocations,
         UNCHANGED <<operations, intents, minted, now>>, recovery' \subseteq recovery
  PROVE  /\ invocations' \in [Operations -> {"none", "accepted", "begun", "returned"}]
         /\ WorkflowsAgree' /\ OneActive' /\ OneOfKey' /\ IntentsAgree' /\ Frozen
  <1>1. CASE UNCHANGED invocations
    BY <1>1, RowsStay DEF CommandsInv, TypeOK
  <1>2. CASE Accept(o)
    <2>1. o \in Operations /\ operations[o].status # "none"
      BY DEF Exists
    <2>2. invocations \in [Operations -> {"none", "accepted", "begun", "returned"}]
      BY DEF CommandsInv, TypeOK
    <2>3. /\ invocations' \in [Operations -> {"none", "accepted", "begun", "returned"}]
          /\ \A p \in Operations : p # o => invocations'[p] = invocations[p]
          /\ invocations'[o] = IF invocations[o] = "none" THEN "accepted" ELSE invocations[o]
      BY <1>2, <2>1, <2>2 DEF Accept
    <2>4. \A p : Exists(p)' <=> Exists(p)
      BY DEF Exists
    <2>5. WorkflowsAgree'
      BY <2>1, <2>3, <2>4 DEF CommandsInv, WorkflowsAgree
    <2>6. \A e : Active(e)' = Active(e)
      BY DEF Active
    <2>7. OneActive'
      BY <2>6 DEF CommandsInv, OneActive
    <2>8. OneOfKey'
      BY <2>4 DEF CommandsInv, OneOfKey
    <2>9. \A k : OfKey(k)' = OfKey(k) /\ (Live(k, now)' <=> Live(k, now))
      BY DEF OfKey, Live
    <2>10. IntentsAgree'
      BY <2>4, <2>9 DEF CommandsInv, IntentsAgree
    <2>11. Frozen
      BY DEF Frozen
    <2> QED
      BY <2>3, <2>5, <2>7, <2>8, <2>10, <2>11
  <1> QED
    BY <1>1, <1>2

LEMMA LossCounted ==
  ASSUME CommandsInv, (losses < MaxLosses /\ losses' = losses + 1) \/ UNCHANGED losses
  PROVE  losses' \in 0..MaxLosses
  <1>1. losses \in 0..MaxLosses
    BY DEF CommandsInv, TypeOK
  <1> QED
    BY <1>1

LEMMA SendKeeps ==
  ASSUME CommandsInv, NEW q \in Requests, SendRuntimeOperation(q)
  PROVE  CommandsInv'
  <1>1. /\ requests[q].pc = "send"
        /\ UNCHANGED <<operations, outbox, intents, minted, runtime, recovery, now, skews>>
    BY DEF SendRuntimeOperation
  <1>2. IsCommandOf(requests[q].op, q, requests[q]) /\ Exists(requests[q].op)
    BY <1>1, UnderWay DEF Agrees, IsCommandOf
  <1>3. PICK pc : GoesTo(q, pc) /\ pc \in {"defer", "persist", "answered"}
                  /\ (pc = "persist" => requests[q].kind = "connect")
    BY DEF SendRuntimeOperation, Dispatched
  <1>4. Stands(q)
    BY <1>1, <1>2, <1>3, GoesToStands DEF PCs, ForIntents
  <1>5. requests' \in [Requests -> Request] /\ RequestsAgree'
    BY <1>1, <1>4, StandsKeeps
  <1>6. Accept(requests[q].op) \/ UNCHANGED invocations
    BY DEF SendRuntimeOperation, SendFails
  <1>7. /\ invocations' \in [Operations -> {"none", "accepted", "begun", "returned"}]
        /\ WorkflowsAgree' /\ OneActive' /\ OneOfKey' /\ IntentsAgree'
    <2>1. recovery' \subseteq recovery
      BY <1>1
    <2> QED
      BY <1>1, <1>2, <1>6, <2>1, AcceptKeeps
  <1>8. losses' \in 0..MaxLosses
    BY LossCounted DEF SendRuntimeOperation, SendFails
  <1>9. TypeOK'
    BY <1>1, <1>5, <1>7, <1>8 DEF CommandsInv, TypeOK
  <1> QED
    BY <1>5, <1>7, <1>9 DEF CommandsInv

LEMMA DeferredTyped ==
  ASSUME CommandsInv, NEW o, Deferred(o)
  PROVE  outbox' \in [Operations -> OutboxRow]
  <1>1. outbox \in [Operations -> OutboxRow]
    BY DEF CommandsInv, TypeOK
  <1>2. CASE o \notin Operations
    BY <1>1, <1>2 DEF Deferred
  <1>3. CASE o \in Operations
    <2>1. PICK row \in OutboxRow : row = outbox[o]
      BY <1>1, <1>3
    <2>2. PICK next : next = IF row.started THEN row ELSE [row EXCEPT !.attempts = row.attempts + 1, !.due = FALSE]
      OBVIOUS
    <2>3. row.attempts \in Nat /\ row.attempts + 1 \in Nat
      BY <2>1 DEF OutboxRow
    <2>4. next \in OutboxRow
      BY <2>2, <2>3 DEF OutboxRow
    <2>5. outbox' = [outbox EXCEPT ![o] = next]
      <3>1. outbox' = [outbox EXCEPT ![o] =
                          IF outbox[o].started THEN outbox[o]
                          ELSE [outbox[o] EXCEPT !.attempts = outbox[o].attempts + 1, !.due = FALSE]]
        BY DEF Deferred
      <3> QED
        BY <2>1, <2>2, <3>1, Zenon
    <2> QED
      BY <1>1, <2>4, <2>5
  <1> QED
    BY <1>2, <1>3

LEMMA DeferKeeps ==
  ASSUME CommandsInv, NEW q \in Requests, DeferRuntimeOperationDispatch(q)
  PROVE  CommandsInv'
  <1>1. /\ requests[q].pc = "defer" /\ Deferred(requests[q].op) /\ Refuses(q, "unavailable")
        /\ UNCHANGED <<operations, intents, minted, runtime, invocations, recovery, now, losses, skews>>
    BY DEF DeferRuntimeOperationDispatch
  <1>2. requests' \in [Requests -> Request] /\ RequestsAgree'
    <2>1. "unavailable" \in Refusals
      BY DEF Refusals
    <2> QED
      BY <1>1, <2>1, RefusesStands, StandsKeeps
  <1>3. WorkflowsAgree' /\ OneActive' /\ OneOfKey' /\ IntentsAgree'
    BY <1>1, RowsStay
  <1>4. outbox' \in [Operations -> OutboxRow]
    BY <1>1, DeferredTyped
  <1>5. TypeOK'
    BY <1>1, <1>2, <1>4 DEF CommandsInv, TypeOK
  <1> QED
    BY <1>2, <1>3, <1>5 DEF CommandsInv

LEMMA RecoverySendsKeeps ==
  ASSUME CommandsInv, NEW o \in Operations, RecoverySends(o)
  PROVE  CommandsInv'
  <1>1. /\ o \in recovery /\ recovery' = recovery \ {o}
        /\ UNCHANGED <<requests, operations, intents, minted, runtime, now, skews>>
    BY DEF RecoverySends
  <1>2. Exists(o) /\ recovery' \subseteq recovery
    BY <1>1 DEF CommandsInv, WorkflowsAgree
  <1>3. Accept(o) \/ UNCHANGED invocations
    BY DEF RecoverySends, SendFails
  <1>4. /\ invocations' \in [Operations -> {"none", "accepted", "begun", "returned"}]
        /\ WorkflowsAgree' /\ OneActive' /\ OneOfKey' /\ IntentsAgree' /\ Frozen
    BY <1>1, <1>2, <1>3, AcceptKeeps
  <1>5. losses' \in 0..MaxLosses
    BY LossCounted DEF RecoverySends, SendFails
  <1>6. outbox' \in [Operations -> OutboxRow]
    BY DeferredTyped DEF RecoverySends, CommandsInv, TypeOK
  <1>7. now \in Nat /\ now' \in Nat /\ now <= now'
    BY <1>1 DEF CommandsInv, TypeOK
  <1>8. RequestsAgree'
    BY <1>1, <1>4, <1>7, RequestsStay
  <1>9. TypeOK'
    BY <1>1, <1>2, <1>4, <1>5, <1>6 DEF CommandsInv, TypeOK
  <1> QED
    BY <1>4, <1>8, <1>9 DEF CommandsInv

\* The steps that touch only the outbox, the batch or the clock.
LEMMA LoopKeeps ==
  ASSUME CommandsInv, RecoveryBegins \/ Tick \/ \E o \in Operations : BackoffElapses(o)
  PROVE  CommandsInv'
  <1>1. CASE RecoveryBegins
    <2>1. /\ recovery' \subseteq Pending
          /\ UNCHANGED <<requests, operations, outbox, intents, minted, runtime, invocations, now, losses, skews>>
      BY <1>1 DEF RecoveryBegins
    <2>2. \A o \in recovery' : Exists(o)'
      BY <2>1 DEF Pending, Exists
    <2>3. \A o : Exists(o)' <=> Exists(o)
      BY <2>1 DEF Exists
    <2>4. WorkflowsAgree'
      BY <2>1, <2>2, <2>3 DEF CommandsInv, WorkflowsAgree
    <2>5. \A e : Active(e)' = Active(e)
      BY <2>1 DEF Active
    <2>6. \A k : OfKey(k)' = OfKey(k) /\ (Live(k, now)' <=> Live(k, now))
      BY <2>1 DEF OfKey, Live
    <2>7. OneActive'
      BY <2>5 DEF CommandsInv, OneActive
    <2>8. OneOfKey'
      BY <2>1, <2>3 DEF CommandsInv, OneOfKey
    <2>9. IntentsAgree'
      BY <2>1, <2>3, <2>6 DEF CommandsInv, IntentsAgree
    <2>10. now \in Nat /\ now' \in Nat /\ now <= now' /\ Frozen
      BY <2>1 DEF CommandsInv, TypeOK, Frozen
    <2>11. RequestsAgree'
      BY <2>1, <2>10, RequestsStay
    <2>12. TypeOK'
      BY <2>1 DEF CommandsInv, TypeOK, Pending
    <2> QED
      BY <2>4, <2>7, <2>8, <2>9, <2>11, <2>12 DEF CommandsInv
  <1>2. CASE Tick
    <2>1. /\ now < MaxTime /\ now' = now + 1
          /\ UNCHANGED <<requests, operations, outbox, intents, minted, runtime, invocations, recovery, losses, skews>>
      BY <1>2 DEF Tick
    <2>2. now \in 0..MaxTime
      BY DEF CommandsInv, TypeOK
    <2>3. now \in Nat /\ now' \in Nat /\ now <= now' /\ now' \in 0..MaxTime
      BY <2>1, <2>2
    <2>4. \A o : Exists(o)' <=> Exists(o)
      BY <2>1 DEF Exists
    <2>5. WorkflowsAgree'
      BY <2>1, <2>4 DEF CommandsInv, WorkflowsAgree
    <2>6. \A e : Active(e)' = Active(e)
      BY <2>1 DEF Active
    <2>7. OneActive'
      BY <2>6 DEF CommandsInv, OneActive
    <2>8. OneOfKey'
      BY <2>1, <2>4 DEF CommandsInv, OneOfKey
    <2>9. \A k : OfKey(k)' = OfKey(k) /\ (Live(k, now)' => Live(k, now))
      <3>1. ASSUME NEW k, Live(k, now)' PROVE Live(k, now)
        <4>1. k \in Keys /\ intents[k] # None /\ intents[k].expires > now'
          BY <2>1, <3>1 DEF Live
        <4>2. intents[k].expires \in Nat
          BY <4>1 DEF CommandsInv, TypeOK, IntentRow
        <4> QED
          BY <2>1, <2>3, <4>1, <4>2 DEF Live
      <3> QED
        BY <2>1, <3>1 DEF OfKey
    <2>10. IntentsAgree'
      BY <2>1, <2>4, <2>9 DEF CommandsInv, IntentsAgree
    <2>11. Frozen
      BY <2>1 DEF Frozen
    <2>12. RequestsAgree'
      BY <2>1, <2>3, <2>11, RequestsStay
    <2>13. TypeOK'
      BY <2>1, <2>3 DEF CommandsInv, TypeOK
    <2> QED
      BY <2>5, <2>7, <2>8, <2>10, <2>12, <2>13 DEF CommandsInv
  <1>3. ASSUME NEW o \in Operations, BackoffElapses(o) PROVE CommandsInv'
    <2>1. /\ outbox' = [outbox EXCEPT ![o].due = TRUE]
          /\ UNCHANGED <<requests, operations, intents, minted, runtime, invocations, recovery, now, losses, skews>>
      BY <1>3 DEF BackoffElapses
    <2>2. outbox' \in [Operations -> OutboxRow]
      BY <2>1, ZenonT(60) DEF CommandsInv, TypeOK, OutboxRow
    <2>3. WorkflowsAgree' /\ OneActive' /\ OneOfKey' /\ IntentsAgree' /\ Frozen
      BY <2>1, RowsStay
    <2>4. now \in Nat /\ now' \in Nat /\ now <= now'
      BY <2>1 DEF CommandsInv, TypeOK
    <2>5. RequestsAgree'
      BY <2>1, <2>3, <2>4, RequestsStay
    <2>6. TypeOK'
      BY <2>1, <2>2 DEF CommandsInv, TypeOK
    <2> QED
      BY <2>3, <2>5, <2>6 DEF CommandsInv
  <1> QED
    BY <1>1, <1>2, <1>3

-----------------------------------------------------------------------------
(* Intents that are stored, used and pruned *)

LEMMA IntentsKept ==
  ASSUME CommandsInv, IntentsAgree', intents' \in [Keys -> IntentRow \cup {None}], minted' \in Nat,
         requests' \in [Requests -> Request], RequestsAgree',
         UNCHANGED <<operations, outbox, runtime, invocations, recovery, now, losses, skews>>
  PROVE  CommandsInv'
  <1>1. \A o : Exists(o)' <=> Exists(o)
    BY DEF Exists
  <1>2. WorkflowsAgree'
    BY <1>1 DEF CommandsInv, WorkflowsAgree
  <1>3. \A e : Active(e)' = Active(e)
    BY DEF Active
  <1>4. OneActive'
    BY <1>3 DEF CommandsInv, OneActive
  <1>5. OneOfKey'
    BY <1>1 DEF CommandsInv, OneOfKey
  <1>6. TypeOK'
    BY DEF CommandsInv, TypeOK
  <1> QED
    BY <1>2, <1>4, <1>5, <1>6 DEF CommandsInv

\* The row that InsertConnectionIntent stores, on what lockConnectionIntentEnvironment found.
Stores(q, row) ==
    /\ row = [id |-> minted + 1, env |-> requests[q].env, op |-> requests[q].op,
              expires |-> requests[q].at + 1, used |-> FALSE]
    /\ minted' = minted + 1
    /\ intents' = [intents EXCEPT ![requests[q].key] = row]
    /\ Goes(q, [requests[q] EXCEPT !.pc = "answered", !.intent = minted + 1])
    /\ ~Live(requests[q].key, requests[q].at) /\ OfKey(requests[q].key) = {}
    /\ \E seen \in SeenActive(requests[q].env) : LockedEnvironment(q, seen) = "mint"

LEMMA StoredRow ==
  ASSUME CommandsInv, NEW q \in Requests, requests[q].pc = "persist", NEW row, Stores(q, row)
  PROVE  /\ row \in IntentRow /\ row # None /\ row.id = minted + 1 /\ row.env = requests[q].env
         /\ row.op = requests[q].op /\ requests[q].key \in Keys /\ requests[q].env \in Environments
         /\ (row.op # None => Exists(row.op) /\ operations[row.op].type = "start")
         /\ minted \in Nat /\ minted' = minted + 1 /\ requests[q].kind = "connect"
         /\ intents'[requests[q].key] = row
         /\ \A k \in Keys : k # requests[q].key => intents'[k] = intents[k]
         /\ intents' \in [Keys -> IntentRow \cup {None}]
  <1>1. PICK r \in Request : /\ r = requests[q] /\ Agrees(q, r) /\ r.pc = "persist"
                             /\ r.env \in Environments /\ r.key \in Keys
    BY UnderWay
  <1>2. r.kind = "connect" /\ (r.op # None => Exists(r.op) /\ operations[r.op].type = "start")
    BY <1>1 DEF Agrees, ForIntents
  <1>3. minted \in Nat /\ minted' = minted + 1 /\ minted + 1 \in Nat \ {0}
    BY DEF Stores, CommandsInv, TypeOK
  <1>4. r.at \in 0..MaxTime /\ r.op \in Operations \cup {None}
    BY RequestFields
  <1>5. r.at + 1 \in Nat
    BY <1>4
  <1>6. row = [id |-> minted + 1, env |-> r.env, op |-> r.op, expires |-> r.at + 1, used |-> FALSE]
    BY <1>1 DEF Stores
  <1>7. row \in IntentRow
    BY <1>1, <1>3, <1>4, <1>5, <1>6 DEF IntentRow
  <1>8. row.id = minted + 1 /\ row.env = r.env /\ row.op = r.op
    BY <1>6
  <1>9. intents \in [Keys -> IntentRow \cup {None}] /\ intents' = [intents EXCEPT ![r.key] = row]
    BY <1>1 DEF Stores, CommandsInv, TypeOK
  <1>10. /\ intents' \in [Keys -> IntentRow \cup {None}] /\ intents'[r.key] = row
         /\ \A k \in Keys : k # r.key => intents'[k] = intents[k]
    BY <1>1, <1>7, <1>9
  <1>11. row # None
    BY <1>7
  <1> QED
    BY <1>1, <1>2, <1>3, <1>7, <1>8, <1>10, <1>11

LEMMA StoreKeeps ==
  ASSUME CommandsInv, NEW q \in Requests, requests[q].pc = "persist", NEW row, Stores(q, row),
         UNCHANGED <<operations, outbox, runtime, invocations, recovery, now, losses, skews>>
  PROVE  CommandsInv'
  <1>1. PICK r \in Request : /\ r = requests[q] /\ Agrees(q, r) /\ r.pc = "persist"
                             /\ r.env \in Environments /\ r.key \in Keys
    BY UnderWay
  <1>2. /\ row.id = minted + 1 /\ row.op = r.op /\ r.kind = "connect"
        /\ (row.op # None => Exists(row.op) /\ operations[row.op].type = "start")
        /\ minted \in Nat /\ minted' = minted + 1 /\ intents'[r.key] = row
        /\ \A k \in Keys : k # r.key => intents'[k] = intents[k]
        /\ intents' \in [Keys -> IntentRow \cup {None}]
    BY <1>1, StoredRow
  <1>3. Stands(q)
    <2>1. PICK id \in Nat : id = minted + 1
      BY <1>2
    <2> DEFINE s == [r EXCEPT !.pc = "answered", !.intent = id]
    <2>2. "answered" \in PCs
      BY DEF PCs
    <2>3. /\ s \in Request /\ s.pc = "answered" /\ s.kind = r.kind /\ s.env = r.env /\ s.key = r.key
          /\ s.at = r.at /\ s.op = r.op /\ s.active = r.active
      BY <2>2, RequestIs
    <2>4. Goes(q, s)
      BY <1>1, <2>1 DEF Stores
    <2> HIDE DEF s
    <2>5. Agrees(q, s)
      BY <1>1, <1>2, <2>3 DEF Agrees, ForIntents
    <2> QED
      BY <2>3, <2>4, <2>5 DEF Stands
  <1>4. requests' \in [Requests -> Request] /\ RequestsAgree'
    BY <1>3, StandsKeeps
  <1>5. \A o : Exists(o)' <=> Exists(o)
    BY DEF Exists
  <1>6. OfKey(r.key)' = {} /\ \A k : OfKey(k)' = OfKey(k)
    BY <1>1 DEF Stores, OfKey
  <1>7. IntentsAgree'
    <2>1. \A k \in Keys : /\ intents'[k] # None => intents'[k].id <= minted'
                          /\ Live(k, now)' => OfKey(k)' = {}
      <3>1. TAKE k \in Keys
      <3>2. CASE k = r.key
        BY <1>2, <1>6, <3>2
      <3>3. CASE k # r.key
        <4>1. intents'[k] = intents[k] /\ (Live(k, now)' <=> Live(k, now))
          BY <1>2, <3>3 DEF Live
        <4>2. intents[k] # None => intents[k].id \in Nat
          BY DEF CommandsInv, TypeOK, IntentRow
        <4> QED
          BY <1>2, <1>6, <4>1, <4>2 DEF CommandsInv, IntentsAgree
      <3> QED
        BY <3>2, <3>3
    <2>2. ASSUME NEW k \in Keys, NEW op, intents'[k] # None, op = intents'[k].op, op # None
          PROVE  Exists(op)' /\ operations'[op].type = "start"
      <3>1. CASE k = r.key
        BY <1>2, <1>5, <2>2, <3>1
      <3>2. CASE k # r.key
        BY <1>2, <1>5, <2>2, <3>2 DEF CommandsInv, IntentsAgree
      <3> QED
        BY <3>1, <3>2
    <2> QED
      BY <2>1, <2>2 DEF IntentsAgree
  <1>8. minted' \in Nat
    BY <1>2
  <1> QED
    BY <1>2, <1>4, <1>7, <1>8, IntentsKept

\* The three outcomes of persistPreparedConnectionIntent.
LEMMA PersistCases ==
  ASSUME CommandsInv, NEW q \in Requests, persistPreparedConnectionIntent(q)
  PROVE  \/ Stands(q) /\ UNCHANGED <<intents, minted>>
         \/ \E row : Stores(q, row)
  <1>1. requests[q].pc = "persist" /\ requests[q].pc \in ForIntents /\ requests[q].pc # "unsent"
    BY DEF persistPreparedConnectionIntent, ForIntents
  <1>2. CASE Live(requests[q].key, requests[q].at)
    BY <1>1, <1>2, ReplaysIntentStands DEF persistPreparedConnectionIntent, Live
  <1>3. CASE ~Live(requests[q].key, requests[q].at) /\ OfKey(requests[q].key) # {}
    <2>1. Refuses(q, "conflict") /\ UNCHANGED <<intents, minted>> /\ "conflict" \in Refusals
      BY <1>3 DEF persistPreparedConnectionIntent, Refusals
    <2> QED
      BY <1>1, <2>1, RefusesStands
  <1>4. CASE ~Live(requests[q].key, requests[q].at) /\ OfKey(requests[q].key) = {}
    <2>1. InsertConnectionIntent(q)
      BY <1>4 DEF persistPreparedConnectionIntent
    <2>2. PICK seen \in SeenActive(requests[q].env) :
             IF LockedEnvironment(q, seen) # "mint"
             THEN Refuses(q, LockedEnvironment(q, seen)) /\ UNCHANGED <<intents, minted>>
             ELSE /\ minted' = minted + 1
                  /\ intents' = [intents EXCEPT ![requests[q].key] =
                        [id |-> minted + 1, env |-> requests[q].env, op |-> requests[q].op,
                         expires |-> requests[q].at + 1, used |-> FALSE]]
                  /\ Goes(q, [requests[q] EXCEPT !.pc = "answered", !.intent = minted + 1])
      BY <2>1, Zenon DEF InsertConnectionIntent
    <2>3. CASE LockedEnvironment(q, seen) # "mint"
      <3>1. PICK why : why = LockedEnvironment(q, seen)
        OBVIOUS
      <3>2. why \in Refusals
        BY <2>3, <3>1 DEF LockedEnvironment, Refusals
      <3>3. Refuses(q, why) /\ UNCHANGED <<intents, minted>>
        BY <2>2, <2>3, <3>1
      <3> QED
        BY <1>1, <3>2, <3>3, RefusesStands
    <2>4. CASE LockedEnvironment(q, seen) = "mint"
      BY <1>4, <2>2, <2>4, Zenon DEF Stores
    <2> QED
      BY <2>3, <2>4
  <1> QED
    BY <1>2, <1>3, <1>4

LEMMA PersistKeeps ==
  ASSUME CommandsInv, NEW q \in Requests, persistPreparedConnectionIntent(q)
  PROVE  CommandsInv'
  <1>1. /\ requests[q].pc = "persist"
        /\ UNCHANGED <<operations, outbox, runtime, invocations, recovery, now, losses, skews>>
    BY DEF persistPreparedConnectionIntent
  <1>2. losses' \in 0..MaxLosses
    BY <1>1 DEF CommandsInv, TypeOK
  <1> QED
    BY <1>1, <1>2, PersistCases, StandsAlone, StoreKeeps

LEMMA ConsumeKeeps ==
  ASSUME CommandsInv, NEW key \in Keys, ConsumeConnectionIntent(key)
  PROVE  CommandsInv'
  <1>1. /\ Live(key, now) /\ intents' = [intents EXCEPT ![key].used = TRUE]
        /\ UNCHANGED <<requests, operations, outbox, minted, runtime, invocations, recovery, now, losses, skews>>
    BY DEF ConsumeConnectionIntent
  <1>2. PICK row \in IntentRow : row = intents[key]
    BY <1>1 DEF Live, CommandsInv, TypeOK
  <1>3. PICK next : next = [row EXCEPT !.used = TRUE]
    OBVIOUS
  <1>4. next \in IntentRow /\ next.id = row.id /\ next.op = row.op /\ next.expires = row.expires
    BY <1>3 DEF IntentRow
  <1>5. intents \in [Keys -> IntentRow \cup {None}] /\ intents' = [intents EXCEPT ![key] = next]
    BY <1>1, <1>2, <1>3 DEF CommandsInv, TypeOK
  <1>6. /\ intents' \in [Keys -> IntentRow \cup {None}] /\ intents'[key] = next
        /\ \A k \in Keys : k # key => intents'[k] = intents[k]
    BY <1>4, <1>5
  <1>7. \A o : Exists(o)' <=> Exists(o)
    BY <1>1 DEF Exists
  <1>8. \A k : OfKey(k)' = OfKey(k) /\ (Live(k, now)' => Live(k, now))
    BY <1>1, <1>6 DEF OfKey, Live
  <1>9. row # None
    BY <1>2
  <1>10. IntentsAgree'
    BY <1>1, <1>2, <1>4, <1>6, <1>7, <1>8, <1>9 DEF CommandsInv, IntentsAgree
  <1>11. requests' \in [Requests -> Request] /\ minted' \in Nat /\ now \in Nat /\ now' \in Nat /\ now <= now'
    BY <1>1 DEF CommandsInv, TypeOK
  <1>12. Frozen
    BY <1>1 DEF Frozen
  <1>13. RequestsAgree'
    BY <1>1, <1>11, <1>12, RequestsStay
  <1> QED
    BY <1>1, <1>6, <1>10, <1>11, <1>13, IntentsKept

LEMMA PruneKeeps ==
  ASSUME CommandsInv, PruneConnectionIntents
  PROVE  CommandsInv'
  <1>1. /\ intents' = [k \in Keys |-> IF Live(k, now) THEN intents[k] ELSE None]
        /\ UNCHANGED <<requests, operations, outbox, minted, runtime, invocations, recovery, now, losses, skews>>
    BY DEF PruneConnectionIntents
  <1>2. \A k \in Keys : intents'[k] = intents[k] \/ intents'[k] = None
    BY <1>1
  <1>3. intents \in [Keys -> IntentRow \cup {None}]
    BY DEF CommandsInv, TypeOK
  <1>4. intents' \in [Keys -> IntentRow \cup {None}]
    BY <1>1, <1>3
  <1>5. \A o : Exists(o)' <=> Exists(o)
    BY <1>1 DEF Exists
  <1>6. \A k : OfKey(k)' = OfKey(k) /\ (Live(k, now)' => Live(k, now))
    BY <1>1, <1>2 DEF OfKey, Live
  <1>7. IntentsAgree'
    BY <1>1, <1>2, <1>5, <1>6 DEF CommandsInv, IntentsAgree
  <1>8. requests' \in [Requests -> Request] /\ minted' \in Nat /\ now \in Nat /\ now' \in Nat /\ now <= now'
    BY <1>1 DEF CommandsInv, TypeOK
  <1>9. Frozen
    BY <1>1 DEF Frozen
  <1>10. RequestsAgree'
    BY <1>1, <1>8, <1>9, RequestsStay
  <1> QED
    BY <1>1, <1>4, <1>7, <1>8, <1>10, IntentsKept

-----------------------------------------------------------------------------
(* Workflows *)

\* An active Operation changes its status, and its invocation with it.
LEMMA StatusKeeps ==
  ASSUME CommandsInv, NEW o \in Operations, operations[o].status \in {"queued", "running"},
         NEW status \in {"running", "succeeded", "failed"},
         operations' = [operations EXCEPT ![o].status = status],
         NEW next \in {"begun", "returned"}, status = "running" <=> next = "begun",
         invocations' = [invocations EXCEPT ![o] = next],
         UNCHANGED <<requests, intents, minted, recovery, now>>
  PROVE  /\ operations' \in [Operations -> OperationRow]
         /\ invocations' \in [Operations -> {"none", "accepted", "begun", "returned"}]
         /\ RequestsAgree' /\ WorkflowsAgree' /\ OneActive' /\ OneOfKey' /\ IntentsAgree'
  <1>1. /\ operations \in [Operations -> OperationRow]
        /\ invocations \in [Operations -> {"none", "accepted", "begun", "returned"}]
    BY DEF CommandsInv, TypeOK
  <1>2. PICK row \in OperationRow : row = operations[o]
    BY <1>1
  <1>3. PICK new : new = [row EXCEPT !.status = status]
    OBVIOUS
  <1>4. /\ new \in OperationRow /\ new.status = status /\ new.env = row.env /\ new.key = row.key
        /\ new.type = row.type
    BY <1>3 DEF OperationRow
  <1>5. operations' = [operations EXCEPT ![o] = new]
    BY <1>2, <1>3
  <1>6. /\ operations' \in [Operations -> OperationRow] /\ operations'[o] = new
        /\ \A p \in Operations : p # o => operations'[p] = operations[p]
    BY <1>1, <1>4, <1>5
  <1>7. /\ invocations' \in [Operations -> {"none", "accepted", "begun", "returned"}]
        /\ invocations'[o] = next /\ \A p \in Operations : p # o => invocations'[p] = invocations[p]
    BY <1>1
  <1>8. /\ \A p \in Operations : /\ operations'[p].key = operations[p].key
                                 /\ operations'[p].env = operations[p].env
                                 /\ operations'[p].type = operations[p].type
                                 /\ operations'[p].status # "none" <=> operations[p].status # "none"
        /\ \A p \in Operations : operations'[p].status \in {"queued", "running"} =>
                                     operations[p].status \in {"queued", "running"}
    BY <1>2, <1>4, <1>6
  <1>9. Frozen
    BY <1>8 DEF Frozen
  <1>10. now \in Nat /\ now' \in Nat /\ now <= now'
    BY DEF CommandsInv, TypeOK
  <1>11. RequestsAgree'
    BY <1>9, <1>10, RequestsStay
  <1>12. \A p : Exists(p)' <=> Exists(p)
    BY <1>8 DEF Exists
  <1>13. WorkflowsAgree'
    <2>1. ASSUME NEW p \in Operations
          PROVE  /\ operations'[p].status = "none" => operations'[p].key = None
                 /\ operations'[p].status # "none" =>
                        operations'[p].type \in Types /\ operations'[p].env \in Environments
                 /\ invocations'[p] = "none" => operations'[p].status \in {"none", "queued"}
                 /\ invocations'[p] = "accepted" => operations'[p].status = "queued"
                 /\ invocations'[p] = "begun" => operations'[p].status = "running"
                 /\ operations'[p].status = "none" => invocations'[p] = "none"
      <3>1. CASE p = o
        BY <1>2, <1>4, <1>6, <1>7, <3>1 DEF CommandsInv, WorkflowsAgree
      <3>2. CASE p # o
        BY <1>6, <1>7, <3>2 DEF CommandsInv, WorkflowsAgree
      <3> QED
        BY <3>1, <3>2
    <2> QED
      BY <1>12, <2>1 DEF CommandsInv, WorkflowsAgree
  <1>14. \A e : Active(e)' \subseteq Active(e)
    BY <1>8 DEF Active
  <1>15. OneActive'
    BY <1>14 DEF CommandsInv, OneActive
  <1>16. OneOfKey'
    BY <1>8, <1>12 DEF CommandsInv, OneOfKey
  <1>17. \A k : OfKey(k)' = OfKey(k) /\ (Live(k, now)' <=> Live(k, now))
    BY <1>8 DEF OfKey, Live
  <1>18. IntentsAgree'
    <2>1. \A p : Exists(p) => Exists(p)' /\ operations'[p].type = operations[p].type
      BY <1>8, <1>12 DEF Exists
    <2> QED
      BY <1>17, <2>1 DEF CommandsInv, IntentsAgree
  <1> QED
    BY <1>6, <1>7, <1>11, <1>13, <1>15, <1>16, <1>18

LEMMA LoadsKeeps ==
  ASSUME CommandsInv, NEW o \in Operations, WorkflowLoads(o)
  PROVE  CommandsInv'
  <1>1. /\ invocations[o] = "accepted"
        /\ UNCHANGED <<requests, intents, minted, runtime, recovery, now, losses>>
    BY DEF WorkflowLoads
  <1>2. operations[o].status = "queued"
    BY <1>1 DEF CommandsInv, WorkflowsAgree
  <1>3. CASE /\ operations' = [operations EXCEPT ![o].status = "running"]
             /\ outbox' = [outbox EXCEPT ![o].started = TRUE]
             /\ invocations' = [invocations EXCEPT ![o] = "begun"]
             /\ UNCHANGED skews
    <2>1. /\ operations' \in [Operations -> OperationRow]
          /\ invocations' \in [Operations -> {"none", "accepted", "begun", "returned"}]
          /\ RequestsAgree' /\ WorkflowsAgree' /\ OneActive' /\ OneOfKey' /\ IntentsAgree'
      BY <1>1, <1>2, <1>3, StatusKeeps
    <2>2. outbox' \in [Operations -> OutboxRow]
      <3>1. outbox \in [Operations -> OutboxRow]
        BY DEF CommandsInv, TypeOK
      <3>2. PICK row : row = [outbox[o] EXCEPT !.started = TRUE]
        OBVIOUS
      <3>3. row \in OutboxRow
        BY <3>1, <3>2 DEF OutboxRow
      <3>4. outbox' = [outbox EXCEPT ![o] = row]
        BY <1>3, <3>2
      <3> QED
        BY <3>1, <3>3, <3>4
    <2>3. TypeOK'
      BY <1>1, <1>3, <2>1, <2>2 DEF CommandsInv, TypeOK
    <2> QED
      BY <2>1, <2>3 DEF CommandsInv
  <1>4. CASE /\ skews < MaxSkews /\ skews' = skews + 1
             /\ invocations' = [invocations EXCEPT ![o] = "returned"]
             /\ UNCHANGED <<operations, outbox>>
    <2>1. invocations \in [Operations -> {"none", "accepted", "begun", "returned"}]
      BY DEF CommandsInv, TypeOK
    <2>2. /\ invocations' \in [Operations -> {"none", "accepted", "begun", "returned"}]
          /\ invocations'[o] = "returned" /\ \A p \in Operations : p # o => invocations'[p] = invocations[p]
      BY <1>4, <2>1
    <2>3. \A p : Exists(p)' <=> Exists(p)
      BY <1>4 DEF Exists
    <2>4. WorkflowsAgree'
      BY <1>1, <1>2, <1>4, <2>2, <2>3 DEF CommandsInv, WorkflowsAgree
    <2>5. \A e : Active(e)' = Active(e)
      BY <1>4 DEF Active
    <2>6. OneActive'
      BY <2>5 DEF CommandsInv, OneActive
    <2>7. OneOfKey'
      BY <1>4, <2>3 DEF CommandsInv, OneOfKey
    <2>8. \A k : OfKey(k)' = OfKey(k) /\ (Live(k, now)' <=> Live(k, now))
      BY <1>1, <1>4 DEF OfKey, Live
    <2>9. IntentsAgree'
      BY <1>1, <1>4, <2>3, <2>8 DEF CommandsInv, IntentsAgree
    <2>10. Frozen /\ now \in Nat /\ now' \in Nat /\ now <= now'
      BY <1>1, <1>4 DEF Frozen, CommandsInv, TypeOK
    <2>11. RequestsAgree'
      BY <1>1, <2>10, RequestsStay
    <2>12. skews' \in 0..MaxSkews
      BY <1>4 DEF CommandsInv, TypeOK
    <2>13. TypeOK'
      BY <1>1, <1>4, <2>2, <2>12 DEF CommandsInv, TypeOK
    <2> QED
      BY <2>4, <2>6, <2>7, <2>9, <2>11, <2>13 DEF CommandsInv
  <1> QED
    BY <1>3, <1>4, Zenon DEF WorkflowLoads

\* The Environment of an Operation under way is one.
RuntimeRow == [id : Nat, status : RuntimeStatuses]

LEMMA RuntimeTyped ==
  ASSUME CommandsInv, NEW e, NEW row \in RuntimeRow, runtime' = [runtime EXCEPT ![e] = row]
  PROVE  runtime' \in [Environments -> RuntimeRow]
  <1>1. runtime \in [Environments -> RuntimeRow]
    BY DEF CommandsInv, TypeOK, RuntimeRow
  <1> QED
    BY <1>1

LEMMA RuntimeStatusTyped ==
  ASSUME CommandsInv, NEW e, NEW status \in RuntimeStatuses, runtime' = [runtime EXCEPT ![e].status = status]
  PROVE  runtime' \in [Environments -> RuntimeRow]
  <1>1. runtime \in [Environments -> RuntimeRow]
    BY DEF CommandsInv, TypeOK, RuntimeRow
  <1>2. CASE e \in Environments
    <2>1. PICK row \in RuntimeRow : row = runtime[e]
      BY <1>1, <1>2
    <2>2. PICK next : next = [row EXCEPT !.status = status]
      OBVIOUS
    <2>3. next \in RuntimeRow
      BY <2>2 DEF RuntimeRow
    <2>4. runtime' = [runtime EXCEPT ![e] = next]
      BY <2>1, <2>2
    <2> QED
      BY <1>1, <2>3, <2>4
  <1>3. CASE e \notin Environments
    BY <1>1, <1>3
  <1> QED
    BY <1>2, <1>3

LEMMA WorksKeeps ==
  ASSUME CommandsInv, NEW o \in Operations, WorkflowWorks(o)
  PROVE  CommandsInv'
  <1>1. /\ invocations[o] = "begun"
        /\ UNCHANGED <<requests, operations, outbox, intents, minted, invocations, recovery, now, losses, skews>>
    BY DEF WorkflowWorks
  <1>2. PICK e : e = operations[o].env
    OBVIOUS
  <1>3. runtime' \in [Environments -> RuntimeRow]
    <2>1. CASE \E move \in Moves[operations[o].type] : runtime' = [runtime EXCEPT ![e].status = move[2]]
      <3>1. PICK move \in Moves[operations[o].type] : runtime' = [runtime EXCEPT ![e].status = move[2]]
        BY <2>1
      <3>2. operations[o].type \in {"start", "stop", "apply"}
        BY <1>1 DEF CommandsInv, WorkflowsAgree, Types
      <3>3. move[2] \in RuntimeStatuses
        BY <3>1, <3>2 DEF Moves, RuntimeStatuses
      <3> QED
        BY <3>1, <3>3, RuntimeStatusTyped
    <2>2. CASE runtime[e].status = "replacing" /\ runtime' = [runtime EXCEPT ![e] = [id |-> @.id + 1, status |-> "absent"]]
      <3>1. runtime \in [Environments -> RuntimeRow]
        BY DEF CommandsInv, TypeOK, RuntimeRow
      <3>2. CASE e \in Environments
        <4>1. PICK row : row = [id |-> runtime[e].id + 1, status |-> "absent"]
          OBVIOUS
        <4>2. runtime[e].id + 1 \in Nat /\ "absent" \in RuntimeStatuses
          BY <3>1, <3>2 DEF RuntimeRow, RuntimeStatuses
        <4>3. row \in RuntimeRow
          BY <4>1, <4>2 DEF RuntimeRow
        <4>4. runtime' = [runtime EXCEPT ![e] = row]
          BY <2>2, <4>1
        <4> QED
          BY <4>3, <4>4, RuntimeTyped
      <3>3. CASE e \notin Environments
        BY <2>2, <3>1, <3>3
      <3> QED
        BY <3>2, <3>3
    <2> QED
      BY <1>2, <2>1, <2>2, Zenon DEF WorkflowWorks
  <1>4. WorkflowsAgree' /\ OneActive' /\ OneOfKey' /\ IntentsAgree' /\ Frozen
    BY <1>1, RowsStay
  <1>5. now \in Nat /\ now' \in Nat /\ now <= now'
    BY <1>1 DEF CommandsInv, TypeOK
  <1>6. RequestsAgree'
    BY <1>1, <1>4, <1>5, RequestsStay
  <1>7. TypeOK'
    BY <1>1, <1>3 DEF CommandsInv, TypeOK, RuntimeRow
  <1> QED
    BY <1>4, <1>6, <1>7 DEF CommandsInv

LEMMA EndsKeeps ==
  ASSUME CommandsInv, NEW o \in Operations, WorkflowEnds(o)
  PROVE  CommandsInv'
  <1>1. /\ invocations[o] = "begun" /\ invocations' = [invocations EXCEPT ![o] = "returned"]
        /\ UNCHANGED <<requests, outbox, intents, minted, recovery, now, losses, skews>>
    BY DEF WorkflowEnds
  <1>2. operations[o].status = "running"
    BY <1>1 DEF CommandsInv, WorkflowsAgree
  <1>3. PICK status \in {"succeeded", "failed"} : operations' = [operations EXCEPT ![o].status = status]
    BY DEF WorkflowEnds
  <1>4. /\ operations' \in [Operations -> OperationRow]
        /\ invocations' \in [Operations -> {"none", "accepted", "begun", "returned"}]
        /\ RequestsAgree' /\ WorkflowsAgree' /\ OneActive' /\ OneOfKey' /\ IntentsAgree'
    BY <1>1, <1>2, <1>3, StatusKeeps
  <1>5. runtime' \in [Environments -> RuntimeRow]
    <2>1. UNCHANGED runtime \/ runtime' = [runtime EXCEPT ![operations[o].env].status = "error"]
      BY Zenon DEF WorkflowEnds
    <2>2. "error" \in RuntimeStatuses
      BY DEF RuntimeStatuses
    <2>3. CASE UNCHANGED runtime
      BY <2>3 DEF CommandsInv, TypeOK, RuntimeRow
    <2> QED
      BY <2>1, <2>2, <2>3, RuntimeStatusTyped
  <1>6. TypeOK'
    BY <1>1, <1>4, <1>5 DEF CommandsInv, TypeOK, RuntimeRow
  <1> QED
    BY <1>4, <1>6 DEF CommandsInv

-----------------------------------------------------------------------------
(* The theorems *)

LEMMA InitEstablishes == Init => CommandsInv
  <1> SUFFICES ASSUME Init PROVE CommandsInv
    OBVIOUS
  <1>1. now = 0 /\ minted = 0 /\ recovery = {} /\ losses = 0 /\ skews = 0
    BY DEF Init
  <1>2. /\ \A q \in Requests : requests[q] = Unsent
        /\ \A o \in Operations : operations[o] = [type |-> None, env |-> None, runtime |-> 0,
                                                  key |-> None, status |-> "none"]
        /\ \A o \in Operations : outbox[o] = [attempts |-> 0, due |-> TRUE, started |-> FALSE]
        /\ \A k \in Keys : intents[k] = None
        /\ \A o \in Operations : invocations[o] = "none"
    BY DEF Init
  <1>3. Unsent \in Request /\ Unsent.pc = "unsent" /\ Unsent.op = None /\ Unsent.active = None
        /\ Unsent.at = 0 /\ Unsent.kind = None
    BY DEF Unsent, Request
  <1>5. \A o : ~Exists(o)
    BY <1>2 DEF Exists
  <1>6. RequestsAgree
    BY <1>1, <1>2, <1>3 DEF RequestsAgree, Agrees, ForIntents
  <1>7. WorkflowsAgree /\ OneOfKey
    BY <1>1, <1>2, <1>5 DEF WorkflowsAgree, OneOfKey
  <1>8. OneActive
    BY <1>2 DEF OneActive, Active
  <1>9. IntentsAgree
    BY <1>2 DEF IntentsAgree, Live
  <1>10. TypeOK
    <2>1. requests \in [Requests -> Request]
      BY <1>3 DEF Init
    <2>2. operations \in [Operations -> OperationRow]
      BY DEF Init, OperationRow
    <2>3. outbox \in [Operations -> OutboxRow]
      BY DEF Init, OutboxRow
    <2>4. intents \in [Keys -> IntentRow \cup {None}]
      BY DEF Init
    <2>5. runtime \in [Environments -> [id : Nat, status : RuntimeStatuses]]
      BY DEF Init, RuntimeStatuses
    <2>6. invocations \in [Operations -> {"none", "accepted", "begun", "returned"}]
      BY DEF Init
    <2> QED
      BY <1>1, <2>1, <2>2, <2>3, <2>4, <2>5, <2>6 DEF TypeOK
  <1> QED
    BY <1>6, <1>7, <1>8, <1>9, <1>10 DEF CommandsInv

LEMMA RequestKeeps ==
  ASSUME CommandsInv, NEW q \in Requests, RequestStep(q) \/ RequestLost(q)
  PROVE  CommandsInv'
  <1>1. losses' \in 0..MaxLosses
        \/ ~(\/ ReplayRuntimeOperation(q) \/ CreditBalance(q) \/ PendingRuntimeOperation(q) \/ RequestLost(q)
             \/ ReadEnvironment(q) \/ ReadRuntime(q) \/ replayConnectionIntent(q)
             \/ prepareConnectionIntentStart(q) \/ joinConnectionStart(q))
    BY LossCounted
    DEF ReplayRuntimeOperation, CreditBalance, PendingRuntimeOperation, RequestLost, ReadEnvironment,
        ReadRuntime, replayConnectionIntent, prepareConnectionIntentStart, joinConnectionStart
  <1>2. CASE ReplayRuntimeOperation(q)
    BY <1>1, <1>2, CommandStands, StandsAlone DEF ReplayRuntimeOperation
  <1>3. CASE CreditBalance(q)
    BY <1>1, <1>3, CommandStands, StandsAlone DEF CreditBalance
  <1>4. CASE PendingRuntimeOperation(q)
    BY <1>1, <1>4, CommandStands, StandsAlone DEF PendingRuntimeOperation
  <1>5. CASE RequestLost(q)
    BY <1>1, <1>5, CommandStands, StandsAlone DEF RequestLost
  <1>6. CASE ReadEnvironment(q)
    BY <1>1, <1>6, ReadEnvironmentStands, StandsAlone DEF ReadEnvironment
  <1>7. CASE ReadRuntime(q)
    BY <1>1, <1>7, ReadRuntimeStands, StandsAlone DEF ReadRuntime
  <1>8. CASE replayConnectionIntent(q)
    BY <1>1, <1>8, IntentStands, StandsAlone DEF replayConnectionIntent
  <1>9. CASE prepareConnectionIntentStart(q)
    BY <1>1, <1>9, IntentStands, StandsAlone DEF prepareConnectionIntentStart
  <1>10. CASE joinConnectionStart(q)
    BY <1>1, <1>10, IntentStands, StandsAlone DEF joinConnectionStart
  <1>11. CASE \/ ReserveRuntimeOperation(q) \/ SendRuntimeOperation(q)
              \/ DeferRuntimeOperationDispatch(q) \/ persistPreparedConnectionIntent(q)
    BY <1>11, ReserveKeeps, SendKeeps, DeferKeeps, PersistKeeps
  <1> QED
    BY <1>2, <1>3, <1>4, <1>5, <1>6, <1>7, <1>8, <1>9, <1>10, <1>11 DEF RequestStep

LEMMA StepKeeps == CommandsInv /\ [Next]_vars => CommandsInv'
  <1> SUFFICES ASSUME CommandsInv, [Next]_vars PROVE CommandsInv'
    OBVIOUS
  <1>1. ASSUME NEW q \in Requests, NEW kind \in Kinds, NEW e \in Environments, NEW key \in Keys,
               Submit(q, kind, e, key)
        PROVE  CommandsInv'
    <2>1. Stands(q)
      BY <1>1, SubmitStands
    <2>2. losses' \in 0..MaxLosses
      BY <1>1 DEF Submit, CommandsInv, TypeOK
    <2> QED
      BY <1>1, <2>1, <2>2, StandsAlone DEF Submit
  <1>2. ASSUME NEW q \in Requests, RequestStep(q) \/ RequestLost(q) PROVE CommandsInv'
    BY <1>2, RequestKeeps
  <1>3. ASSUME NEW o \in Operations, RecoverySends(o) \/ WorkflowStep(o) PROVE CommandsInv'
    BY <1>3, RecoverySendsKeeps, LoadsKeeps, WorksKeeps, EndsKeeps DEF WorkflowStep
  <1>4. CASE RecoveryBegins \/ Tick \/ \E o \in Operations : BackoffElapses(o)
    BY <1>4, LoopKeeps
  <1>5. CASE PruneConnectionIntents \/ \E key \in Keys : ConsumeConnectionIntent(key)
    BY <1>5, PruneKeeps, ConsumeKeeps
  <1>6. CASE UNCHANGED vars
    <2>1. UNCHANGED <<requests, operations, outbox, intents, minted, runtime, invocations, recovery, now, losses, skews>>
      BY <1>6 DEF vars
    <2>2. WorkflowsAgree' /\ OneActive' /\ OneOfKey' /\ IntentsAgree' /\ Frozen
      BY <2>1, RowsStay
    <2>3. now \in Nat /\ now' \in Nat /\ now <= now'
      BY <2>1 DEF CommandsInv, TypeOK
    <2>4. RequestsAgree'
      BY <2>1, <2>2, <2>3, RequestsStay
    <2>5. TypeOK'
      BY <2>1 DEF CommandsInv, TypeOK
    <2> QED
      BY <2>2, <2>4, <2>5 DEF CommandsInv
  <1> QED
    BY <1>1, <1>2, <1>3, <1>4, <1>5, <1>6 DEF Next

\* Whatever requests, recoveries, workflows, losses and ticks of the clock interleave, the tables of
\* the control plane agree with each other, with what Restate has and with what the requests know.
THEOREM CommandsInvariant == Spec => []CommandsInv
  BY InitEstablishes, StepKeeps, PTL DEF Spec

\* The rows and the requests of the control plane keep their types.
THEOREM CommandsTypeCorrect == Spec => []TypeOK
  <1>1. CommandsInv => TypeOK
    BY DEF CommandsInv
  <1> QED
    BY <1>1, CommandsInvariant, PTL

\* Two accepted requests with one Idempotency-Key are one command and one Operation, and the key of a
\* live Connection Intent names none: replayRuntimeOperation looks the key up under its lock before it
\* reserves, and an Intent is stored only for a key without an Operation.
THEOREM KeyNamesOne == Spec => []KeyNamesOneCommand
  <1>1. CommandsInv => KeyNamesOneCommand
    <2> SUFFICES ASSUME CommandsInv PROVE KeyNamesOneCommand
      OBVIOUS
    <2>1. ASSUME NEW p \in Requests, NEW q \in Requests, Answered(p), Answered(q),
                 requests[p].key = requests[q].key, requests[p].kind \in Types, requests[q].kind \in Types
          PROVE  /\ requests[p].kind = requests[q].kind /\ requests[p].env = requests[q].env
                 /\ requests[p].op = requests[q].op
      <3>1. requests[p].pc = "answered" /\ requests[q].pc = "answered"
        BY <2>1 DEF Answered
      <3>2. requests[p].kind # "connect" /\ requests[q].kind # "connect"
        BY <2>1 DEF Types
      <3>3. IsCommandOf(requests[p].op, p, requests[p]) /\ IsCommandOf(requests[q].op, q, requests[q])
        BY <3>1, <3>2, UnderWay DEF Agrees
      <3>4. requests[p].op = requests[q].op
        BY <2>1, <3>2, <3>3 DEF IsCommandOf, KeyFor, Exists, CommandsInv, OneOfKey
      <3> QED
        BY <3>2, <3>3, <3>4 DEF IsCommandOf, TypeFor
    <2>2. \A k \in Keys : Live(k, now) => OfKey(k) = {}
      BY DEF CommandsInv, IntentsAgree
    <2> QED
      BY <2>1, <2>2 DEF KeyNamesOneCommand
  <1> QED
    BY <1>1, CommandsInvariant, PTL

\* No Environment has two workflows under way: an invocation that began has its Operation running, and
\* the index of active Operations admits one per Environment.
THEOREM OneWorkflow == Spec => []OneWorkflowPerEnvironment
  <1>1. CommandsInv => OneWorkflowPerEnvironment
    <2> SUFFICES ASSUME CommandsInv, NEW o \in Operations, NEW p \in Operations,
                        invocations[o] = "begun", invocations[p] = "begun",
                        operations[o].env = operations[p].env
                 PROVE  o = p
      BY DEF OneWorkflowPerEnvironment
    <2>1. operations[o].status = "running" /\ operations[p].status = "running"
      BY DEF CommandsInv, WorkflowsAgree
    <2>2. operations[o].env \in Environments
      BY <2>1 DEF CommandsInv, WorkflowsAgree
    <2>3. o \in Active(operations[o].env) /\ p \in Active(operations[o].env)
      BY <2>1 DEF Active
    <2> QED
      BY <2>2, <2>3 DEF CommandsInv, OneActive
  <1> QED
    BY <1>1, CommandsInvariant, PTL

LEMMA StoreHolds ==
  ASSUME CommandsInv, NEW q \in Requests, requests[q].pc = "persist", NEW row, Stores(q, row)
  PROVE  KeepsIntents
  <1>1. PICK r \in Request : /\ r = requests[q] /\ Agrees(q, r) /\ r.key \in Keys
    BY UnderWay
  <1>2. /\ row # None /\ row.id = minted + 1 /\ row.env = r.env /\ row.op = r.op
        /\ (row.op # None => operations[row.op].type = "start")
        /\ minted \in Nat /\ minted' = minted + 1 /\ intents'[r.key] = row
        /\ \A k \in Keys : k # r.key => intents'[k] = intents[k]
    BY <1>1, StoredRow
  <1>3. \A k \in Keys : intents'[k] # None /\ intents'[k].id = minted' => k = r.key
    <2> SUFFICES ASSUME NEW k \in Keys, intents'[k] # None, intents'[k].id = minted', k # r.key PROVE FALSE
      OBVIOUS
    <2>1. intents[k] # None /\ intents[k].id = minted + 1
      BY <1>2
    <2>2. intents[k].id <= minted
      BY <2>1 DEF CommandsInv, IntentsAgree
    <2> QED
      BY <1>2, <2>1, <2>2
  <1>4. PICK seen \in SeenActive(r.env) : LockedEnvironment(q, seen) = "mint"
    BY <1>1 DEF Stores
  <1>5. IF row.op = None
        THEN runtime[row.env].status = "ready" /\ \A o \in Active(row.env) : operations[o].status = "queued"
        ELSE /\ row.op \in Active(row.env) /\ operations[row.op].type = "start"
             /\ operations[row.op].runtime = runtime[row.env].id
    <2>1. CASE row.op = None
      <3>1. seen = {} /\ runtime[row.env].status = "ready"
        BY <1>1, <1>2, <1>4, <2>1 DEF LockedEnvironment
      <3>2. \A o \in Active(row.env) : operations[o].status = "queued"
        BY <1>2, <1>4, <3>1 DEF SeenActive
      <3> QED
        BY <2>1, <3>1, <3>2
    <2>2. CASE row.op # None
      BY <1>1, <1>2, <1>4, <2>2 DEF LockedEnvironment
    <2> QED
      BY <2>1, <2>2
  <1>6. ASSUME NEW k \in Keys, Live(k, now)
        PROVE  /\ intents'[k] # None /\ intents'[k].id = intents[k].id
               /\ intents[k].used => intents'[k].used
    <2>1. intents[k] # None /\ intents[k].expires > now
      BY <1>6 DEF Live
    <2>2. intents[k].expires \in Nat /\ now \in Nat /\ r.at \in Nat /\ r.at <= now
      BY <1>1, <2>1, RequestFields DEF CommandsInv, TypeOK, IntentRow, Agrees
    <2>3. ~Live(r.key, r.at)
      BY <1>1 DEF Stores
    <2>4. k # r.key
      BY <1>1, <2>1, <2>2, <2>3 DEF Live
    <2> QED
      BY <1>2, <2>1, <2>4
  <1>7. ASSUME NEW k \in Keys, intents'[k] # None, intents'[k].id = minted'
        PROVE  LET e == intents'[k].env
                   op == intents'[k].op IN
               IF op = None
               THEN runtime[e].status = "ready" /\ \A o \in Active(e) : operations[o].status = "queued"
               ELSE /\ op \in Active(e) /\ operations[op].type = "start"
                    /\ operations[op].runtime = runtime[e].id
    <2>1. intents'[k] = row
      BY <1>2, <1>3, <1>7
    <2> QED
      BY <1>5, <2>1, Zenon
  <1> QED
    BY <1>6, <1>7, Zenon DEF KeepsIntents

\* Steps that mint nothing and keep the rows of the Intents that live.
LEMMA UnmintedHolds ==
  ASSUME minted' = minted,
         \A k \in Keys : Live(k, now) => /\ intents'[k] # None /\ intents'[k].id = intents[k].id
                                         /\ intents[k].used => intents'[k].used
  PROVE  KeepsIntents
  BY Zenon DEF KeepsIntents

LEMMA UntouchedHolds ==
  ASSUME UNCHANGED <<intents, minted>>
  PROVE  KeepsIntents
  <1>1. \A k \in Keys : Live(k, now) => /\ intents'[k] # None /\ intents'[k].id = intents[k].id
                                        /\ intents[k].used => intents'[k].used
    BY DEF Live
  <1> QED
    BY <1>1, UnmintedHolds

\* An Intent is minted on what holds when it is stored, whatever the request read before, and stays
\* what it was while it lives: persistPreparedConnectionIntent decides under the lock of the
\* Environment, and a request's reading of the clock is never ahead of the clock.
THEOREM IntentsAreHeld == Spec => IntentsHold
  <1>1. CommandsInv /\ [Next]_vars => [KeepsIntents]_vars
    <2> SUFFICES ASSUME CommandsInv, Next PROVE KeepsIntents
      OBVIOUS
    <2>1. CASE UNCHANGED <<intents, minted>>
      BY <2>1, UntouchedHolds
    <2>2. ASSUME NEW q \in Requests, persistPreparedConnectionIntent(q) PROVE KeepsIntents
      <3>1. requests[q].pc = "persist"
        BY <2>2 DEF persistPreparedConnectionIntent
      <3> QED
        BY <2>2, <3>1, PersistCases, UntouchedHolds, StoreHolds
    <2>3. ASSUME NEW key \in Keys, ConsumeConnectionIntent(key) PROVE KeepsIntents
      <3>1. /\ Live(key, now) /\ intents' = [intents EXCEPT ![key].used = TRUE] /\ minted' = minted
        BY <2>3 DEF ConsumeConnectionIntent
      <3>2. PICK row \in IntentRow : row = intents[key]
        BY <3>1 DEF Live, CommandsInv, TypeOK
      <3>3. PICK next : next = [row EXCEPT !.used = TRUE]
        OBVIOUS
      <3>4. next \in IntentRow /\ next.id = row.id /\ next.used
        BY <3>3 DEF IntentRow
      <3>5. intents \in [Keys -> IntentRow \cup {None}] /\ intents' = [intents EXCEPT ![key] = next]
        BY <3>1, <3>2, <3>3 DEF CommandsInv, TypeOK
      <3>6. intents'[key] = next /\ next # None /\ \A k \in Keys : k # key => intents'[k] = intents[k]
        BY <3>4, <3>5
      <3>7. \A k \in Keys : Live(k, now) => /\ intents'[k] # None /\ intents'[k].id = intents[k].id
                                            /\ intents[k].used => intents'[k].used
        BY <3>2, <3>4, <3>6 DEF Live
      <3> QED
        BY <3>1, <3>7, UnmintedHolds
    <2>4. CASE PruneConnectionIntents
      <3>1. /\ intents' = [k \in Keys |-> IF Live(k, now) THEN intents[k] ELSE None] /\ minted' = minted
        BY <2>4 DEF PruneConnectionIntents
      <3>2. \A k \in Keys : Live(k, now) => /\ intents'[k] # None /\ intents'[k].id = intents[k].id
                                            /\ intents[k].used => intents'[k].used
        BY <3>1 DEF Live
      <3> QED
        BY <3>1, <3>2, UnmintedHolds
    <2>5. ASSUME NEW q \in Requests, RequestStep(q) \/ RequestLost(q) PROVE KeepsIntents
      BY <2>1, <2>2, <2>5
      DEF RequestStep, RequestLost, ReplayRuntimeOperation, CreditBalance, ReserveRuntimeOperation,
          PendingRuntimeOperation, SendRuntimeOperation, DeferRuntimeOperationDispatch, ReadEnvironment,
          ReadRuntime, replayConnectionIntent, prepareConnectionIntentStart, joinConnectionStart
    <2>6. ASSUME NEW o \in Operations, RecoverySends(o) \/ BackoffElapses(o) \/ WorkflowStep(o)
          PROVE  KeepsIntents
      BY <2>1, <2>6
      DEF RecoverySends, BackoffElapses, WorkflowStep, WorkflowLoads, WorkflowWorks, WorkflowEnds
    <2>7. ASSUME NEW q \in Requests, \E kind \in Kinds, e \in Environments, key \in Keys : Submit(q, kind, e, key)
          PROVE  KeepsIntents
      BY <2>1, <2>7 DEF Submit
    <2>8. CASE RecoveryBegins \/ Tick
      BY <2>1, <2>8 DEF RecoveryBegins, Tick
    <2> QED
      BY <2>3, <2>4, <2>5, <2>6, <2>7, <2>8 DEF Next
  <1> QED
    BY <1>1, CommandsInvariant, PTL DEF Spec, IntentsHold

=============================================================================
