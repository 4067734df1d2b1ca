--------------------------- MODULE AutoStopProofs ---------------------------
(***************************************************************************)
(* Proofs about AutoStop, for every number of Runtimes, policies, samples, *)
(* observations, Operations, crashes and faults: a grace period has its    *)
(* timer, and an automatic stop rests on two idle Snapshots.               *)
(***************************************************************************)
EXTENDS AutoStop, WellFoundedInduction, TLAPS

-----------------------------------------------------------------------------
(* The inductive invariant. *)

(* The timers sent and the stops asked for are of this generation or of    *)
(* earlier ones: generations are never used again.                         *)
TimersAreSpent ==
    /\ \A t \in sent \cup stops : t[2] <= coord.timer
    /\ coord.pending /\ <<coord.runtime, coord.timer>> \in stops => handler.pc = "dispatch"

(* The Snapshot s of Runtime r is idle by the policy of generation g.      *)
IdleBy(r, g, s) ==
    /\ modes[g] # "manual"
    /\ s \in DOMAIN samples[r] /\ samples[r][s] \cap Protects[modes[g]] = {}

(* A running grace period has its timer, and began with an idle Snapshot   *)
(* that has been counted.                                                  *)
GraceIsEvidenced ==
    coord.pending =>
        /\ coord.runtime # 0 /\ coord.policy # 0
        /\ <<coord.runtime, coord.timer>> \in sent
        /\ coord.grace # 0 /\ coord.grace <= coord.last
        /\ IdleBy(coord.runtime, coord.policy, coord.grace)
        /\ <<coord.runtime, coord.timer>> \in fired => faults # 0 \/ handler.kind = "Expire"

(* Snapshots that are stored, sent or being judged have been taken.        *)
SnapshotsAreTaken ==
    /\ \A r \in Runtimes : stored[r] \subseteq DOMAIN samples[r]
    /\ \A o \in observations : o.sample \in DOMAIN samples[o.runtime]
    /\ handler.pc = "after" /\ handler.seen.sample # 0 =>
          handler.seen.sample \in DOMAIN samples[coord.runtime]

(* The handler that has the object works on the state it has read; what it *)
(* is about to dispatch was sampled after it began.                        *)
HandlerIsCurrent ==
    /\ handler.pc = "idle" <=> handler.kind = "none"
    /\ handler.kind = "none" => handler = Idle
    /\ handler.kind # "none" => coord.runtime # 0
    /\ handler.kind = "Expire" => coord.pending
    /\ handler.kind = "Expire" /\ handler.pc = "after" /\ handler.seen.fresh =>
          handler.since < handler.seen.sample
    /\ handler.pc = "dispatch" =>
          /\ handler.kind = "Expire"
          /\ IdleBy(coord.runtime, coord.policy, handler.seen.sample)
          /\ coord.last < handler.seen.sample /\ handler.since < handler.seen.sample

RuntimesRemain == runtime.status = "replacing" => runtime.id < MaxRuntimes

Inv ==
    /\ TypeOK /\ TimersAreSpent /\ GraceIsEvidenced /\ SnapshotsAreTaken
    /\ HandlerIsCurrent /\ RuntimesRemain
-----------------------------------------------------------------------------
(* The greatest of a bounded set of numbers, and the latest Snapshot. *)

LEMMA LeastExists ==
    ASSUME NEW T, T \subseteq Nat, T # {}
    PROVE  \E x \in T : \A y \in T : x <= y
<1>1. IsWellFoundedOn(OpToRel(<,Nat), Nat)
  BY NatLessThanWellFounded
<1>2. PICK x \in T : \A y \in T : ~ (<<y, x>> \in OpToRel(<,Nat))
  BY <1>1, WFMin
<1>3. \A y \in T : ~(y < x)
  BY <1>2 DEF OpToRel
<1> QED BY <1>3

LEMMA GreatestExists ==
    ASSUME NEW n \in Nat, NEW S, S \subseteq 1..n, S # {}
    PROVE  \E x \in S : \A y \in S : y <= x
<1> DEFINE T == {n - s : s \in S}
<1>1. \A s \in S : s \in Int /\ n - s \in Nat
  OBVIOUS
<1>2. T \subseteq Nat /\ T # {}
  BY <1>1
<1>3. \A y \in S : n - y \in T
  OBVIOUS
<1>4. \A t \in T : \E s \in S : t = n - s
  OBVIOUS
<1> HIDE DEF T
<1>5. PICK x \in T : \A y \in T : x <= y
  BY <1>2, LeastExists
<1>6. PICK s \in S : x = n - s
  BY <1>4
<1>7. \A y \in S : n - s <= n - y
  BY <1>3, <1>5, <1>6
<1> QED BY <1>1, <1>7

LEMMA LatestIsStored ==
    ASSUME TypeOK, NEW r \in Runtimes
    PROVE  /\ stored[r] = {} => Latest(r) = 0
           /\ stored[r] # {} => Latest(r) \in stored[r]
           /\ Latest(r) \in Nat
<1>1. stored[r] \subseteq 1..MaxSamples /\ MaxSamples \in Nat
  BY BoundsAssumption DEF TypeOK
<1>2. stored[r] = {} => Latest(r) = 0
  BY DEF Latest
<1>3. ASSUME stored[r] # {} PROVE Latest(r) \in stored[r]
  <2>1. \E s \in stored[r] : \A t \in stored[r] : t <= s
    BY <1>1, <1>3, GreatestExists
  <2> QED BY <1>3, <2>1 DEF Latest
<1> QED BY <1>1, <1>2, <1>3

-----------------------------------------------------------------------------
(* The coordinator: what becomes of its state. *)

(* The generation does not go back, and a grace period goes on with the    *)
(* evidence it had, or begins with a new generation on new evidence.       *)
Settled(c) ==
    /\ coord.timer <= c.timer
    /\ c.pending =>
          \/ /\ coord.pending /\ c.timer = coord.timer /\ c.runtime = coord.runtime
             /\ c.policy = coord.policy /\ c.grace = coord.grace /\ coord.last <= c.last
          \/ /\ coord.timer < c.timer /\ c.runtime # 0 /\ c.policy # 0
             /\ c.grace # 0 /\ c.grace <= c.last
             /\ IdleBy(c.runtime, c.policy, c.grace)

(* The ways the state ends that no grace period survives.                  *)
LEMMA EndedIsSettled ==
    ASSUME TypeOK, NEW c, c.timer \in Nat, coord.timer <= c.timer, ~c.pending
    PROVE  Settled(c)
BY DEF Settled

LEMMA CountedFacts ==
    ASSUME NEW c \in CoordinationState, NEW o \in Observation
    PROVE  /\ Counted(c, o) \in CoordinationState
           /\ Counted(c, o).timer = c.timer /\ Counted(c, o).pending = c.pending
           /\ Counted(c, o).runtime = c.runtime /\ Counted(c, o).policy = c.policy
           /\ Counted(c, o).grace = c.grace /\ c.last <= Counted(c, o).last
           /\ Counted(c, o).dispatched = c.dispatched
           /\ Counted(c, o).suppressed = c.suppressed
           /\ Judged(o) => o.sample <= Counted(c, o).last
<1>1. CASE Judged(o)
  <2> DEFINE last == Bigger(c.last, o.sample)
  <2>1. last \in Nat /\ c.last <= last /\ o.sample <= last
    BY DEF Bigger, CoordinationState, Observation
  <2>2. Counted(c, o) = [c EXCEPT !.last = last]
    BY <1>1 DEF Counted
  <2> HIDE DEF last
  <2> QED BY <2>1, <2>2 DEF CoordinationState
<1>2. CASE ~Judged(o)
  BY <1>2 DEF Counted, CoordinationState
<1> QED BY <1>1, <1>2

LEMMA CancelFacts ==
    ASSUME NEW c \in CoordinationState
    PROVE  /\ Cancel(c) \in CoordinationState /\ ~Cancel(c).pending
           /\ c.timer <= Cancel(c).timer
<1>1. CASE c.pending
  <2> DEFINE t == c.timer + 1
             n == Cancel(c)
  <2>1. t \in Nat /\ c.timer <= t
    BY DEF CoordinationState
  <2>2. n = [c EXCEPT !.timer = t, !.pending = FALSE, !.grace = 0]
    BY <1>1 DEF Cancel
  <2> HIDE DEF t, n
  <2>3. n \in CoordinationState
    BY <2>1, <2>2 DEF CoordinationState
  <2>4. n.timer = t /\ n.pending = FALSE
    BY <2>2 DEF CoordinationState
  <2> QED BY <2>1, <2>3, <2>4 DEF n
<1>2. CASE ~c.pending
  BY <1>2 DEF Cancel, CoordinationState
<1> QED BY <1>1, <1>2

LEMMA CoordinatedFacts ==
    ASSUME NEW c \in CoordinationState, NEW o \in Observation
    PROVE  LET b == Coordinated(c, o) IN
           /\ b \in CoordinationState /\ c.timer <= b.timer
           /\ b.runtime = o.runtime /\ b.policy = o.policy
           /\ b.pending => b = c
           /\ coordinationChanged(c, o) => ~b.pending
<1> DEFINE b == Coordinated(c, o)
<1>1. CASE ~coordinationChanged(c, o)
  BY <1>1 DEF Coordinated, coordinationChanged, CoordinationState
<1>2. CASE coordinationChanged(c, o)
  <2> DEFINE t == IF c.pending THEN c.timer + 1 ELSE c.timer
             s == IF c.runtime # o.runtime THEN 0 ELSE c.suppressed
  <2>1. /\ t \in Nat /\ c.timer <= t /\ s \in Runtimes \cup {0}
        /\ o.runtime \in Runtimes /\ o.policy \in Generations
    BY DEF CoordinationState, Observation
  <2>2. b = [c EXCEPT !.timer = t, !.pending = FALSE, !.runtime = o.runtime,
                      !.policy = o.policy, !.last = 0, !.dispatched = 0, !.grace = 0,
                      !.suppressed = s]
    BY <1>2 DEF Coordinated
  <2> HIDE DEF t, s, b
  <2>3. b \in CoordinationState
    BY <2>1, <2>2 DEF CoordinationState
  <2>4. b.timer = t /\ b.pending = FALSE /\ b.runtime = o.runtime /\ b.policy = o.policy
    BY <2>2 DEF CoordinationState
  <2> QED BY <2>1, <2>3, <2>4 DEF b
<1> QED BY <1>1, <1>2

(* Observe: it keeps a grace period only for the same Runtime and policy.  *)
LEMMA ObserveSettles ==
    ASSUME TypeOK, NEW o \in Observation,
           o.sample # 0 => o.sample \in DOMAIN samples[o.runtime]
    PROVE  LET n == Observe(coord, o) IN
           /\ n \in CoordinationState /\ Settled(n)
           /\ coordinationChanged(coord, o) /\ n.pending => coord.timer < n.timer
<1> DEFINE b == Coordinated(coord, o)
           c == Counted(b, o)
           n == Observe(coord, o)
<1>1. coord \in CoordinationState
  BY DEF TypeOK
<1>2. /\ b \in CoordinationState /\ coord.timer <= b.timer
      /\ b.runtime = o.runtime /\ b.policy = o.policy
      /\ b.pending => b = coord
      /\ coordinationChanged(coord, o) => ~b.pending
  BY <1>1, CoordinatedFacts
<1>3. /\ c \in CoordinationState
      /\ c.timer = b.timer /\ c.pending = b.pending
      /\ c.runtime = b.runtime /\ c.policy = b.policy
      /\ c.grace = b.grace /\ b.last <= c.last
      /\ Judged(o) => o.sample <= c.last
  BY <1>2, CountedFacts
<1>4. n = IF b.suppressed = o.runtime THEN Cancel(b)
          ELSE IF ~Qualifies(b, o) THEN Cancel(c)
          ELSE IF b.pending \/ (b.dispatched # 0 /\ b.dispatched = b.timer) THEN c
          ELSE [c EXCEPT !.timer = @ + 1, !.pending = TRUE, !.grace = o.sample]
  BY DEF Observe
<1> HIDE DEF b, c, n
<1>5. coord.timer \in Nat /\ b.timer \in Nat /\ c.timer \in Nat
  BY <1>1, <1>2, <1>3 DEF CoordinationState
<1>6. CASE n = Cancel(b) \/ n = Cancel(c)
  <2>1. n \in CoordinationState /\ ~n.pending /\ coord.timer <= n.timer
    <3>1. Cancel(b).timer \in Nat /\ Cancel(c).timer \in Nat
      BY <1>2, <1>3, CancelFacts DEF CoordinationState
    <3> QED BY <1>2, <1>3, <1>5, <1>6, <3>1, CancelFacts
  <2> QED BY <2>1 DEF Settled, n
<1>7. CASE n = c
  BY <1>2, <1>3, <1>5, <1>7 DEF Settled, n
<1>8. CASE /\ Qualifies(b, o) /\ ~b.pending
           /\ n = [c EXCEPT !.timer = @ + 1, !.pending = TRUE, !.grace = o.sample]
  <2>1. /\ o.sample \in Nat /\ o.runtime \in Runtimes /\ o.policy \in Generations
    BY DEF Observation
  <2>2. n \in CoordinationState
    <3>1. n = [c EXCEPT !.timer = c.timer + 1, !.pending = TRUE, !.grace = o.sample]
      BY <1>8
    <3>2. c.timer + 1 \in Nat /\ TRUE \in BOOLEAN
      BY <1>5
    <3> QED BY <1>3, <2>1, <3>1, <3>2 DEF CoordinationState
  <2>3. /\ n.timer = c.timer + 1 /\ n.grace = o.sample /\ n.last = c.last
        /\ n.runtime = o.runtime /\ n.policy = o.policy
    BY <1>2, <1>3, <1>8 DEF CoordinationState
  <2>4. Judged(o) /\ IdleBy(o.runtime, o.policy, o.sample)
    BY <1>8 DEF Qualifies, Judged, IdleBy
  <2>5. o.runtime # 0 /\ o.policy # 0 /\ o.sample # 0
    BY <2>1, <2>4 DEF Runtimes, Generations, Judged
  <2>6. coord.timer < n.timer
    BY <1>2, <1>3, <1>5, <2>3
  <2>7. n.grace # 0 /\ n.grace <= n.last
    BY <1>3, <2>3, <2>4, <2>5
  <2> QED BY <1>5, <2>2, <2>3, <2>4, <2>5, <2>6, <2>7 DEF Settled, n
<1> QED BY <1>4, <1>6, <1>7, <1>8

(* The generation of a state whose grace period, if any, is cancelled.     *)
Later == IF coord.pending THEN coord.timer + 1 ELSE coord.timer

LEMMA LaterFacts ==
    ASSUME TypeOK
    PROVE  coord \in CoordinationState /\ Later \in Nat /\ coord.timer <= Later
<1>1. coord \in CoordinationState
  BY DEF TypeOK
<1>2. coord.timer \in Nat
  BY <1>1 DEF CoordinationState
<1> QED BY <1>1, <1>2 DEF Later

LEMMA SuppressSettles ==
    ASSUME TypeOK, NEW r \in Runtimes
    PROVE  Suppress(coord, r) \in CoordinationState /\ Settled(Suppress(coord, r))
<1> DEFINE n == Suppress(coord, r)
<1>1. n = [coord EXCEPT !.timer = Later, !.pending = FALSE, !.grace = 0, !.suppressed = r]
  BY DEF Suppress, Later
<1> HIDE DEF n
<1>2. n \in CoordinationState
  BY <1>1, LaterFacts DEF CoordinationState
<1>3. n.timer = Later /\ n.pending = FALSE
  BY <1>1, LaterFacts DEF CoordinationState
<1> QED BY <1>2, <1>3, LaterFacts DEF Settled, n

LEMMA ResumeSettles ==
    ASSUME TypeOK, NEW r \in Runtimes
    PROVE  Resume(coord, r) \in CoordinationState /\ Settled(Resume(coord, r))
<1> DEFINE n == Resume(coord, r)
<1>1. n = coord \/ n = [coord EXCEPT !.suppressed = 0, !.dispatched = 0]
  BY DEF Resume
<1> HIDE DEF n
<1>2. n \in CoordinationState
  <2>1. CASE n = coord
    BY <2>1, LaterFacts
  <2>2. CASE n = [coord EXCEPT !.suppressed = 0, !.dispatched = 0]
    BY <2>2, LaterFacts DEF CoordinationState
  <2> QED BY <1>1, <2>1, <2>2
<1>3. /\ n.timer = coord.timer /\ n.pending = coord.pending /\ n.runtime = coord.runtime
      /\ n.policy = coord.policy /\ n.grace = coord.grace /\ n.last = coord.last
      /\ coord.timer \in Nat /\ coord.last \in Nat
  BY <1>1, LaterFacts DEF CoordinationState
<1> QED BY <1>2, <1>3 DEF Settled, n

LEMMA AbandonSettles ==
    ASSUME TypeOK
    PROVE  LET n == abandonAutoStopRuntime(coord) IN
           n \in CoordinationState /\ Settled(n) /\ ~n.pending
<1> DEFINE n == abandonAutoStopRuntime(coord)
<1>1. n = [coord EXCEPT !.timer = Later, !.pending = FALSE, !.runtime = 0, !.policy = 0,
                        !.last = 0, !.dispatched = 0, !.suppressed = 0, !.grace = 0]
  BY DEF abandonAutoStopRuntime, Later
<1> HIDE DEF n
<1>2. n \in CoordinationState
  BY <1>1, LaterFacts DEF CoordinationState
<1>3. n.timer = Later /\ n.pending = FALSE
  BY <1>1, LaterFacts DEF CoordinationState
<1> QED BY <1>2, <1>3, LaterFacts DEF Settled, n
-----------------------------------------------------------------------------
(* What a step that stores a state of the coordinator preserves. *)

LEMMA IdleIsTyped ==
    Idle \in Handler /\ Idle.kind = "none" /\ Idle.pc = "idle"
<1>1. 1 \in Runtimes /\ 1 \in Generations
  BY BoundsAssumption DEF Runtimes, Generations
<1>2. NoObservation \in Observation
  BY <1>1 DEF NoObservation, Observation
<1> QED BY <1>2 DEF Idle, Handler

(* The parts of the invariant that concern the object.                     *)
ObjectInv == TimersAreSpent /\ GraceIsEvidenced /\ SnapshotsAreTaken /\ HandlerIsCurrent

(* A handler that ends with a settled state.  An Expire that ends with a   *)
(* grace period running has begun a new one; a stop is asked for only by a *)
(* handler that ends the grace period.                                     *)
LEMMA DoneStep ==
    ASSUME Inv, NEW c \in CoordinationState, Settled(c), Done(c),
           c.pending /\ handler.kind = "Expire" => coord.timer < c.timer,
           UNCHANGED stops \/ (stops' = stops \cup {StopKey} /\ ~c.pending),
           UNCHANGED <<fired, faults, modes, samples, stored>>,
           observations' \subseteq observations
    PROVE  /\ coord' \in CoordinationState /\ handler' \in Handler
           /\ sent' \subseteq Timer /\ sent \subseteq sent'
           /\ ObjectInv'
<1> DEFINE key == <<c.runtime, c.timer>>
<1>1. /\ coord' = c /\ handler' = Idle
      /\ sent' = IF c.pending /\ ~(coord.pending /\ coord.timer = c.timer)
                 THEN sent \cup {key} ELSE sent
  BY DEF Done, SetState
<1>2. /\ coord \in CoordinationState /\ sent \subseteq Timer /\ stops \subseteq Timer
      /\ fired \subseteq sent
  BY DEF Inv, TypeOK
<1>3. coord.timer \in Nat /\ c.timer \in Nat /\ coord.timer <= c.timer
  BY <1>2 DEF CoordinationState, Settled
<1>4. /\ \A t \in Timer : t[1] \in Runtimes /\ t[2] \in Nat
      /\ \A t \in sent \cup stops : t[2] <= coord.timer
  BY DEF Timer, Inv, TimersAreSpent
<1>5. c.pending => key \in Timer
  <2>1. c.pending => c.runtime # 0
    BY DEF Settled, Inv, GraceIsEvidenced
  <2> QED BY <1>3, <2>1 DEF Timer, CoordinationState
<1>6. sent' \subseteq Timer /\ sent \subseteq sent'
  BY <1>1, <1>2, <1>5
<1>7. handler' \in Handler /\ handler'.kind = "none" /\ handler'.pc = "idle"
  BY <1>1, IdleIsTyped
<1>8. TimersAreSpent'
  <2>1. ASSUME NEW t \in sent' \cup stops' PROVE t[2] <= c.timer
    <3>1. t \in sent \cup stops \/ t = key \/ t = StopKey
      BY <1>1
    <3>2. CASE t \in sent \cup stops
      BY <1>2, <1>3, <1>4, <3>2
    <3>3. CASE t = key
      BY <1>3, <3>3
    <3>4. CASE t = StopKey
      BY <1>3, <3>4 DEF StopKey
    <3> QED BY <3>1, <3>2, <3>3, <3>4
  <2>2. ASSUME c.pending, key \in stops' PROVE FALSE
    <3>1. key \in stops
      BY <2>2
    <3>2. c.timer = coord.timer
      BY <1>2, <1>3, <1>4, <3>1
    <3>3. coord.pending /\ c.runtime = coord.runtime
      BY <1>3, <2>2, <3>2 DEF Settled
    <3>4. handler.pc = "dispatch"
      BY <3>1, <3>2, <3>3 DEF Inv, TimersAreSpent
    <3>5. handler.kind = "Expire"
      BY <3>4 DEF Inv, HandlerIsCurrent
    <3> QED BY <1>3, <2>2, <3>2, <3>5
  <2> QED BY <1>1, <2>1, <2>2 DEF TimersAreSpent
<1>9. GraceIsEvidenced'
  <2> SUFFICES ASSUME c.pending
               PROVE  /\ c.runtime # 0 /\ c.policy # 0 /\ key \in sent'
                      /\ c.grace # 0 /\ c.grace <= c.last
                      /\ IdleBy(c.runtime, c.policy, c.grace)
                      /\ key \in fired => faults # 0
    BY <1>1 DEF GraceIsEvidenced, IdleBy
  <2>1. CASE /\ coord.pending /\ c.timer = coord.timer /\ c.runtime = coord.runtime
             /\ c.policy = coord.policy /\ c.grace = coord.grace /\ coord.last <= c.last
    <3>1. /\ coord.runtime # 0 /\ coord.policy # 0
          /\ <<coord.runtime, coord.timer>> \in sent
          /\ coord.grace # 0 /\ coord.grace <= coord.last
          /\ IdleBy(coord.runtime, coord.policy, coord.grace)
          /\ <<coord.runtime, coord.timer>> \in fired => faults # 0 \/ handler.kind = "Expire"
      BY <2>1 DEF Inv, GraceIsEvidenced
    <3>2. c.grace <= c.last
      BY <1>2, <2>1, <3>1 DEF CoordinationState
    <3>3. handler.kind # "Expire"
      BY <1>3, <2>1
    <3> QED BY <1>6, <2>1, <3>1, <3>2, <3>3
  <2>2. CASE /\ coord.timer < c.timer /\ c.runtime # 0 /\ c.policy # 0
             /\ c.grace # 0 /\ c.grace <= c.last
             /\ IdleBy(c.runtime, c.policy, c.grace)
    <3>1. key \in sent'
      BY <1>1, <1>3, <2>2
    <3>2. key \notin fired
      BY <1>2, <1>3, <1>4, <2>2
    <3> QED BY <2>2, <3>1, <3>2
  <2> QED BY <2>1, <2>2 DEF Settled
<1>10. SnapshotsAreTaken'
  BY <1>7 DEF SnapshotsAreTaken, Inv
<1>11. HandlerIsCurrent'
  BY <1>1, <1>7 DEF HandlerIsCurrent
<1> QED BY <1>1, <1>6, <1>7, <1>8, <1>9, <1>10, <1>11 DEF ObjectInv
-----------------------------------------------------------------------------
(* What a step that leaves the object alone preserves. *)

(* Snapshots are only added.                                               *)
SnapshotsGrow ==
    \A r \in Runtimes :
        /\ DOMAIN samples[r] \subseteq DOMAIN samples'[r]
        /\ \A s \in DOMAIN samples[r] : samples'[r][s] = samples[r][s]

LEMMA IdleStays ==
    ASSUME SnapshotsGrow, UNCHANGED modes, NEW r \in Runtimes, NEW g, NEW s, IdleBy(r, g, s)
    PROVE  IdleBy(r, g, s)'
<1>1. s \in DOMAIN samples'[r] /\ samples'[r][s] = samples[r][s]
  BY DEF SnapshotsGrow, IdleBy
<1> QED BY <1>1 DEF IdleBy

LEMMA QuietStep ==
    ASSUME Inv, UNCHANGED <<coord, handler, sent, fired, stops, modes>>,
           faults # 0 => faults' # 0, SnapshotsGrow,
           \A r \in Runtimes : stored'[r] \subseteq DOMAIN samples'[r],
           \A o \in observations' : o.sample \in DOMAIN samples'[o.runtime]
    PROVE  ObjectInv'
<1>1. coord \in CoordinationState
  BY DEF Inv, TypeOK
<1>2. TimersAreSpent'
  BY DEF Inv, TimersAreSpent
<1>3. GraceIsEvidenced'
  <2> SUFFICES ASSUME coord.pending PROVE GraceIsEvidenced'
    BY DEF GraceIsEvidenced
  <2>1. coord.runtime \in Runtimes /\ IdleBy(coord.runtime, coord.policy, coord.grace)
    BY <1>1 DEF CoordinationState, Inv, GraceIsEvidenced
  <2>2. IdleBy(coord.runtime, coord.policy, coord.grace)'
    BY <2>1, IdleStays
  <2> QED BY <2>2 DEF Inv, GraceIsEvidenced
<1>4. handler.kind # "none" => coord.runtime \in Runtimes
  BY <1>1 DEF CoordinationState, Inv, HandlerIsCurrent
<1>5. SnapshotsAreTaken'
  <2>1. handler.pc = "after" => handler.kind # "none"
    BY DEF Inv, HandlerIsCurrent
  <2> QED BY <1>4, <2>1 DEF SnapshotsAreTaken, Inv, SnapshotsGrow
<1>6. HandlerIsCurrent'
  <2> SUFFICES ASSUME handler.pc = "dispatch"
               PROVE  IdleBy(coord.runtime, coord.policy, handler.seen.sample)'
    BY DEF HandlerIsCurrent, Inv
  <2>1. coord.runtime \in Runtimes /\ IdleBy(coord.runtime, coord.policy, handler.seen.sample)
    BY <1>4 DEF HandlerIsCurrent, Inv
  <2> QED BY <2>1, IdleStays
<1> QED BY <1>2, <1>3, <1>5, <1>6 DEF ObjectInv

LEMMA SnapshotsKept ==
    ASSUME Inv, UNCHANGED guestVars
    PROVE  /\ SnapshotsGrow
           /\ \A r \in Runtimes : stored'[r] \subseteq DOMAIN samples'[r]
           /\ UNCHANGED observations =>
                 \A o \in observations' : o.sample \in DOMAIN samples'[o.runtime]
BY DEF Inv, SnapshotsAreTaken, SnapshotsGrow, guestVars

(* The steps of the policy and of the workflows that do not call the       *)
(* object.                                                                 *)
LEMMA AsideStep ==
    ASSUME Inv, UNCHANGED <<objectVars, inputVars, modes, stops, guestVars>>,
           faults # 0 => faults' # 0
    PROVE  ObjectInv'
<1>1. UNCHANGED <<coord, handler, sent, fired, observations>>
  BY DEF objectVars, inputVars
<1> QED BY <1>1, SnapshotsKept, QuietStep
-----------------------------------------------------------------------------
(* The handlers, step by step. *)

(* A handler that goes on, or ends without a word: the state stays.        *)
LEMMA HandlerMoves ==
    ASSUME Inv, UNCHANGED <<coord, sent, modes, guestVars, observations>>, HandlerIsCurrent',
           \A t \in stops' : t \in stops \/ t = StopKey,
           coord.pending /\ StopKey \in stops' => handler'.pc = "dispatch",
           coord.pending /\ StopKey \in fired' => faults' # 0 \/ handler'.kind = "Expire",
           handler'.pc = "after" /\ handler'.seen.sample # 0 =>
              handler'.seen.sample \in DOMAIN samples[coord.runtime]
    PROVE  ObjectInv'
<1>1. coord.timer \in Nat
  BY DEF Inv, TypeOK, CoordinationState
<1>2. TimersAreSpent'
  <2>1. \A t \in sent' \cup stops' : t[2] <= coord.timer
    BY <1>1 DEF Inv, TimersAreSpent, StopKey
  <2> QED BY <2>1 DEF TimersAreSpent, StopKey
<1>3. GraceIsEvidenced'
  BY DEF Inv, GraceIsEvidenced, IdleBy, StopKey, guestVars
<1>4. SnapshotsAreTaken'
  BY DEF Inv, SnapshotsAreTaken, guestVars
<1> QED BY <1>2, <1>3, <1>4 DEF ObjectInv

LEMMA ObjectIsFree ==
    ASSUME Inv, handler = Idle
    PROVE  /\ handler.kind = "none" /\ handler.pc = "idle"
           /\ coord.pending => StopKey \notin stops /\ (StopKey \in fired => faults # 0)
BY IdleIsTyped DEF Inv, TimersAreSpent, GraceIsEvidenced, StopKey

LEMMA RefreshBeginsObject ==
    ASSUME Inv, NEW g, RefreshBegins(g)
    PROVE  handler' \in Handler /\ ObjectInv'
<1>1. /\ UNCHANGED <<coord, sent, modes, guestVars, observations, stops, fired, faults>>
      /\ handler = Idle
  BY DEF RefreshBegins, inputVars, workVars, chanceVars
<1>2. /\ handler.kind = "none" /\ handler.pc = "idle"
      /\ coord.pending => StopKey \notin stops /\ (StopKey \in fired => faults # 0)
  BY <1>1, ObjectIsFree
<1>3. CASE handler' = Idle
  <2>1. handler' \in Handler /\ handler'.kind = "none" /\ handler'.pc = "idle"
    BY <1>3, IdleIsTyped
  <2>2. HandlerIsCurrent'
    BY <1>3, <2>1 DEF HandlerIsCurrent
  <2> QED BY <1>1, <1>2, <2>1, <2>2, HandlerMoves
<1>4. CASE coord.runtime # 0 /\ handler' = [Idle EXCEPT !.kind = "Refresh", !.pc = "before"]
  <2>1. handler' \in Handler /\ handler'.kind = "Refresh" /\ handler'.pc = "before"
    BY <1>4, IdleIsTyped DEF Handler
  <2>2. HandlerIsCurrent'
    BY <1>1, <1>4, <2>1 DEF HandlerIsCurrent
  <2> QED BY <1>1, <1>2, <2>1, <2>2, HandlerMoves
<1> QED BY <1>3, <1>4 DEF RefreshBegins

LEMMA ExpireBeginsObject ==
    ASSUME Inv, NEW t \in sent, ExpireBegins(t)
    PROVE  handler' \in Handler /\ ObjectInv'
<1>1. /\ UNCHANGED <<coord, sent, modes, guestVars, observations, stops, faults>>
      /\ handler = Idle /\ fired' = fired \cup {t}
  BY DEF ExpireBegins, policyVars, workVars, chanceVars
<1>2. /\ handler.kind = "none" /\ handler.pc = "idle"
      /\ coord.pending => StopKey \notin stops /\ (StopKey \in fired => faults # 0)
  BY <1>1, ObjectIsFree
<1>3. CASE ~currentAutoStopTimer(t) /\ handler' = Idle
  <2>1. handler' \in Handler /\ handler'.kind = "none" /\ handler'.pc = "idle"
    BY <1>3, IdleIsTyped
  <2>2. HandlerIsCurrent'
    BY <1>3, <2>1 DEF HandlerIsCurrent
  <2>3. coord.pending => t # StopKey
    BY <1>3 DEF currentAutoStopTimer, StopKey
  <2> QED BY <1>1, <1>2, <2>1, <2>2, <2>3, HandlerMoves
<1>4. CASE /\ currentAutoStopTimer(t)
           /\ handler' = [Idle EXCEPT !.kind = "Expire", !.pc = "before",
                                      !.since = Len(samples[coord.runtime])]
  <2> DEFINE n == Len(samples[coord.runtime])
  <2>1. coord.pending /\ coord.runtime # 0
    BY <1>4 DEF currentAutoStopTimer, Inv, GraceIsEvidenced
  <2>2. n \in Nat
    <3>1. coord.runtime \in Runtimes
      BY <2>1 DEF Inv, TypeOK, CoordinationState
    <3>2. samples[coord.runtime] \in Seq(Activities)
      BY <3>1 DEF Inv, TypeOK
    <3> QED BY <3>2
  <2> HIDE DEF n
  <2>3. handler' = [Idle EXCEPT !.kind = "Expire", !.pc = "before", !.since = n]
    BY <1>4 DEF n
  <2>4. handler' \in Handler /\ handler'.kind = "Expire" /\ handler'.pc = "before"
    BY <2>2, <2>3, IdleIsTyped DEF Handler
  <2>5. HandlerIsCurrent'
    BY <1>1, <2>1, <2>4 DEF HandlerIsCurrent
  <2> QED BY <1>1, <1>2, <2>4, <2>5, HandlerMoves
<1> QED BY <1>3, <1>4 DEF ExpireBegins

LEMMA HandlerFailsObject ==
    ASSUME Inv, HandlerFails
    PROVE  handler' \in Handler /\ ObjectInv'
<1>1. /\ UNCHANGED <<coord, sent, modes, guestVars, observations, stops, fired>>
      /\ faults' = faults + 1 /\ handler' = Idle /\ handler.pc # "dispatch"
  BY DEF HandlerFails, inputVars, policyVars, workVars
<1>2. handler' \in Handler /\ handler'.kind = "none" /\ handler'.pc = "idle"
  BY <1>1, IdleIsTyped
<1>3. HandlerIsCurrent'
  BY <1>1, <1>2 DEF HandlerIsCurrent
<1>4. faults' # 0
  BY <1>1, BoundsAssumption DEF Inv, TypeOK
<1>5. coord.pending => StopKey \notin stops
  BY <1>1 DEF Inv, TimersAreSpent, StopKey
<1> QED BY <1>1, <1>2, <1>3, <1>4, <1>5, HandlerMoves

LEMMA AbandonsObject ==
    ASSUME Inv, Abandons, UNCHANGED <<inputVars, policyVars, workVars, guestVars, chanceVars>>
    PROVE  /\ coord' \in CoordinationState /\ handler' \in Handler
           /\ sent' \subseteq Timer /\ sent \subseteq sent' /\ ObjectInv'
<1> DEFINE n == abandonAutoStopRuntime(coord)
<1>1. n \in CoordinationState /\ Settled(n) /\ ~n.pending
  BY AbandonSettles DEF Inv
<1>2. Done(n)
  BY DEF Abandons
<1> HIDE DEF n
<1>3. UNCHANGED <<fired, faults, modes, samples, stored, stops, observations>>
  BY DEF inputVars, policyVars, workVars, guestVars, chanceVars
<1> QED BY <1>1, <1>2, <1>3, DoneStep

LEMMA ReadsBeforeObject ==
    ASSUME Inv, ReadsBefore
    PROVE  /\ coord' \in CoordinationState /\ handler' \in Handler
           /\ sent' \subseteq Timer /\ sent \subseteq sent' /\ ObjectInv'
<1>1. CASE Abandons
  BY <1>1, AbandonsObject DEF ReadsBefore
<1>2. CASE handler' = [handler EXCEPT !.pc = "poll"] /\ UNCHANGED <<coord, sent>>
  <2>1. /\ UNCHANGED <<modes, guestVars, observations, stops, fired, faults>>
        /\ handler.pc = "before"
    BY DEF ReadsBefore, inputVars, policyVars, workVars, chanceVars
  <2>2. handler \in Handler
    BY DEF Inv, TypeOK
  <2>3. handler' \in Handler /\ handler'.kind = handler.kind /\ handler'.pc = "poll"
    BY <1>2, <2>2 DEF Handler
  <2>4. HandlerIsCurrent'
    BY <1>2, <2>1, <2>3 DEF HandlerIsCurrent, Inv
  <2>5. /\ coord.pending => StopKey \notin stops
        /\ coord.pending /\ StopKey \in fired => faults # 0 \/ handler.kind = "Expire"
    BY <2>1 DEF Inv, TimersAreSpent, GraceIsEvidenced, StopKey
  <2> QED BY <1>2, <2>1, <2>3, <2>4, <2>5, HandlerMoves DEF Inv, TypeOK
<1> QED BY <1>1, <1>2 DEF ReadsBefore

LEMMA LatestIsTaken ==
    ASSUME Inv, NEW r \in Runtimes
    PROVE  Latest(r) \in Nat /\ (Latest(r) # 0 => Latest(r) \in DOMAIN samples[r])
<1>1. stored[r] \subseteq DOMAIN samples[r]
  BY DEF Inv, SnapshotsAreTaken
<1> QED BY <1>1, LatestIsStored DEF Inv

LEMMA PollsSnapshotObject ==
    ASSUME Inv, PollsSnapshot
    PROVE  handler' \in Handler /\ ObjectInv'
<1> DEFINE s == Latest(coord.runtime)
<1>1. /\ UNCHANGED <<coord, sent, modes, guestVars, observations, stops, fired, faults>>
      /\ handler.pc = "poll"
  BY DEF PollsSnapshot, inputVars, policyVars, workVars, chanceVars
<1>2. handler \in Handler /\ handler.kind # "none" /\ coord.runtime \in Runtimes
  BY <1>1 DEF Inv, TypeOK, CoordinationState, HandlerIsCurrent
<1>3. s \in Nat /\ (s # 0 => s \in DOMAIN samples[coord.runtime])
  BY <1>2, LatestIsTaken
<1>4. PICK fresh \in (IF handler.kind = "Expire" THEN {FreshSample(s)} ELSE BOOLEAN) :
         handler' = [handler EXCEPT !.pc = "after", !.seen.sample = s, !.seen.fresh = fresh]
  BY DEF PollsSnapshot
<1>5. fresh \in BOOLEAN /\ (handler.kind = "Expire" /\ fresh => handler.since < s)
  <2>1. CASE handler.kind = "Expire"
    <3>1. fresh = FreshSample(s)
      BY <1>4, <2>1
    <3>2. FreshSample(s) \in BOOLEAN
      BY DEF FreshSample
    <3>3. FreshSample(s) => handler.since < s
      BY <1>2, <1>3 DEF FreshSample, Handler
    <3> HIDE DEF s
    <3> QED BY <3>1, <3>2, <3>3
  <2>2. CASE handler.kind # "Expire"
    BY <1>4, <2>2
  <2> QED BY <2>1, <2>2
<1> DEFINE o == [handler.seen EXCEPT !.sample = s, !.fresh = fresh]
<1> HIDE DEF s
<1>6. o \in Observation /\ o.sample = s /\ o.fresh = fresh
  BY <1>2, <1>3, <1>5 DEF Handler, Observation
<1>7. handler' = [handler EXCEPT !.pc = "after", !.seen = o]
  BY <1>2, <1>4 DEF Handler
<1> HIDE DEF o
<1>8. /\ handler' \in Handler /\ handler'.kind = handler.kind /\ handler'.pc = "after"
      /\ handler'.since = handler.since /\ handler'.seen = o
  BY <1>2, <1>6, <1>7 DEF Handler
<1>9. HandlerIsCurrent'
  BY <1>1, <1>2, <1>5, <1>6, <1>8 DEF HandlerIsCurrent, Inv
<1>10. /\ coord.pending => StopKey \notin stops
       /\ coord.pending /\ StopKey \in fired => faults # 0 \/ handler.kind = "Expire"
  BY <1>1 DEF Inv, TimersAreSpent, GraceIsEvidenced, StopKey
<1> QED BY <1>1, <1>3, <1>6, <1>8, <1>9, <1>10, HandlerMoves

(* What the handler has read when it comes to judge.                       *)
AfterRead ==
    [handler.seen EXCEPT !.runtime = runtime.id, !.policy = policy.generation,
                         !.conflict = Conflict]

LEMMA AfterReadFacts ==
    ASSUME Inv, handler.pc = "after", runtime.id = coord.runtime
    PROVE  /\ AfterRead \in Observation /\ AfterRead.runtime = coord.runtime
           /\ AfterRead.sample = handler.seen.sample /\ AfterRead.fresh = handler.seen.fresh
           /\ AfterRead.sample # 0 => AfterRead.sample \in DOMAIN samples[AfterRead.runtime]
<1> DEFINE o == AfterRead
<1>1. /\ handler.seen \in Observation /\ runtime.id \in Runtimes
      /\ policy.generation \in Generations /\ Conflict \in BOOLEAN
  BY DEF Inv, TypeOK, Handler, Conflict
<1>2. /\ o \in Observation /\ o.runtime = runtime.id
      /\ o.sample = handler.seen.sample /\ o.fresh = handler.seen.fresh
  BY <1>1 DEF AfterRead, Observation
<1> HIDE DEF o
<1>3. o.sample # 0 => o.sample \in DOMAIN samples[o.runtime]
  BY <1>2 DEF Inv, SnapshotsAreTaken
<1> QED BY <1>2, <1>3 DEF o

LEMMA ExpiresObject ==
    ASSUME Inv, handler.pc = "after", handler.kind = "Expire", runtime.id = coord.runtime,
           Expires(AfterRead), UNCHANGED <<inputVars, policyVars, workVars, guestVars, chanceVars>>
    PROVE  /\ coord' \in CoordinationState /\ handler' \in Handler
           /\ sent' \subseteq Timer /\ sent \subseteq sent' /\ ObjectInv'
<1> DEFINE o == AfterRead
<1>1. /\ o \in Observation /\ o.runtime = coord.runtime
      /\ o.sample = handler.seen.sample /\ o.fresh = handler.seen.fresh
      /\ o.sample # 0 => o.sample \in DOMAIN samples[o.runtime]
  BY AfterReadFacts
<1>2. Expires(o)
  OBVIOUS
<1> HIDE DEF o
<1>3. UNCHANGED <<fired, faults, modes, samples, stored, stops, observations>>
  BY DEF inputVars, policyVars, workVars, guestVars, chanceVars
<1>4. TypeOK /\ coord \in CoordinationState /\ handler \in Handler /\ sent \subseteq Timer
  BY DEF Inv, TypeOK
<1>5. CASE coordinationChanged(coord, o) /\ Done(Observe(coord, o))
  <2> DEFINE n == Observe(coord, o)
  <2>1. /\ n \in CoordinationState /\ Settled(n)
        /\ coordinationChanged(coord, o) /\ n.pending => coord.timer < n.timer
    BY <1>1, <1>4, ObserveSettles
  <2> HIDE DEF n
  <2>2. Done(n)
    BY <1>5 DEF n
  <2> QED BY <1>3, <1>5, <2>1, <2>2, DoneStep
<1>6. CASE Done([Counted(coord, o) EXCEPT !.pending = FALSE, !.grace = 0])
  <2> DEFINE c == Counted(coord, o)
             n == [c EXCEPT !.pending = FALSE, !.grace = 0]
  <2>1. c \in CoordinationState /\ c.timer = coord.timer
    BY <1>1, <1>4, CountedFacts
  <2>2. Done(n)
    BY <1>6
  <2> HIDE DEF c
  <2>3. n \in CoordinationState /\ n.timer = coord.timer /\ n.pending = FALSE
    BY <2>1 DEF CoordinationState
  <2>4. n.timer \in Nat /\ coord.timer <= n.timer
    BY <1>4, <2>3 DEF CoordinationState
  <2> HIDE DEF n
  <2> QED BY <1>3, <1>4, <2>2, <2>3, <2>4, EndedIsSettled, DoneStep
<1>7. CASE /\ ~coordinationChanged(coord, o) /\ Qualifies(coord, o)
           /\ handler' = [handler EXCEPT !.pc = "dispatch", !.seen = o]
           /\ UNCHANGED <<coord, sent>>
  <2>1. /\ handler' \in Handler /\ handler'.kind = "Expire" /\ handler'.pc = "dispatch"
        /\ handler'.since = handler.since /\ handler'.seen = o
    BY <1>1, <1>4, <1>7 DEF Handler
  <2>2. IdleBy(coord.runtime, coord.policy, o.sample)
    BY <1>1, <1>7 DEF Qualifies, Judged, IdleBy, coordinationChanged
  <2>3. coord.last < o.sample /\ handler.since < o.sample
    <3>1. o.sample > coord.last /\ o.fresh
      BY <1>7 DEF Qualifies
    <3>2. handler.since < o.sample
      BY <1>1, <3>1 DEF Inv, HandlerIsCurrent
    <3> QED BY <1>1, <1>4, <3>1, <3>2 DEF CoordinationState, Observation
  <2>4. HandlerIsCurrent'
    BY <1>3, <1>7, <2>1, <2>2, <2>3 DEF HandlerIsCurrent, IdleBy, Inv
  <2> QED BY <1>3, <1>4, <1>7, <2>1, <2>4, HandlerMoves DEF guestVars
<1> QED BY <1>2, <1>5, <1>6, <1>7 DEF Expires

LEMMA ReadsAfterObject ==
    ASSUME Inv, ReadsAfter
    PROVE  /\ coord' \in CoordinationState /\ handler' \in Handler
           /\ sent' \subseteq Timer /\ sent \subseteq sent' /\ ObjectInv'
<1>1. /\ UNCHANGED <<inputVars, policyVars, workVars, guestVars, chanceVars>>
      /\ handler.pc = "after"
  BY DEF ReadsAfter
<1>2. CASE Abandons
  BY <1>1, <1>2, AbandonsObject
<1>3. CASE runtime.id = coord.runtime /\ handler.kind = "Expire" /\ Expires(AfterRead)
  BY <1>1, <1>3, ExpiresObject
<1>4. CASE runtime.id = coord.runtime /\ handler.kind # "Expire" /\ Done(Observe(coord, AfterRead))
  <2> DEFINE o == AfterRead
             n == Observe(coord, o)
  <2>1. /\ o \in Observation
        /\ o.sample # 0 => o.sample \in DOMAIN samples[o.runtime]
    BY <1>1, <1>4, AfterReadFacts
  <2> HIDE DEF o
  <2>2. n \in CoordinationState /\ Settled(n)
    BY <2>1, ObserveSettles DEF Inv
  <2>3. Done(n)
    BY <1>4 DEF o
  <2> HIDE DEF n
  <2>4. UNCHANGED <<fired, faults, modes, samples, stored, stops, observations>>
    BY <1>1 DEF inputVars, policyVars, workVars, guestVars, chanceVars
  <2> QED BY <1>4, <2>2, <2>3, <2>4, DoneStep
<1> QED BY <1>2, <1>3, <1>4 DEF ReadsAfter, AfterRead

(* A state with what was seen counted, and no grace period.                *)
LEMMA EndsCounted ==
    ASSUME Inv, NEW d \in Nat, NEW g \in Nat
    PROVE  LET n == [Counted(coord, handler.seen) EXCEPT !.pending = FALSE,
                                                        !.dispatched = d, !.grace = g] IN
           n \in CoordinationState /\ Settled(n) /\ ~n.pending
<1> DEFINE c == Counted(coord, handler.seen)
           n == [c EXCEPT !.pending = FALSE, !.dispatched = d, !.grace = g]
<1>1. TypeOK /\ coord \in CoordinationState /\ handler.seen \in Observation
  BY DEF Inv, TypeOK, Handler
<1>2. c \in CoordinationState /\ c.timer = coord.timer
  BY <1>1, CountedFacts
<1> HIDE DEF c
<1>3. n \in CoordinationState /\ n.timer = coord.timer /\ n.pending = FALSE
  BY <1>2 DEF CoordinationState
<1>4. n.timer \in Nat /\ coord.timer <= n.timer
  BY <1>1, <1>3 DEF CoordinationState
<1> HIDE DEF n
<1>5. Settled(n)
  BY <1>1, <1>3, <1>4, EndedIsSettled
<1> QED BY <1>3, <1>5 DEF n, c

(* The stop reserved, the state of the object is stored; or not, by a      *)
(* crash, and the dispatch runs again.                                     *)
LEMMA DispatchesEnds ==
    ASSUME Inv, Dispatches
    PROVE  \E n \in CoordinationState : Done(n) /\ Settled(n) /\ ~n.pending
<1> DEFINE c == Counted(coord, handler.seen)
           n == [c EXCEPT !.pending = FALSE, !.dispatched = coord.timer]
<1>1. TypeOK /\ coord \in CoordinationState /\ handler.seen \in Observation
  BY DEF Inv, TypeOK, Handler
<1>2. c \in CoordinationState /\ c.timer = coord.timer
  BY <1>1, CountedFacts
<1>3. Done(n)
  BY DEF Dispatches
<1> HIDE DEF c
<1>4. coord.timer \in Nat
  BY <1>1 DEF CoordinationState
<1>5. n \in CoordinationState /\ n.timer = coord.timer /\ n.pending = FALSE
  BY <1>2, <1>4 DEF CoordinationState
<1> HIDE DEF n
<1>6. Settled(n)
  BY <1>1, <1>4, <1>5, EndedIsSettled
<1> QED BY <1>3, <1>5, <1>6

LEMMA DispatchObject ==
    ASSUME Inv, DispatchRuntimeStop
    PROVE  /\ coord' \in CoordinationState /\ handler' \in Handler
           /\ sent' \subseteq Timer /\ sent \subseteq sent' /\ ObjectInv'
<1>1. /\ UNCHANGED <<fired, faults, modes, samples, stored, observations>>
      /\ handler.pc = "dispatch"
  BY DEF DispatchRuntimeStop, inputVars, policyVars, guestVars
<1>2. ASSUME NEW n \in CoordinationState, Done(n), Settled(n), ~n.pending,
             UNCHANGED stops \/ stops' = stops \cup {StopKey}
      PROVE  /\ coord' \in CoordinationState /\ handler' \in Handler
             /\ sent' \subseteq Timer /\ sent \subseteq sent' /\ ObjectInv'
  BY <1>1, <1>2, DoneStep
<1>3. CASE /\ Done([Counted(coord, handler.seen) EXCEPT !.pending = FALSE,
                                                      !.dispatched = 0, !.grace = 0])
           /\ UNCHANGED stops
  <2> DEFINE n == [Counted(coord, handler.seen) EXCEPT !.pending = FALSE,
                                                      !.dispatched = 0, !.grace = 0]
  <2>1. n \in CoordinationState /\ Settled(n) /\ ~n.pending
    BY EndsCounted
  <2>2. Done(n) /\ UNCHANGED stops
    BY <1>3
  <2> HIDE DEF n
  <2> QED BY <1>2, <2>1, <2>2
<1>4. CASE Dispatches /\ (UNCHANGED stops \/ stops' = stops \cup {StopKey})
  BY <1>2, <1>4, DispatchesEnds
<1>5. CASE UNCHANGED objectVars /\ stops' = stops \cup {StopKey}
  <2>1. UNCHANGED <<coord, handler, sent>>
    BY <1>5 DEF objectVars
  <2>2. handler.kind = "Expire" /\ HandlerIsCurrent'
    BY <1>1, <2>1 DEF Inv, HandlerIsCurrent, IdleBy
  <2> QED BY <1>1, <1>5, <2>1, <2>2, HandlerMoves DEF Inv, TypeOK, guestVars
<1> QED BY <1>3, <1>4, <1>5 DEF DispatchRuntimeStop, workVars

LEMMA ObserveObject ==
    ASSUME Inv, NEW o \in observations, ObserveHandler(o)
    PROVE  /\ coord' \in CoordinationState /\ handler' \in Handler
           /\ sent' \subseteq Timer /\ sent \subseteq sent' /\ ObjectInv'
<1> DEFINE n == Observe(coord, o)
<1>1. o \in Observation /\ o.sample \in DOMAIN samples[o.runtime]
  BY DEF Inv, TypeOK, SnapshotsAreTaken
<1>2. n \in CoordinationState /\ Settled(n)
  BY <1>1, ObserveSettles DEF Inv
<1>3. Done(n)
  BY DEF ObserveHandler
<1> HIDE DEF n
<1>4. /\ UNCHANGED <<fired, faults, modes, samples, stored, stops>>
      /\ observations' \subseteq observations /\ handler.kind = "none"
  BY IdleIsTyped DEF ObserveHandler, policyVars, workVars, guestVars, chanceVars
<1> QED BY <1>2, <1>3, <1>4, DoneStep

LEMMA SuppressObject ==
    ASSUME Inv, SuppressHandler
    PROVE  /\ coord' \in CoordinationState /\ handler' \in Handler
           /\ sent' \subseteq Timer /\ sent \subseteq sent' /\ ObjectInv'
<1> DEFINE n == Suppress(coord, runtime.id)
<1>1. runtime.id \in Runtimes
  BY DEF Inv, TypeOK
<1>2. n \in CoordinationState /\ Settled(n)
  BY <1>1, SuppressSettles DEF Inv
<1>3. Done(n)
  BY DEF SuppressHandler
<1> HIDE DEF n
<1>4. /\ UNCHANGED <<fired, faults, modes, samples, stored, stops, observations>>
      /\ handler.kind = "none"
  BY IdleIsTyped DEF SuppressHandler, inputVars, policyVars, guestVars, chanceVars
<1> QED BY <1>2, <1>3, <1>4, DoneStep

LEMMA ResumeObject ==
    ASSUME Inv, ResumeHandler
    PROVE  /\ coord' \in CoordinationState /\ handler' \in Handler
           /\ sent' \subseteq Timer /\ sent \subseteq sent' /\ ObjectInv'
<1> DEFINE n == Resume(coord, runtime.id)
<1>1. runtime.id \in Runtimes
  BY DEF Inv, TypeOK
<1>2. n \in CoordinationState /\ Settled(n)
  BY <1>1, ResumeSettles DEF Inv
<1>3. Done(n)
  BY DEF ResumeHandler
<1> HIDE DEF n
<1>4. /\ UNCHANGED <<fired, faults, modes, samples, stored, stops, observations>>
      /\ handler.kind = "none"
  BY IdleIsTyped DEF ResumeHandler, inputVars, policyVars, guestVars, chanceVars
<1> QED BY <1>2, <1>3, <1>4, DoneStep

-----------------------------------------------------------------------------
(* The Snapshots and the observations made of them. *)

(* The observation that is sent of the Runtime's latest Snapshot.          *)
Sent ==
    [runtime |-> runtime.id, policy |-> policy.generation,
     sample |-> Latest(runtime.id), fresh |-> TRUE, conflict |-> Conflict]

LEMMA SentIsTaken ==
    ASSUME Inv, SendAutoStopObservation
    PROVE  Sent \in Observation /\ Sent.sample \in DOMAIN samples[Sent.runtime]
<1>1. /\ runtime.id \in Runtimes /\ policy.generation \in Generations
      /\ Conflict \in BOOLEAN
  BY DEF Inv, TypeOK, Conflict
<1>2. /\ Latest(runtime.id) \in Nat
      /\ Latest(runtime.id) \in DOMAIN samples[runtime.id]
  BY <1>1, LatestIsTaken DEF SendAutoStopObservation
<1> QED BY <1>1, <1>2 DEF Sent, Observation

LEMMA SendObject ==
    ASSUME Inv, SendAutoStopObservation
    PROVE  ObjectInv'
<1>1. /\ UNCHANGED <<coord, handler, sent, fired, stops, modes, faults, guestVars>>
      /\ observations' = observations \cup {Sent}
  BY DEF SendAutoStopObservation, Sent, objectVars, policyVars, workVars, chanceVars
<1>2. \A o \in observations' : o.sample \in DOMAIN samples'[o.runtime]
  BY <1>1, SentIsTaken DEF Inv, SnapshotsAreTaken, guestVars
<1> QED BY <1>1, <1>2, SnapshotsKept, QuietStep

LEMMA GuestSamplesFacts ==
    ASSUME Inv, NEW a \in Activities, GuestSamples(a)
    PROVE  samples' \in [Runtimes -> Seq(Activities)] /\ SnapshotsGrow
<1> DEFINE r == runtime.id
           q == Append(samples[r], a)
<1>1. r \in Runtimes /\ samples \in [Runtimes -> Seq(Activities)]
  BY DEF Inv, TypeOK
<1>2. samples[r] \in Seq(Activities)
  BY <1>1
<1>3. /\ q \in Seq(Activities) /\ DOMAIN samples[r] \subseteq DOMAIN q
      /\ \A s \in DOMAIN samples[r] : q[s] = samples[r][s]
  BY <1>2
<1>4. samples' = [samples EXCEPT ![r] = q]
  BY DEF GuestSamples
<1> HIDE DEF q, r
<1>5. samples' \in [Runtimes -> Seq(Activities)]
  BY <1>1, <1>3, <1>4
<1>6. \A x \in Runtimes : samples'[x] = IF x = r THEN q ELSE samples[x]
  BY <1>1, <1>4
<1> QED BY <1>3, <1>5, <1>6 DEF SnapshotsGrow

LEMMA GuestSamplesObject ==
    ASSUME Inv, NEW a \in Activities, GuestSamples(a)
    PROVE  ObjectInv'
<1>1. UNCHANGED <<coord, handler, sent, fired, stops, modes, faults, stored, observations>>
  BY DEF GuestSamples, objectVars, inputVars, policyVars, workVars, chanceVars
<1>2. SnapshotsGrow
  BY GuestSamplesFacts
<1>3. \A r \in Runtimes : stored'[r] \subseteq DOMAIN samples'[r]
  BY <1>1, <1>2 DEF SnapshotsGrow, Inv, SnapshotsAreTaken
<1>4. \A o \in observations' : o.sample \in DOMAIN samples'[o.runtime]
  <2>1. \A o \in observations : o.runtime \in Runtimes
    BY DEF Inv, TypeOK, Observation
  <2> QED BY <1>1, <1>2, <2>1 DEF SnapshotsGrow, Inv, SnapshotsAreTaken
<1> QED BY <1>1, <1>2, <1>3, <1>4, QuietStep

LEMMA StoreObject ==
    ASSUME Inv, NEW s \in 1..MaxSamples, StoreActivitySnapshot(s)
    PROVE  stored' \in [Runtimes -> SUBSET (1..MaxSamples)] /\ ObjectInv'
<1>1. UNCHANGED <<coord, handler, sent, fired, stops, modes, faults, samples, observations>>
  BY DEF StoreActivitySnapshot, objectVars, inputVars, policyVars, workVars, chanceVars
<1>2. /\ stored' = [stored EXCEPT ![runtime.id] = @ \cup {s}]
      /\ s \in DOMAIN samples[runtime.id]
  BY DEF StoreActivitySnapshot
<1>3. runtime.id \in Runtimes /\ stored \in [Runtimes -> SUBSET (1..MaxSamples)]
  BY DEF Inv, TypeOK
<1>4. stored' \in [Runtimes -> SUBSET (1..MaxSamples)]
  BY <1>2, <1>3
<1>5. \A r \in Runtimes : stored'[r] \subseteq DOMAIN samples'[r]
  BY <1>1, <1>2, <1>3 DEF Inv, SnapshotsAreTaken
<1>6. SnapshotsGrow /\ \A o \in observations' : o.sample \in DOMAIN samples'[o.runtime]
  BY <1>1 DEF SnapshotsGrow, Inv, SnapshotsAreTaken
<1> QED BY <1>1, <1>4, <1>5, <1>6, QuietStep

-----------------------------------------------------------------------------
(* The type invariant, by what a step may change. *)

ObjectOK ==
    coord \in CoordinationState /\ handler \in Handler /\ sent \subseteq Timer
InputOK ==
    fired \subseteq sent /\ observations \subseteq Observation /\ observed \in 0..MaxObservations
PolicyOK ==
    /\ policy \in [generation : Generations, acknowledged : Nat]
    /\ modes \in [Generations -> Modes]
    /\ refresher \in [generation : Generations \cup {0}, sent : BOOLEAN]
    /\ signals \subseteq Generations /\ refreshed \subseteq signals
RuntimeOK ==
    /\ runtime \in [id : Runtimes, status : {"ready", "stopping", "stopped", "starting", "replacing"}]
    /\ RuntimesRemain
WorkOK == RuntimeOK /\ op \in Operation /\ stops \subseteq Timer /\ ops \in 0..MaxOperations
GuestOK ==
    /\ samples \in [Runtimes -> Seq(Activities)]
    /\ stored \in [Runtimes -> SUBSET (1..MaxSamples)]
ChanceOK == crashes \in 0..MaxCrashes /\ faults \in 0..MaxFaults

LEMMA InvParts ==
    Inv <=> ObjectInv /\ ObjectOK /\ InputOK /\ PolicyOK /\ WorkOK /\ GuestOK /\ ChanceOK
BY DEF Inv, TypeOK, ObjectInv, ObjectOK, InputOK, PolicyOK, WorkOK, RuntimeOK, GuestOK, ChanceOK

LEMMA InvPartsNext ==
    Inv' <=> /\ ObjectInv' /\ ObjectOK' /\ InputOK' /\ PolicyOK' /\ WorkOK' /\ GuestOK'
             /\ ChanceOK'
BY DEF Inv, TypeOK, ObjectInv, ObjectOK, InputOK, PolicyOK, WorkOK, RuntimeOK, GuestOK, ChanceOK

LEMMA PartsKept ==
    ASSUME Inv
    PROVE  /\ UNCHANGED objectVars => ObjectOK'
           /\ UNCHANGED inputVars /\ sent \subseteq sent' => InputOK'
           /\ UNCHANGED policyVars => PolicyOK'
           /\ UNCHANGED workVars => WorkOK'
           /\ UNCHANGED guestVars => GuestOK'
           /\ UNCHANGED chanceVars => ChanceOK'
<1> USE InvParts
<1>1. UNCHANGED objectVars => ObjectOK'
  BY DEF ObjectOK, objectVars
<1>2. UNCHANGED inputVars /\ sent \subseteq sent' => InputOK'
  BY DEF InputOK, inputVars
<1>3. UNCHANGED policyVars => PolicyOK'
  BY DEF PolicyOK, policyVars
<1>4. UNCHANGED workVars => WorkOK'
  BY DEF WorkOK, RuntimeOK, RuntimesRemain, workVars
<1>5. UNCHANGED guestVars => GuestOK'
  BY DEF GuestOK, guestVars
<1>6. UNCHANGED chanceVars => ChanceOK'
  BY DEF ChanceOK, chanceVars
<1> QED BY <1>1, <1>2, <1>3, <1>4, <1>5, <1>6

LEMMA ChanceUp ==
    ASSUME Inv
    PROVE  /\ crashes < MaxCrashes /\ crashes' = crashes + 1 /\ UNCHANGED faults => ChanceOK'
           /\ faults < MaxFaults /\ faults' = faults + 1 /\ UNCHANGED crashes =>
                 ChanceOK' /\ faults' # 0
BY BoundsAssumption DEF Inv, TypeOK, ChanceOK

-----------------------------------------------------------------------------
(* The invariant, action by action. *)

LEMMA InitInv ==
    ASSUME Init
    PROVE  Inv
<1>1. 1 \in Runtimes /\ 1 \in Generations
  BY BoundsAssumption DEF Runtimes, Generations
<1>2. ObjectOK
  BY IdleIsTyped DEF Init, ObjectOK, CoordinationState
<1>3. InputOK /\ ChanceOK
  BY BoundsAssumption DEF Init, InputOK, ChanceOK
<1>4. PolicyOK
  BY <1>1 DEF Init, PolicyOK
<1>5. WorkOK
  <2>1. op \in Operation
    BY <1>1 DEF Init, NoOperation, Operation
  <2> QED BY <1>1, <2>1, BoundsAssumption DEF Init, WorkOK, RuntimeOK, RuntimesRemain
<1>6. GuestOK
  <2>1. <<>> \in Seq(Activities)
    OBVIOUS
  <2> QED BY <2>1 DEF Init, GuestOK
<1>7. TimersAreSpent /\ GraceIsEvidenced
  BY DEF Init, TimersAreSpent, GraceIsEvidenced
<1>8. SnapshotsAreTaken
  BY IdleIsTyped DEF Init, SnapshotsAreTaken
<1>9. HandlerIsCurrent
  BY IdleIsTyped DEF Init, HandlerIsCurrent
<1> QED BY <1>2, <1>3, <1>4, <1>5, <1>6, <1>7, <1>8, <1>9, InvParts DEF ObjectInv

LEMMA SendInv ==
    ASSUME Inv, SendAutoStopObservation
    PROVE  Inv'
<1>1. /\ UNCHANGED <<objectVars, fired, policyVars, workVars, guestVars, chanceVars>>
      /\ observations' = observations \cup {Sent}
      /\ observed < MaxObservations /\ observed' = observed + 1
  BY DEF SendAutoStopObservation, Sent
<1>2. InputOK'
  BY <1>1, SentIsTaken, BoundsAssumption DEF InputOK, Inv, TypeOK, objectVars
<1> QED BY <1>1, <1>2, SendObject, PartsKept, InvPartsNext

LEMMA ObserveInv ==
    ASSUME Inv, NEW o \in observations, ObserveHandler(o)
    PROVE  Inv'
<1>1. /\ UNCHANGED <<fired, observed, policyVars, workVars, guestVars, chanceVars>>
      /\ observations' \subseteq observations
  BY DEF ObserveHandler
<1>2. ObjectInv' /\ ObjectOK' /\ sent \subseteq sent'
  BY ObserveObject DEF ObjectOK
<1>3. InputOK'
  BY <1>1, <1>2 DEF InputOK, Inv, TypeOK
<1> QED BY <1>1, <1>2, <1>3, PartsKept, InvPartsNext

LEMMA RefreshBeginsInv ==
    ASSUME Inv, NEW g \in signals, RefreshBegins(g)
    PROVE  Inv'
<1>1. /\ UNCHANGED <<coord, sent, inputVars, policy, modes, refresher, signals, workVars,
                     guestVars, chanceVars>>
      /\ refreshed' = refreshed \cup {g}
  BY DEF RefreshBegins
<1>2. ObjectInv' /\ ObjectOK'
  BY <1>1, RefreshBeginsObject DEF ObjectOK, Inv, TypeOK
<1>3. PolicyOK'
  BY <1>1 DEF PolicyOK, Inv, TypeOK
<1> QED BY <1>1, <1>2, <1>3, PartsKept, InvPartsNext

LEMMA ExpireBeginsInv ==
    ASSUME Inv, NEW t \in sent, ExpireBegins(t)
    PROVE  Inv'
<1>1. /\ UNCHANGED <<coord, sent, observations, observed, policyVars, workVars, guestVars,
                     chanceVars>>
      /\ fired' = fired \cup {t}
  BY DEF ExpireBegins
<1>2. ObjectInv' /\ ObjectOK'
  BY <1>1, ExpireBeginsObject DEF ObjectOK, Inv, TypeOK
<1>3. InputOK'
  BY <1>1 DEF InputOK, Inv, TypeOK
<1> QED BY <1>1, <1>2, <1>3, PartsKept, InvPartsNext

LEMMA HandlerFailsInv ==
    ASSUME Inv, HandlerFails
    PROVE  Inv'
<1>1. /\ UNCHANGED <<coord, sent, inputVars, policyVars, workVars, guestVars, crashes>>
      /\ faults < MaxFaults /\ faults' = faults + 1
  BY DEF HandlerFails
<1>2. ObjectInv' /\ ObjectOK'
  BY <1>1, HandlerFailsObject DEF ObjectOK, Inv, TypeOK
<1> QED BY <1>1, <1>2, ChanceUp, PartsKept, InvPartsNext

LEMMA ReadsBeforeInv ==
    ASSUME Inv, ReadsBefore
    PROVE  Inv'
<1>1. UNCHANGED <<inputVars, policyVars, workVars, guestVars, chanceVars>>
  BY DEF ReadsBefore
<1>2. ObjectInv' /\ ObjectOK' /\ sent \subseteq sent'
  BY ReadsBeforeObject DEF ObjectOK
<1> QED BY <1>1, <1>2, PartsKept, InvPartsNext

LEMMA PollsSnapshotInv ==
    ASSUME Inv, PollsSnapshot
    PROVE  Inv'
<1>1. UNCHANGED <<coord, sent, inputVars, policyVars, workVars, guestVars, chanceVars>>
  BY DEF PollsSnapshot
<1>2. ObjectInv' /\ ObjectOK' /\ sent \subseteq sent'
  BY <1>1, PollsSnapshotObject DEF ObjectOK, Inv, TypeOK
<1> QED BY <1>1, <1>2, PartsKept, InvPartsNext

LEMMA ReadsAfterInv ==
    ASSUME Inv, ReadsAfter
    PROVE  Inv'
<1>1. UNCHANGED <<inputVars, policyVars, workVars, guestVars, chanceVars>>
  BY DEF ReadsAfter
<1>2. ObjectInv' /\ ObjectOK' /\ sent \subseteq sent'
  BY ReadsAfterObject DEF ObjectOK
<1> QED BY <1>1, <1>2, PartsKept, InvPartsNext

LEMMA DispatchInv ==
    ASSUME Inv, DispatchRuntimeStop
    PROVE  Inv'
<1>1. UNCHANGED <<inputVars, policyVars, guestVars, faults>> /\ handler.pc = "dispatch"
  BY DEF DispatchRuntimeStop
<1>2. ObjectInv' /\ ObjectOK' /\ sent \subseteq sent'
  BY DispatchObject DEF ObjectOK
<1>3. ChanceOK'
  <2>1. CASE UNCHANGED crashes
    BY <1>1, <2>1, PartsKept DEF chanceVars
  <2>2. CASE crashes < MaxCrashes /\ crashes' = crashes + 1
    BY <1>1, <2>2, ChanceUp
  <2> QED BY <2>1, <2>2 DEF DispatchRuntimeStop
<1>4. WorkOK'
  <2>1. CASE UNCHANGED workVars
    BY <2>1, PartsKept
  <2>2. CASE /\ op' = [type |-> "stop", runtime |-> runtime.id, pc |-> "queued", auto |-> TRUE]
             /\ stops' = stops \cup {StopKey} /\ UNCHANGED <<runtime, ops>>
    <3>1. op' \in Operation
      BY <2>2 DEF Operation, Inv, TypeOK
    <3>2. StopKey \in Timer
      <4>1. coord.runtime # 0 /\ coord \in CoordinationState
        BY <1>1 DEF Inv, TypeOK, HandlerIsCurrent
      <4> QED BY <4>1 DEF StopKey, Timer, CoordinationState
    <3> QED BY <2>2, <3>1, <3>2 DEF WorkOK, RuntimeOK, RuntimesRemain, Inv, TypeOK
  <2> QED BY <2>1, <2>2 DEF DispatchRuntimeStop
<1> QED BY <1>1, <1>2, <1>3, <1>4, PartsKept, InvPartsNext

(* The policy and its refreshes.                                           *)
LEMMA RefreshesInv ==
    ASSUME Inv,
           UpdateAutoStopPolicy \/ RefresherStep \/ RefreshIsLost
    PROVE  Inv'
<1>1. UNCHANGED <<objectVars, inputVars, modes, refreshed, workVars, guestVars, faults>>
  BY DEF UpdateAutoStopPolicy, RefresherStep, RefreshIsPending, SendAutoStopPolicyRefresh,
         AcknowledgeAutoStopPolicyRefresh, RefreshIsLost, chanceVars
<1>2. ObjectInv'
  BY <1>1, AsideStep DEF workVars
<1>3. ChanceOK'
  <2>1. CASE UNCHANGED chanceVars
    BY <2>1, PartsKept
  <2>2. CASE RefreshIsLost
    BY <2>2, ChanceUp DEF RefreshIsLost
  <2> QED BY <2>1, <2>2 DEF UpdateAutoStopPolicy, RefresherStep, RefreshIsPending,
                            SendAutoStopPolicyRefresh, AcknowledgeAutoStopPolicyRefresh
<1>4. PolicyOK'
  <2>0. PolicyOK /\ 0 \in Generations \cup {0} /\ FALSE \in BOOLEAN /\ TRUE \in BOOLEAN
    BY InvParts
  <2>1. CASE UpdateAutoStopPolicy
    <3> DEFINE n == policy.generation + 1
    <3>1. /\ policy' = [policy EXCEPT !.generation = n]
          /\ UNCHANGED <<modes, refresher, signals, refreshed>>
          /\ policy.generation < MaxGenerations
      BY <2>1 DEF UpdateAutoStopPolicy
    <3>2. n \in Generations
      BY <2>0, <3>1, BoundsAssumption DEF PolicyOK, Generations
    <3> HIDE DEF n
    <3> QED BY <2>0, <3>1, <3>2 DEF PolicyOK
  <2>2. CASE RefreshIsPending
    BY <2>0, <2>2 DEF RefreshIsPending, PolicyOK
  <2>3. CASE SendAutoStopPolicyRefresh
    BY <2>0, <2>3 DEF SendAutoStopPolicyRefresh, PolicyOK
  <2>4. CASE AcknowledgeAutoStopPolicyRefresh
    <3> DEFINE n == Bigger(policy.acknowledged, refresher.generation)
    <3>1. /\ policy' = [policy EXCEPT !.acknowledged = n]
          /\ refresher' = [generation |-> 0, sent |-> FALSE]
          /\ UNCHANGED <<modes, signals, refreshed>>
      BY <2>4 DEF AcknowledgeAutoStopPolicyRefresh
    <3>2. n \in Nat
      BY <2>0 DEF PolicyOK, Generations, Bigger
    <3> HIDE DEF n
    <3> QED BY <2>0, <3>1, <3>2 DEF PolicyOK
  <2>5. CASE RefreshIsLost
    BY <2>0, <2>5 DEF RefreshIsLost, PolicyOK
  <2> QED BY <2>1, <2>2, <2>3, <2>4, <2>5 DEF RefresherStep
<1> QED BY <1>1, <1>2, <1>3, <1>4, PartsKept, InvPartsNext DEF objectVars

LEMMA ReserveInv ==
    ASSUME Inv, NEW type \in Types, ReserveRuntimeOperation(type)
    PROVE  Inv'
<1>1. /\ UNCHANGED <<objectVars, inputVars, policyVars, runtime, stops, guestVars, chanceVars>>
      /\ ops < MaxOperations /\ ops' = ops + 1
      /\ op' = [type |-> type, runtime |-> runtime.id, pc |-> "queued", auto |-> FALSE]
  BY DEF ReserveRuntimeOperation
<1>2. ObjectInv'
  BY <1>1, AsideStep DEF policyVars, chanceVars
<1>3. WorkOK'
  <2>1. op' \in Operation
    BY <1>1, TypesAssumption DEF Operation, Inv, TypeOK
  <2>2. ops' \in 0..MaxOperations
    BY <1>1, BoundsAssumption DEF Inv, TypeOK
  <2> QED BY <1>1, <2>1, <2>2 DEF WorkOK, RuntimeOK, RuntimesRemain, Inv, TypeOK
<1> QED BY <1>1, <1>2, <1>3, PartsKept, InvPartsNext DEF objectVars

LEMMA NoOperationIsTyped ==
    NoOperation \in Operation
BY BoundsAssumption DEF NoOperation, Operation, Runtimes

(* An Operation goes on or ends.                                           *)
LEMMA OperationMoves ==
    ASSUME Inv, NEW pc \in {"queued", "suppress", "work", "resume"},
           UNCHANGED op \/ op' = [op EXCEPT !.pc = pc] \/ Ended
    PROVE  op' \in Operation
<1>1. op \in Operation
  BY DEF Inv, TypeOK
<1>2. CASE UNCHANGED op
  BY <1>1, <1>2
<1>3. CASE op' = [op EXCEPT !.pc = pc]
  BY <1>1, <1>3 DEF Operation
<1>4. CASE Ended
  BY <1>4, NoOperationIsTyped DEF Ended
<1> QED BY <1>2, <1>3, <1>4

LEMMA OperationLoadsInv ==
    ASSUME Inv, OperationLoads
    PROVE  Inv'
<1>1. UNCHANGED <<objectVars, inputVars, policyVars, stops, ops, guestVars, crashes>>
  BY DEF OperationLoads
<1>2. UNCHANGED faults \/ (faults < MaxFaults /\ faults' = faults + 1)
  BY DEF OperationLoads
<1>3. ChanceOK' /\ (faults # 0 => faults' # 0)
  BY <1>1, <1>2, ChanceUp, PartsKept DEF chanceVars
<1>4. ObjectInv'
  BY <1>1, <1>3, AsideStep DEF policyVars
<1>5. op' \in Operation
  <2>1. \/ UNCHANGED op \/ Ended
        \/ op' = [op EXCEPT !.pc = "suppress"]
        \/ op' = [op EXCEPT !.pc = "work"]
    BY DEF OperationLoads
  <2> QED BY <2>1, OperationMoves
<1>6. RuntimeOK'
  <2>0. RuntimeOK
    BY InvParts DEF WorkOK
  <2>1. CASE UNCHANGED runtime
    BY <2>0, <2>1 DEF RuntimeOK, RuntimesRemain
  <2>2. CASE runtime' = [runtime EXCEPT !.status = "starting"]
    BY <2>0, <2>2 DEF RuntimeOK, RuntimesRemain
  <2>3. CASE runtime.id < MaxRuntimes /\ runtime' = [runtime EXCEPT !.status = "replacing"]
    BY <2>0, <2>3 DEF RuntimeOK, RuntimesRemain
  <2> QED BY <2>1, <2>2, <2>3 DEF OperationLoads
<1>7. WorkOK'
  BY <1>1, <1>5, <1>6 DEF WorkOK, Inv, TypeOK
<1> QED BY <1>1, <1>3, <1>4, <1>7, PartsKept, InvPartsNext DEF objectVars

LEMMA OperationWorksInv ==
    ASSUME Inv, OperationWorks
    PROVE  Inv'
<1>1. UNCHANGED <<objectVars, inputVars, policyVars, stops, ops, guestVars, chanceVars>>
  BY DEF OperationWorks
<1>2. ObjectInv'
  BY <1>1, AsideStep DEF policyVars, chanceVars
<1>3. op' \in Operation
  <2>1. UNCHANGED op \/ Ended \/ op' = [op EXCEPT !.pc = "resume"]
    BY DEF OperationWorks
  <2> QED BY <2>1, OperationMoves
<1>4. RuntimeOK'
  <2>0. RuntimeOK
    BY InvParts DEF WorkOK
  <2>1. CASE UNCHANGED runtime
    BY <2>0, <2>1 DEF RuntimeOK, RuntimesRemain
  <2>2. ASSUME NEW x \in {"stopping", "stopped", "ready"},
               runtime' = [runtime EXCEPT !.status = x]
        PROVE  RuntimeOK'
    BY <2>0, <2>2 DEF RuntimeOK, RuntimesRemain
  <2>3. CASE /\ runtime.status = "replacing"
             /\ runtime' = [id |-> runtime.id + 1, status |-> "starting"]
    <3>1. runtime.id + 1 \in Runtimes
      BY <2>0, <2>3, BoundsAssumption DEF RuntimeOK, RuntimesRemain, Runtimes
    <3> QED BY <2>3, <3>1 DEF RuntimeOK, RuntimesRemain
  <2> QED BY <2>1, <2>2, <2>3 DEF OperationWorks
<1>5. WorkOK'
  BY <1>1, <1>3, <1>4 DEF WorkOK, Inv, TypeOK
<1> QED BY <1>1, <1>2, <1>5, PartsKept, InvPartsNext DEF objectVars

LEMMA SuppressInv ==
    ASSUME Inv, SuppressHandler
    PROVE  Inv'
<1>1. /\ UNCHANGED <<inputVars, policyVars, runtime, stops, ops, guestVars, chanceVars>>
      /\ op' = [op EXCEPT !.pc = "work"]
  BY DEF SuppressHandler
<1>2. ObjectInv' /\ ObjectOK' /\ sent \subseteq sent'
  BY SuppressObject DEF ObjectOK
<1>3. op' \in Operation
  BY <1>1, OperationMoves
<1>4. WorkOK'
  BY <1>1, <1>3 DEF WorkOK, RuntimeOK, RuntimesRemain, Inv, TypeOK
<1> QED BY <1>1, <1>2, <1>4, PartsKept, InvPartsNext

LEMMA ResumeInv ==
    ASSUME Inv, ResumeHandler
    PROVE  Inv'
<1>1. /\ UNCHANGED <<inputVars, policyVars, runtime, stops, ops, guestVars, chanceVars>>
      /\ Ended
  BY DEF ResumeHandler
<1>2. ObjectInv' /\ ObjectOK' /\ sent \subseteq sent'
  BY ResumeObject DEF ObjectOK
<1>3. op' \in Operation
  BY <1>1, NoOperationIsTyped DEF Ended
<1>4. WorkOK'
  BY <1>1, <1>3 DEF WorkOK, RuntimeOK, RuntimesRemain, Inv, TypeOK
<1> QED BY <1>1, <1>2, <1>4, PartsKept, InvPartsNext

LEMMA GuestSamplesInv ==
    ASSUME Inv, NEW a \in Activities, GuestSamples(a)
    PROVE  Inv'
<1>1. UNCHANGED <<objectVars, inputVars, policyVars, workVars, stored, chanceVars>>
  BY DEF GuestSamples
<1>2. GuestOK'
  BY <1>1, GuestSamplesFacts DEF GuestOK, Inv, TypeOK
<1> QED BY <1>1, <1>2, GuestSamplesObject, PartsKept, InvPartsNext DEF objectVars

LEMMA StoreInv ==
    ASSUME Inv, NEW s \in 1..MaxSamples, StoreActivitySnapshot(s)
    PROVE  Inv'
<1>1. UNCHANGED <<objectVars, inputVars, policyVars, workVars, samples, chanceVars>>
  BY DEF StoreActivitySnapshot
<1>2. GuestOK'
  BY <1>1, StoreObject DEF GuestOK, Inv, TypeOK
<1> QED BY <1>1, <1>2, StoreObject, PartsKept, InvPartsNext DEF objectVars

LEMMA NextInv ==
    ASSUME Inv, [Next]_vars
    PROVE  Inv'
<1>1. CASE SendAutoStopObservation
  BY <1>1, SendInv
<1>2. CASE \E o \in observations : ObserveHandler(o)
  BY <1>2, ObserveInv
<1>3. CASE \E g \in signals : RefreshBegins(g)
  BY <1>3, RefreshBeginsInv
<1>4. CASE \E t \in sent : ExpireBegins(t)
  BY <1>4, ExpireBeginsInv
<1>5. CASE HandlerStep
  BY <1>5, ReadsBeforeInv, PollsSnapshotInv, ReadsAfterInv, DispatchInv DEF HandlerStep
<1>6. CASE HandlerFails
  BY <1>6, HandlerFailsInv
<1>7. CASE UpdateAutoStopPolicy \/ RefresherStep \/ RefreshIsLost
  BY <1>7, RefreshesInv
<1>8. CASE \E type \in Types : ReserveRuntimeOperation(type)
  BY <1>8, ReserveInv
<1>9. CASE WorkflowStep
  BY <1>9, OperationLoadsInv, SuppressInv, OperationWorksInv, ResumeInv DEF WorkflowStep
<1>10. CASE \E a \in Activities : GuestSamples(a)
  BY <1>10, GuestSamplesInv
<1>11. CASE \E s \in 1..MaxSamples : StoreActivitySnapshot(s)
  BY <1>11, StoreInv
<1>12. CASE UNCHANGED vars
  <2>1. UNCHANGED <<objectVars, inputVars, policyVars, workVars, guestVars, chanceVars>>
    BY <1>12 DEF vars, objectVars, inputVars, policyVars, workVars, guestVars, chanceVars
  <2>2. ObjectInv'
    BY <2>1, AsideStep DEF policyVars, workVars, chanceVars
  <2> QED BY <2>1, <2>2, PartsKept, InvPartsNext DEF objectVars
<1> QED BY <1>1, <1>2, <1>3, <1>4, <1>5, <1>6, <1>7, <1>8, <1>9, <1>10, <1>11, <1>12 DEF Next

-----------------------------------------------------------------------------
(* The theorems. *)

(* The invariant, in every state AutoStop reaches, for every value of the  *)
(* constants.                                                              *)
THEOREM Invariance == Spec => []Inv
<1>1. Init => Inv
  BY InitInv
<1>2. Inv /\ [Next]_vars => Inv'
  BY NextInv
<1> QED BY <1>1, <1>2, PTL DEF Spec

(* The variables of AutoStop have their types.                             *)
THEOREM TypeCorrect == Spec => []TypeOK
<1>1. Inv => TypeOK
  BY DEF Inv
<1> QED BY <1>1, Invariance, PTL

(* A grace period has its timer: Expire of AutoStopObject is still to come *)
(* or being handled while the coordinator's state is pending, and is not   *)
(* taken for the replay of an earlier stop.                                *)
THEOREM GraceEnds == Spec => []GraceHasItsTimer
<1>1. Inv => GraceHasItsTimer
  BY DEF Inv, GraceIsEvidenced, TimersAreSpent, GraceHasItsTimer
<1> QED BY <1>1, Invariance, PTL

(* Only the dispatch of an expired timer reserves an automatic stop.       *)
LEMMA OnlyDispatchReserves ==
    ASSUME Inv, [Next]_vars, Reserves
    PROVE  handler.pc = "dispatch" /\ op'.runtime = coord.runtime
<1>1. op' # op /\ op.type = "none" /\ op'.type = "stop" /\ op'.auto
  BY DEF Reserves
<1>2. ASSUME UNCHANGED workVars PROVE FALSE
  BY <1>1, <1>2 DEF workVars
<1>3. CASE \/ SendAutoStopObservation \/ (\E o \in observations : ObserveHandler(o))
           \/ (\E g \in signals : RefreshBegins(g)) \/ (\E t \in sent : ExpireBegins(t))
  BY <1>2, <1>3 DEF SendAutoStopObservation, ObserveHandler, RefreshBegins, ExpireBegins
<1>4. CASE ReadsBefore \/ PollsSnapshot \/ ReadsAfter \/ HandlerFails
  BY <1>2, <1>4 DEF ReadsBefore, PollsSnapshot, ReadsAfter, HandlerFails
<1>5. CASE DispatchRuntimeStop
  <2>1. /\ handler.pc = "dispatch" /\ runtime.id = coord.runtime
        /\ op' = [type |-> "stop", runtime |-> runtime.id, pc |-> "queued", auto |-> TRUE]
    BY <1>2, <1>5 DEF DispatchRuntimeStop
  <2> QED BY <2>1
<1>6. CASE UpdateAutoStopPolicy \/ RefresherStep \/ RefreshIsLost
  BY <1>2, <1>6 DEF UpdateAutoStopPolicy, RefresherStep, RefreshIsPending,
     SendAutoStopPolicyRefresh, AcknowledgeAutoStopPolicyRefresh, RefreshIsLost
<1>7. CASE \E type \in Types : ReserveRuntimeOperation(type)
  <2>1. op'.auto = FALSE
    BY <1>7 DEF ReserveRuntimeOperation
  <2> QED BY <1>1, <2>1
<1>8. CASE WorkflowStep
  BY <1>1, <1>8 DEF WorkflowStep, OperationLoads, SuppressHandler, OperationWorks, ResumeHandler
<1>9. CASE \/ \E a \in Activities : GuestSamples(a)
           \/ \E s \in 1..MaxSamples : StoreActivitySnapshot(s)
           \/ UNCHANGED vars
  BY <1>2, <1>9 DEF GuestSamples, StoreActivitySnapshot, vars, workVars
<1> QED BY <1>3, <1>4, <1>5, <1>6, <1>7, <1>8, <1>9 DEF Next, HandlerStep

(* What StopIsEvidenced asks of a step.                                    *)
EvidencedStep ==
    Reserves =>
        LET r == op'.runtime
            idle(s) == samples[r][s] \cap Protects[modes[coord.policy]] = {} IN
        /\ r = coord.runtime
        /\ modes[coord.policy] # "manual"
        /\ idle(coord.grace) /\ idle(handler.seen.sample)
        /\ coord.grace < handler.seen.sample
        /\ handler.since < handler.seen.sample

(* DispatchRuntimeStop reserves an automatic stop on two idle Snapshots of *)
(* the Runtime that it stops, the later one sampled after the timer had    *)
(* expired, whatever was cancelled, delayed, reordered or run again.       *)
THEOREM StopsAreEvidenced == Spec => StopIsEvidenced
<1>1. ASSUME Inv, [Next]_vars PROVE EvidencedStep
  <2> SUFFICES ASSUME Reserves PROVE EvidencedStep
    BY DEF EvidencedStep
  <2>1. handler.pc = "dispatch" /\ op'.runtime = coord.runtime
    BY <1>1, OnlyDispatchReserves
  <2>2. /\ handler.kind = "Expire" /\ coord.pending
        /\ IdleBy(coord.runtime, coord.policy, handler.seen.sample)
        /\ coord.last < handler.seen.sample /\ handler.since < handler.seen.sample
    BY <1>1, <2>1 DEF Inv, HandlerIsCurrent
  <2>3. coord.grace <= coord.last /\ IdleBy(coord.runtime, coord.policy, coord.grace)
    BY <1>1, <2>2 DEF Inv, GraceIsEvidenced
  <2>4. coord.grace < handler.seen.sample
    BY <1>1, <2>2, <2>3 DEF Inv, TypeOK, CoordinationState, Handler, Observation
  <2> QED BY <2>1, <2>2, <2>3, <2>4 DEF EvidencedStep, IdleBy
<1> QED BY <1>1, Invariance, PTL DEF Spec, StopIsEvidenced, EvidencedStep
=============================================================================
