--------------------------- MODULE BillingProofs ----------------------------
(***************************************************************************)
(* The credits of a User are exact, for any intervals, rates, messages and *)
(* bounds: every interval that ended is charged once and in full, the      *)
(* balance is the sum of the ledger, Polar counts each debit at most once, *)
(* and the subscription is the latest that was received.                   *)
(***************************************************************************)
EXTENDS Billing, FiniteSetTheorems, WellFoundedInduction, TLAPS

-----------------------------------------------------------------------------
(* The inductive invariant.                                                *)

UsageRow == [status : {"none", "open", "closed"},
             started : 0..MaxTime, ended : 0..MaxTime, rate : DOMAIN Rates \cup {None}]
CloserRow == [pc : {"none", "closing", "returned"}, at : 0..MaxTime]
DeliveryRow == [pc : {"none", "deliver", "record", "completed", "refused"}, delivered : BOOLEAN]

UsageTyped ==
    /\ usage \in [Intervals -> UsageRow]
    /\ closers \in [Intervals \X Sources -> CloserRow]
    /\ rates \subseteq DOMAIN Rates
    /\ clock \in 0..MaxTime /\ billingLosses \in 0..MaxLosses

LedgerTyped ==
    /\ DOMAIN ledger \subseteq TransactionKeys
    /\ \A k \in DOMAIN ledger : ledger[k] \in Int \ {0}
    /\ \A i \in Intervals : Debit(i) \in DOMAIN ledger => ledger[Debit(i)] < 0
    /\ IsFiniteSet(DOMAIN ledger)
    /\ balance \in [credits : Int, version : Nat]
    /\ balance.version = Cardinality(DOMAIN ledger)
    /\ balance.credits = SumFunction(ledger)

(* A delivery is of a closed interval, and Polar has what was accepted.    *)
DeliveriesFollow ==
    /\ \A i \in DOMAIN deliveries :
          /\ i \in Intervals /\ usage[i].status = "closed" /\ deliveries[i] \in DeliveryRow
          /\ deliveries[i].pc = "record" \/ deliveries[i].delivered => ExternalID(i) \in DOMAIN polar
    /\ \A x \in DOMAIN polar : \E i \in Intervals :
          x = ExternalID(i) /\ Debit(i) \in DOMAIN ledger /\ polar[x] = -ledger[Debit(i)]

WebhooksTyped ==
    /\ DOMAIN receipts \subseteq Nat /\ \A x \in DOMAIN receipts : receipts[x] \in Messages
    /\ subscription \in Messages \cup {None}
    /\ customer \in {Webhooks[m].customer : m \in Messages} \cup {None}
    /\ subscription # None => customer = Webhooks[subscription].customer

(* SubscriptionIsLatest, receipt by receipt.                               *)
ReceiptsPrecede ==
    /\ subscription # None => \E x \in DOMAIN receipts : Webhooks[receipts[x]].type = "subscription"
    /\ \A x \in DOMAIN receipts : Webhooks[receipts[x]].type = "subscription" =>
          subscription # None /\ Webhooks[receipts[x]].at <= Webhooks[subscription].at

BillingInv ==
    /\ UsageTyped
    /\ LedgerTyped /\ ChargesAreExact
    /\ DeliveriesFollow
    /\ WebhooksTyped /\ ReceiptsPrecede

-----------------------------------------------------------------------------
(* What the operators do.                                                  *)

(* With is an upsert: it writes one key of a table and keeps the others.   *)
LEMMA WithWrites ==
    ASSUME NEW f, NEW x, NEW y
    PROVE  /\ DOMAIN With(f, x, y) = DOMAIN f \cup {x}
           /\ With(f, x, y)[x] = y
           /\ \A z \in DOMAIN f : z # x => With(f, x, y)[z] = f[z]
    BY DEF With

(* Debits of two intervals, and a debit and a grant, have their own keys.  *)
LEMMA KeysDiffer ==
    /\ \A i, j \in Intervals : Debit(i) = Debit(j) => i = j
    /\ \A i, j \in Intervals : ExternalID(i) = ExternalID(j) => i = j
    /\ \A i \in Intervals : ExternalID(i).debit = i
    /\ \A i \in Intervals : \A m \in Messages : Debit(i) # GrantKey(m)
    BY DEF Debit, ExternalID, GrantKey

(* Division of what is a multiple.                                         *)
LEMMA DivisionIsExact ==
    \A x \in Nat, u \in Nat \ {0} : x % u = 0 => x \div u \in Int /\ x = u * (x \div u)
    BY Z3

(* Convert loses nothing of what Converts lets through.                    *)
LEMMA ConvertIsExact ==
    ASSUME NEW ticks \in Nat \ {0}, NEW v \in DOMAIN Rates, Converts(ticks, v)
    PROVE  /\ Convert(ticks, v) \in Nat \ {0}
           /\ Convert(ticks, v) * Unit = ticks * Rates[v].per
    <1> DEFINE x == ticks * Rates[v].per
    <1>1. Rates[v].per \in Nat \ {0}
      BY RatesAssumption
    <1>2. x \in Nat \ {0}
      BY <1>1, SMT
    <1>3. x % Unit = 0 /\ Convert(ticks, v) = x \div Unit
      BY DEF Converts, Convert
    <1> HIDE DEF x
    <1>4. x \div Unit \in Int /\ x = Unit * (x \div Unit)
      BY <1>2, <1>3, DivisionIsExact, UnitAssumption
    <1> DEFINE q == x \div Unit
    <1> HIDE DEF q
    <1>5. q \in Int /\ x = Unit * q
      BY <1>4 DEF q
    <1>6. q \in Nat \ {0} /\ q * Unit = x
      BY <1>2, <1>5, UnitAssumption, SMT
    <1> QED
      BY <1>3, <1>6 DEF x, q

(* A rate is in force when it is said to apply.                            *)
LEMMA RateApplies ==
    ASSUME UsageTyped, NEW time \in Nat, Applicable(time) # {}
    PROVE  /\ GetApplicableComputeCreditRate(time) \in DOMAIN Rates
           /\ Rates[GetApplicableComputeCreditRate(time)].effective <= time
    <1> DEFINE V == Applicable(time)
               Last(v) == \A w \in V : Rates[w].effective <= Rates[v].effective
    <1>1. V \in SUBSET DOMAIN Rates /\ V # {}
      BY DEF Applicable, UsageTyped
    <1>2. \E v \in V : Last(v)
      BY <1>1, RatesAssumption
    <1>3. (CHOOSE v \in V : Last(v)) \in V
      <2> HIDE DEF V, Last
      <2> QED BY <1>2
    <1>4. GetApplicableComputeCreditRate(time) \in V
      BY <1>3 DEF GetApplicableComputeCreditRate
    <1> QED
      BY <1>1, <1>4 DEF Applicable

-----------------------------------------------------------------------------
(* The sum of a ledger.  What a fold computes is shown by the smallest set *)
(* for which it might not.                                                 *)

LEMMA LeastExists ==
    ASSUME NEW T, T \subseteq Nat, T # {}
    PROVE  \E x \in T : \A y \in T : x <= y
    <1>1. IsWellFoundedOn(OpToRel(<, Nat), Nat)
      BY NatLessThanWellFounded
    <1>2. PICK x \in T : \A y \in T : ~ (<<y, x>> \in OpToRel(<, Nat))
      BY <1>1, WFMin
    <1>3. \A y \in T : ~(y < x)
      BY <1>2 DEF OpToRel
    <1> QED
      BY <1>3

LEMMA SmallestExists ==
    ASSUME NEW S, IsFiniteSet(S), NEW B, B \subseteq SUBSET S, B # {}
    PROVE  \E b \in B : /\ IsFiniteSet(b) /\ Cardinality(b) \in Nat
                        /\ \A x \in b : b \ {x} \notin B
    <1> DEFINE N == {Cardinality(b) : b \in B}
    <1>1. \A b \in B : IsFiniteSet(b) /\ Cardinality(b) \in Nat
      BY FS_Subset, FS_CardinalityType
    <1>2. N \subseteq Nat /\ N # {}
      BY <1>1
    <1>3. \A b \in B : Cardinality(b) \in N
      OBVIOUS
    <1>4. \A n \in N : \E b \in B : n = Cardinality(b)
      OBVIOUS
    <1> HIDE DEF N
    <1>5. PICK n \in N : \A m \in N : n <= m
      BY <1>2, LeastExists
    <1>6. PICK b \in B : n = Cardinality(b)
      BY <1>4
    <1>7. ASSUME NEW x \in b, b \ {x} \in B PROVE FALSE
      <2>1. Cardinality(b \ {x}) = Cardinality(b) - 1
        BY <1>1, FS_RemoveElement
      <2>2. Cardinality(b) <= Cardinality(b \ {x})
        BY <1>3, <1>5, <1>6, <1>7
      <2> QED
        BY <1>1, <2>1, <2>2
    <1> QED
      BY <1>1, <1>7

Pick(s) == CHOOSE x \in s : TRUE

(* g sums f over the subsets of S, as SumFunction does.                    *)
Sums(g, f, S) ==
    g = [s \in SUBSET S |-> IF s = {} THEN 0 ELSE f[Pick(s)] + g[s \ {Pick(s)}]]

LEMMA SumFunctionSums ==
    ASSUME NEW f
    PROVE  SumFunction(f) = (CHOOSE g : Sums(g, f, DOMAIN f))[DOMAIN f]
    BY Zenon DEF Sums, Pick, SumFunction, SumFunctionOnSet, FoldFunctionOnSet, MapThenFoldSet

LEMMA PickIsMember == \A s : s # {} => Pick(s) \in s
    BY DEF Pick

(* What a sum is of: nothing, or the value picked and the sum of the rest. *)
LEMMA SumsUnfolds ==
    ASSUME NEW g, NEW f, NEW S, Sums(g, f, S)
    PROVE  /\ g[{}] = 0
           /\ \A s \in SUBSET S : s # {} =>
                 Pick(s) \in s /\ g[s] = f[Pick(s)] + g[s \ {Pick(s)}]
    BY PickIsMember DEF Sums

(* There is such a g: one for the sets of up to n members gives one for    *)
(* those of up to n + 1.                                                   *)
LEMMA SumExists ==
    ASSUME NEW f, NEW S, IsFiniteSet(S)
    PROVE  \E g : Sums(g, f, S)
    <1> DEFINE Small(n) == {s \in SUBSET S : Cardinality(s) <= n}
               SumsTo(g, n) == g = [s \in Small(n) |->
                                       IF s = {} THEN 0 ELSE f[Pick(s)] + g[s \ {Pick(s)}]]
               Bad == {n \in Nat : ~ \E g : SumsTo(g, n)}
    <1>1. /\ \A s \in SUBSET S : IsFiniteSet(s) /\ Cardinality(s) \in Nat
          /\ \A s \in SUBSET S : Cardinality(s) <= Cardinality(S)
          /\ \A s \in SUBSET S : Cardinality(s) = 0 <=> s = {}
          /\ \A s \in SUBSET S : s # {} => Cardinality(s \ {Pick(s)}) = Cardinality(s) - 1
      BY FS_Subset, FS_CardinalityType, FS_EmptySet, FS_RemoveElement, PickIsMember
    <1>2. 0 \notin Bad
      <2> DEFINE g == [s \in Small(0) |-> 0]
      <2>1. \A s \in Small(0) : s = {}
        BY <1>1
      <2>2. SumsTo(g, 0)
        BY <2>1
      <2> QED
        BY <2>2
    <1>3. ASSUME NEW n \in Nat, n \notin Bad PROVE n + 1 \notin Bad
      <2>1. PICK g : SumsTo(g, n)
        BY <1>3
      <2> DEFINE h == [s \in Small(n + 1) |-> IF s = {} THEN 0 ELSE f[Pick(s)] + g[s \ {Pick(s)}]]
      <2>2. Small(n) \subseteq Small(n + 1)
        BY <1>1
      <2>3. \A s \in Small(n + 1) : s # {} => s \ {Pick(s)} \in Small(n)
        BY <1>1
      <2> HIDE DEF Small
      <2>4. \A s \in Small(n) : h[s] = g[s]
        BY <2>1, <2>2
      <2>5. \A s \in Small(n + 1) :
               h[s] = IF s = {} THEN 0 ELSE f[Pick(s)] + h[s \ {Pick(s)}]
        BY <2>3, <2>4
      <2> DEFINE k == [s \in Small(n + 1) |-> IF s = {} THEN 0 ELSE f[Pick(s)] + h[s \ {Pick(s)}]]
      <2>6. h = k
        <3>1. \A s \in Small(n + 1) : h[s] = k[s]
          BY <2>5
        <3> QED
          BY <3>1
      <2>7. SumsTo(h, n + 1)
        <3> HIDE DEF h
        <3> QED
          BY <2>6
      <2> HIDE DEF h
      <2> QED
        BY <2>7
    <1>4. Bad = {}
      <2> SUFFICES ASSUME Bad # {} PROVE FALSE
        OBVIOUS
      <2>1. Bad \subseteq Nat
        OBVIOUS
      <2> HIDE DEF Bad
      <2>2. PICK n \in Bad : \A m \in Bad : n <= m
        BY <2>1, LeastExists
      <2>3. n \in Nat /\ n # 0
        BY <1>2, <2>1
      <2>4. n - 1 \in Nat /\ n - 1 \notin Bad
        BY <2>1, <2>2, <2>3
      <2>5. (n - 1) + 1 \notin Bad
        BY <1>3, <2>4
      <2> QED
        BY <2>3, <2>5
    <1>5. PICK g : SumsTo(g, Cardinality(S))
      BY <1>1, <1>4
    <1>6. Small(Cardinality(S)) = SUBSET S
      BY <1>1
    <1> QED
      BY <1>5, <1>6 DEF Sums

LEMMA SumIsWhole ==
    ASSUME NEW g, NEW f, NEW S, IsFiniteSet(S), Sums(g, f, S), \A x \in S : f[x] \in Int
    PROVE  \A s \in SUBSET S : g[s] \in Int
    <1> DEFINE B == {s \in SUBSET S : g[s] \notin Int}
    <1> SUFFICES ASSUME B # {} PROVE FALSE
      OBVIOUS
    <1>1. PICK b \in B : \A x \in b : b \ {x} \notin B
      BY SmallestExists
    <1>2. /\ g[{}] = 0
          /\ \A s \in SUBSET S : s # {} =>
                Pick(s) \in s /\ g[s] = f[Pick(s)] + g[s \ {Pick(s)}]
      BY SumsUnfolds
    <1>3. Pick(b) \in b /\ g[b] = f[Pick(b)] + g[b \ {Pick(b)}]
      <2>1. b \in SUBSET S /\ g[b] \notin Int
        OBVIOUS
      <2>2. b # {}
        <3>1. g[{}] \in Int
          BY <1>2
        <3> QED
          BY <2>1, <3>1
      <2> QED
        BY <1>2, <2>1, <2>2
    <1>4. g[b \ {Pick(b)}] \in Int
      BY <1>1, <1>3
    <1> QED
      BY <1>3, <1>4

(* Sums of functions that agree agree.                                     *)
LEMMA SumsAgree ==
    ASSUME NEW g, NEW f, NEW S, Sums(g, f, S), IsFiniteSet(S),
           NEW h, NEW e, NEW T, Sums(h, e, T), S \subseteq T, \A x \in S : e[x] = f[x]
    PROVE  \A s \in SUBSET S : h[s] = g[s]
    <1> DEFINE B == {s \in SUBSET S : h[s] # g[s]}
    <1> SUFFICES ASSUME B # {} PROVE FALSE
      OBVIOUS
    <1>1. PICK b \in B : \A x \in b : b \ {x} \notin B
      BY SmallestExists
    <1>2. /\ g[{}] = 0
          /\ \A s \in SUBSET S : s # {} =>
                Pick(s) \in s /\ g[s] = f[Pick(s)] + g[s \ {Pick(s)}]
      BY SumsUnfolds
    <1>3. /\ h[{}] = 0
          /\ \A s \in SUBSET T : s # {} =>
                Pick(s) \in s /\ h[s] = e[Pick(s)] + h[s \ {Pick(s)}]
      BY SumsUnfolds
    <1>4. /\ Pick(b) \in b
          /\ g[b] = f[Pick(b)] + g[b \ {Pick(b)}]
          /\ h[b] = e[Pick(b)] + h[b \ {Pick(b)}]
      BY <1>2, <1>3
    <1>5. h[b \ {Pick(b)}] = g[b \ {Pick(b)}]
      BY <1>1, <1>4
    <1> QED
      BY <1>4, <1>5

(* Whatever is picked first, a member adds its value.                      *)
LEMMA SumGrows ==
    ASSUME NEW g, NEW f, NEW S, IsFiniteSet(S), Sums(g, f, S), \A x \in S : f[x] \in Int,
           NEW s \in SUBSET S, NEW x \in S \ s
    PROVE  g[s \cup {x}] = f[x] + g[s]
    <1> DEFINE Grows(t) == \A y \in S \ t : g[t \cup {y}] = f[y] + g[t]
               B == {t \in SUBSET S : ~Grows(t)}
    <1>1. B = {}
      <2> SUFFICES ASSUME B # {} PROVE FALSE
        OBVIOUS
      <2>1. B \subseteq SUBSET S
        OBVIOUS
      <2>2. PICK b \in B : \A z \in b : b \ {z} \notin B
        <3> HIDE DEF B
        <3> QED BY <2>1, SmallestExists
      <2>3. PICK y \in S \ b : g[b \cup {y}] # f[y] + g[b]
        OBVIOUS
      <2> DEFINE c == b \cup {y}
                 p == Pick(c)
      <2>4. p \in c /\ c \ {p} \in SUBSET S /\ g[c] = f[p] + g[c \ {p}]
        <3>1. c \in SUBSET S /\ c # {}
          OBVIOUS
        <3> HIDE DEF c
        <3>2. Pick(c) \in c /\ g[c] = f[Pick(c)] + g[c \ {Pick(c)}]
          <4>1. \A t \in SUBSET S : t # {} =>
                   Pick(t) \in t /\ g[t] = f[Pick(t)] + g[t \ {Pick(t)}]
            BY SumsUnfolds
          <4> QED
            BY <3>1, <4>1
        <3> QED
          BY <3>1, <3>2
      <2>5. CASE p = y
        <3>1. c \ {p} = b
          BY <2>5
        <3> HIDE DEF c
        <3> QED
          BY <2>3, <2>4, <2>5, <3>1 DEF c
      <2>6. CASE p # y
        <3> DEFINE r == b \ {p}
        <3>1. /\ p \in b /\ y \in S \ r /\ p \in S \ r /\ r \in SUBSET S
              /\ c \ {p} = r \cup {y} /\ b = r \cup {p}
          <4> HIDE DEF p
          <4> QED BY <2>4, <2>6
        <3>2. Grows(r)
          BY <2>2, <3>1
        <3>3. g[r \cup {y}] = f[y] + g[r] /\ g[r \cup {p}] = f[p] + g[r]
          BY <3>1, <3>2
        <3>4. g[r] \in Int /\ f[y] \in Int /\ f[p] \in Int
          BY <3>1, SumIsWhole
        <3>5. g[c] = f[p] + g[r \cup {y}] /\ g[b] = g[r \cup {p}]
          BY <2>4, <3>1
        <3> HIDE DEF r, c, p
        <3>6. g[c] = f[y] + g[b]
          BY <3>3, <3>4, <3>5
        <3> QED
          BY <2>3, <3>6 DEF c
      <2> QED
        BY <2>5, <2>6
    <1> QED
      BY <1>1

(* SumFunction of a function with one more entry.                          *)
LEMMA SumOfWith ==
    ASSUME NEW f, IsFiniteSet(DOMAIN f), \A x \in DOMAIN f : f[x] \in Int,
           NEW k, k \notin DOMAIN f, NEW v \in Int
    PROVE  /\ SumFunction(f) \in Int
           /\ SumFunction(With(f, k, v)) = SumFunction(f) + v
    <1> DEFINE e == With(f, k, v)
               S == DOMAIN f
               T == S \cup {k}
               g == CHOOSE x : Sums(x, f, S)
               h == CHOOSE x : Sums(x, e, T)
    <1>1. /\ DOMAIN e = T /\ e[k] = v /\ \A x \in S : e[x] = f[x]
      BY DEF With
    <1>2. IsFiniteSet(T) /\ \A x \in T : e[x] \in Int
      BY <1>1, FS_AddElement
    <1>3. Sums(g, f, S)
      BY SumExists
    <1> HIDE DEF e
    <1>4. Sums(h, e, T)
      BY <1>2, SumExists
    <1>5. SumFunction(f) = g[S] /\ SumFunction(e) = h[T]
      BY <1>1, SumFunctionSums
    <1> HIDE DEF g, h, S, T
    <1>6. IsFiniteSet(S) /\ S \subseteq T /\ S \in SUBSET S /\ S \in SUBSET T /\ k \in T \ S
          /\ T = S \cup {k}
      BY DEF S, T
    <1>7. g[S] \in Int
      BY <1>3, <1>6, SumIsWhole DEF S
    <1>8. h[S] = g[S]
      BY <1>1, <1>3, <1>4, <1>6, SumsAgree
    <1>9. h[S \cup {k}] = e[k] + h[S]
      BY <1>2, <1>4, <1>6, SumGrows
    <1> QED
      BY <1>1, <1>5, <1>6, <1>7, <1>8, <1>9 DEF e

LEMMA SumOfNothing ==
    ASSUME NEW f, DOMAIN f = {}
    PROVE  SumFunction(f) = 0
    <1> DEFINE g == CHOOSE x : Sums(x, f, {})
    <1>1. Sums(g, f, {})
      BY SumExists, FS_EmptySet
    <1>2. SumFunction(f) = g[{}]
      BY SumFunctionSums
    <1> QED
      BY <1>1, <1>2, SumsUnfolds

-----------------------------------------------------------------------------
(* A row in the ledger is one more transaction and one more version, and   *)
(* changes the sum by its credits.                                         *)
LEMMA TransactionCounts ==
    ASSUME LedgerTyped, NEW key \in TransactionKeys, NEW credits \in Int \ {0},
           \A i \in Intervals : key = Debit(i) => credits < 0,
           InsertCreditTransaction(key, credits), ApplyCreditBalanceTransaction(credits)
    PROVE  /\ LedgerTyped'
           /\ DOMAIN ledger' = DOMAIN ledger \cup {key} /\ ledger'[key] = credits
           /\ \A k \in DOMAIN ledger : ledger'[k] = ledger[k]
    <1>1. DOMAIN ledger' = DOMAIN ledger \cup {key} /\ ledger'[key] = credits
          /\ \A k \in DOMAIN ledger : ledger'[k] = ledger[k]
      <2>1. key \notin DOMAIN ledger /\ ledger' = With(ledger, key, credits)
        BY DEF InsertCreditTransaction
      <2> QED
        BY <2>1 DEF With
    <1>2. IsFiniteSet(DOMAIN ledger') /\ Cardinality(DOMAIN ledger') = Cardinality(DOMAIN ledger) + 1
      BY <1>1, FS_AddElement DEF LedgerTyped, InsertCreditTransaction
    <1>3. balance' \in [credits : Int, version : Nat] /\ balance'.version = Cardinality(DOMAIN ledger')
      BY <1>2 DEF LedgerTyped, ApplyCreditBalanceTransaction
    <1>4. balance'.credits = SumFunction(ledger')
      <2>1. SumFunction(With(ledger, key, credits)) = SumFunction(ledger) + credits
        BY SumOfWith DEF LedgerTyped, InsertCreditTransaction
      <2>2. balance.credits = SumFunction(ledger) /\ balance'.credits = balance.credits + credits
        BY DEF LedgerTyped, ApplyCreditBalanceTransaction
      <2> QED
        BY <2>1, <2>2 DEF InsertCreditTransaction
    <1>5. \A i \in Intervals : Debit(i)' = Debit(i)
      BY DEF Debit
    <1> QED
      BY <1>1, <1>2, <1>3, <1>4, <1>5 DEF LedgerTyped

-----------------------------------------------------------------------------
(* Each part of the invariant depends on a few variables.                  *)

LEMMA UsageStays ==
    ASSUME UsageTyped, UNCHANGED <<usage, closers, rates, clock, billingLosses>>
    PROVE  UsageTyped'
    BY DEF UsageTyped

LEMMA LedgerStays ==
    ASSUME LedgerTyped, ChargesAreExact, UNCHANGED <<ledger, balance>>,
           \A i \in Intervals : usage[i].status # "none" \/ usage'[i].status = "closed" => usage'[i] = usage[i],
           \A i \in Intervals : usage'[i].status # "closed" => usage[i].status # "closed"
    PROVE  LedgerTyped' /\ ChargesAreExact'
    BY DEF LedgerTyped, ChargesAreExact, Debit

LEMMA DeliveriesStay ==
    ASSUME DeliveriesFollow, UNCHANGED <<deliveries, polar>>,
           DOMAIN ledger \subseteq DOMAIN ledger', \A k \in DOMAIN ledger : ledger'[k] = ledger[k],
           \A i \in Intervals : usage[i].status = "closed" => usage'[i].status = "closed"
    PROVE  DeliveriesFollow'
    BY DEF DeliveriesFollow, Debit, ExternalID

LEMMA WebhooksStay ==
    ASSUME WebhooksTyped, ReceiptsPrecede, UNCHANGED <<receipts, subscription, customer>>
    PROVE  WebhooksTyped' /\ ReceiptsPrecede'
    BY DEF WebhooksTyped, ReceiptsPrecede

-----------------------------------------------------------------------------
(* Every action keeps the invariant.                                       *)

LEMMA InitHolds == BillingInit => BillingInv
    <1> SUFFICES ASSUME BillingInit PROVE BillingInv
      OBVIOUS
    <1>1. UsageTyped
      BY BoundsAssumption DEF BillingInit, UsageTyped, UsageRow, CloserRow
    <1>2. DOMAIN ledger = {} /\ balance = [credits |-> 0, version |-> 0]
      BY DEF BillingInit
    <1>3. LedgerTyped
      BY <1>2, FS_EmptySet, SumOfNothing DEF LedgerTyped
    <1>4. ChargesAreExact
      BY <1>2 DEF ChargesAreExact, BillingInit
    <1>5. DeliveriesFollow
      BY DEF DeliveriesFollow, BillingInit
    <1>6. WebhooksTyped /\ ReceiptsPrecede
      BY DEF WebhooksTyped, ReceiptsPrecede, BillingInit
    <1> QED
      BY <1>1, <1>3, <1>4, <1>5, <1>6 DEF BillingInv

LEMMA StutterKeeps == BillingInv /\ UNCHANGED billingVars => BillingInv'
    BY UsageStays, LedgerStays, DeliveriesStay, WebhooksStay DEF BillingInv, billingVars

LEMMA RegisterKeeps ==
    ASSUME BillingInv, NEW v \in DOMAIN Rates, RegisterCreditRate(v)
    PROVE  BillingInv'
    <1>1. UNCHANGED <<usage, closers, ledger, balance, deliveries, polar, receipts,
                      subscription, customer, clock, billingLosses>>
          /\ rates' = rates \cup {v}
      BY DEF RegisterCreditRate
    <1>2. UsageTyped'
      BY <1>1 DEF BillingInv, UsageTyped
    <1> QED
      BY <1>1, <1>2, LedgerStays, DeliveriesStay, WebhooksStay DEF BillingInv

LEMMA TickKeeps ==
    ASSUME BillingInv, Tick
    PROVE  BillingInv'
    <1>1. UNCHANGED <<usage, closers, rates, ledger, balance, deliveries, polar, receipts,
                      subscription, customer, billingLosses>>
          /\ clock < MaxTime /\ clock' = clock + 1
      BY DEF Tick
    <1>2. UsageTyped'
      BY <1>1, BoundsAssumption DEF BillingInv, UsageTyped
    <1> QED
      BY <1>1, <1>2, LedgerStays, DeliveriesStay, WebhooksStay DEF BillingInv

LEMMA OpenKeeps ==
    ASSUME BillingInv, NEW i \in Intervals, OpenComputeUsage(i)
    PROVE  BillingInv'
    <1>1. /\ usage[i].status = "none" /\ usage' = [usage EXCEPT ![i].status = "open", ![i].started = clock]
          /\ UNCHANGED <<closers, rates, ledger, balance, deliveries, polar, receipts,
                         subscription, customer, clock, billingLosses>>
      BY DEF OpenComputeUsage
    <1>2. usage \in [Intervals -> UsageRow] /\ clock \in 0..MaxTime
      BY DEF BillingInv, UsageTyped
    <1>3. /\ usage' \in [Intervals -> UsageRow] /\ usage'[i].status = "open"
          /\ \A j \in Intervals : j # i => usage'[j] = usage[j]
      BY <1>1, <1>2 DEF UsageRow
    <1>4. UsageTyped'
      BY <1>1, <1>3 DEF BillingInv, UsageTyped
    <1>5. LedgerTyped' /\ ChargesAreExact'
      BY <1>1, <1>3, LedgerStays DEF BillingInv
    <1>6. DeliveriesFollow'
      BY <1>1, <1>3, DeliveriesStay DEF BillingInv
    <1> QED
      BY <1>1, <1>4, <1>5, <1>6, WebhooksStay DEF BillingInv

LEMMA ObserveKeeps ==
    ASSUME BillingInv, NEW i \in Intervals, NEW source \in Sources, ObserveStopped(i, source)
    PROVE  BillingInv'
    <1> DEFINE c == <<i, source>>
    <1>1. /\ closers' = [closers EXCEPT ![c] = [pc |-> "closing", at |-> clock]]
          /\ UNCHANGED <<usage, rates, ledger, balance, deliveries, polar, receipts,
                         subscription, customer, clock, billingLosses>>
      BY DEF ObserveStopped
    <1>2. c \in Intervals \X Sources /\ c[1] = i
      OBVIOUS
    <1> HIDE DEF c
    <1>3. closers \in [Intervals \X Sources -> CloserRow] /\ clock \in 0..MaxTime
      BY DEF BillingInv, UsageTyped
    <1>4. /\ closers' \in [Intervals \X Sources -> CloserRow] /\ closers'[c].at = clock
          /\ \A d \in Intervals \X Sources : d # c => closers'[d] = closers[d]
      BY <1>1, <1>2, <1>3 DEF CloserRow
    <1>5. UsageTyped'
      BY <1>1, <1>2, <1>4 DEF BillingInv, UsageTyped
    <1> QED
      BY <1>1, <1>5, LedgerStays, DeliveriesStay, WebhooksStay DEF BillingInv

(* The closer that returned, or that will run again after a crash.         *)
LEMMA CloserKeeps ==
    ASSUME UsageTyped, NEW c \in Intervals \X Sources, closers[c].pc = "closing",
           usage' \in [Intervals -> UsageRow], UNCHANGED <<rates, clock>>,
           \/ closers' = [closers EXCEPT ![c].pc = "returned"] /\ UNCHANGED billingLosses
           \/ billingLosses < MaxLosses /\ billingLosses' = billingLosses + 1 /\ UNCHANGED closers
    PROVE  UsageTyped'
    <1>1. closers \in [Intervals \X Sources -> CloserRow] /\ billingLosses \in 0..MaxLosses
      BY DEF UsageTyped
    <1>2. /\ closers' \in [Intervals \X Sources -> CloserRow] /\ billingLosses' \in 0..MaxLosses
      BY <1>1, BoundsAssumption DEF CloserRow
    <1> QED
      BY <1>2 DEF UsageTyped

(* The interval that is closed is charged for the whole of its time.       *)
LEMMA CloseKeeps ==
    ASSUME BillingInv, NEW i \in Intervals, NEW source \in Sources, CloseUsage(i, source)
    PROVE  BillingInv'
    <1> DEFINE c == <<i, source>>
               at == closers[c].at
               started == usage[i].started
               v == GetApplicableComputeCreditRate(started)
               credits == Convert(at - started, v)
    <1>1. c \in Intervals \X Sources /\ c[1] = i
      OBVIOUS
    <1>2. /\ closers[c].pc = "closing"
          /\ UNCHANGED <<rates, polar, receipts, subscription, customer, clock>>
          /\ \/ closers' = [closers EXCEPT ![c].pc = "returned"] /\ UNCHANGED billingLosses
             \/ billingLosses < MaxLosses /\ billingLosses' = billingLosses + 1 /\ UNCHANGED closers
      BY DEF CloseUsage
    <1>3. usage \in [Intervals -> UsageRow] /\ closers \in [Intervals \X Sources -> CloserRow]
      BY DEF BillingInv, UsageTyped
    <1>4. at \in 0..MaxTime /\ started \in 0..MaxTime 
      BY <1>1, <1>3 DEF UsageRow, CloserRow
    <1>5. WebhooksTyped' /\ ReceiptsPrecede'
      BY <1>2, WebhooksStay DEF BillingInv
    <1>6. CASE usage[i].status = "closed" /\ ReplaysClosure(i, at)
      <2>1. UNCHANGED <<usage, ledger, balance, deliveries>>
        BY <1>6 DEF ReplaysClosure
      <2>2. UsageTyped'
        BY <1>1, <1>2, <1>3, <2>1, CloserKeeps DEF BillingInv
      <2> QED
        BY <1>2, <1>5, <2>1, <2>2, LedgerStays, DeliveriesStay DEF BillingInv
    <1>7. CASE /\ usage[i].status = "open"
               /\ ~RefusesClosing(i, at)
               /\ InsertCreditTransaction([kind |-> "debit", of |-> i], -credits)
               /\ ApplyCreditBalanceTransaction(-credits)
               /\ deliveries' = With(deliveries, i, [pc |-> "none", delivered |-> FALSE])
               /\ usage' = [usage EXCEPT ![i].status = "closed", ![i].ended = at, ![i].rate = v]
      <2>0. at > started /\ Applicable(started) # {} /\ Converts(at - started, v)
        BY <1>4, <1>7, BoundsAssumption DEF RefusesClosing
      <2>1. v \in DOMAIN Rates /\ Rates[v].effective <= started
        BY <1>4, <2>0, RateApplies, BoundsAssumption DEF BillingInv
      <2>2. at - started \in Nat \ {0}
        BY <1>4, <2>0, BoundsAssumption
      <2>3. credits \in Nat \ {0} /\ credits * Unit = (at - started) * Rates[v].per
        BY <2>0, <2>1, <2>2, ConvertIsExact
      <2> HIDE DEF at, started, v, credits, c
      <2>4. /\ usage' \in [Intervals -> UsageRow] /\ usage'[i].status = "closed"
            /\ usage'[i].started = started /\ usage'[i].ended = at /\ usage'[i].rate = v
            /\ \A j \in Intervals : j # i => usage'[j] = usage[j]
        BY <1>3, <1>4, <1>7, <2>1 DEF UsageRow, started
      <2>5. UsageTyped'
        BY <1>1, <1>2, <2>4, CloserKeeps DEF BillingInv
      <2>6. Debit(i) \in TransactionKeys /\ -credits \in Int \ {0} /\ -credits < 0
        BY <2>3, BoundsAssumption DEF Debit, TransactionKeys
      <2>7. InsertCreditTransaction(Debit(i), -credits)
        BY <1>7 DEF Debit
      <2>8. /\ LedgerTyped'
            /\ DOMAIN ledger' = DOMAIN ledger \cup {Debit(i)} /\ ledger'[Debit(i)] = -credits
            /\ \A k \in DOMAIN ledger : ledger'[k] = ledger[k]
        BY <1>7, <2>6, <2>7, TransactionCounts DEF BillingInv
      <2>9. ChargesAreExact'
        <3> SUFFICES ASSUME NEW j \in Intervals
                     PROVE  /\ Debit(j) \in DOMAIN ledger' <=> usage'[j].status = "closed"
                            /\ usage'[j].status = "closed" =>
                                  /\ usage'[j].ended > usage'[j].started
                                  /\ Rates[usage'[j].rate].effective <= usage'[j].started
                                  /\ -ledger'[Debit(j)] * Unit =
                                        (usage'[j].ended - usage'[j].started) * Rates[usage'[j].rate].per
          BY DEF ChargesAreExact, Debit
        <3>1. CASE j = i
          <4>1. -(-credits * Unit) = credits * Unit /\ ledger'[Debit(i)] = -credits
            BY <2>3, <2>8, UnitAssumption
          <4>2. -ledger'[Debit(i)] * Unit =
                  (usage'[i].ended - usage'[i].started) * Rates[usage'[i].rate].per
            BY <2>3, <2>4, <4>1, UnitAssumption
          <4>3. /\ usage'[i].ended > usage'[i].started
                /\ Rates[usage'[i].rate].effective <= usage'[i].started
            BY <2>0, <2>1, <2>4, Zenon
          <4> QED
            BY <2>4, <2>8, <3>1, <4>2, <4>3, Zenon
        <3>2. CASE j # i
          <4>1. Debit(j) # Debit(i) /\ usage'[j] = usage[j]
            BY <2>4, <3>2, KeysDiffer
          <4>2. Debit(j) \in DOMAIN ledger' <=> Debit(j) \in DOMAIN ledger
            BY <2>8, <4>1
          <4> QED
            BY <2>8, <4>1, <4>2 DEF BillingInv, ChargesAreExact
        <3> QED
          BY <3>1, <3>2
      <2>10. DeliveriesFollow'
        <3>1. DOMAIN deliveries' = DOMAIN deliveries \cup {i}
              /\ deliveries'[i] = [pc |-> "none", delivered |-> FALSE]
              /\ \A j \in DOMAIN deliveries : j # i => deliveries'[j] = deliveries[j]
          BY <1>7 DEF With
        <3>2. ASSUME NEW j \in DOMAIN deliveries'
              PROVE  /\ j \in Intervals /\ usage'[j].status = "closed" /\ deliveries'[j] \in DeliveryRow
                     /\ deliveries'[j].pc = "record" \/ deliveries'[j].delivered => ExternalID(j) \in DOMAIN polar'
          <4>1. CASE j = i
            <5>1. deliveries'[i] \in DeliveryRow /\ deliveries'[i].pc # "record" /\ deliveries'[i].delivered = FALSE
              BY <3>1 DEF DeliveryRow
            <5> QED
              BY <2>4, <4>1, <5>1, Zenon
          <4>2. CASE j # i
            <5>1. j \in DOMAIN deliveries /\ deliveries'[j] = deliveries[j]
              BY <3>1, <4>2
            <5>2. j \in Intervals /\ usage[j].status = "closed" /\ deliveries[j] \in DeliveryRow
                  /\ (deliveries[j].pc = "record" \/ deliveries[j].delivered => ExternalID(j) \in DOMAIN polar)
              BY <5>1 DEF BillingInv, DeliveriesFollow
            <5> QED
              BY <1>2, <2>4, <4>2, <5>1, <5>2, Zenon
          <4> QED
            BY <4>1, <4>2
        <3>3. ASSUME NEW x \in DOMAIN polar'
              PROVE  \E j \in Intervals :
                        x = ExternalID(j) /\ Debit(j) \in DOMAIN ledger' /\ polar'[x] = -ledger'[Debit(j)]
          BY <1>2, <2>8 DEF BillingInv, DeliveriesFollow
        <3> QED
          BY <3>2, <3>3 DEF DeliveriesFollow, Debit, ExternalID
      <2> QED
        BY <1>5, <2>5, <2>8, <2>9, <2>10 DEF BillingInv
    <1> QED
      BY <1>6, <1>7 DEF CloseUsage

(* A delivery that changes only its step.                                  *)
LEMMA DeliverySteps ==
    ASSUME BillingInv, NEW i \in DOMAIN deliveries, NEW row \in DeliveryRow,
           DOMAIN deliveries' = DOMAIN deliveries, deliveries'[i] = row,
           \A j \in DOMAIN deliveries : j # i => deliveries'[j] = deliveries[j],
           row.pc = "record" \/ row.delivered => ExternalID(i) \in DOMAIN polar',
           DOMAIN polar \subseteq DOMAIN polar',
           \A x \in DOMAIN polar : polar'[x] = polar[x],
           \A x \in DOMAIN polar' \ DOMAIN polar : x = ExternalID(i) /\ polar'[x] = -ledger[Debit(i)],
           UNCHANGED <<usage, ledger>>
    PROVE  DeliveriesFollow'
    <1>1. i \in Intervals /\ usage[i].status = "closed" /\ Debit(i) \in DOMAIN ledger
      BY DEF BillingInv, DeliveriesFollow, ChargesAreExact
    <1>2. ASSUME NEW j \in DOMAIN deliveries'
          PROVE  /\ j \in Intervals /\ usage'[j].status = "closed" /\ deliveries'[j] \in DeliveryRow
                 /\ deliveries'[j].pc = "record" \/ deliveries'[j].delivered => ExternalID(j) \in DOMAIN polar'
      <2>1. j \in DOMAIN deliveries
        OBVIOUS
      <2>2. CASE j = i
        BY <1>1, <2>2
      <2>3. CASE j # i
        <3>1. deliveries'[j] = deliveries[j]
          BY <2>1, <2>3
        <3>2. j \in Intervals /\ usage[j].status = "closed" /\ deliveries[j] \in DeliveryRow
              /\ (deliveries[j].pc = "record" \/ deliveries[j].delivered => ExternalID(j) \in DOMAIN polar)
          BY <2>1 DEF BillingInv, DeliveriesFollow
        <3> QED
          BY <3>1, <3>2
      <2> QED
        BY <2>2, <2>3
    <1>3. ASSUME NEW x \in DOMAIN polar'
          PROVE  \E j \in Intervals :
                    x = ExternalID(j) /\ Debit(j) \in DOMAIN ledger' /\ polar'[x] = -ledger'[Debit(j)]
      <2>1. CASE x \in DOMAIN polar
        BY <2>1 DEF BillingInv, DeliveriesFollow
      <2>2. CASE x \notin DOMAIN polar
        BY <1>1, <2>2
      <2> QED
        BY <2>1, <2>2
    <1> QED
      BY <1>2, <1>3 DEF DeliveriesFollow, Debit, ExternalID

(* Polar has the event afterwards, once.                                   *)
LEMMA AcceptsOnce ==
    ASSUME NEW i \in Intervals, Accepts(i)
    PROVE  /\ ExternalID(i) \in DOMAIN polar' /\ DOMAIN polar \subseteq DOMAIN polar'
           /\ \A x \in DOMAIN polar : polar'[x] = polar[x]
           /\ \A x \in DOMAIN polar' \ DOMAIN polar : x = ExternalID(i) /\ polar'[x] = -ledger[Debit(i)]
    <1> DEFINE e == ExternalID(i)
               d == -ledger[Debit(i)]
    <1>1. polar' = IF e \in DOMAIN polar THEN polar ELSE With(polar, e, d)
      BY DEF Accepts, Debit
    <1> HIDE DEF e, d
    <1>2. /\ e \in DOMAIN polar' /\ DOMAIN polar \subseteq DOMAIN polar'
          /\ \A x \in DOMAIN polar : polar'[x] = polar[x]
          /\ \A x \in DOMAIN polar' \ DOMAIN polar : x = e /\ polar'[x] = d
      BY <1>1 DEF With
    <1> QED
      BY <1>2 DEF e, d

LEMMA SendKeeps ==
    ASSUME BillingInv, NEW i \in Intervals, SendBillingDelivery(i)
    PROVE  BillingInv'
    <1> DEFINE row == [deliveries[i] EXCEPT !.pc = "deliver"]
    <1>1. /\ i \in DOMAIN deliveries /\ deliveries[i].pc = "none"
          /\ deliveries' = [deliveries EXCEPT ![i] = row]
          /\ UNCHANGED <<usage, closers, rates, ledger, balance, polar, receipts,
                         subscription, customer, clock, billingLosses>>
      BY DEF SendBillingDelivery
    <1>2. deliveries[i] \in DeliveryRow /\ (deliveries[i].delivered => ExternalID(i) \in DOMAIN polar)
      BY <1>1 DEF BillingInv, DeliveriesFollow
    <1>3. row \in DeliveryRow /\ row.pc = "deliver" /\ row.delivered = deliveries[i].delivered
      BY <1>2 DEF DeliveryRow
    <1> HIDE DEF row
    <1>4. DeliveriesFollow'
      BY <1>1, <1>2, <1>3, DeliverySteps
    <1> QED
      BY <1>1, <1>4, UsageStays, LedgerStays, WebhooksStay DEF BillingInv

LEMMA RecordKeeps ==
    ASSUME BillingInv, NEW i \in Intervals, RecordPolarDeliverySuccess(i)
    PROVE  BillingInv'
    <1> DEFINE row == [pc |-> "completed", delivered |-> TRUE]
    <1>1. /\ i \in DOMAIN deliveries /\ deliveries[i].pc = "record"
          /\ deliveries' = [deliveries EXCEPT ![i] = row]
          /\ UNCHANGED <<usage, closers, rates, ledger, balance, polar, receipts,
                         subscription, customer, clock, billingLosses>>
      BY DEF RecordPolarDeliverySuccess
    <1>2. ExternalID(i) \in DOMAIN polar
      BY <1>1 DEF BillingInv, DeliveriesFollow
    <1>3. row \in DeliveryRow
      BY DEF DeliveryRow
    <1> HIDE DEF row
    <1>4. DeliveriesFollow'
      BY <1>1, <1>2, <1>3, DeliverySteps
    <1> QED
      BY <1>1, <1>4, UsageStays, LedgerStays, WebhooksStay DEF BillingInv

(* Only the bound of the losses changes.                                   *)
LEMMA LossKeeps ==
    ASSUME UsageTyped, UNCHANGED <<usage, closers, rates, clock>>,
           billingLosses < MaxLosses, billingLosses' = billingLosses + 1
    PROVE  UsageTyped'
    BY BoundsAssumption DEF UsageTyped

LEMMA RefuseKeeps ==
    ASSUME BillingInv, NEW i \in Intervals, PolarRefuses(i)
    PROVE  BillingInv'
    <1> DEFINE row == [deliveries[i] EXCEPT !.pc = "refused"]
    <1>1. /\ i \in DOMAIN deliveries
          /\ deliveries' = [deliveries EXCEPT ![i] = row]
          /\ billingLosses < MaxLosses /\ billingLosses' = billingLosses + 1
          /\ UNCHANGED <<usage, closers, rates, ledger, balance, polar, receipts,
                         subscription, customer, clock>>
      BY DEF PolarRefuses
    <1>2. deliveries[i] \in DeliveryRow /\ (deliveries[i].delivered => ExternalID(i) \in DOMAIN polar)
      BY <1>1 DEF BillingInv, DeliveriesFollow
    <1>3. row \in DeliveryRow /\ row.pc = "refused" /\ row.delivered = deliveries[i].delivered
      BY <1>2 DEF DeliveryRow
    <1> HIDE DEF row
    <1>4. DeliveriesFollow'
      BY <1>1, <1>2, <1>3, DeliverySteps
    <1> QED
      BY <1>1, <1>4, LossKeeps, LedgerStays, WebhooksStay DEF BillingInv

LEMMA DeliverKeeps ==
    ASSUME BillingInv, NEW i \in Intervals, deliverPendingPolarEvent(i)
    PROVE  BillingInv'
    <1>1. /\ i \in DOMAIN deliveries /\ deliveries[i].pc = "deliver"
          /\ UNCHANGED <<usage, closers, rates, ledger, balance, receipts, subscription, customer, clock>>
      BY DEF deliverPendingPolarEvent
    <1>2. deliveries[i] \in DeliveryRow /\ (deliveries[i].delivered => ExternalID(i) \in DOMAIN polar)
      BY <1>1 DEF BillingInv, DeliveriesFollow
    <1>3. ASSUME NEW pc \in {"record", "completed"}, deliveries' = [deliveries EXCEPT ![i].pc = pc],
                 UNCHANGED billingLosses,
                 \/ pc = "record" /\ Accepts(i)
                 \/ pc = "completed" /\ UNCHANGED polar
          PROVE  BillingInv'
      <2> DEFINE row == [deliveries[i] EXCEPT !.pc = pc]
      <2>1. row \in DeliveryRow /\ row.pc = pc /\ row.delivered = deliveries[i].delivered
        BY <1>2 DEF DeliveryRow
      <2>2. deliveries' = [deliveries EXCEPT ![i] = row]
        BY <1>3
      <2> HIDE DEF row
      <2>3. CASE pc = "record" /\ Accepts(i)
        BY <1>1, <1>3, <2>1, <2>2, <2>3, AcceptsOnce, DeliverySteps, UsageStays, LedgerStays, WebhooksStay
           DEF BillingInv
      <2>4. CASE pc = "completed" /\ UNCHANGED polar
        <3>1. DeliveriesFollow'
          BY <1>1, <1>2, <2>1, <2>2, <2>4, DeliverySteps
        <3> QED
          BY <1>1, <1>3, <3>1, UsageStays, LedgerStays, WebhooksStay DEF BillingInv
      <2> QED
        BY <1>3, <2>3, <2>4
    <1>4. ASSUME UNCHANGED deliveries, billingLosses < MaxLosses, billingLosses' = billingLosses + 1,
                 Accepts(i) \/ UNCHANGED polar
          PROVE  BillingInv'
      <2>1. CASE Accepts(i)
        <3>1. DeliveriesFollow'
          BY <1>1, <1>2, <1>4, <2>1, AcceptsOnce, DeliverySteps
        <3> QED
          BY <1>1, <1>4, <3>1, LossKeeps, LedgerStays, WebhooksStay DEF BillingInv
      <2>2. CASE UNCHANGED polar
        BY <1>1, <1>4, <2>2, LossKeeps, LedgerStays, DeliveriesStay, WebhooksStay DEF BillingInv
      <2> QED
        BY <1>4, <2>1, <2>2
    <1> QED
      BY <1>3, <1>4 DEF deliverPendingPolarEvent, RetriesDelivery

(* A message is received once: what it grants is one more transaction, and *)
(* an earlier state of the subscription does not displace a later one.     *)
LEMMA WebhookKeeps ==
    ASSUME BillingInv, NEW m \in Messages, ApplyPolarProjection(m)
    PROVE  BillingInv'
    <1> DEFINE id == Webhooks[m].id
    <1>1. /\ SameCustomer(m) /\ ~Received(m)
          /\ receipts' = With(receipts, id, m)
          /\ customer' = IF customer = None THEN Webhooks[m].customer ELSE customer
          /\ Projects(m)
          /\ UNCHANGED <<usage, closers, rates, deliveries, polar, clock, billingLosses>>
      BY DEF ApplyPolarProjection
    <1>2. id \in Nat /\ id \notin DOMAIN receipts
      BY <1>1, WebhooksAssumption DEF Messages, Received
    <1> HIDE DEF id
    <1>3. /\ DOMAIN receipts' = DOMAIN receipts \cup {id} /\ receipts'[id] = m
          /\ \A x \in DOMAIN receipts : receipts'[x] = receipts[x]
      BY <1>1, <1>2 DEF With
    <1>4. customer' = Webhooks[m].customer /\ (customer # None => customer' = customer)
      BY <1>1 DEF SameCustomer
    <1>5. /\ DOMAIN receipts \subseteq Nat /\ \A x \in DOMAIN receipts : receipts[x] \in Messages
          /\ subscription \in Messages \cup {None} /\ None \notin Messages
          /\ subscription # None => customer = Webhooks[subscription].customer
      BY WebhooksAssumption DEF BillingInv, WebhooksTyped, Messages
    <1>6. \A n \in Messages : Webhooks[n].at \in Nat /\ Webhooks[n].customer # None
      BY WebhooksAssumption DEF Messages
    <1>7. ASSUME subscription' \in {subscription, m}
          PROVE  WebhooksTyped'
      <2>1. DOMAIN receipts' \subseteq Nat /\ \A x \in DOMAIN receipts' : receipts'[x] \in Messages
        BY <1>2, <1>3, <1>5
      <2>2. subscription' \in Messages \cup {None} /\ customer' \in {Webhooks[n].customer : n \in Messages}
        BY <1>4, <1>5, <1>7
      <2>3. subscription' # None => customer' = Webhooks[subscription'].customer
        BY <1>4, <1>5, <1>6, <1>7
      <2> QED
        BY <2>1, <2>2, <2>3 DEF WebhooksTyped, Messages
    <1>8. UsageTyped'
      BY <1>1, UsageStays DEF BillingInv
    <1>9. CASE /\ Webhooks[m].type = "subscription"
               /\ subscription' = IF NotOlder(m) THEN m ELSE subscription
               /\ UNCHANGED <<ledger, balance>>
      <2>1. ReceiptsPrecede'
        <3>1. subscription' # None /\ Webhooks[m].at <= Webhooks[subscription'].at
          BY <1>5, <1>6, <1>9 DEF NotOlder
        <3>2. ASSUME NEW x \in DOMAIN receipts, Webhooks[receipts[x]].type = "subscription"
              PROVE  Webhooks[receipts[x]].at <= Webhooks[subscription'].at
          <4>1. subscription # None /\ Webhooks[receipts[x]].at <= Webhooks[subscription].at
            BY <3>2 DEF BillingInv, ReceiptsPrecede
          <4>2. receipts[x] \in Messages /\ subscription \in Messages
            BY <1>5, <4>1
          <4>3. CASE subscription' = m /\ Webhooks[subscription].at <= Webhooks[m].at
            BY <1>6, <4>1, <4>2, <4>3
          <4>4. CASE subscription' = subscription
            BY <4>1, <4>4
          <4> QED
            BY <1>9, <4>1, <4>3, <4>4 DEF NotOlder
        <3> QED
          BY <1>3, <1>9, <3>1, <3>2 DEF ReceiptsPrecede
      <2> QED
        BY <1>1, <1>7, <1>8, <1>9, <2>1, LedgerStays, DeliveriesStay DEF BillingInv
    <1>10. CASE /\ Webhooks[m].type = "grant"
                /\ InsertCreditTransaction(GrantKey(m), Webhooks[m].credits)
                /\ ApplyCreditBalanceTransaction(Webhooks[m].credits)
                /\ UNCHANGED subscription
      <2>1. GrantKey(m) \in TransactionKeys /\ Webhooks[m].credits \in Int \ {0}
        BY <1>2, <1>10, WebhooksAssumption DEF GrantKey, TransactionKeys, Messages, id
      <2>2. /\ LedgerTyped'
            /\ DOMAIN ledger' = DOMAIN ledger \cup {GrantKey(m)}
            /\ \A k \in DOMAIN ledger : ledger'[k] = ledger[k]
        BY <1>10, <2>1, KeysDiffer, TransactionCounts DEF BillingInv
      <2>3. \A i \in Intervals : Debit(i) \in DOMAIN ledger' <=> Debit(i) \in DOMAIN ledger
        BY <2>2, KeysDiffer
      <2>4. ChargesAreExact'
        BY <1>1, <2>2, <2>3 DEF BillingInv, ChargesAreExact, Debit
      <2>5. ReceiptsPrecede'
        BY <1>3, <1>10 DEF BillingInv, ReceiptsPrecede
      <2>6. DeliveriesFollow'
        BY <1>1, <2>2, DeliveriesStay DEF BillingInv
      <2> QED
        BY <1>7, <1>8, <1>10, <2>2, <2>4, <2>5, <2>6 DEF BillingInv
    <1> QED
      BY <1>1, <1>9, <1>10 DEF Projects

-----------------------------------------------------------------------------
(* The theorems.                                                           *)

(* Every reachable state satisfies the inductive invariant.                *)
THEOREM BillingInvariant == BillingSpec => []BillingInv
    <1>1. BillingInit => BillingInv
      BY InitHolds
    <1>2. BillingInv /\ [BillingNext]_billingVars => BillingInv'
      <2> SUFFICES ASSUME BillingInv, BillingNext PROVE BillingInv'
        BY StutterKeeps
      <2>1. ASSUME NEW v \in DOMAIN Rates, RegisterCreditRate(v) PROVE BillingInv'
        BY <2>1, RegisterKeeps
      <2>2. ASSUME NEW i \in Intervals, OpenComputeUsage(i) PROVE BillingInv'
        BY <2>2, OpenKeeps
      <2>3. ASSUME NEW i \in Intervals, SendBillingDelivery(i) PROVE BillingInv'
        BY <2>3, SendKeeps
      <2>4. ASSUME NEW i \in Intervals, deliverPendingPolarEvent(i) PROVE BillingInv'
        BY <2>4, DeliverKeeps
      <2>5. ASSUME NEW i \in Intervals, PolarRefuses(i) PROVE BillingInv'
        BY <2>5, RefuseKeeps
      <2>6. ASSUME NEW i \in Intervals, RecordPolarDeliverySuccess(i) PROVE BillingInv'
        BY <2>6, RecordKeeps
      <2>7. ASSUME NEW i \in Intervals, NEW source \in Sources, ObserveStopped(i, source)
            PROVE  BillingInv'
        BY <2>7, ObserveKeeps
      <2>8. ASSUME NEW i \in Intervals, NEW source \in Sources, CloseUsage(i, source)
            PROVE  BillingInv'
        BY <2>8, CloseKeeps
      <2>9. ASSUME NEW m \in Messages, ApplyPolarProjection(m) PROVE BillingInv'
        BY <2>9, WebhookKeeps
      <2>10. ASSUME Tick PROVE BillingInv'
        BY <2>10, TickKeeps
      <2> QED
        BY <2>1, <2>2, <2>3, <2>4, <2>5, <2>6, <2>7, <2>8, <2>9, <2>10 DEF BillingNext
    <1> QED
      BY <1>1, <1>2, PTL DEF BillingSpec

(* Every row of the billing tables keeps its type: a Credit Transaction is *)
(* never of zero credits, and the subscription is of the User's customer.  *)
THEOREM BillingTypeCorrect == BillingSpec => []BillingTypeOK
    <1>1. BillingInv => BillingTypeOK
      <2> SUFFICES ASSUME BillingInv PROVE BillingTypeOK
        OBVIOUS
      <2>1. \A x \in DOMAIN polar : polar[x] \in Nat
        BY DEF BillingInv, DeliveriesFollow, LedgerTyped
      <2> QED
        BY <2>1 DEF BillingInv, BillingTypeOK, UsageTyped, LedgerTyped, DeliveriesFollow, WebhooksTyped,
                    UsageRow, CloserRow, DeliveryRow
    <1> QED
      BY <1>1, BillingInvariant, PTL

(* An interval that ended has one debit, of the time between the start and *)
(* the stop first recorded at a rate that was in force at its start,       *)
(* whichever of the workflows closed it and however often                  *)
(* (CloseComputeUsage); the version of the Credit Balance counts the       *)
(* transactions, and its credits are their sum.                            *)
THEOREM LedgerExact == BillingSpec => []LedgerIsExact
    <1>1. BillingInv => LedgerIsExact
      BY DEF BillingInv, LedgerTyped, LedgerIsExact
    <1> QED
      BY <1>1, BillingInvariant, PTL

(* Polar counts what was debited, the amount debited, and each debit once  *)
(* however often its event is sent; and what is recorded as delivered is   *)
(* counted (CreditsUsedEvent's external ID, RecordPolarDeliverySuccess).   *)
THEOREM PolarCounts == BillingSpec => []PolarCountsDebits
    <1>1. BillingInv => PolarCountsDebits
      <2> SUFFICES ASSUME BillingInv PROVE PolarCountsDebits
        OBVIOUS
      <2>1. \A x \in DOMAIN polar :
               /\ x.debit \in Intervals /\ x = ExternalID(x.debit)
               /\ Debit(x.debit) \in DOMAIN ledger /\ polar[x] = -ledger[Debit(x.debit)]
        BY KeysDiffer DEF BillingInv, DeliveriesFollow
      <2>2. \A x, y \in DOMAIN polar : x.debit = y.debit => x = y
        BY <2>1
      <2>3. ASSUME NEW i \in DOMAIN deliveries, deliveries[i].delivered
            PROVE  \E x \in DOMAIN polar : x.debit = i
        BY <2>3, KeysDiffer DEF BillingInv, DeliveriesFollow
      <2> QED
        BY <2>1, <2>2, <2>3 DEF PolarCountsDebits
    <1> QED
      BY <1>1, BillingInvariant, PTL

(* The subscription is the latest, by Polar's clock, of those received, in *)
(* whatever order the messages arrive (UpsertSubscription).                *)
THEOREM SubscriptionLatest == BillingSpec => []SubscriptionIsLatest
    <1>1. BillingInv => SubscriptionIsLatest
      BY DEF BillingInv, ReceiptsPrecede, SubscriptionIsLatest
    <1> QED
      BY <1>1, BillingInvariant, PTL
=============================================================================
