------------------------------ MODULE Billing -------------------------------
(***************************************************************************)
(* The credits of one User: Compute Usage Intervals, which are closed with *)
(* a debit at the Credit Rate in force when they started; the ledger and   *)
(* the Credit Balance projected from it; the delivery of debits to Polar   *)
(* by one durable workflow each; and Polar's webhooks, which arrive more   *)
(* than once, late and in any order.                                       *)
(*                                                                         *)
(* Every store operation is one transaction and so one step.  What Polar   *)
(* does with an event, and what Restate retries, is external.              *)
(***************************************************************************)
EXTENDS Integers, FiniteSets, Functions

CONSTANTS
    None,
    Intervals,          \* Compute Usage Intervals, in the order they are opened
    Rates,              \* version -> [effective, per]: credits of a tick, in Units
    Unit,               \* so many Units make one credit
    Webhooks,           \* sequence of the messages Polar sends
    MaxTime, MaxLosses  \* bounds: the clock; answers lost and attempts crashed

ASSUME UnitAssumption == Unit \in Nat \ {0}
ASSUME BoundsAssumption == Intervals \subseteq Nat /\ MaxTime \in Nat /\ MaxLosses \in Nat
(* Rates are positive; of any versions one is the last in force, since     *)
(* they are finitely many.                                                 *)
ASSUME RatesAssumption ==
    /\ \A v \in DOMAIN Rates : Rates[v].effective \in Nat /\ Rates[v].per \in Nat \ {0}
    /\ \A V \in SUBSET DOMAIN Rates : V # {} =>
          \E v \in V : \A w \in V : Rates[w].effective <= Rates[v].effective
ASSUME WebhooksAssumption ==
    /\ None \notin DOMAIN Webhooks
    /\ \A m \in DOMAIN Webhooks :
          /\ Webhooks[m].id \in Nat /\ Webhooks[m].at \in Nat /\ Webhooks[m].customer # None
          /\ Webhooks[m].type = "grant" => Webhooks[m].credits \in Nat \ {0}

VARIABLES
    usage,         \* compute_usage_intervals
    closers,       \* who closes each interval, with the stop time it observed
    rates,         \* credit_rates: the versions registered
    ledger,        \* credit_transactions: idempotency key -> credits
    balance,       \* credit_balances
    deliveries,    \* polar_deliveries, and the workflow of each
    polar,         \* the events Polar has, by external ID: what it counts
    receipts,      \* polar_webhook_receipts: event ID -> message
    subscription,  \* the row of subscriptions
    customer,      \* the row of polar_customers
    clock, billingLosses

billingVars == <<usage, closers, rates, ledger, balance, deliveries, polar, receipts,
                 subscription, customer, clock, billingLosses>>

Sources == {"runtime_stop", "provider_reconciliation"}
Messages == DOMAIN Webhooks
TransactionKeys == [kind : {"debit", "grant"}, of : Nat]

(* Every row is of its type, and the subscription is of the customer that  *)
(* polar_customers has for the User (registerPolarCustomer).               *)
BillingTypeOK ==
    /\ usage \in [Intervals -> [status : {"none", "open", "closed"},
                                started : 0..MaxTime, ended : 0..MaxTime, rate : DOMAIN Rates \cup {None}]]
    /\ closers \in [Intervals \X Sources -> [pc : {"none", "closing", "returned"}, at : 0..MaxTime]]
    /\ rates \subseteq DOMAIN Rates
    /\ DOMAIN ledger \subseteq TransactionKeys /\ \A k \in DOMAIN ledger : ledger[k] \in Int \ {0}
    /\ balance \in [credits : Int, version : Nat]
    /\ \A i \in DOMAIN deliveries :
          /\ i \in Intervals
          /\ deliveries[i] \in [pc : {"none", "deliver", "record", "completed", "refused"}, delivered : BOOLEAN]
    /\ \A x \in DOMAIN polar : polar[x] \in Nat
    /\ DOMAIN receipts \subseteq Nat /\ \A x \in DOMAIN receipts : receipts[x] \in Messages
    /\ subscription \in Messages \cup {None}
    /\ customer \in {Webhooks[m].customer : m \in Messages} \cup {None}
    /\ subscription # None => customer = Webhooks[subscription].customer
    /\ clock \in 0..MaxTime /\ billingLosses \in 0..MaxLosses

BillingInit ==
    /\ usage = [i \in Intervals |-> [status |-> "none", started |-> 0, ended |-> 0, rate |-> None]]
    /\ closers = [c \in Intervals \X Sources |-> [pc |-> "none", at |-> 0]]
    /\ rates = {}
    /\ ledger = [k \in {} |-> 0] /\ balance = [credits |-> 0, version |-> 0]
    /\ deliveries = [i \in {} |-> 0] /\ polar = [x \in {} |-> 0]
    /\ receipts = [x \in {} |-> 0] /\ subscription = None /\ customer = None
    /\ clock = 0 /\ billingLosses = 0

With(f, x, y) == [z \in DOMAIN f \cup {x} |-> IF z = x THEN y ELSE f[z]]

-----------------------------------------------------------------------------
(* The ledger and the balance: one transaction inserts the one and updates *)
(* the other.                                                              *)

ApplyCreditBalanceTransaction(credits) ==
    balance' = [credits |-> balance.credits + credits, version |-> balance.version + 1]

(* The idempotency key is unique.                                          *)
InsertCreditTransaction(key, credits) ==
    /\ key \notin DOMAIN ledger
    /\ ledger' = With(ledger, key, credits)

-----------------------------------------------------------------------------
(* Rates and intervals.                                                    *)

(* A version is registered once; the next time it must be the same.        *)
RegisterCreditRate(v) ==
    /\ rates' = rates \cup {v}
    /\ UNCHANGED <<usage, closers, ledger, balance, deliveries, polar, receipts,
                   subscription, customer, clock, billingLosses>>

(* At most one interval of the Environment is open.                        *)
OpenComputeUsage(i) ==
    /\ usage[i].status = "none"
    /\ \A j \in Intervals : usage[j].status # "open" /\ (j < i => usage[j].status = "closed")
    /\ usage' = [usage EXCEPT ![i].status = "open", ![i].started = clock]
    /\ UNCHANGED <<closers, rates, ledger, balance, deliveries, polar, receipts,
                   subscription, customer, clock, billingLosses>>

(* Mutant: whoever closed the interval first, the others are refused.      *)
ClosedIsRefused(i, at) == FALSE

(* The provider is seen to have stopped, by the workflow that stops the    *)
(* Runtime or by one that reconciles it, each at its own time.             *)
ObserveStopped(i, source) ==
    /\ usage[i].status # "none"
    /\ source = "provider_reconciliation" => usage[i].status = "open"
    /\ closers[<<i, source>>].pc = "none"
    /\ closers' = [closers EXCEPT ![<<i, source>>] = [pc |-> "closing", at |-> clock]]
    /\ UNCHANGED <<usage, rates, ledger, balance, deliveries, polar, receipts,
                   subscription, customer, clock, billingLosses>>

(* GetApplicableComputeCreditRate: the last that was in force at the time. *)
Applicable(time) == {v \in rates : Rates[v].effective <= time}
GetApplicableComputeCreditRate(time) ==
    CHOOSE v \in Applicable(time) : \A w \in Applicable(time) : Rates[w].effective <= Rates[v].effective

(* CreditRate.Convert: a debit is a whole number of credits.               *)
Converts(ticks, v) == (ticks * Rates[v].per) % Unit = 0
Convert(ticks, v) == (ticks * Rates[v].per) \div Unit

(* The debit cannot be derived: the stop is not after the start, no rate   *)
(* was in force then, or the credits are not whole.                        *)
RefusesClosing(i, at) ==
    LET started == usage[i].started IN
    \/ at <= started
    \/ Applicable(started) = {}
    \/ ~Converts(at - started, GetApplicableComputeCreditRate(started))

(* Mutant: a closure that was answered is charged at its own stop time.    *)
ChargesAgain(i, at) ==
    /\ ledger' = With(ledger, [kind |-> "debit", of |-> i],
                      -Convert(at - usage[i].started, usage[i].rate))
    /\ UNCHANGED <<usage, balance, deliveries>>

(* An interval that has a Credit Transaction is not charged again.         *)
ReplaysClosure(i, at) == UNCHANGED <<usage, ledger, balance, deliveries>>

(* The debit, the balance, the delivery and the interval, or nothing: an   *)
(* attempt that fails or is refused is retried with the stop time of the   *)
(* first, since no error of the transaction is terminal.                   *)
CloseUsage(i, source) ==
    LET at == closers[<<i, source>>].at
        started == usage[i].started
        v == GetApplicableComputeCreditRate(started)
        credits == Convert(at - started, v) IN
    /\ closers[<<i, source>>].pc = "closing"
    /\ \/ usage[i].status = "closed" /\ ReplaysClosure(i, at)
       \/ /\ usage[i].status = "open"
          /\ ~RefusesClosing(i, at)
          /\ InsertCreditTransaction([kind |-> "debit", of |-> i], -credits)
          /\ ApplyCreditBalanceTransaction(-credits)
          /\ deliveries' = With(deliveries, i, [pc |-> "none", delivered |-> FALSE])
          /\ usage' = [usage EXCEPT ![i].status = "closed", ![i].ended = at, ![i].rate = v]
    /\ \/ closers' = [closers EXCEPT ![<<i, source>>].pc = "returned"] /\ UNCHANGED billingLosses
       \/ /\ billingLosses < MaxLosses /\ billingLosses' = billingLosses + 1   \* a crash before the journal
          /\ UNCHANGED closers
    /\ UNCHANGED <<rates, polar, receipts, subscription, customer, clock>>

-----------------------------------------------------------------------------
(* BillingDelivery: a workflow keyed by the external ID.                   *)

SendBillingDelivery(i) ==
    /\ i \in DOMAIN deliveries /\ deliveries[i].pc = "none"
    /\ deliveries' = [deliveries EXCEPT ![i].pc = "deliver"]
    /\ UNCHANGED <<usage, closers, rates, ledger, balance, polar, receipts,
                   subscription, customer, clock, billingLosses>>

(* A PolarRetryableError: Restate runs the step again.                     *)
RetriesDelivery(i) == UNCHANGED deliveries

(* Mutant: every attempt is an event of its own.                           *)
AttemptID(i) == [debit |-> i, attempt |-> billingLosses]

(* CreditsUsedEvent: the external ID is the key of the debit.              *)
ExternalID(i) == [debit |-> i, attempt |-> 0]

(* Polar counts an event of an external ID once.                           *)
Accepts(i) ==
    polar' = IF ExternalID(i) \in DOMAIN polar THEN polar
             ELSE With(polar, ExternalID(i), -ledger[[kind |-> "debit", of |-> i]])

(* deliver-polar-event: the answer is journaled; it is lost, or Polar      *)
(* cannot take the event now, and the step runs again; or Polar refuses    *)
(* the event, and the workflow is over.                                    *)
deliverPendingPolarEvent(i) ==
    /\ i \in DOMAIN deliveries /\ deliveries[i].pc = "deliver"
    /\ \/ /\ ~deliveries[i].delivered /\ Accepts(i)
          /\ deliveries' = [deliveries EXCEPT ![i].pc = "record"] /\ UNCHANGED billingLosses
       \/ /\ deliveries[i].delivered
          /\ deliveries' = [deliveries EXCEPT ![i].pc = "completed"] /\ UNCHANGED <<polar, billingLosses>>
       \/ /\ ~deliveries[i].delivered
          /\ billingLosses < MaxLosses /\ billingLosses' = billingLosses + 1
          /\ Accepts(i) \/ UNCHANGED polar
          /\ RetriesDelivery(i)
    /\ UNCHANGED <<usage, closers, rates, ledger, balance, receipts, subscription, customer, clock>>

(* A PolarTerminalError, also for an event that Polar took before and the  *)
(* answer to which was lost.                                               *)
PolarRefuses(i) ==
    /\ i \in DOMAIN deliveries /\ deliveries[i].pc = "deliver" /\ ~deliveries[i].delivered
    /\ billingLosses < MaxLosses /\ billingLosses' = billingLosses + 1
    /\ deliveries' = [deliveries EXCEPT ![i].pc = "refused"]
    /\ UNCHANGED <<usage, closers, rates, ledger, balance, polar, receipts, subscription, customer, clock>>

(* complete-polar-delivery.                                                *)
RecordPolarDeliverySuccess(i) ==
    /\ i \in DOMAIN deliveries /\ deliveries[i].pc = "record"
    /\ deliveries' = [deliveries EXCEPT ![i] = [pc |-> "completed", delivered |-> TRUE]]
    /\ UNCHANGED <<usage, closers, rates, ledger, balance, polar, receipts,
                   subscription, customer, clock, billingLosses>>

-----------------------------------------------------------------------------
(* Polar's webhooks.                                                       *)

(* registerPolarCustomer: the first customer of the User stays.            *)
SameCustomer(m) == customer = None \/ customer = Webhooks[m].customer

(* Mutant: the row is overwritten by what arrives.                         *)
AlwaysNewer(m) == TRUE

(* UpsertSubscription's condition: what is stored is not later.            *)
NotOlder(m) == subscription = None \/ Webhooks[subscription].at <= Webhooks[m].at

(* A grant is credited under the ID of the event.                          *)
GrantKey(m) == [kind |-> "grant", of |-> Webhooks[m].id]

Projects(m) ==
    \/ /\ Webhooks[m].type = "subscription"
       /\ subscription' = IF NotOlder(m) THEN m ELSE subscription
       /\ UNCHANGED <<ledger, balance>>
    \/ /\ Webhooks[m].type = "grant"
       /\ Webhooks[m].at <= clock           \* not created before it occurred
       /\ InsertCreditTransaction(GrantKey(m), Webhooks[m].credits)
       /\ ApplyCreditBalanceTransaction(Webhooks[m].credits)
       /\ UNCHANGED subscription

(* GetPolarWebhookReceipt, under the lock of the event: a replay, or       *)
(* another message under the same ID.  Neither changes anything.           *)
Received(m) == Webhooks[m].id \in DOMAIN receipts

(* VerifiedPolarWebhook.Projection: other messages are refused.            *)
Projected(m) == Webhooks[m].type \in {"subscription", "grant"}

(* A message is handled as often as it arrives; one that fails is rolled   *)
(* back as a whole, and Polar sends it again.                              *)
ApplyPolarProjection(m) ==
    /\ Projected(m) /\ ~Received(m) /\ SameCustomer(m)
    /\ receipts' = With(receipts, Webhooks[m].id, m)
    /\ customer' = IF customer = None THEN Webhooks[m].customer ELSE customer
    /\ Projects(m)
    /\ UNCHANGED <<usage, closers, rates, deliveries, polar, clock, billingLosses>>

Tick ==
    /\ clock < MaxTime /\ clock' = clock + 1
    /\ UNCHANGED <<usage, closers, rates, ledger, balance, deliveries, polar, receipts,
                   subscription, customer, billingLosses>>

-----------------------------------------------------------------------------

BillingNext ==
    \/ \E v \in DOMAIN Rates : RegisterCreditRate(v)
    \/ \E i \in Intervals :
          \/ OpenComputeUsage(i) \/ SendBillingDelivery(i) \/ deliverPendingPolarEvent(i)
          \/ PolarRefuses(i) \/ RecordPolarDeliverySuccess(i)
          \/ \E source \in Sources : ObserveStopped(i, source) \/ CloseUsage(i, source)
    \/ \E m \in Messages : ApplyPolarProjection(m)
    \/ Tick

(* Restate runs an invocation until it returns.  Nothing is assumed of     *)
(* Polar, of its webhooks or of who sends the delivery workflow.           *)
BillingFairness ==
    \A i \in Intervals :
       /\ WF_billingVars(deliverPendingPolarEvent(i)) /\ WF_billingVars(RecordPolarDeliverySuccess(i))
       /\ \A source \in Sources : WF_billingVars(CloseUsage(i, source))

BillingSpec == BillingInit /\ [][BillingNext]_billingVars /\ BillingFairness

-----------------------------------------------------------------------------
(* Properties.                                                             *)

Debit(i) == [kind |-> "debit", of |-> i]

(* An interval that ended is charged once, for the time it was open and at *)
(* a rate that was in force when it started, whoever closed it and however *)
(* often; an open one is not charged.                                      *)
ChargesAreExact ==
    \A i \in Intervals :
        /\ Debit(i) \in DOMAIN ledger <=> usage[i].status = "closed"
        /\ usage[i].status = "closed" =>
              /\ usage[i].ended > usage[i].started
              /\ Rates[usage[i].rate].effective <= usage[i].started
              /\ -ledger[Debit(i)] * Unit = (usage[i].ended - usage[i].started) * Rates[usage[i].rate].per

(* Every charge is exact, and the Credit Balance, which admits or refuses  *)
(* a start, is the sum of the ledger; its version counts the transactions. *)
LedgerIsExact ==
    /\ ChargesAreExact
    /\ balance.credits = SumFunction(ledger)
    /\ balance.version = Cardinality(DOMAIN ledger)

(* What Polar counts was debited, once and the amount debited, although    *)
(* events are sent again; and what was delivered is counted.               *)
PolarCountsDebits ==
    /\ \A x \in DOMAIN polar : /\ Debit(x.debit) \in DOMAIN ledger /\ polar[x] = -ledger[Debit(x.debit)]
                              /\ \A y \in DOMAIN polar : x.debit = y.debit => x = y
    /\ \A i \in DOMAIN deliveries : deliveries[i].delivered => \E x \in DOMAIN polar : x.debit = i

(* The subscription is the last, by Polar's clock, of those received: also *)
(* when an earlier message arrives after a later one.                      *)
SubscriptionIsLatest ==
    LET Seen == {receipts[x] : x \in {y \in DOMAIN receipts : Webhooks[receipts[y]].type = "subscription"}} IN
    /\ subscription = None <=> Seen = {}
    /\ \A m \in Seen : Webhooks[m].at <= Webhooks[subscription].at

(* Who closes an interval returns, with the interval closed, since the     *)
(* workflows that stop a Runtime wait for it; in the end only those still  *)
(* close whose debit cannot be derived (billing_usage.go, rate.go).  And   *)
(* what Polar accepted is recorded as delivered, whatever answers are      *)
(* lost, unless Polar refuses a later attempt.                             *)
BillingCompletes ==
    /\ \A i \in Intervals, source \in Sources :
          LET closer == closers[<<i, source>>] IN
          <>[](closer.pc = "closing" => usage[i].status = "open" /\ RefusesClosing(i, closer.at))
    /\ \A i \in Intervals :
          ExternalID(i) \in DOMAIN polar ~>
             (i \in DOMAIN deliveries /\ (deliveries[i].delivered \/ deliveries[i].pc = "refused"))
=============================================================================
