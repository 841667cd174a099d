-------------------------------- MODULE Billing --------------------------------
(***************************************************************************)
(* Subscriptions of one user: card checkout with Paymob and its webhook     *)
(* (payments.service.ts), transfers reviewed by an administrator            *)
(* (instapay.service.ts), and the hourly job (subscription.scheduler.ts).   *)
(*                                                                         *)
(* A slot runs one request, one webhook delivery or one run of the job; the *)
(* slots interleave at every await.  Time is two facts per subscription:    *)
(* its period has ended, its grace period has ended.                        *)
(***************************************************************************)
EXTENDS Naturals, FiniteSets

CONSTANTS
  Payments,     \* ids of card payments
  Submissions,  \* ids of InstaPay submissions
  Subs,         \* subscription ids; bounds the number of activations
  Plans,
  PlanOf,       \* PlanOf[x]: the plan payment or submission x buys
  PlanGb,       \* PlanGb[n]: storageGb of plan n
  Price,        \* Price[n]: its price, the amount of a card payment for it
  FreeGb,       \* the free tier (4)
  Slots,        \* what may be in flight at the same time
  Failures,     \* TRUE: awaited calls may fail and the server may restart
  Nobody        \* no payment and no submission

Causes == Payments \cup Submissions

ASSUME CausesAssumption == Payments \cap Submissions = {} /\ Nobody \notin Causes
ASSUME PlansAssumption ==
  /\ PlanOf \in [Causes -> Plans]
  /\ PlanGb \in [Plans -> Nat] /\ FreeGb \in Nat
  /\ Price \in [Plans -> Nat]
ASSUME FailuresAssumption == Failures \in BOOLEAN

VARIABLES
  pay,       \* pay[p]: status of the payment row, "none" without a row
  open,      \* payments whose checkout page exists at Paymob
  charged,   \* payments Paymob took the money for
  aged,      \* pending payments older than two hours
  inst,      \* inst[i]: status of the submission row, "none" without a row
  stale,     \* pending submissions older than staleHours
  approved,  \* submissions an administrator decided to approve (history)
  sub,       \* sub[s]: status of the subscription row, "none" without a row
  boughtBy,  \* boughtBy[s]: the payment or submission s was activated for
  ended,     \* subscriptions past current_period_end
  lapsed,    \* subscriptions past the grace period as well
  limit,     \* users.storage_limit_gb
  pc,        \* pc[r]: the await at which slot r stands
  job,       \* job[r]: the payment or submission slot r works for
  list,      \* list[r]: what the hourly job in slot r has read and not done
  halfway,   \* TRUE once a failure ended a handler between two saves that
             \* belong together (history)
  crossed,   \* payments and submissions that two slots worked on at a time
             \* (history)
  raced      \* TRUE once two slots were changing subscriptions and limit at a
             \* time (history)

moneyVars == <<pay, open, charged, aged, inst, stale, approved>>
subVars   == <<sub, boughtBy, ended, lapsed, limit>>
slotVars  == <<pc, job, list, halfway, crossed, raced>>
vars      == <<moneyVars, subVars, slotVars>>

Activating == {"activate.expire", "activate.create", "activate.link",
               "activate.limit"}
Awaits == Activating \cup
  {"checkout.save", "checkout.intention", "webhook.success", "webhook.failed",
   "submit.save", "approve.payment", "approve.save", "reject.save",
   "job.grace", "job.expire", "job.downgrade", "job.stale", "job.submissions"}
JobAwaits == {"job.grace", "job.expire", "job.downgrade", "job.stale",
              "job.submissions"}
BetweenSaves == Activating \cup {"approve.save", "job.downgrade"}

MoneyTypes ==
  /\ pay \in [Payments -> {"none", "pending", "success", "failed", "expired"}]
  /\ open \subseteq Payments /\ charged \subseteq open /\ aged \subseteq Payments
  /\ inst \in [Submissions ->
                 {"none", "pending", "approved", "rejected", "expired"}]
  /\ stale \subseteq Submissions /\ approved \subseteq Submissions

SubscriptionTypes ==
  /\ sub \in [Subs -> {"none", "active", "grace", "expired"}]
  /\ boughtBy \in [Subs -> Causes \cup {Nobody}]
  /\ \A s \in Subs : sub[s] = "none" <=> boughtBy[s] = Nobody
  /\ lapsed \subseteq ended /\ ended \subseteq Subs
  /\ limit \in Nat

SlotTypes ==
  /\ pc \in [Slots -> Awaits \cup {"idle"}]
  /\ job \in [Slots -> Causes \cup {Nobody}]
  /\ \A r \in Slots : pc[r] \in {"checkout.save", "checkout.intention"} =>
       job[r] \in Payments
  /\ list \in [Slots -> SUBSET (Subs \cup Submissions)]
  /\ halfway \in BOOLEAN /\ raced \in BOOLEAN /\ crossed \subseteq Causes

TypeOK == MoneyTypes /\ SubscriptionTypes /\ SlotTypes

Init ==
  /\ pay = [p \in Payments |-> "none"]
  /\ open = {} /\ charged = {} /\ aged = {}
  /\ inst = [i \in Submissions |-> "none"]
  /\ stale = {} /\ approved = {}
  /\ sub = [s \in Subs |-> "none"]
  /\ boughtBy = [s \in Subs |-> Nobody]
  /\ ended = {} /\ lapsed = {}
  /\ limit = FreeGb
  /\ pc = [r \in Slots |-> "idle"]
  /\ job = [r \in Slots |-> Nobody]
  /\ list = [r \in Slots |-> {}]
  /\ halfway = FALSE /\ raced = FALSE /\ crossed = {}

-----------------------------------------------------------------------------
(* Helpers *)

Live(s) == sub[s] \in {"active", "grace"}
PlanBought(s) == PlanOf[boughtBy[s]]

\* The bound Subs leaves room for one more activation.
Room ==
  Cardinality({s \in Subs : sub[s] = "none"}) >
  Cardinality({r \in Slots : pc[r] \in Activating \cup
                                {"webhook.success", "approve.payment"}})

\* Money of the price of x was received, or an administrator saw it: Paymob signs
\* the amount of a transaction, and the payment is found by a reference in it.
Covered ==
  {p \in Payments : \E q \in charged : Price[PlanOf[q]] = Price[PlanOf[p]]}
    \cup approved

\* Slot q works for the payment or submission x, or the job in it has read it.
WorksOn(q, x) ==
  job[q] = x \/ (pc[q] = "job.submissions" /\ x \in list[q])

\* Slot q is between its first and its last step on subscriptions and limit.
ChangesStorage(q) ==
  \/ pc[q] \in Activating \cup {"job.downgrade"}
  \/ pc[q] \in {"job.grace", "job.expire"} /\ list[q] # {}

\* Slot r begins to change them.
Enter(r) ==
  raced' = (raced \/ \E q \in Slots \ {r} : ChangesStorage(q))

Begin(r, await, x) ==
  /\ pc[r] = "idle"
  /\ pc' = [pc EXCEPT ![r] = await]
  /\ job' = [job EXCEPT ![r] = x]
  /\ crossed' = IF \E q \in Slots : WorksOn(q, x) THEN crossed \cup {x} ELSE crossed
  /\ UNCHANGED <<list, halfway, raced>>

Continue(r, here, await) ==
  /\ pc[r] = here
  /\ pc' = [pc EXCEPT ![r] = await]
  /\ UNCHANGED <<job, list, halfway, crossed>>

Leave(r) ==
  /\ pc' = [pc EXCEPT ![r] = "idle"]
  /\ job' = [job EXCEPT ![r] = Nobody]
  /\ list' = [list EXCEPT ![r] = {}]
  /\ UNCHANGED <<crossed, raced>>

Done(r) == Leave(r) /\ UNCHANGED halfway

-----------------------------------------------------------------------------
(* Faulty variants of the operations below.  They are no part of Next: each is a  *)
(* mistake this code could have made, and the properties are tested against it.  *)

\* Every delivery is processed, also for a payment that already was.
WebhookReadAgain(r, p, success) ==
  /\ open # {} /\ pay[p] # "none"
  /\ success => p \in Covered /\ Room
  /\ Begin(r, IF success THEN "webhook.success" ELSE "webhook.failed", p)
  /\ UNCHANGED <<moneyVars, subVars>>

\* A payment made while a subscription is live activates nothing.
WebhookSuccessOnce(r) ==
  /\ pc[r] = "webhook.success"
  /\ pay' = [pay EXCEPT ![job[r]] = "success"]
  /\ IF \E s \in Subs : Live(s)
     THEN Done(r) ELSE Continue(r, "webhook.success", "activate.expire") /\ Enter(r)
  /\ UNCHANGED <<open, charged, aged, inst, stale, approved, subVars>>

\* An activation never lowers the limit.
ActivateLimitRaise(r) ==
  /\ pc[r] = "activate.limit"
  /\ limit' = IF PlanGb[PlanOf[job[r]]] > limit THEN PlanGb[PlanOf[job[r]]]
                                               ELSE limit
  /\ IF job[r] \in Submissions
     THEN Continue(r, "activate.limit", "approve.save") /\ UNCHANGED raced
     ELSE Done(r)
  /\ UNCHANGED <<moneyVars, sub, boughtBy, ended, lapsed>>

\* The job marks a subscription as expired and forgets the user's limit.
JobExpireOnly(r, s) ==
  /\ pc[r] = "job.expire"
  /\ s \in list[r]
  /\ sub' = [sub EXCEPT ![s] = "expired"]
  /\ list' = [list EXCEPT ![r] = @ \ {s}]
  /\ UNCHANGED <<moneyVars, boughtBy, ended, lapsed, limit, pc, job, halfway, crossed, raced>>

\* The job takes the end of the period for the end of the grace period.
JobReadEnded(r) ==
  /\ pc[r] = "job.grace" /\ list[r] = {}
  /\ pc' = [pc EXCEPT ![r] = "job.expire"]
  /\ list' = [list EXCEPT ![r] = {s \in ended : sub[s] = "grace"}]
  /\ UNCHANGED <<job, halfway, crossed, raced, moneyVars, subVars>>

\* The job takes every old submission for one that nobody reviewed.
JobReadStaleAny(r) ==
  /\ pc[r] = "job.stale"
  /\ pc' = [pc EXCEPT ![r] = "job.submissions"]
  /\ list' = [list EXCEPT ![r] = stale]
  /\ crossed' = crossed \cup {i \in stale : \E q \in Slots : WorksOn(q, i)}
  /\ UNCHANGED <<job, halfway, raced, moneyVars, subVars>>

\* A submission may be rejected after it has been approved.
ReviewRejectAny(r, i) ==
  /\ inst[i] # "none"
  /\ Begin(r, "reject.save", i)
  /\ UNCHANGED <<moneyVars, subVars>>

-----------------------------------------------------------------------------
(* initiateCheckout and initiateRenewal *)

\* A new subscription needs that none to the plan is active, a renewal that one
\* is active or in its grace period.
CheckoutRead(r, p) ==
  /\ pay[p] = "none"
  /\ \A q \in Slots : job[q] # p          \* a new id
  /\ \/ \A s \in Subs : ~(sub[s] = "active" /\ PlanBought(s) = PlanOf[p])
     \/ \E s \in Subs : Live(s) /\ PlanBought(s) = PlanOf[p]
  /\ Begin(r, "checkout.save", p)
  /\ UNCHANGED <<moneyVars, subVars>>

CheckoutSave(r) ==
  /\ Continue(r, "checkout.save", "checkout.intention") /\ UNCHANGED raced
  /\ pay' = [pay EXCEPT ![job[r]] = "pending"]
  /\ UNCHANGED <<open, charged, aged, inst, stale, approved, subVars>>

\* Paymob creates the intention; the client gets its checkout page.
CheckoutIntention(r) ==
  /\ pc[r] = "checkout.intention"
  /\ open' = open \cup {job[r]}
  /\ Done(r)
  /\ UNCHANGED <<pay, charged, aged, inst, stale, approved, subVars>>

\* The user pays on Paymob's page.
PaymobCharges(p) ==
  /\ p \in open \ charged
  /\ charged' = charged \cup {p}
  /\ UNCHANGED <<pay, open, aged, inst, stale, approved, subVars, slotVars>>

-----------------------------------------------------------------------------
(* processWebhook: any delivery may come late, more than once, and while      *)
(* another one is handled; a declined attempt may precede a successful one.   *)
(* The signature covers the outcome and the amount of a transaction, not the  *)
(* reference to a payment: p may be any payment there is a row of, and        *)
(* success says that the amount received is its price.                        *)

WebhookRead(r, p, success) ==
  /\ open # {} /\ pay[p] \notin {"none", "success"}
  /\ success => p \in Covered /\ Room
  /\ Begin(r, IF success THEN "webhook.success" ELSE "webhook.failed", p)
  /\ UNCHANGED <<moneyVars, subVars>>

WebhookSuccess(r) ==
  /\ Continue(r, "webhook.success", "activate.expire")
  /\ Enter(r)
  /\ pay' = [pay EXCEPT ![job[r]] = "success"]
  /\ UNCHANGED <<open, charged, aged, inst, stale, approved, subVars>>

WebhookFailed(r) ==
  /\ pc[r] = "webhook.failed"
  /\ pay' = [pay EXCEPT ![job[r]] = "failed"]
  /\ Done(r)
  /\ UNCHANGED <<open, charged, aged, inst, stale, approved, subVars>>

-----------------------------------------------------------------------------
(* activateSubscription *)

ActivateExpire(r) ==
  /\ Continue(r, "activate.expire", "activate.create") /\ UNCHANGED raced
  /\ sub' = [s \in Subs |-> IF Live(s) THEN "expired" ELSE sub[s]]
  /\ UNCHANGED <<moneyVars, boughtBy, ended, lapsed, limit>>

ActivateCreate(r) ==
  /\ Continue(r, "activate.create", "activate.link") /\ UNCHANGED raced
  /\ \E s \in Subs :
       /\ sub[s] = "none"
       /\ sub' = [sub EXCEPT ![s] = "active"]
       /\ boughtBy' = [boughtBy EXCEPT ![s] = job[r]]
  /\ UNCHANGED <<moneyVars, ended, lapsed, limit>>

\* The payment is saved again with its subscription, as the handler has it.
ActivateLink(r) ==
  /\ Continue(r, "activate.link", "activate.limit") /\ UNCHANGED raced
  /\ pay' = [p \in Payments |-> IF p = job[r] THEN "success" ELSE pay[p]]
  /\ UNCHANGED <<open, charged, aged, inst, stale, approved, subVars>>

\* The limit is set; a webhook is done, a review still saves its submission.
ActivateLimit(r) ==
  /\ pc[r] = "activate.limit"
  /\ limit' = PlanGb[PlanOf[job[r]]]
  /\ IF job[r] \in Submissions
     THEN Continue(r, "activate.limit", "approve.save") /\ UNCHANGED raced
     ELSE Done(r)
  /\ UNCHANGED <<moneyVars, sub, boughtBy, ended, lapsed>>

-----------------------------------------------------------------------------
(* submitPayment and reviewPayment *)

SubmitRead(r, i) ==
  /\ inst[i] = "none"
  /\ \A q \in Slots : job[q] # i          \* a new id
  /\ \A k \in Submissions : inst[k] # "pending"
  /\ Begin(r, "submit.save", i)
  /\ UNCHANGED <<moneyVars, subVars>>

SubmitSave(r) ==
  /\ pc[r] = "submit.save"
  /\ inst' = [inst EXCEPT ![job[r]] = "pending"]
  /\ Done(r)
  /\ UNCHANGED <<pay, open, charged, aged, stale, approved, subVars>>

ReviewApprove(r, i) ==
  /\ inst[i] = "pending"
  /\ Room
  /\ Begin(r, "approve.payment", i)
  /\ approved' = approved \cup {i}
  /\ UNCHANGED <<pay, open, charged, aged, inst, stale, subVars>>

\* A payment row that is already successful records the transfer.
ApprovePayment(r) ==
  /\ Continue(r, "approve.payment", "activate.expire")
  /\ Enter(r)
  /\ UNCHANGED <<moneyVars, subVars>>

ApproveSave(r) ==
  /\ pc[r] = "approve.save"
  /\ inst' = [inst EXCEPT ![job[r]] = "approved"]
  /\ Done(r)
  /\ UNCHANGED <<pay, open, charged, aged, stale, approved, subVars>>

ReviewReject(r, i) ==
  /\ inst[i] = "pending"
  /\ Begin(r, "reject.save", i)
  /\ UNCHANGED <<moneyVars, subVars>>

RejectSave(r) ==
  /\ pc[r] = "reject.save"
  /\ inst' = [inst EXCEPT ![job[r]] = "rejected"]
  /\ Done(r)
  /\ UNCHANGED <<pay, open, charged, aged, stale, approved, subVars>>

-----------------------------------------------------------------------------
(* Time.  An activation and a checkout take far less than a period, a grace  *)
(* period or two hours.                                                      *)

PeriodEnds(s) ==
  /\ sub[s] # "none" /\ s \notin ended
  /\ \A r \in Slots : pc[r] \notin Activating \/ job[r] # boughtBy[s]
  /\ ended' = ended \cup {s}
  /\ UNCHANGED <<moneyVars, sub, boughtBy, lapsed, limit, slotVars>>

GraceEnds(s) ==
  /\ s \in ended \ lapsed
  /\ lapsed' = lapsed \cup {s}
  /\ UNCHANGED <<moneyVars, sub, boughtBy, ended, limit, slotVars>>

PaymentAges(p) ==
  /\ pay[p] = "pending" /\ p \notin aged
  /\ \A r \in Slots : job[r] # p
  /\ aged' = aged \cup {p}
  /\ UNCHANGED <<pay, open, charged, inst, stale, approved, subVars, slotVars>>

SubmissionAges(i) ==
  /\ inst[i] = "pending" /\ i \notin stale
  /\ stale' = stale \cup {i}
  /\ UNCHANGED <<pay, open, charged, aged, inst, approved, subVars, slotVars>>

-----------------------------------------------------------------------------
(* The hourly job.  One run is over before the next one starts. *)

JobRead(r, await, S) ==
  /\ pc' = [pc EXCEPT ![r] = await]
  /\ list' = [list EXCEPT ![r] = S]
  /\ IF S # {} THEN Enter(r) ELSE UNCHANGED raced
  /\ UNCHANGED <<job, halfway, crossed>>

\* processExpiredSubscriptions reads the active subscriptions past their end, ...
JobStart(r) ==
  /\ pc[r] = "idle"
  /\ \A q \in Slots : pc[q] \notin JobAwaits
  /\ JobRead(r, "job.grace", {s \in ended : sub[s] = "active"})
  /\ UNCHANGED <<moneyVars, subVars>>

\* ... saves each of them as in grace, ...
JobGrace(r, s) ==
  /\ pc[r] = "job.grace"
  /\ s \in list[r]
  /\ sub' = [sub EXCEPT ![s] = "grace"]
  /\ list' = [list EXCEPT ![r] = @ \ {s}]
  /\ UNCHANGED <<moneyVars, boughtBy, ended, lapsed, limit, pc, job, halfway, crossed, raced>>

\* ... reads those whose grace period is over, ...
JobReadLapsed(r) ==
  /\ pc[r] = "job.grace" /\ list[r] = {}
  /\ JobRead(r, "job.expire", {s \in lapsed : sub[s] = "grace"})
  /\ UNCHANGED <<moneyVars, subVars>>

\* ... and saves each of them as expired,
JobExpire(r, s) ==
  /\ pc[r] = "job.expire"
  /\ s \in list[r]
  /\ sub' = [sub EXCEPT ![s] = "expired"]
  /\ list' = [list EXCEPT ![r] = @ \ {s}]
  /\ pc' = [pc EXCEPT ![r] = "job.downgrade"]
  /\ UNCHANGED <<moneyVars, boughtBy, ended, lapsed, limit, job, halfway, crossed,
                 raced>>

\* with the user put back to the free tier after it.
JobDowngrade(r) ==
  /\ Continue(r, "job.downgrade", "job.expire") /\ UNCHANGED raced
  /\ limit' = FreeGb
  /\ UNCHANGED <<moneyVars, sub, boughtBy, ended, lapsed>>

\* expireStalePendingPayments is one UPDATE, ...
JobPayments(r) ==
  /\ Continue(r, "job.expire", "job.stale") /\ UNCHANGED raced
  /\ list[r] = {}
  /\ pay' = [p \in Payments |-> IF pay[p] = "pending" /\ p \in aged
                                THEN "expired" ELSE pay[p]]
  /\ UNCHANGED <<open, charged, aged, inst, stale, approved, subVars>>

\* ... expireStaleRequests reads the pending submissions that are too old ...
JobReadStale(r) ==
  /\ pc[r] = "job.stale"
  /\ pc' = [pc EXCEPT ![r] = "job.submissions"]
  /\ LET found == {i \in stale : inst[i] = "pending"}
     IN  /\ list' = [list EXCEPT ![r] = found]
         /\ crossed' = crossed \cup {i \in found : \E q \in Slots : WorksOn(q, i)}
  /\ UNCHANGED <<job, halfway, raced, moneyVars, subVars>>

\* ... and saves each as expired.
JobSubmission(r, i) ==
  /\ pc[r] = "job.submissions"
  /\ i \in list[r]
  /\ inst' = [inst EXCEPT ![i] = "expired"]
  /\ list' = [list EXCEPT ![r] = @ \ {i}]
  /\ UNCHANGED <<pay, open, charged, aged, stale, approved, subVars, pc, job,
                 halfway, crossed, raced>>

JobEnd(r) ==
  /\ pc[r] = "job.submissions" /\ list[r] = {}
  /\ Done(r)
  /\ UNCHANGED <<moneyVars, subVars>>

-----------------------------------------------------------------------------
\* An awaited call rejects, or the server restarts, and the handler ends.
Abort(r) ==
  /\ Failures
  /\ pc[r] # "idle"
  /\ Leave(r)
  /\ halfway' = (halfway \/ pc[r] \in BetweenSaves)
  /\ UNCHANGED <<moneyVars, subVars>>

NewRequest(r) ==
  \/ \E p \in Payments :
       CheckoutRead(r, p) \/ WebhookRead(r, p, TRUE) \/ WebhookRead(r, p, FALSE)
  \/ \E i \in Submissions :
       SubmitRead(r, i) \/ ReviewApprove(r, i) \/ ReviewReject(r, i)

SlotStep(r) ==
  \/ CheckoutSave(r)
  \/ CheckoutIntention(r)
  \/ WebhookSuccess(r)
  \/ WebhookFailed(r)
  \/ ActivateExpire(r)
  \/ ActivateCreate(r)
  \/ ActivateLink(r)
  \/ ActivateLimit(r)
  \/ SubmitSave(r)
  \/ ApprovePayment(r)
  \/ ApproveSave(r)
  \/ RejectSave(r)
  \/ \E s \in Subs : JobGrace(r, s) \/ JobExpire(r, s)
  \/ JobReadLapsed(r)
  \/ JobDowngrade(r)
  \/ JobPayments(r)
  \/ JobReadStale(r)
  \/ \E i \in Submissions : JobSubmission(r, i)
  \/ JobEnd(r)

Time ==
  \/ \E s \in Subs : PeriodEnds(s) \/ GraceEnds(s)
  \/ \E p \in Payments : PaymentAges(p)
  \/ \E i \in Submissions : SubmissionAges(i)

Next ==
  \/ \E r \in Slots : NewRequest(r) \/ JobStart(r) \/ SlotStep(r) \/ Abort(r)
  \/ \E p \in Payments : PaymobCharges(p)
  \/ Time

Spec == Init /\ [][Next]_vars

\* What began goes on, time passes, and the scheduler starts its job every hour,
\* however busy the server is.  A run that fails is followed by others, each of
\* which may get further: what the job reads again it finally handles.
FairSpec ==
  /\ Spec
  /\ \A r \in Slots : WF_vars(SlotStep(r))
  /\ \A r \in Slots : SF_vars(JobStart(r)) /\ SF_vars(JobReadLapsed(r))
  /\ \A r \in Slots, s \in Subs : SF_vars(JobGrace(r, s)) /\ SF_vars(JobExpire(r, s))
  /\ \A s \in Subs : WF_vars(PeriodEnds(s)) /\ WF_vars(GraceEnds(s))

-----------------------------------------------------------------------------
(* Properties *)

Quiet == \A r \in Slots : pc[r] = "idle"

\* "Idempotency: skip if already processed": however often and in whatever order
\* its webhook is delivered, and wherever a handler fails, a card payment is turned
\* into at most one subscription, unless two deliveries of it are handled at a time.
UncrossedActivatedOnce ==
  \A p \in Payments \ crossed : Cardinality({s \in Subs : boughtBy[s] = p}) <= 1

\* A payment that is recorded as successful has been turned into a subscription.
PaidIsActivated ==
  Quiet => \A p \in Payments :
             pay[p] = "success" => \E s \in Subs : boughtBy[s] = p

\* The same, unless a failure hit between saves that belong together: no other
\* failure, repeated delivery or declined attempt loses a paid subscription.
PaidIsActivatedIfWhole == ~halfway => PaidIsActivated

\* Between requests the storage limit is that of the live subscription, and the
\* free tier without one, unless a failure hit between saves that belong together,
\* or two activations, or one and the job, changed both at the same time.
LimitMatches ==
  Quiet /\ ~halfway /\ ~raced =>
    limit = IF \E s \in Subs : Live(s)
            THEN PlanGb[PlanBought(CHOOSE s \in Subs : Live(s))]
            ELSE FreeGb

\* What billing knows of any number of slots: every subscription, and every limit
\* above the free tier, goes back to something covered, ...
SubscriptionsCovered ==
  /\ \A s \in Subs : sub[s] # "none" => boughtBy[s] \in Covered
  /\ limit # FreeGb => \E x \in Covered : limit = PlanGb[PlanOf[x]]

\* ... who is on the way to an activation works for something covered, ...
JobsCovered ==
  \A r \in Slots :
    pc[r] \in Activating \cup {"webhook.success", "approve.payment", "approve.save"}
      => job[r] \in Covered

\* ... a successful payment has its subscription, or a handler on the way to it,
\* or it was lost half-way, ...
SuccessAccountedFor ==
  /\ \A r \in Slots : pc[r] \in {"activate.link", "activate.limit", "approve.save"} =>
       \E s \in Subs : boughtBy[s] = job[r]
  /\ ~halfway => \A p \in Payments : pay[p] = "success" =>
       \/ \E s \in Subs : boughtBy[s] = p
       \/ \E r \in Slots : job[r] = p /\ pc[r] \in {"activate.expire", "activate.create"}

\* ... and the job has only read subscriptions that exist.
ListedExist ==
  \A r \in Slots : pc[r] \in {"job.grace", "job.expire", "job.downgrade"} =>
    \A s \in list[r] : s \in Subs /\ sub[s] # "none"

\* The inductive invariant of billing (Billing_proofs).
BillingInv ==
  /\ TypeOK
  /\ JobsCovered
  /\ SuccessAccountedFor
  /\ ListedExist
  /\ SubscriptionsCovered

\* Storage that is not paid for any more is finally taken back: with finitely
\* many purchases, the user ends on the free tier, also when runs of the job fail,
\* unless one fails between the two saves of a downgrade (or an activation does), or
\* an activation overlaps another one or the job.
StorageTakenBack == [](~halfway /\ ~raced) => <>[](limit = FreeGb)

\* "Submission already reviewed": a submission ends with one verdict, and a
\* rejected one has not been turned into a subscription, unless two reviews of it, or
\* a review and the job, ran at the same time.
RejectedIsUnpaid ==
  Quiet /\ ~halfway =>
    \A i \in Submissions \ crossed : inst[i] = "rejected" => \A s \in Subs : boughtBy[s] # i

-----------------------------------------------------------------------------
(* Why they are true of what is handled apart: of a user whose subscriptions and    *)
(* limit no two slots change at a time (~raced), and of a payment or a submission   *)
(* on which no two slots work at a time (not in crossed).                           *)

\* The history variables say what they should.
SlotsApart ==
  /\ ~raced => \A q, r \in Slots : ChangesStorage(q) /\ ChangesStorage(r) => q = r
  /\ \A x \in Causes \ crossed, q, r \in Slots : WorksOn(q, x) /\ WorksOn(r, x) => q = r

\* One subscription is live, none while an activation or a downgrade is under way,
\* and what the job has read is still as it was when it acts on it.
ListedAsRead ==
  /\ ~raced =>
       /\ \A s, t \in Subs : Live(s) /\ Live(t) => s = t
       /\ \A r \in Slots : pc[r] \in {"activate.create", "job.downgrade"} =>
            \A s \in Subs : ~Live(s)
       /\ \A r \in Slots, s \in Subs : s \in list[r] =>
            /\ pc[r] = "job.grace" => sub[s] = "active"
            /\ pc[r] \in {"job.expire", "job.downgrade"} => sub[s] = "grace"
  /\ \A r \in Slots : pc[r] = "job.submissions" =>
       \A i \in list[r] : i \in Submissions /\ (i \notin crossed => inst[i] = "pending")

\* A subscription was bought by a payment that is recorded as successful and by no
\* other subscription's; a delivery in progress found its payment unprocessed.
ProcessedOnce ==
  \A p \in Payments \ crossed :
    /\ \A s, t \in Subs : boughtBy[s] = p /\ boughtBy[t] = p => s = t
    /\ \A s \in Subs : boughtBy[s] = p => pay[p] = "success"
    /\ \A r \in Slots : job[r] = p =>
         /\ pc[r] \in {"webhook.success", "webhook.failed"} => pay[p] # "success"
         /\ pc[r] = "checkout.save" => pay[p] = "none"
         /\ pc[r] \in {"activate.expire", "activate.create"} =>
              pay[p] = "success" /\ \A s \in Subs : boughtBy[s] # p

\* A transfer that bought a subscription is approved or about to be.
VerdictOnce ==
  \A i \in Submissions \ crossed :
    /\ \A r \in Slots : job[r] = i =>
         /\ pc[r] = "submit.save" => inst[i] = "none"
         /\ pc[r] \in Activating \cup {"approve.payment", "approve.save", "reject.save"}
              => inst[i] = "pending"
    /\ ~halfway => \A s \in Subs : boughtBy[s] = i =>
         \/ inst[i] = "approved"
         \/ \E r \in Slots : job[r] = i
              /\ pc[r] \in {"activate.link", "activate.limit", "approve.save"}

\* The limit is only out of step with the live subscription while the activation or
\* the downgrade that changed the one has yet to change the other.
LimitFollows ==
  ~halfway /\ ~raced =>
    /\ (\A r \in Slots : pc[r] \notin {"activate.create", "activate.link",
                                       "activate.limit", "job.downgrade"}) =>
         /\ \A s \in Subs : Live(s) => limit = PlanGb[PlanBought(s)]
         /\ (\A s \in Subs : ~Live(s)) => limit = FreeGb
    /\ \A r \in Slots : pc[r] \in {"activate.link", "activate.limit"} =>
         \E s \in Subs : Live(s) /\ boughtBy[s] = job[r]

\* A subscription that is being activated is at the start of its period, and what
\* the job is about to expire is past its grace period.
InTime ==
  /\ \A s \in ended : sub[s] # "none"
  /\ ~raced => \A r \in Slots : pc[r] \in {"activate.link", "activate.limit"} =>
       \A s \in Subs : Live(s) => boughtBy[s] = job[r] /\ s \notin ended
  /\ \A r \in Slots : pc[r] \in {"job.expire", "job.downgrade"} => list[r] \subseteq lapsed

\* What a slot works for is of the kind its handler is for.
JobsFit ==
  \A r \in Slots :
    /\ pc[r] \in {"webhook.success", "webhook.failed"} => job[r] \in Payments
    /\ pc[r] \in {"submit.save", "approve.payment", "approve.save", "reject.save"} =>
         job[r] \in Submissions
    /\ pc[r] \in JobAwaits \cup {"idle"} => job[r] = Nobody
    /\ pc[r] \notin JobAwaits => list[r] = {}

\* The inductive invariant of what is handled apart (Billing_proofs).
ApartInv ==
  /\ BillingInv
  /\ JobsFit
  /\ SlotsApart
  /\ ListedAsRead
  /\ ProcessedOnce
  /\ VerdictOnce
  /\ LimitFollows
  /\ InTime

-----------------------------------------------------------------------------
(* What a user was promised, seen in the state of the code: an activation counts   *)
(* from its first save on, and so does a downgrade.                               *)

Switching == {r \in Slots : pc[r] \in {"activate.create", "activate.link", "activate.limit"}}

Downgrading == {r \in Slots : pc[r] = "job.downgrade"}

InForce ==
  IF Switching # {} THEN {job[r] : r \in Switching}
                    ELSE {boughtBy[s] : s \in {t \in Subs : Live(t)}}

Granted ==
  {boughtBy[s] : s \in {t \in Subs : sub[t] # "none"}} \cup {job[r] : r \in Switching}

TimeIsUp == Switching = {} /\ \E s \in lapsed : Live(s)

PromisedLimit ==
  IF Switching # {} THEN PlanGb[PlanOf[CHOOSE x \in InForce : TRUE]]
  ELSE IF Downgrading # {} THEN FreeGb ELSE limit

\* Nothing that belongs together was torn apart, by a failure or by an overlap.
Whole == ~halfway /\ ~raced /\ crossed = {}

Promise == INSTANCE PaidStorage WITH
  paid <- Covered,
  granted <- Granted,
  inForce <- InForce,
  over <- TimeIsUp,
  limit <- PromisedLimit,
  whole <- Whole

\* What payments, reviews and the job do to a user is a run of PaidStorage: one
\* subscription, granted once for money that was received, with the limit of its
\* plan, and taken back after its grace period and not before, until a failure or an
\* overlap tears apart what belongs together.
KeepsPromise == Promise!Spec

=============================================================================
