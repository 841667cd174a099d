----------------------------- MODULE Billing_proofs -----------------------------
(***************************************************************************)
(* Theorems of Billing for every set of payments, submissions and slots:    *)
(* deliveries, retries, reviews and the hourly job may overlap in any way   *)
(* and fail anywhere.  BillingInv and ApartInv are inductive; with ApartInv *)
(* Billing implements PaidStorage.                                          *)
(***************************************************************************)
EXTENDS Billing, FiniteSetTheorems, TLAPS

\* At the start there is neither a payment nor a subscription.
LEMMA InitInv == Init => BillingInv
<1> SUFFICES ASSUME Init
             PROVE  BillingInv
    OBVIOUS
<1>1. MoneyTypes
  BY DEF Init, MoneyTypes
<1>2. SubscriptionTypes
  BY PlansAssumption DEF Init, SubscriptionTypes
<1>3. SlotTypes
  BY DEF Init, SlotTypes
<1>4. JobsCovered /\ SuccessAccountedFor /\ ListedExist
  BY DEF Init, JobsCovered, SuccessAccountedFor, ListedExist, Activating
<1>5. SubscriptionsCovered
  BY DEF Init, SubscriptionsCovered, Covered
<1>6. QED
  BY <1>1, <1>2, <1>3, <1>4, <1>5 DEF BillingInv, TypeOK

\* What was received is not given back, and what was torn apart stays so.
LEMMA HistoryGrows ==
  ASSUME [Next]_vars
  PROVE  /\ charged \subseteq charged' /\ approved \subseteq approved'
         /\ halfway => halfway'
         /\ raced => raced'
         /\ crossed \subseteq crossed'
<1> USE DEF moneyVars, subVars, slotVars, Begin, Continue, Leave, Done, JobRead, Enter
<1> DEFINE Kept == charged' = charged /\ approved' = approved
           Grown == (halfway => halfway') /\ (raced => raced') /\ crossed \subseteq crossed'
<1>1. ASSUME NEW r \in Slots, NewRequest(r)
      PROVE  charged \subseteq charged' /\ approved \subseteq approved' /\ Grown
  BY <1>1 DEF NewRequest, CheckoutRead, WebhookRead, SubmitRead, ReviewApprove, ReviewReject
<1>2. ASSUME NEW r \in Slots, SlotStep(r)
      PROVE  Kept /\ Grown
  <2>1. CASE CheckoutSave(r)
    BY <2>1 DEF CheckoutSave
  <2>2. CASE CheckoutIntention(r)
    BY <2>2 DEF CheckoutIntention
  <2>3. CASE WebhookSuccess(r)
    BY <2>3 DEF WebhookSuccess
  <2>4. CASE WebhookFailed(r)
    BY <2>4 DEF WebhookFailed
  <2>5. CASE ActivateExpire(r)
    BY <2>5 DEF ActivateExpire
  <2>6. CASE ActivateCreate(r)
    BY <2>6 DEF ActivateCreate
  <2>7. CASE ActivateLink(r)
    BY <2>7 DEF ActivateLink
  <2>8. CASE ActivateLimit(r)
    BY <2>8 DEF ActivateLimit
  <2>9. CASE SubmitSave(r)
    BY <2>9 DEF SubmitSave
  <2>10. CASE ApprovePayment(r)
    BY <2>10 DEF ApprovePayment
  <2>11. CASE ApproveSave(r)
    BY <2>11 DEF ApproveSave
  <2>12. CASE RejectSave(r)
    BY <2>12 DEF RejectSave
  <2>13. CASE JobReadLapsed(r)
    BY <2>13 DEF JobReadLapsed
  <2>14. CASE JobDowngrade(r)
    BY <2>14 DEF JobDowngrade
  <2>15. CASE JobPayments(r)
    BY <2>15 DEF JobPayments
  <2>16. CASE JobReadStale(r)
    BY <2>16 DEF JobReadStale
  <2>17. CASE JobEnd(r)
    BY <2>17 DEF JobEnd
  <2>18. ASSUME NEW s \in Subs, JobGrace(r, s) \/ JobExpire(r, s)
         PROVE  Kept /\ Grown
    BY <2>18 DEF JobGrace, JobExpire
  <2>19. ASSUME NEW i \in Submissions, JobSubmission(r, i)
         PROVE  Kept /\ Grown
    BY <2>19 DEF JobSubmission
  <2> HIDE DEF Kept, Grown
  <2>20. QED
    BY <1>2, <2>1, <2>2, <2>3, <2>4, <2>5, <2>6, <2>7, <2>8, <2>9, <2>10, <2>11, <2>12,
       <2>13, <2>14, <2>15, <2>16, <2>17, <2>18, <2>19 DEF SlotStep
<1>3. ASSUME NEW r \in Slots, JobStart(r)
      PROVE  Kept /\ Grown
  BY <1>3 DEF JobStart
<1>4. ASSUME NEW r \in Slots, Abort(r)
      PROVE  Kept /\ Grown
  BY <1>4 DEF Abort
<1>5. ASSUME NEW p \in Payments, PaymobCharges(p)
      PROVE  charged \subseteq charged' /\ approved' = approved /\ Grown
  BY <1>5 DEF PaymobCharges
<1>6. ASSUME Time
      PROVE  Kept /\ Grown
  BY <1>6 DEF Time, PeriodEnds, GraceEnds, PaymentAges, SubmissionAges
<1>7. QED
  BY <1>1, <1>2, <1>3, <1>4, <1>5, <1>6 DEF Next, vars

\* What a handler may act on it may act on later too.
LEMMA CoveredGrows ==
  ASSUME [Next]_vars
  PROVE  Covered \subseteq Covered' /\ approved' \subseteq Covered'
BY HistoryGrows DEF Covered

\* Every step of a request, a delivery, the job, Paymob and time preserves it.
LEMMA StepInv == BillingInv /\ [Next]_vars => BillingInv'
<1> SUFFICES ASSUME BillingInv, [Next]_vars
             PROVE  BillingInv'
    OBVIOUS
<1>0. Covered \subseteq Covered' /\ approved' \subseteq Covered'
  BY CoveredGrows
<1> USE CausesAssumption, PlansAssumption, <1>0
    DEF BillingInv, TypeOK, MoneyTypes, SubscriptionTypes, SlotTypes, JobsCovered, SuccessAccountedFor, ListedExist,
        SubscriptionsCovered, Activating, Awaits, Causes, BetweenSaves, moneyVars, subVars,
        slotVars, Begin, Continue, Leave, Done, Live, JobRead, Enter
<1>1. ASSUME NEW r \in Slots, NEW p \in Payments, CheckoutRead(r, p)
      PROVE  BillingInv'
  BY <1>1 DEF CheckoutRead
<1>2. ASSUME NEW r \in Slots, CheckoutSave(r)
      PROVE  BillingInv'
  <2> USE <1>2 DEF CheckoutSave
  <2>1. TypeOK'
    <3>1. MoneyTypes'
      OBVIOUS
    <3>2. SubscriptionTypes'
      OBVIOUS
    <3>3. SlotTypes'
      OBVIOUS
    <3>4. QED
      BY <3>1, <3>2, <3>3
  <2>2. JobsCovered'
    OBVIOUS
  <2>3. SuccessAccountedFor'
    OBVIOUS
  <2>4. ListedExist'
    OBVIOUS
  <2>5. SubscriptionsCovered'
    OBVIOUS
  <2>6. QED
    BY <2>1, <2>2, <2>3, <2>4, <2>5
<1>3. ASSUME NEW r \in Slots, CheckoutIntention(r)
      PROVE  BillingInv'
  <2> USE <1>3 DEF CheckoutIntention
  <2>1. TypeOK'
    <3>1. MoneyTypes'
      OBVIOUS
    <3>2. SubscriptionTypes'
      OBVIOUS
    <3>3. SlotTypes'
      OBVIOUS
    <3>4. QED
      BY <3>1, <3>2, <3>3
  <2>2. JobsCovered'
    OBVIOUS
  <2>3. SuccessAccountedFor'
    OBVIOUS
  <2>4. ListedExist'
    OBVIOUS
  <2>5. SubscriptionsCovered'
    OBVIOUS
  <2>6. QED
    BY <2>1, <2>2, <2>3, <2>4, <2>5
<1>4. ASSUME NEW p \in Payments, PaymobCharges(p)
      PROVE  BillingInv'
  BY <1>4 DEF PaymobCharges
<1>5. ASSUME NEW r \in Slots, NEW p \in Payments, NEW b \in BOOLEAN,
             WebhookRead(r, p, b)
      PROVE  BillingInv'
  BY <1>5 DEF WebhookRead
<1>6. ASSUME NEW r \in Slots, WebhookSuccess(r)
      PROVE  BillingInv'
  <2> USE <1>6 DEF WebhookSuccess
  <2>1. TypeOK'
    <3>1. MoneyTypes'
      OBVIOUS
    <3>2. SubscriptionTypes'
      OBVIOUS
    <3>3. SlotTypes'
      OBVIOUS
    <3>4. QED
      BY <3>1, <3>2, <3>3
  <2>2. JobsCovered'
    OBVIOUS
  <2>3. SuccessAccountedFor'
    OBVIOUS
  <2>4. ListedExist'
    OBVIOUS
  <2>5. SubscriptionsCovered'
    OBVIOUS
  <2>6. QED
    BY <2>1, <2>2, <2>3, <2>4, <2>5
<1>7. ASSUME NEW r \in Slots, WebhookFailed(r)
      PROVE  BillingInv'
  <2> USE <1>7 DEF WebhookFailed
  <2>1. TypeOK'
    <3>1. MoneyTypes'
      OBVIOUS
    <3>2. SubscriptionTypes'
      OBVIOUS
    <3>3. SlotTypes'
      OBVIOUS
    <3>4. QED
      BY <3>1, <3>2, <3>3
  <2>2. JobsCovered'
    OBVIOUS
  <2>3. SuccessAccountedFor'
    OBVIOUS
  <2>4. ListedExist'
    OBVIOUS
  <2>5. SubscriptionsCovered'
    OBVIOUS
  <2>6. QED
    BY <2>1, <2>2, <2>3, <2>4, <2>5
<1>8. ASSUME NEW r \in Slots, ActivateExpire(r)
      PROVE  BillingInv'
  BY <1>8 DEF ActivateExpire
<1>9. ASSUME NEW r \in Slots, ActivateCreate(r)
      PROVE  BillingInv'
  <2> USE <1>9 DEF ActivateCreate
  <2>1. MoneyTypes'
    OBVIOUS
  <2>2. SubscriptionTypes'
    <3>1. job[r] \in Causes
      BY DEF Covered
    <3>2. PICK s \in Subs : /\ sub' = [sub EXCEPT ![s] = "active"]
                            /\ boughtBy' = [boughtBy EXCEPT ![s] = job[r]]
      OBVIOUS
    <3>3. QED
      BY <3>1, <3>2
  <2>3. SlotTypes'
    OBVIOUS
  <2>4. JobsCovered'
    OBVIOUS
  <2>5. SuccessAccountedFor'
    <3>1. PICK s \in Subs : /\ sub[s] = "none"
                            /\ boughtBy' = [boughtBy EXCEPT ![s] = job[r]]
      OBVIOUS
    <3>2. boughtBy'[s] = job[r] /\ \A t \in Subs \ {s} : boughtBy'[t] = boughtBy[t]
      BY <3>1
    <3>3. boughtBy[s] = Nobody
      BY <3>1
    <3>4. \A x \in Causes : (\E t \in Subs : boughtBy[t] = x) => \E t \in Subs : boughtBy'[t] = x
      BY <3>2, <3>3
    <3>5. ASSUME NEW q \in Slots,
                 pc'[q] \in {"activate.link", "activate.limit", "approve.save"}
          PROVE  \E t \in Subs : boughtBy'[t] = job'[q]
      <4>1. CASE q = r
        BY <4>1, <3>2
      <4>2. CASE q # r
        <5>1. /\ pc[q] \in {"activate.link", "activate.limit", "approve.save"}
              /\ job'[q] = job[q]
          BY <4>2, <3>5
        <5>2. job[q] \in Causes
          BY <5>1 DEF Covered
        <5>3. QED
          BY <5>1, <5>2, <3>4
      <4>3. QED
        BY <4>1, <4>2
    <3>6. ASSUME ~halfway', NEW p \in Payments, pay'[p] = "success"
          PROVE  \/ \E t \in Subs : boughtBy'[t] = p
                 \/ \E q \in Slots : /\ job'[q] = p
                                     /\ pc'[q] \in {"activate.expire", "activate.create"}
      <4>1. \/ \E t \in Subs : boughtBy[t] = p
            \/ \E q \in Slots : job[q] = p /\ pc[q] \in {"activate.expire", "activate.create"}
        BY <3>6
      <4>2. \A q \in Slots \ {r} : job'[q] = job[q] /\ pc'[q] = pc[q]
        OBVIOUS
      <4>3. QED
        BY <4>1, <4>2, <3>2, <3>4
    <3>7. QED
      BY <3>5, <3>6
  <2>6. ListedExist'
    OBVIOUS
  <2>7. SubscriptionsCovered'
    OBVIOUS
  <2>8. QED
    BY <2>1, <2>2, <2>3, <2>4, <2>5, <2>6, <2>7
<1>10. ASSUME NEW r \in Slots, ActivateLink(r)
       PROVE  BillingInv'
  BY <1>10 DEF ActivateLink
<1>11. ASSUME NEW r \in Slots, ActivateLimit(r)
       PROVE  BillingInv'
  <2> USE <1>11 DEF ActivateLimit
  <2>1. MoneyTypes'
    OBVIOUS
  <2>2. SubscriptionTypes'
    <3>1. job[r] \in Causes
      BY DEF Covered
    <3>2. PlanGb[PlanOf[job[r]]] \in Nat
      BY <3>1
    <3>3. QED
      BY <3>2
  <2>3. SlotTypes'
    OBVIOUS
  <2>4. JobsCovered'
    OBVIOUS
  <2>5. SuccessAccountedFor'
    OBVIOUS
  <2>6. ListedExist'
    OBVIOUS
  <2>7. SubscriptionsCovered'
    OBVIOUS
  <2>8. QED
    BY <2>1, <2>2, <2>3, <2>4, <2>5, <2>6, <2>7
<1>12. ASSUME NEW r \in Slots, NEW i \in Submissions, SubmitRead(r, i)
       PROVE  BillingInv'
  BY <1>12 DEF SubmitRead
<1>13. ASSUME NEW r \in Slots, SubmitSave(r)
       PROVE  BillingInv'
  <2> USE <1>13 DEF SubmitSave
  <2>1. TypeOK'
    <3>1. MoneyTypes'
      OBVIOUS
    <3>2. SubscriptionTypes'
      OBVIOUS
    <3>3. SlotTypes'
      OBVIOUS
    <3>4. QED
      BY <3>1, <3>2, <3>3
  <2>2. JobsCovered'
    OBVIOUS
  <2>3. SuccessAccountedFor'
    OBVIOUS
  <2>4. ListedExist'
    OBVIOUS
  <2>5. SubscriptionsCovered'
    OBVIOUS
  <2>6. QED
    BY <2>1, <2>2, <2>3, <2>4, <2>5
<1>14. ASSUME NEW r \in Slots, NEW i \in Submissions, ReviewApprove(r, i)
       PROVE  BillingInv'
  BY <1>14 DEF ReviewApprove
<1>15. ASSUME NEW r \in Slots, ApprovePayment(r)
       PROVE  BillingInv'
  BY <1>15 DEF ApprovePayment
<1>16. ASSUME NEW r \in Slots, ApproveSave(r)
       PROVE  BillingInv'
  <2> USE <1>16 DEF ApproveSave
  <2>1. TypeOK'
    <3>1. MoneyTypes'
      OBVIOUS
    <3>2. SubscriptionTypes'
      OBVIOUS
    <3>3. SlotTypes'
      OBVIOUS
    <3>4. QED
      BY <3>1, <3>2, <3>3
  <2>2. JobsCovered'
    OBVIOUS
  <2>3. SuccessAccountedFor'
    OBVIOUS
  <2>4. ListedExist'
    OBVIOUS
  <2>5. SubscriptionsCovered'
    OBVIOUS
  <2>6. QED
    BY <2>1, <2>2, <2>3, <2>4, <2>5
<1>17. ASSUME NEW r \in Slots, NEW i \in Submissions, ReviewReject(r, i)
       PROVE  BillingInv'
  BY <1>17 DEF ReviewReject
<1>18. ASSUME NEW r \in Slots, RejectSave(r)
       PROVE  BillingInv'
  <2> USE <1>18 DEF RejectSave
  <2>1. TypeOK'
    <3>1. MoneyTypes'
      OBVIOUS
    <3>2. SubscriptionTypes'
      OBVIOUS
    <3>3. SlotTypes'
      OBVIOUS
    <3>4. QED
      BY <3>1, <3>2, <3>3
  <2>2. JobsCovered'
    OBVIOUS
  <2>3. SuccessAccountedFor'
    OBVIOUS
  <2>4. ListedExist'
    OBVIOUS
  <2>5. SubscriptionsCovered'
    OBVIOUS
  <2>6. QED
    BY <2>1, <2>2, <2>3, <2>4, <2>5
<1>19. ASSUME NEW s \in Subs, PeriodEnds(s)
       PROVE  BillingInv'
  BY <1>19 DEF PeriodEnds
<1>20. ASSUME NEW s \in Subs, GraceEnds(s)
       PROVE  BillingInv'
  BY <1>20 DEF GraceEnds
<1>21. ASSUME NEW p \in Payments, PaymentAges(p)
       PROVE  BillingInv'
  BY <1>21 DEF PaymentAges
<1>22. ASSUME NEW i \in Submissions, SubmissionAges(i)
       PROVE  BillingInv'
  BY <1>22 DEF SubmissionAges
<1>23. ASSUME NEW r \in Slots, JobStart(r)
       PROVE  BillingInv'
  <2> USE <1>23 DEF JobStart
  <2>1. MoneyTypes'
    OBVIOUS
  <2>2. SubscriptionTypes'
    OBVIOUS
  <2>3. SlotTypes'
    <3>1. {s \in ended : sub[s] = "active"} \subseteq Subs
      OBVIOUS
    <3>2. list' \in [Slots -> SUBSET (Subs \cup Submissions)]
      BY <3>1
    <3>3. raced' \in BOOLEAN
      <4>1. raced' = (raced \/ \E q \in Slots \ {r} : ChangesStorage(q)) \/ raced' = raced
        OBVIOUS
      <4>2. QED
        BY <4>1
    <3>4. pc' \in [Slots -> Awaits \cup {"idle"}]
      OBVIOUS
    <3>5. QED
      BY <3>2, <3>3, <3>4
  <2>4. JobsCovered'
    OBVIOUS
  <2>5. SuccessAccountedFor'
    OBVIOUS
  <2>6. ListedExist'
    OBVIOUS
  <2>7. SubscriptionsCovered'
    OBVIOUS
  <2>8. QED
    BY <2>1, <2>2, <2>3, <2>4, <2>5, <2>6, <2>7
<1>24. ASSUME NEW r \in Slots, NEW s \in Subs, JobGrace(r, s)
       PROVE  BillingInv'
  BY <1>24 DEF JobGrace
<1>25. ASSUME NEW r \in Slots, JobReadLapsed(r)
       PROVE  BillingInv'
  <2> USE <1>25 DEF JobReadLapsed
  <2>1. MoneyTypes'
    OBVIOUS
  <2>2. SubscriptionTypes'
    OBVIOUS
  <2>3. SlotTypes'
    <3>1. {s \in lapsed : sub[s] = "grace"} \subseteq Subs
      OBVIOUS
    <3>2. list' \in [Slots -> SUBSET (Subs \cup Submissions)]
      BY <3>1
    <3>3. raced' \in BOOLEAN
      <4>1. raced' = (raced \/ \E q \in Slots \ {r} : ChangesStorage(q)) \/ raced' = raced
        OBVIOUS
      <4>2. QED
        BY <4>1
    <3>4. pc' \in [Slots -> Awaits \cup {"idle"}]
      OBVIOUS
    <3>5. QED
      BY <3>2, <3>3, <3>4
  <2>4. JobsCovered'
    OBVIOUS
  <2>5. SuccessAccountedFor'
    OBVIOUS
  <2>6. ListedExist'
    OBVIOUS
  <2>7. SubscriptionsCovered'
    OBVIOUS
  <2>8. QED
    BY <2>1, <2>2, <2>3, <2>4, <2>5, <2>6, <2>7
<1>26. ASSUME NEW r \in Slots, NEW s \in Subs, JobExpire(r, s)
       PROVE  BillingInv'
  BY <1>26 DEF JobExpire
<1>27. ASSUME NEW r \in Slots, JobDowngrade(r)
       PROVE  BillingInv'
  BY <1>27 DEF JobDowngrade
<1>28. ASSUME NEW r \in Slots, JobPayments(r)
       PROVE  BillingInv'
  BY <1>28 DEF JobPayments
<1>29. ASSUME NEW r \in Slots, JobReadStale(r)
       PROVE  BillingInv'
  BY <1>29 DEF JobReadStale
<1>30. ASSUME NEW r \in Slots, NEW i \in Submissions, JobSubmission(r, i)
       PROVE  BillingInv'
  BY <1>30 DEF JobSubmission
<1>31. ASSUME NEW r \in Slots, JobEnd(r)
       PROVE  BillingInv'
  BY <1>31 DEF JobEnd
<1>32. ASSUME NEW r \in Slots, Abort(r)
       PROVE  BillingInv'
  <2> USE <1>32 DEF Abort
  <2>1. TypeOK'
    <3>1. MoneyTypes'
      OBVIOUS
    <3>2. SubscriptionTypes'
      OBVIOUS
    <3>3. SlotTypes'
      OBVIOUS
    <3>4. QED
      BY <3>1, <3>2, <3>3
  <2>2. JobsCovered'
    OBVIOUS
  <2>3. SuccessAccountedFor'
    <3>1. ASSUME NEW q \in Slots,
                 pc'[q] \in {"activate.link", "activate.limit", "approve.save"}
          PROVE  \E s \in Subs : boughtBy'[s] = job'[q]
      BY <3>1
    <3>2. ASSUME ~halfway', NEW p \in Payments, pay'[p] = "success"
          PROVE  \/ \E s \in Subs : boughtBy'[s] = p
                 \/ \E q \in Slots : /\ job'[q] = p
                                     /\ pc'[q] \in {"activate.expire", "activate.create"}
      <4>1. \/ \E s \in Subs : boughtBy[s] = p
            \/ \E q \in Slots : job[q] = p /\ pc[q] \in {"activate.expire", "activate.create"}
        BY <3>2
      <4>2. pc[r] \notin {"activate.expire", "activate.create"}
        BY <3>2
      <4>3. \A q \in Slots \ {r} : job'[q] = job[q] /\ pc'[q] = pc[q]
        OBVIOUS
      <4>4. boughtBy' = boughtBy
        OBVIOUS
      <4>5. QED
        BY <4>1, <4>2, <4>3, <4>4
    <3>3. QED
      BY <3>1, <3>2
  <2>4. ListedExist'
    OBVIOUS
  <2>5. SubscriptionsCovered'
    OBVIOUS
  <2>6. QED
    BY <2>1, <2>2, <2>3, <2>4, <2>5
<1>33. ASSUME UNCHANGED vars
       PROVE  BillingInv'
  BY <1>33 DEF vars
<1> HIDE DEF BillingInv
<1>34. QED
  BY <1>1, <1>2, <1>3, <1>4, <1>5, <1>6, <1>7, <1>8, <1>9, <1>10, <1>11,
     <1>12, <1>13, <1>14, <1>15, <1>16, <1>17, <1>18, <1>19, <1>20, <1>21,
     <1>22, <1>23, <1>24, <1>25, <1>26, <1>27, <1>28, <1>29, <1>30, <1>31,
     <1>32, <1>33
  DEF Next, NewRequest, SlotStep, Time

\* The inductive invariant holds in every state the payment code can reach.
THEOREM BillingInvariant == Spec => []BillingInv
BY InitInv, StepInv, PTL DEF Spec

\* The rows, the slots and the job's lists always have their types.
THEOREM TypeCorrect == Spec => []TypeOK
<1>1. BillingInv => TypeOK
  BY DEF BillingInv
<1>2. QED
  BY <1>1, BillingInvariant, PTL

\* A payment recorded as successful is turned into a subscription by the handler
\* that recorded it, unless that handler fails between its saves: overlapping
\* deliveries, declined attempts and the job do not take it away.
THEOREM PaidSubscriptionStarts == Spec => []PaidIsActivatedIfWhole
<1>1. BillingInv => PaidIsActivatedIfWhole
  BY DEF BillingInv, SuccessAccountedFor, PaidIsActivatedIfWhole, PaidIsActivated,
         Quiet
<1>2. QED
  BY <1>1, BillingInvariant, PTL

-----------------------------------------------------------------------------
(* What is handled apart.                                                      *)

\* A set whose elements are all equal has at most one.
LEMMA AtMostOneElement ==
  ASSUME NEW S, \A x, y \in S : x = y
  PROVE  Cardinality(S) <= 1
<1>1. CASE S = {}
  BY <1>1, FS_EmptySet
<1>2. CASE S # {}
  <2>1. PICK x : x \in S
    BY <1>2
  <2>2. S = {x}
    BY <2>1
  <2>3. QED
    BY <2>2, FS_Singleton
<1>3. QED
  BY <1>1, <1>2

\* While a slot changes subscriptions and limit apart from others, no other one is
\* at a step on them.
LEMMA NobodyElse ==
  ASSUME SlotsApart, ~raced, NEW r \in Slots, ChangesStorage(r), NEW q \in Slots \ {r}
  PROVE  /\ pc[q] \notin Activating \cup {"job.downgrade"}
         /\ pc[q] \in {"job.grace", "job.expire"} => list[q] = {}
BY DEF SlotsApart, ChangesStorage

\* The same for the slot that begins to.
LEMMA NobodyYet ==
  ASSUME NEW r \in Slots, Enter(r), ~raced', NEW q \in Slots \ {r}
  PROVE  /\ pc[q] \notin Activating \cup {"job.downgrade"}
         /\ pc[q] \in {"job.grace", "job.expire"} => list[q] = {}
BY DEF Enter, ChangesStorage

\* Nobody else works on what a slot works on apart from others.
LEMMA NobodyElseOn ==
  ASSUME SlotsApart, NEW r \in Slots, job[r] \in Causes \ crossed, NEW q \in Slots \ {r}
  PROVE  job[q] # job[r] /\ (pc[q] = "job.submissions" => job[r] \notin list[q])
BY DEF SlotsApart, WorksOn

\* At the start no request runs and nothing is bought.
LEMMA InitApart == Init => ApartInv
<1>1. Init => BillingInv
  BY InitInv
<1>2. Init => JobsFit /\ SlotsApart
  BY CausesAssumption DEF Init, JobsFit, SlotsApart, WorksOn, ChangesStorage, JobAwaits, Activating, Causes
<1>3. Init => ListedAsRead /\ ProcessedOnce /\ VerdictOnce /\ LimitFollows /\ InTime
  BY CausesAssumption DEF Init, ListedAsRead, ProcessedOnce, VerdictOnce, LimitFollows, InTime,
     Live, Activating, Causes
<1>4. QED
  BY <1>1, <1>2, <1>3 DEF ApartInv

\* Every step of a request, a delivery, the job, Paymob and time, and every
\* failure, preserves it.
LEMMA StepApart == ApartInv /\ [Next]_vars => ApartInv'
<1> SUFFICES ASSUME ApartInv, [Next]_vars
             PROVE  ApartInv'
    OBVIOUS
<1>0. BillingInv'
  BY StepInv DEF ApartInv
<1> USE CausesAssumption
    DEF ApartInv, BillingInv, TypeOK, MoneyTypes, SubscriptionTypes, SlotTypes,
        ListedExist, Activating, Awaits, JobAwaits, Causes,
        BetweenSaves, moneyVars, subVars, slotVars, Begin, Continue, Leave, Done, Live,
        JobRead, PlanBought
<1>1. ASSUME NEW r \in Slots, NEW p \in Payments, CheckoutRead(r, p)
      PROVE  ApartInv'
  <2> USE <1>1 DEF CheckoutRead
  <2>1. ASSUME p \notin crossed', NEW q \in Slots
        PROVE  job[q] # p /\ (pc[q] = "job.submissions" => p \notin list[q])
    BY <2>1 DEF WorksOn
  <2>2. JobsFit'
    BY DEF JobsFit
  <2>3. SlotsApart'
    BY DEF SlotsApart, ChangesStorage, WorksOn, Enter, JobsFit
  <2>4. ListedAsRead'
    BY <2>1 DEF ListedAsRead
  <2>5. ProcessedOnce'
    BY <2>1 DEF ProcessedOnce
  <2>6. VerdictOnce'
    BY <2>1 DEF VerdictOnce
  <2>7. LimitFollows'
    BY <2>1 DEF LimitFollows
  <2>8. InTime'
    BY <2>1 DEF InTime
  <2>9. QED
    BY <2>2, <2>3, <2>4, <2>5, <2>6, <2>7, <2>8, <1>0
<1>2. ASSUME NEW r \in Slots, CheckoutSave(r)
      PROVE  ApartInv'
  <2> USE <1>2 DEF CheckoutSave
  <2>1. ASSUME job[r] \in Causes \ crossed, NEW q \in Slots \ {r}
        PROVE  job[q] # job[r] /\ (pc[q] = "job.submissions" => job[r] \notin list[q])
    BY <2>1, NobodyElseOn
  <2>2. JobsFit'
    BY DEF JobsFit
  <2>3. SlotsApart'
    BY DEF SlotsApart, ChangesStorage, WorksOn, Enter, JobsFit
  <2>4. ListedAsRead'
    BY <2>1 DEF ListedAsRead
  <2>5. ProcessedOnce'
    BY <2>1 DEF ProcessedOnce
  <2>6. VerdictOnce'
    BY <2>1 DEF VerdictOnce
  <2>7. LimitFollows'
    BY <2>1 DEF LimitFollows
  <2>8. InTime'
    BY <2>1 DEF InTime
  <2>9. QED
    BY <2>2, <2>3, <2>4, <2>5, <2>6, <2>7, <2>8, <1>0
<1>3. ASSUME NEW r \in Slots, CheckoutIntention(r)
      PROVE  ApartInv'
  <2> USE <1>3 DEF CheckoutIntention
  <2>1. ASSUME job[r] \in Causes \ crossed, NEW q \in Slots \ {r}
        PROVE  job[q] # job[r] /\ (pc[q] = "job.submissions" => job[r] \notin list[q])
    BY <2>1, NobodyElseOn
  <2>2. JobsFit'
    BY DEF JobsFit
  <2>3. SlotsApart'
    BY DEF SlotsApart, ChangesStorage, WorksOn, Enter, JobsFit
  <2>4. ListedAsRead'
    BY <2>1 DEF ListedAsRead
  <2>5. ProcessedOnce'
    BY <2>1 DEF ProcessedOnce
  <2>6. VerdictOnce'
    BY <2>1 DEF VerdictOnce
  <2>7. LimitFollows'
    BY <2>1 DEF LimitFollows
  <2>8. InTime'
    BY <2>1 DEF InTime
  <2>9. QED
    BY <2>2, <2>3, <2>4, <2>5, <2>6, <2>7, <2>8, <1>0
<1>4. ASSUME NEW p \in Payments, PaymobCharges(p)
      PROVE  ApartInv'
  <2> USE <1>4 DEF PaymobCharges
  <2>1. JobsFit'
    BY DEF JobsFit
  <2>2. SlotsApart'
    BY DEF SlotsApart, ChangesStorage, WorksOn, Enter, JobsFit
  <2>3. ListedAsRead'
    BY DEF ListedAsRead
  <2>4. ProcessedOnce'
    BY DEF ProcessedOnce
  <2>5. VerdictOnce'
    BY DEF VerdictOnce
  <2>6. LimitFollows'
    BY DEF LimitFollows
  <2>7. InTime'
    BY DEF InTime
  <2>8. QED
    BY <2>1, <2>2, <2>3, <2>4, <2>5, <2>6, <2>7, <1>0
<1>5. ASSUME NEW r \in Slots, NEW p \in Payments, NEW b \in BOOLEAN, WebhookRead(r, p, b)
      PROVE  ApartInv'
  <2> USE <1>5 DEF WebhookRead
  <2>1. ASSUME p \notin crossed', NEW q \in Slots
        PROVE  job[q] # p /\ (pc[q] = "job.submissions" => p \notin list[q])
    BY <2>1 DEF WorksOn
  <2>2. JobsFit'
    BY DEF JobsFit
  <2>3. SlotsApart'
    BY DEF SlotsApart, ChangesStorage, WorksOn, Enter, JobsFit
  <2>4. ListedAsRead'
    BY <2>1 DEF ListedAsRead
  <2>5. ProcessedOnce'
    BY <2>1 DEF ProcessedOnce
  <2>6. VerdictOnce'
    BY <2>1 DEF VerdictOnce
  <2>7. LimitFollows'
    BY <2>1 DEF LimitFollows
  <2>8. InTime'
    BY <2>1 DEF InTime
  <2>9. QED
    BY <2>2, <2>3, <2>4, <2>5, <2>6, <2>7, <2>8, <1>0
<1>6. ASSUME NEW r \in Slots, WebhookSuccess(r)
      PROVE  ApartInv'
  <2> USE <1>6 DEF WebhookSuccess
  <2>1. ASSUME ~raced', NEW q \in Slots \ {r}
        PROVE  /\ pc[q] \notin Activating \cup {"job.downgrade"}
               /\ pc[q] \in {"job.grace", "job.expire"} => list[q] = {}
    BY <2>1, NobodyYet
  <2>2. ASSUME job[r] \in Causes \ crossed, NEW q \in Slots \ {r}
        PROVE  job[q] # job[r] /\ (pc[q] = "job.submissions" => job[r] \notin list[q])
    BY <2>2, NobodyElseOn
  <2>3. ~raced' => ~raced
    BY Zenon DEF Enter
  <2>4. JobsFit'
    BY DEF JobsFit
  <2>5. SlotsApart'
    <3>1. ASSUME ~raced', NEW q \in Slots \ {r}
          PROVE  ~ChangesStorage(q)'
      BY <3>1, <2>1, <2>2, <2>3 DEF ChangesStorage
    <3>2. \A q \in Slots, x \in Causes : WorksOn(q, x)' => WorksOn(q, x)
      BY DEF WorksOn
    <3>3. crossed' = crossed
      OBVIOUS
    <3>4. QED
      BY <3>1, <3>2, <3>3 DEF SlotsApart
  <2>6. ListedAsRead'
    BY <2>1, <2>2, <2>3 DEF ListedAsRead
  <2>7. ProcessedOnce'
    BY <2>1, <2>2, <2>3 DEF ProcessedOnce
  <2>8. VerdictOnce'
    BY <2>1, <2>2, <2>3 DEF VerdictOnce, JobsFit
  <2>9. LimitFollows'
    BY <2>1, <2>2, <2>3 DEF LimitFollows
  <2>10. InTime'
    BY <2>1, <2>2, <2>3 DEF InTime
  <2>11. QED
    BY <2>4, <2>5, <2>6, <2>7, <2>8, <2>9, <2>10, <1>0
<1>7. ASSUME NEW r \in Slots, WebhookFailed(r)
      PROVE  ApartInv'
  <2> USE <1>7 DEF WebhookFailed
  <2>1. ASSUME job[r] \in Causes \ crossed, NEW q \in Slots \ {r}
        PROVE  job[q] # job[r] /\ (pc[q] = "job.submissions" => job[r] \notin list[q])
    BY <2>1, NobodyElseOn
  <2>2. JobsFit'
    BY DEF JobsFit
  <2>3. SlotsApart'
    BY DEF SlotsApart, ChangesStorage, WorksOn, Enter, JobsFit
  <2>4. ListedAsRead'
    BY <2>1 DEF ListedAsRead
  <2>5. ProcessedOnce'
    BY <2>1 DEF ProcessedOnce
  <2>6. VerdictOnce'
    BY <2>1 DEF VerdictOnce
  <2>7. LimitFollows'
    BY <2>1 DEF LimitFollows
  <2>8. InTime'
    BY <2>1 DEF InTime
  <2>9. QED
    BY <2>2, <2>3, <2>4, <2>5, <2>6, <2>7, <2>8, <1>0
<1>8. ASSUME NEW r \in Slots, ActivateExpire(r)
      PROVE  ApartInv'
  <2> USE <1>8 DEF ActivateExpire
  <2>1. ASSUME ~raced, NEW q \in Slots \ {r}
        PROVE  /\ pc[q] \notin Activating \cup {"job.downgrade"}
               /\ pc[q] \in {"job.grace", "job.expire"} => list[q] = {}
    BY <2>1, NobodyElse DEF ChangesStorage
  <2>2. ASSUME job[r] \in Causes \ crossed, NEW q \in Slots \ {r}
        PROVE  job[q] # job[r] /\ (pc[q] = "job.submissions" => job[r] \notin list[q])
    BY <2>2, NobodyElseOn
  <2>3. JobsFit'
    BY DEF JobsFit
  <2>4. SlotsApart'
    BY DEF SlotsApart, ChangesStorage, WorksOn, Enter, JobsFit
  <2>5. ListedAsRead'
    BY <2>1, <2>2 DEF ListedAsRead
  <2>6. ProcessedOnce'
    BY <2>1, <2>2 DEF ProcessedOnce
  <2>7. VerdictOnce'
    BY <2>1, <2>2 DEF VerdictOnce
  <2>8. LimitFollows'
    BY <2>1, <2>2 DEF LimitFollows
  <2>9. InTime'
    BY <2>1, <2>2 DEF InTime
  <2>10. QED
    BY <2>3, <2>4, <2>5, <2>6, <2>7, <2>8, <2>9, <1>0
<1>9. ASSUME NEW r \in Slots, ActivateCreate(r)
      PROVE  ApartInv'
  <2> USE <1>9 DEF ActivateCreate
  <2>1. ASSUME ~raced, NEW q \in Slots \ {r}
        PROVE  /\ pc[q] \notin Activating \cup {"job.downgrade"}
               /\ pc[q] \in {"job.grace", "job.expire"} => list[q] = {}
    BY <2>1, NobodyElse DEF ChangesStorage
  <2>2. ASSUME job[r] \in Causes \ crossed, NEW q \in Slots \ {r}
        PROVE  job[q] # job[r] /\ (pc[q] = "job.submissions" => job[r] \notin list[q])
    BY <2>2, NobodyElseOn
  <2>3. JobsFit'
    BY DEF JobsFit
  <2>4. SlotsApart'
    BY DEF SlotsApart, ChangesStorage, WorksOn, Enter, JobsFit
  <2>5. ListedAsRead'
    BY <2>1, <2>2 DEF ListedAsRead
  <2>6. ProcessedOnce'
    BY <2>1, <2>2 DEF ProcessedOnce
  <2>7. VerdictOnce'
    BY <2>1, <2>2 DEF VerdictOnce
  <2>8. LimitFollows'
    BY <2>1, <2>2 DEF LimitFollows
  <2>9. InTime'
    BY <2>1, <2>2 DEF InTime, ListedAsRead
  <2>10. QED
    BY <2>3, <2>4, <2>5, <2>6, <2>7, <2>8, <2>9, <1>0
<1>10. ASSUME NEW r \in Slots, ActivateLink(r)
       PROVE  ApartInv'
  <2> USE <1>10 DEF ActivateLink
  <2>1. ASSUME ~raced, NEW q \in Slots \ {r}
        PROVE  /\ pc[q] \notin Activating \cup {"job.downgrade"}
               /\ pc[q] \in {"job.grace", "job.expire"} => list[q] = {}
    BY <2>1, NobodyElse DEF ChangesStorage
  <2>2. ASSUME job[r] \in Causes \ crossed, NEW q \in Slots \ {r}
        PROVE  job[q] # job[r] /\ (pc[q] = "job.submissions" => job[r] \notin list[q])
    BY <2>2, NobodyElseOn
  <2>3. JobsFit'
    BY DEF JobsFit
  <2>4. SlotsApart'
    BY DEF SlotsApart, ChangesStorage, WorksOn, Enter, JobsFit
  <2>5. ListedAsRead'
    BY <2>1, <2>2 DEF ListedAsRead
  <2>6. ProcessedOnce'
    BY <2>1, <2>2 DEF ProcessedOnce
  <2>7. VerdictOnce'
    BY <2>1, <2>2 DEF VerdictOnce
  <2>8. LimitFollows'
    BY <2>1, <2>2 DEF LimitFollows
  <2>9. InTime'
    BY <2>1, <2>2 DEF InTime
  <2>10. QED
    BY <2>3, <2>4, <2>5, <2>6, <2>7, <2>8, <2>9, <1>0
<1>11. ASSUME NEW r \in Slots, ActivateLimit(r)
       PROVE  ApartInv'
  <2> USE <1>11 DEF ActivateLimit
  <2>1. ASSUME ~raced, NEW q \in Slots \ {r}
        PROVE  /\ pc[q] \notin Activating \cup {"job.downgrade"}
               /\ pc[q] \in {"job.grace", "job.expire"} => list[q] = {}
    BY <2>1, NobodyElse DEF ChangesStorage
  <2>2. ASSUME job[r] \in Causes \ crossed, NEW q \in Slots \ {r}
        PROVE  job[q] # job[r] /\ (pc[q] = "job.submissions" => job[r] \notin list[q])
    BY <2>2, NobodyElseOn
  <2>3. JobsFit'
    BY DEF JobsFit
  <2>4. SlotsApart'
    BY DEF SlotsApart, ChangesStorage, WorksOn, Enter, JobsFit
  <2>5. ListedAsRead'
    BY <2>1, <2>2 DEF ListedAsRead
  <2>6. ProcessedOnce'
    BY <2>1, <2>2 DEF ProcessedOnce
  <2>7. VerdictOnce'
    BY <2>1, <2>2 DEF VerdictOnce
  <2>8. LimitFollows'
    BY <2>1, <2>2 DEF LimitFollows, ListedAsRead
  <2>9. InTime'
    BY <2>1, <2>2 DEF InTime
  <2>10. QED
    BY <2>3, <2>4, <2>5, <2>6, <2>7, <2>8, <2>9, <1>0
<1>12. ASSUME NEW r \in Slots, NEW i \in Submissions, SubmitRead(r, i)
       PROVE  ApartInv'
  <2> USE <1>12 DEF SubmitRead
  <2>1. ASSUME i \notin crossed', NEW q \in Slots
        PROVE  job[q] # i /\ (pc[q] = "job.submissions" => i \notin list[q])
    BY <2>1 DEF WorksOn
  <2>2. JobsFit'
    BY DEF JobsFit
  <2>3. SlotsApart'
    BY DEF SlotsApart, ChangesStorage, WorksOn, Enter, JobsFit
  <2>4. ListedAsRead'
    BY <2>1 DEF ListedAsRead
  <2>5. ProcessedOnce'
    BY <2>1 DEF ProcessedOnce
  <2>6. VerdictOnce'
    BY <2>1 DEF VerdictOnce
  <2>7. LimitFollows'
    BY <2>1 DEF LimitFollows
  <2>8. InTime'
    BY <2>1 DEF InTime
  <2>9. QED
    BY <2>2, <2>3, <2>4, <2>5, <2>6, <2>7, <2>8, <1>0
<1>13. ASSUME NEW r \in Slots, SubmitSave(r)
       PROVE  ApartInv'
  <2> USE <1>13 DEF SubmitSave
  <2>1. ASSUME job[r] \in Causes \ crossed, NEW q \in Slots \ {r}
        PROVE  job[q] # job[r] /\ (pc[q] = "job.submissions" => job[r] \notin list[q])
    BY <2>1, NobodyElseOn
  <2>2. JobsFit'
    BY DEF JobsFit
  <2>3. SlotsApart'
    BY DEF SlotsApart, ChangesStorage, WorksOn, Enter, JobsFit
  <2>4. ListedAsRead'
    BY <2>1 DEF ListedAsRead
  <2>5. ProcessedOnce'
    BY <2>1 DEF ProcessedOnce
  <2>6. VerdictOnce'
    BY <2>1 DEF VerdictOnce
  <2>7. LimitFollows'
    BY <2>1 DEF LimitFollows
  <2>8. InTime'
    BY <2>1 DEF InTime
  <2>9. QED
    BY <2>2, <2>3, <2>4, <2>5, <2>6, <2>7, <2>8, <1>0
<1>14. ASSUME NEW r \in Slots, NEW i \in Submissions, ReviewApprove(r, i)
       PROVE  ApartInv'
  <2> USE <1>14 DEF ReviewApprove
  <2>1. ASSUME i \notin crossed', NEW q \in Slots
        PROVE  job[q] # i /\ (pc[q] = "job.submissions" => i \notin list[q])
    BY <2>1 DEF WorksOn
  <2>2. JobsFit'
    BY DEF JobsFit
  <2>3. SlotsApart'
    BY DEF SlotsApart, ChangesStorage, WorksOn, Enter, JobsFit
  <2>4. ListedAsRead'
    BY <2>1 DEF ListedAsRead
  <2>5. ProcessedOnce'
    BY <2>1 DEF ProcessedOnce
  <2>6. VerdictOnce'
    BY <2>1 DEF VerdictOnce
  <2>7. LimitFollows'
    BY <2>1 DEF LimitFollows
  <2>8. InTime'
    BY <2>1 DEF InTime
  <2>9. QED
    BY <2>2, <2>3, <2>4, <2>5, <2>6, <2>7, <2>8, <1>0
<1>15. ASSUME NEW r \in Slots, ApprovePayment(r)
       PROVE  ApartInv'
  <2> USE <1>15 DEF ApprovePayment
  <2>1. ASSUME ~raced', NEW q \in Slots \ {r}
        PROVE  /\ pc[q] \notin Activating \cup {"job.downgrade"}
               /\ pc[q] \in {"job.grace", "job.expire"} => list[q] = {}
    BY <2>1, NobodyYet
  <2>2. ASSUME job[r] \in Causes \ crossed, NEW q \in Slots \ {r}
        PROVE  job[q] # job[r] /\ (pc[q] = "job.submissions" => job[r] \notin list[q])
    BY <2>2, NobodyElseOn
  <2>3. ~raced' => ~raced
    BY Zenon DEF Enter
  <2>4. JobsFit'
    BY DEF JobsFit
  <2>5. SlotsApart'
    <3>1. ASSUME ~raced', NEW q \in Slots \ {r}
          PROVE  ~ChangesStorage(q)'
      BY <3>1, <2>1, <2>2, <2>3 DEF ChangesStorage
    <3>2. \A q \in Slots, x \in Causes : WorksOn(q, x)' => WorksOn(q, x)
      BY DEF WorksOn
    <3>3. crossed' = crossed
      OBVIOUS
    <3>4. QED
      BY <3>1, <3>2, <3>3 DEF SlotsApart
  <2>6. ListedAsRead'
    BY <2>1, <2>2, <2>3 DEF ListedAsRead
  <2>7. ProcessedOnce'
    BY <2>1, <2>2, <2>3 DEF ProcessedOnce, JobsFit
  <2>8. VerdictOnce'
    BY <2>1, <2>2, <2>3 DEF VerdictOnce
  <2>9. LimitFollows'
    BY <2>1, <2>2, <2>3 DEF LimitFollows
  <2>10. InTime'
    BY <2>1, <2>2, <2>3 DEF InTime
  <2>11. QED
    BY <2>4, <2>5, <2>6, <2>7, <2>8, <2>9, <2>10, <1>0
<1>16. ASSUME NEW r \in Slots, ApproveSave(r)
       PROVE  ApartInv'
  <2> USE <1>16 DEF ApproveSave
  <2>1. ASSUME job[r] \in Causes \ crossed, NEW q \in Slots \ {r}
        PROVE  job[q] # job[r] /\ (pc[q] = "job.submissions" => job[r] \notin list[q])
    BY <2>1, NobodyElseOn
  <2>2. JobsFit'
    BY DEF JobsFit
  <2>3. SlotsApart'
    BY DEF SlotsApart, ChangesStorage, WorksOn, Enter, JobsFit
  <2>4. ListedAsRead'
    BY <2>1 DEF ListedAsRead
  <2>5. ProcessedOnce'
    BY <2>1 DEF ProcessedOnce
  <2>6. VerdictOnce'
    BY <2>1 DEF VerdictOnce
  <2>7. LimitFollows'
    BY <2>1 DEF LimitFollows
  <2>8. InTime'
    BY <2>1 DEF InTime
  <2>9. QED
    BY <2>2, <2>3, <2>4, <2>5, <2>6, <2>7, <2>8, <1>0
<1>17. ASSUME NEW r \in Slots, NEW i \in Submissions, ReviewReject(r, i)
       PROVE  ApartInv'
  <2> USE <1>17 DEF ReviewReject
  <2>1. ASSUME i \notin crossed', NEW q \in Slots
        PROVE  job[q] # i /\ (pc[q] = "job.submissions" => i \notin list[q])
    BY <2>1 DEF WorksOn
  <2>2. JobsFit'
    BY DEF JobsFit
  <2>3. SlotsApart'
    BY DEF SlotsApart, ChangesStorage, WorksOn, Enter, JobsFit
  <2>4. ListedAsRead'
    BY <2>1 DEF ListedAsRead
  <2>5. ProcessedOnce'
    BY <2>1 DEF ProcessedOnce
  <2>6. VerdictOnce'
    BY <2>1 DEF VerdictOnce
  <2>7. LimitFollows'
    BY <2>1 DEF LimitFollows
  <2>8. InTime'
    BY <2>1 DEF InTime
  <2>9. QED
    BY <2>2, <2>3, <2>4, <2>5, <2>6, <2>7, <2>8, <1>0
<1>18. ASSUME NEW r \in Slots, RejectSave(r)
       PROVE  ApartInv'
  <2> USE <1>18 DEF RejectSave
  <2>1. ASSUME job[r] \in Causes \ crossed, NEW q \in Slots \ {r}
        PROVE  job[q] # job[r] /\ (pc[q] = "job.submissions" => job[r] \notin list[q])
    BY <2>1, NobodyElseOn
  <2>2. JobsFit'
    BY DEF JobsFit
  <2>3. SlotsApart'
    BY DEF SlotsApart, ChangesStorage, WorksOn, Enter, JobsFit
  <2>4. ListedAsRead'
    BY <2>1 DEF ListedAsRead
  <2>5. ProcessedOnce'
    BY <2>1 DEF ProcessedOnce
  <2>6. VerdictOnce'
    BY <2>1 DEF VerdictOnce
  <2>7. LimitFollows'
    BY <2>1 DEF LimitFollows
  <2>8. InTime'
    BY <2>1 DEF InTime
  <2>9. QED
    BY <2>2, <2>3, <2>4, <2>5, <2>6, <2>7, <2>8, <1>0
<1>19. ASSUME NEW s \in Subs, PeriodEnds(s)
       PROVE  ApartInv'
  <2> USE <1>19 DEF PeriodEnds
  <2>1. JobsFit'
    BY DEF JobsFit
  <2>2. SlotsApart'
    BY DEF SlotsApart, ChangesStorage, WorksOn, Enter, JobsFit
  <2>3. ListedAsRead'
    BY DEF ListedAsRead
  <2>4. ProcessedOnce'
    BY DEF ProcessedOnce
  <2>5. VerdictOnce'
    BY DEF VerdictOnce
  <2>6. LimitFollows'
    BY DEF LimitFollows
  <2>7. InTime'
    BY DEF InTime
  <2>8. QED
    BY <2>1, <2>2, <2>3, <2>4, <2>5, <2>6, <2>7, <1>0
<1>20. ASSUME NEW s \in Subs, GraceEnds(s)
       PROVE  ApartInv'
  <2> USE <1>20 DEF GraceEnds
  <2>1. JobsFit'
    BY DEF JobsFit
  <2>2. SlotsApart'
    BY DEF SlotsApart, ChangesStorage, WorksOn, Enter, JobsFit
  <2>3. ListedAsRead'
    BY DEF ListedAsRead
  <2>4. ProcessedOnce'
    BY DEF ProcessedOnce
  <2>5. VerdictOnce'
    BY DEF VerdictOnce
  <2>6. LimitFollows'
    BY DEF LimitFollows
  <2>7. InTime'
    BY DEF InTime
  <2>8. QED
    BY <2>1, <2>2, <2>3, <2>4, <2>5, <2>6, <2>7, <1>0
<1>21. ASSUME NEW p \in Payments, PaymentAges(p)
       PROVE  ApartInv'
  <2> USE <1>21 DEF PaymentAges
  <2>1. JobsFit'
    BY DEF JobsFit
  <2>2. SlotsApart'
    BY DEF SlotsApart, ChangesStorage, WorksOn, Enter, JobsFit
  <2>3. ListedAsRead'
    BY DEF ListedAsRead
  <2>4. ProcessedOnce'
    BY DEF ProcessedOnce
  <2>5. VerdictOnce'
    BY DEF VerdictOnce
  <2>6. LimitFollows'
    BY DEF LimitFollows
  <2>7. InTime'
    BY DEF InTime
  <2>8. QED
    BY <2>1, <2>2, <2>3, <2>4, <2>5, <2>6, <2>7, <1>0
<1>22. ASSUME NEW i \in Submissions, SubmissionAges(i)
       PROVE  ApartInv'
  <2> USE <1>22 DEF SubmissionAges
  <2>1. JobsFit'
    BY DEF JobsFit
  <2>2. SlotsApart'
    BY DEF SlotsApart, ChangesStorage, WorksOn, Enter, JobsFit
  <2>3. ListedAsRead'
    BY DEF ListedAsRead
  <2>4. ProcessedOnce'
    BY DEF ProcessedOnce
  <2>5. VerdictOnce'
    BY DEF VerdictOnce
  <2>6. LimitFollows'
    BY DEF LimitFollows
  <2>7. InTime'
    BY DEF InTime
  <2>8. QED
    BY <2>1, <2>2, <2>3, <2>4, <2>5, <2>6, <2>7, <1>0
<1>23. ASSUME NEW r \in Slots, JobStart(r)
       PROVE  ApartInv'
  <2> USE <1>23 DEF JobStart
  <2>1. ASSUME ~raced', list'[r] # {}, NEW q \in Slots \ {r}
        PROVE  /\ pc[q] \notin Activating \cup {"job.downgrade"}
               /\ pc[q] \in {"job.grace", "job.expire"} => list[q] = {}
    BY <2>1, NobodyYet
  <2>2. ~raced' => ~raced
    BY Zenon DEF Enter
  <2>3. JobsFit'
    BY DEF JobsFit
  <2>4. SlotsApart'
    <3>1. ASSUME ~raced', NEW p \in Slots, NEW q \in Slots,
                 ChangesStorage(p)', ChangesStorage(q)'
          PROVE  p = q
      <4>1. CASE list'[r] # {}
        <5>1. ASSUME NEW t \in Slots \ {r}
              PROVE  ~ChangesStorage(t)'
          BY <3>1, <4>1, <5>1, <2>1, <2>2 DEF ChangesStorage
        <5>2. QED
          BY <3>1, <5>1
      <4>2. CASE list'[r] = {}
        <5>1. ~ChangesStorage(r)'
          BY <4>2 DEF ChangesStorage
        <5>2. \A t \in Slots \ {r} : ChangesStorage(t)' => ChangesStorage(t)
          BY DEF ChangesStorage
        <5>3. ~raced
          BY <3>1, <2>1, <2>2
        <5>4. QED
          BY <3>1, <5>1, <5>2, <5>3 DEF SlotsApart
      <4>3. QED
        BY <4>1, <4>2
    <3>2. \A q \in Slots, x \in Causes : WorksOn(q, x)' => WorksOn(q, x)
      BY DEF WorksOn
    <3>3. crossed' = crossed
      OBVIOUS
    <3>4. QED
      BY <3>1, <3>2, <3>3 DEF SlotsApart
  <2>5. ListedAsRead'
    BY <2>1, <2>2 DEF ListedAsRead
  <2>6. ProcessedOnce'
    BY <2>1, <2>2 DEF ProcessedOnce
  <2>7. VerdictOnce'
    BY <2>1, <2>2 DEF VerdictOnce
  <2>8. LimitFollows'
    BY <2>1, <2>2 DEF LimitFollows
  <2>9. InTime'
    BY <2>1, <2>2 DEF InTime
  <2>10. QED
    BY <2>3, <2>4, <2>5, <2>6, <2>7, <2>8, <2>9, <1>0
<1>24. ASSUME NEW r \in Slots, NEW s \in Subs, JobGrace(r, s)
       PROVE  ApartInv'
  <2> USE <1>24 DEF JobGrace
  <2>1. ASSUME ~raced, NEW q \in Slots \ {r}
        PROVE  /\ pc[q] \notin Activating \cup {"job.downgrade"}
               /\ pc[q] \in {"job.grace", "job.expire"} => list[q] = {}
    BY <2>1, NobodyElse DEF ChangesStorage
  <2>2. JobsFit'
    BY DEF JobsFit
  <2>3. SlotsApart'
    BY DEF SlotsApart, ChangesStorage, WorksOn, Enter, JobsFit
  <2>4. ListedAsRead'
    BY <2>1 DEF ListedAsRead
  <2>5. ProcessedOnce'
    BY <2>1 DEF ProcessedOnce
  <2>6. VerdictOnce'
    BY <2>1 DEF VerdictOnce
  <2>7. LimitFollows'
    BY <2>1 DEF LimitFollows, ListedAsRead
  <2>8. InTime'
    BY <2>1 DEF InTime
  <2>9. QED
    BY <2>2, <2>3, <2>4, <2>5, <2>6, <2>7, <2>8, <1>0
<1>25. ASSUME NEW r \in Slots, JobReadLapsed(r)
       PROVE  ApartInv'
  <2> USE <1>25 DEF JobReadLapsed
  <2>1. ASSUME ~raced', list'[r] # {}, NEW q \in Slots \ {r}
        PROVE  /\ pc[q] \notin Activating \cup {"job.downgrade"}
               /\ pc[q] \in {"job.grace", "job.expire"} => list[q] = {}
    BY <2>1, NobodyYet
  <2>2. ~raced' => ~raced
    BY Zenon DEF Enter
  <2>3. JobsFit'
    BY DEF JobsFit
  <2>4. SlotsApart'
    <3>1. ASSUME ~raced', NEW p \in Slots, NEW q \in Slots,
                 ChangesStorage(p)', ChangesStorage(q)'
          PROVE  p = q
      <4>1. CASE list'[r] # {}
        <5>1. ASSUME NEW t \in Slots \ {r}
              PROVE  ~ChangesStorage(t)'
          BY <3>1, <4>1, <5>1, <2>1, <2>2 DEF ChangesStorage
        <5>2. QED
          BY <3>1, <5>1
      <4>2. CASE list'[r] = {}
        <5>1. ~ChangesStorage(r)'
          BY <4>2 DEF ChangesStorage
        <5>2. \A t \in Slots \ {r} : ChangesStorage(t)' => ChangesStorage(t)
          BY DEF ChangesStorage
        <5>3. ~raced
          BY <3>1, <2>1, <2>2
        <5>4. QED
          BY <3>1, <5>1, <5>2, <5>3 DEF SlotsApart
      <4>3. QED
        BY <4>1, <4>2
    <3>2. \A q \in Slots, x \in Causes : WorksOn(q, x)' => WorksOn(q, x)
      BY DEF WorksOn
    <3>3. crossed' = crossed
      OBVIOUS
    <3>4. QED
      BY <3>1, <3>2, <3>3 DEF SlotsApart
  <2>5. ListedAsRead'
    BY <2>1, <2>2 DEF ListedAsRead
  <2>6. ProcessedOnce'
    BY <2>1, <2>2 DEF ProcessedOnce
  <2>7. VerdictOnce'
    BY <2>1, <2>2 DEF VerdictOnce
  <2>8. LimitFollows'
    BY <2>1, <2>2 DEF LimitFollows
  <2>9. InTime'
    BY <2>1, <2>2 DEF InTime
  <2>10. QED
    BY <2>3, <2>4, <2>5, <2>6, <2>7, <2>8, <2>9, <1>0
<1>26. ASSUME NEW r \in Slots, NEW s \in Subs, JobExpire(r, s)
       PROVE  ApartInv'
  <2> USE <1>26 DEF JobExpire
  <2>1. ASSUME ~raced, NEW q \in Slots \ {r}
        PROVE  /\ pc[q] \notin Activating \cup {"job.downgrade"}
               /\ pc[q] \in {"job.grace", "job.expire"} => list[q] = {}
    BY <2>1, NobodyElse DEF ChangesStorage
  <2>2. JobsFit'
    BY DEF JobsFit
  <2>3. SlotsApart'
    BY DEF SlotsApart, ChangesStorage, WorksOn, Enter, JobsFit
  <2>4. ListedAsRead'
    BY <2>1 DEF ListedAsRead
  <2>5. ProcessedOnce'
    BY <2>1 DEF ProcessedOnce
  <2>6. VerdictOnce'
    BY <2>1 DEF VerdictOnce
  <2>7. LimitFollows'
    BY <2>1 DEF LimitFollows
  <2>8. InTime'
    BY <2>1 DEF InTime
  <2>9. QED
    BY <2>2, <2>3, <2>4, <2>5, <2>6, <2>7, <2>8, <1>0
<1>27. ASSUME NEW r \in Slots, JobDowngrade(r)
       PROVE  ApartInv'
  <2> USE <1>27 DEF JobDowngrade
  <2>1. ASSUME ~raced, NEW q \in Slots \ {r}
        PROVE  /\ pc[q] \notin Activating \cup {"job.downgrade"}
               /\ pc[q] \in {"job.grace", "job.expire"} => list[q] = {}
    BY <2>1, NobodyElse DEF ChangesStorage
  <2>2. JobsFit'
    BY DEF JobsFit
  <2>3. SlotsApart'
    BY DEF SlotsApart, ChangesStorage, WorksOn, Enter, JobsFit
  <2>4. ListedAsRead'
    BY <2>1 DEF ListedAsRead
  <2>5. ProcessedOnce'
    BY <2>1 DEF ProcessedOnce
  <2>6. VerdictOnce'
    BY <2>1 DEF VerdictOnce
  <2>7. LimitFollows'
    BY <2>1 DEF LimitFollows, ListedAsRead
  <2>8. InTime'
    BY <2>1 DEF InTime
  <2>9. QED
    BY <2>2, <2>3, <2>4, <2>5, <2>6, <2>7, <2>8, <1>0
<1>28. ASSUME NEW r \in Slots, JobPayments(r)
       PROVE  ApartInv'
  <2> USE <1>28 DEF JobPayments
  <2>1. JobsFit'
    BY DEF JobsFit
  <2>2. SlotsApart'
    BY DEF SlotsApart, ChangesStorage, WorksOn, Enter, JobsFit
  <2>3. ListedAsRead'
    BY DEF ListedAsRead
  <2>4. ProcessedOnce'
    BY DEF ProcessedOnce
  <2>5. VerdictOnce'
    BY DEF VerdictOnce
  <2>6. LimitFollows'
    BY DEF LimitFollows
  <2>7. InTime'
    BY DEF InTime
  <2>8. QED
    BY <2>1, <2>2, <2>3, <2>4, <2>5, <2>6, <2>7, <1>0
<1>29. ASSUME NEW r \in Slots, JobReadStale(r)
       PROVE  ApartInv'
  <2> USE <1>29 DEF JobReadStale
  <2>1. JobsFit'
    BY DEF JobsFit
  <2>2. SlotsApart'
    BY DEF SlotsApart, ChangesStorage, WorksOn, Enter, JobsFit
  <2>3. ListedAsRead'
    BY DEF ListedAsRead
  <2>4. ProcessedOnce'
    BY DEF ProcessedOnce
  <2>5. VerdictOnce'
    BY DEF VerdictOnce
  <2>6. LimitFollows'
    BY DEF LimitFollows
  <2>7. InTime'
    BY DEF InTime
  <2>8. QED
    BY <2>1, <2>2, <2>3, <2>4, <2>5, <2>6, <2>7, <1>0
<1>30. ASSUME NEW r \in Slots, NEW i \in Submissions, JobSubmission(r, i)
       PROVE  ApartInv'
  <2> USE <1>30 DEF JobSubmission
  <2>1. ASSUME i \notin crossed, NEW q \in Slots \ {r}
        PROVE  job[q] # i /\ (pc[q] = "job.submissions" => i \notin list[q])
    BY <2>1 DEF SlotsApart, WorksOn
  <2>2. JobsFit'
    BY DEF JobsFit
  <2>3. SlotsApart'
    BY DEF SlotsApart, ChangesStorage, WorksOn, Enter, JobsFit
  <2>4. ListedAsRead'
    BY <2>1 DEF ListedAsRead
  <2>5. ProcessedOnce'
    BY <2>1 DEF ProcessedOnce
  <2>6. VerdictOnce'
    BY <2>1 DEF VerdictOnce, ListedAsRead
  <2>7. LimitFollows'
    BY <2>1 DEF LimitFollows
  <2>8. InTime'
    BY <2>1 DEF InTime
  <2>9. QED
    BY <2>2, <2>3, <2>4, <2>5, <2>6, <2>7, <2>8, <1>0
<1>31. ASSUME NEW r \in Slots, JobEnd(r)
       PROVE  ApartInv'
  <2> USE <1>31 DEF JobEnd
  <2>1. JobsFit'
    BY DEF JobsFit
  <2>2. SlotsApart'
    BY DEF SlotsApart, ChangesStorage, WorksOn, Enter, JobsFit
  <2>3. ListedAsRead'
    BY DEF ListedAsRead
  <2>4. ProcessedOnce'
    BY DEF ProcessedOnce
  <2>5. VerdictOnce'
    BY DEF VerdictOnce
  <2>6. LimitFollows'
    BY DEF LimitFollows
  <2>7. InTime'
    BY DEF InTime
  <2>8. QED
    BY <2>1, <2>2, <2>3, <2>4, <2>5, <2>6, <2>7, <1>0
<1>32. ASSUME NEW r \in Slots, Abort(r)
       PROVE  ApartInv'
  <2> USE <1>32 DEF Abort
  <2>1. JobsFit'
    BY DEF JobsFit
  <2>2. SlotsApart'
    BY DEF SlotsApart, ChangesStorage, WorksOn, Enter, JobsFit
  <2>3. ListedAsRead'
    BY DEF ListedAsRead
  <2>4. ProcessedOnce'
    BY DEF ProcessedOnce
  <2>5. VerdictOnce'
    <3>1. /\ job' = [job EXCEPT ![r] = Nobody] /\ pc' = [pc EXCEPT ![r] = "idle"]
          /\ UNCHANGED <<boughtBy, inst, crossed>>
      OBVIOUS
    <3>2. \A q \in Slots, i \in Submissions : job'[q] = i =>
            q # r /\ job[q] = i /\ pc'[q] = pc[q]
      BY <3>1
    <3>3. ASSUME ~halfway', NEW i \in Submissions \ crossed, NEW s \in Subs, boughtBy[s] = i
          PROVE  \/ inst[i] = "approved"
                 \/ \E q \in Slots : job'[q] = i
                      /\ pc'[q] \in {"activate.link", "activate.limit", "approve.save"}
      <4>1. ~halfway /\ pc[r] \notin {"activate.link", "activate.limit", "approve.save"}
        BY <3>3
      <4>2. \/ inst[i] = "approved"
            \/ \E q \in Slots : job[q] = i
                 /\ pc[q] \in {"activate.link", "activate.limit", "approve.save"}
        BY <3>3, <4>1 DEF VerdictOnce
      <4>3. QED
        BY <4>1, <4>2, <3>1
    <3>4. QED
      BY <3>1, <3>2, <3>3 DEF VerdictOnce
  <2>6. LimitFollows'
    <3>1. UNCHANGED <<subVars, raced>>
      OBVIOUS
    <3>2. \A q \in Slots : pc'[q] # pc[q] => q = r /\ pc'[q] = "idle"
      OBVIOUS
    <3>3. \A q \in Slots : pc'[q] = "idle" \/ job'[q] = job[q]
      OBVIOUS
    <3>4. ~halfway' => ~halfway /\ pc[r] \notin BetweenSaves
      OBVIOUS
    <3>5. QED
      BY <3>1, <3>2, <3>3, <3>4 DEF LimitFollows
  <2>7. InTime'
    BY DEF InTime
  <2>8. QED
    BY <2>1, <2>2, <2>3, <2>4, <2>5, <2>6, <2>7, <1>0
<1>33. ASSUME UNCHANGED vars
       PROVE  ApartInv'
  BY <1>33, <1>0 DEF vars, JobsFit, SlotsApart, ChangesStorage, WorksOn, ListedAsRead,
     ProcessedOnce, VerdictOnce, LimitFollows, InTime
<1> HIDE DEF ApartInv
<1>34. QED
  BY <1>1, <1>2, <1>3, <1>4, <1>5, <1>6, <1>7, <1>8, <1>9, <1>10, <1>11,
     <1>12, <1>13, <1>14, <1>15, <1>16, <1>17, <1>18, <1>19, <1>20, <1>21,
     <1>22, <1>23, <1>24, <1>25, <1>26, <1>27, <1>28, <1>29, <1>30, <1>31,
     <1>32, <1>33
  DEF Next, NewRequest, SlotStep, Time

\* The invariant of what is handled apart holds in every state the payment code can
\* reach.
THEOREM ApartInvariant == Spec => []ApartInv
BY InitApart, StepApart, PTL DEF Spec

\* However often its webhook is delivered, and wherever a handler of it fails, a
\* card payment is turned into at most one subscription, unless two deliveries of it
\* are handled at the same time.  Deliveries for other payments, reviews and the job
\* may overlap with it in any way.
THEOREM ProcessedAtMostOnce == Spec => []UncrossedActivatedOnce
<1>1. ApartInv => UncrossedActivatedOnce
  <2> SUFFICES ASSUME ApartInv, NEW p \in Payments \ crossed
               PROVE  Cardinality({s \in Subs : boughtBy[s] = p}) <= 1
      BY DEF UncrossedActivatedOnce
  <2>1. \A s, t \in {u \in Subs : boughtBy[u] = p} : s = t
    BY DEF ApartInv, ProcessedOnce
  <2>2. QED
    BY <2>1, AtMostOneElement
<1>2. QED
  BY <1>1, ApartInvariant, PTL

\* The storage limit follows the subscription through checkouts, renewals, reviews,
\* grace and expiry, whatever else is in flight, unless a failure hit between two
\* saves or two slots changed both at the same time.
THEOREM LimitFollowsSubscription == Spec => []LimitMatches
<1>1. ApartInv => LimitMatches
  <2> SUFFICES ASSUME ApartInv, Quiet, ~halfway, ~raced
               PROVE  limit = IF \E s \in Subs : Live(s)
                              THEN PlanGb[PlanBought(CHOOSE s \in Subs : Live(s))]
                              ELSE FreeGb
      BY DEF LimitMatches
  <2>1. /\ \A s \in Subs : Live(s) => limit = PlanGb[PlanBought(s)]
        /\ (\A s \in Subs : ~Live(s)) => limit = FreeGb
    BY DEF ApartInv, LimitFollows, Quiet
  <2>2. QED
    BY <2>1
<1>2. QED
  BY <1>1, ApartInvariant, PTL

\* A rejected transfer bought nothing: a verdict is not undone by later reviews, the
\* job or anything in flight, unless two of them worked on this transfer at the same
\* time or a failure hit between two saves.
THEOREM RejectedTransfersBuyNothing == Spec => []RejectedIsUnpaid
<1>1. ApartInv => RejectedIsUnpaid
  BY DEF ApartInv, VerdictOnce, RejectedIsUnpaid, Quiet
<1>2. QED
  BY <1>1, ApartInvariant, PTL

-----------------------------------------------------------------------------
(* Billing implements PaidStorage.                                            *)

\* What does not touch live subscriptions, the limit and handlers on the way does
\* not change what the user was promised.
LEMMA SamePromise ==
  ASSUME Switching' = Switching, \A r \in Switching : job'[r] = job[r],
         Downgrading' = Downgrading,
         UNCHANGED <<boughtBy, lapsed, limit>>,
         lapsed \subseteq Subs,
         \A s \in Subs : (Live(s)' <=> Live(s)) /\ (sub'[s] = "none" <=> sub[s] = "none")
  PROVE  UNCHANGED <<Granted, InForce, TimeIsUp, PromisedLimit>>
<1> USE DEF Live
<1>1. InForce' = InForce
  <2>1. {job'[r] : r \in Switching} = {job[r] : r \in Switching}
    OBVIOUS
  <2>2. {t \in Subs : Live(t)'} = {t \in Subs : Live(t)}
    OBVIOUS
  <2>3. QED
    BY <2>1, <2>2 DEF InForce
<1>2. Granted' = Granted
  <2>1. {job'[r] : r \in Switching} = {job[r] : r \in Switching}
    OBVIOUS
  <2>2. {t \in Subs : sub'[t] # "none"} = {t \in Subs : sub[t] # "none"}
    OBVIOUS
  <2>3. QED
    BY <2>1, <2>2 DEF Granted
<1>3. TimeIsUp' = TimeIsUp
  BY DEF TimeIsUp
<1>4. PromisedLimit' = PromisedLimit
  BY <1>1 DEF PromisedLimit
<1>5. QED
  BY <1>1, <1>2, <1>3, <1>4

\* Without a change of money, such a step is none of PaidStorage.
LEMMA SameView ==
  ASSUME Switching' = Switching, \A r \in Switching : job'[r] = job[r],
         Downgrading' = Downgrading,
         UNCHANGED <<boughtBy, lapsed, limit, charged, approved>>, Whole, Whole',
         lapsed \subseteq Subs,
         \A s \in Subs : (Live(s)' <=> Live(s)) /\ (sub'[s] = "none" <=> sub[s] = "none")
  PROVE  UNCHANGED Promise!vars
BY SamePromise DEF Promise!vars, Live, Covered

\* What billing still keeps after a failure between two saves, or an overlap.
LEMMA StillHonest ==
  ASSUME BillingInv
  PROVE  /\ Granted \subseteq Covered
         /\ InForce \subseteq Granted
         /\ PromisedLimit # FreeGb => \E x \in Covered : PromisedLimit = PlanGb[PlanOf[x]]
<1> USE DEF BillingInv, JobsCovered, SubscriptionsCovered, Activating
<1>1. Granted \subseteq Covered
  BY DEF Granted, Switching
<1>2. InForce \subseteq Granted
  BY DEF InForce, Granted, Live
<1>3. PromisedLimit # FreeGb => \E x \in Covered : PromisedLimit = PlanGb[PlanOf[x]]
  <2>1. CASE Switching # {}
    <3>1. InForce # {} /\ (CHOOSE x \in InForce : TRUE) \in InForce
      BY <2>1 DEF InForce
    <3>2. QED
      BY <2>1, <3>1, <1>1, <1>2 DEF PromisedLimit
  <2>2. CASE Switching = {}
    BY <2>2 DEF PromisedLimit
  <2>3. QED
    BY <2>1, <2>2
<1>4. QED
  BY <1>1, <1>2, <1>3

\* At the start nothing was paid and nothing is promised.
LEMMA InitPromise == Init => Promise!Init
<1> SUFFICES ASSUME Init
             PROVE  Promise!Init
    OBVIOUS
<1>1. Switching = {} /\ Downgrading = {}
  BY DEF Init, Switching, Downgrading
<1>2. \A s \in Subs : sub[s] = "none"
  BY DEF Init
<1>3. Granted = {} /\ InForce = {} /\ TimeIsUp = FALSE
  BY <1>1, <1>2 DEF Granted, InForce, TimeIsUp, Live, Init
<1>4. PromisedLimit = FreeGb
  BY <1>1 DEF PromisedLimit, Init
<1>5. QED
  BY <1>3, <1>4 DEF Promise!Init, Init, Covered, Whole

\* After a failure between saves, or an overlap, every step is a Fail of PaidStorage.
LEMMA FailStep == BillingInv /\ BillingInv' /\ [Next]_vars /\ ~Whole' => Promise!Fail
<1> DEFINE Honest ==
      /\ Granted \subseteq Covered
      /\ InForce \subseteq Granted
      /\ PromisedLimit # FreeGb => \E x \in Covered : PromisedLimit = PlanGb[PlanOf[x]]
<1>1. BillingInv => Honest
  BY StillHonest
<1>2. BillingInv' => Honest'
  BY <1>1, PTL
<1>3. TimeIsUp' \in BOOLEAN
  BY DEF TimeIsUp
<1>4. SUFFICES ASSUME BillingInv, BillingInv', [Next]_vars, ~Whole'
               PROVE  Promise!Fail
  OBVIOUS
<1>5. Whole' = FALSE
  BY <1>4 DEF Whole
<1>6. QED
  BY <1>2, <1>3, <1>4, <1>5, CoveredGrows DEF Promise!Fail

\* While nothing is torn apart, every step is one of PaidStorage or none.
LEMMA StepKeepsPromise ==
  ASSUME ApartInv, ApartInv', [Next]_vars, Whole'
  PROVE  Promise!Next \/ UNCHANGED Promise!vars
<1>0. /\ Whole /\ Whole' /\ lapsed \subseteq Subs
      /\ pc \in [Slots -> Awaits \cup {"idle"}]
      /\ job \in [Slots -> Causes \cup {Nobody}]
      /\ sub \in [Subs -> {"none", "active", "grace", "expired"}]
      /\ boughtBy \in [Subs -> Causes \cup {Nobody}]
  BY HistoryGrows DEF Whole, ApartInv, BillingInv, TypeOK, SlotTypes, SubscriptionTypes
<1>1. Covered \subseteq Covered' /\ Covered' \subseteq Causes
  BY CoveredGrows DEF Covered, ApartInv, BillingInv, TypeOK, MoneyTypes, Causes
<1> USE <1>0 DEF moneyVars, subVars, slotVars, Begin, Continue, Leave, Done, JobRead
<1>2. ASSUME NEW r \in Slots, NEW p \in Payments, CheckoutRead(r, p)
      PROVE  UNCHANGED Promise!vars
  BY <1>2, SameView DEF CheckoutRead, Switching, Downgrading, Live
<1>3. ASSUME NEW r \in Slots, CheckoutSave(r)
      PROVE  UNCHANGED Promise!vars
  BY <1>3, SameView DEF CheckoutSave, Switching, Downgrading, Live
<1>4. ASSUME NEW r \in Slots, CheckoutIntention(r)
      PROVE  UNCHANGED Promise!vars
  BY <1>4, SameView DEF CheckoutIntention, Switching, Downgrading, Live
<1>5. ASSUME NEW r \in Slots, NEW p \in Payments, NEW b \in BOOLEAN, WebhookRead(r, p, b)
      PROVE  UNCHANGED Promise!vars
  BY <1>5, SameView DEF WebhookRead, Switching, Downgrading, Live
<1>6. ASSUME NEW r \in Slots, WebhookSuccess(r)
      PROVE  UNCHANGED Promise!vars
  BY <1>6, SameView DEF WebhookSuccess, Switching, Downgrading, Live
<1>7. ASSUME NEW r \in Slots, WebhookFailed(r)
      PROVE  UNCHANGED Promise!vars
  BY <1>7, SameView DEF WebhookFailed, Switching, Downgrading, Live
<1>8. ASSUME NEW r \in Slots, ActivateLink(r)
      PROVE  UNCHANGED Promise!vars
  BY <1>8, SameView DEF ActivateLink, Switching, Downgrading, Live
<1>9. ASSUME NEW r \in Slots, NEW i \in Submissions, SubmitRead(r, i)
      PROVE  UNCHANGED Promise!vars
  BY <1>9, SameView DEF SubmitRead, Switching, Downgrading, Live
<1>10. ASSUME NEW r \in Slots, SubmitSave(r)
      PROVE  UNCHANGED Promise!vars
  BY <1>10, SameView DEF SubmitSave, Switching, Downgrading, Live
<1>11. ASSUME NEW r \in Slots, ApprovePayment(r)
       PROVE  UNCHANGED Promise!vars
  BY <1>11, SameView DEF ApprovePayment, Switching, Downgrading, Live
<1>12. ASSUME NEW r \in Slots, ApproveSave(r)
       PROVE  UNCHANGED Promise!vars
  BY <1>12, SameView DEF ApproveSave, Switching, Downgrading, Live
<1>13. ASSUME NEW r \in Slots, NEW i \in Submissions, ReviewReject(r, i)
       PROVE  UNCHANGED Promise!vars
  BY <1>13, SameView DEF ReviewReject, Switching, Downgrading, Live
<1>14. ASSUME NEW r \in Slots, RejectSave(r)
       PROVE  UNCHANGED Promise!vars
  BY <1>14, SameView DEF RejectSave, Switching, Downgrading, Live
<1>15. ASSUME NEW s \in Subs, PeriodEnds(s)
       PROVE  UNCHANGED Promise!vars
  BY <1>15, SameView DEF PeriodEnds, Switching, Downgrading, Live
<1>16. ASSUME NEW p \in Payments, PaymentAges(p)
       PROVE  UNCHANGED Promise!vars
  BY <1>16, SameView DEF PaymentAges, Switching, Downgrading, Live
<1>17. ASSUME NEW i \in Submissions, SubmissionAges(i)
       PROVE  UNCHANGED Promise!vars
  BY <1>17, SameView DEF SubmissionAges, Switching, Downgrading, Live
<1>18. ASSUME NEW r \in Slots, JobStart(r)
       PROVE  UNCHANGED Promise!vars
  BY <1>18, SameView DEF JobStart, Switching, Downgrading, Live
<1>19. ASSUME NEW r \in Slots, NEW s \in Subs, JobGrace(r, s)
       PROVE  UNCHANGED Promise!vars
  BY <1>19, SameView DEF JobGrace, Switching, Downgrading, Live, ApartInv, ListedAsRead, Whole
<1>20. ASSUME NEW r \in Slots, JobReadLapsed(r)
       PROVE  UNCHANGED Promise!vars
  BY <1>20, SameView DEF JobReadLapsed, Switching, Downgrading, Live
<1>21. ASSUME NEW r \in Slots, JobPayments(r)
       PROVE  UNCHANGED Promise!vars
  BY <1>21, SameView DEF JobPayments, Switching, Downgrading, Live
<1>22. ASSUME NEW r \in Slots, JobReadStale(r)
      PROVE  UNCHANGED Promise!vars
  BY <1>22, SameView DEF JobReadStale, Switching, Downgrading, Live
<1>23. ASSUME NEW r \in Slots, NEW i \in Submissions, JobSubmission(r, i)
       PROVE  UNCHANGED Promise!vars
  BY <1>23, SameView DEF JobSubmission, Switching, Downgrading, Live
<1>24. ASSUME NEW r \in Slots, JobEnd(r)
       PROVE  UNCHANGED Promise!vars
  BY <1>24, SameView DEF JobEnd, Switching, Downgrading, Live
<1>25. ASSUME NEW r \in Slots, ActivateCreate(r)
       PROVE  UNCHANGED Promise!vars
  <2> USE <1>25 DEF ActivateCreate
  <2>0. \A q \in Slots \ {r} : pc[q] \notin Activating \cup {"job.downgrade"}
    <3>1. ChangesStorage(r) /\ SlotsApart /\ ~raced
      BY DEF ChangesStorage, Activating, Whole, ApartInv
    <3>2. QED
      BY <3>1, NobodyElse
  <2>1. Switching = {r} /\ Switching' = {r} /\ job' = job
    BY <2>0 DEF Switching, Activating
  <2>2. PICK s \in Subs : /\ sub[s] = "none"
                          /\ sub' = [sub EXCEPT ![s] = "active"]
                          /\ boughtBy' = [boughtBy EXCEPT ![s] = job[r]]
    OBVIOUS
  <2>3. InForce' = InForce
    BY <2>1 DEF InForce
  <2>4. Granted' = Granted
    <3>1. {t \in Subs : sub'[t] # "none"} = {t \in Subs : sub[t] # "none"} \cup {s}
      BY <2>2
    <3>2. boughtBy'[s] = job[r] /\ \A t \in Subs \ {s} : boughtBy'[t] = boughtBy[t]
      BY <2>2
    <3>3. QED
      BY <2>1, <2>2, <3>1, <3>2 DEF Granted
  <2>5. TimeIsUp' = TimeIsUp
    BY <2>1 DEF TimeIsUp
  <2>6. PromisedLimit' = PromisedLimit
    BY <2>1, <2>3 DEF PromisedLimit
  <2>7. QED
    BY <2>3, <2>4, <2>5, <2>6 DEF Promise!vars, Covered
<1>26. ASSUME NEW r \in Slots, ActivateLimit(r)
       PROVE  UNCHANGED Promise!vars
  <2> USE <1>26 DEF ActivateLimit
  <2>0. \A q \in Slots \ {r} : pc[q] \notin Activating \cup {"job.downgrade"}
    <3>1. ChangesStorage(r) /\ SlotsApart /\ ~raced
      BY DEF ChangesStorage, Activating, Whole, ApartInv
    <3>2. QED
      BY <3>1, NobodyElse
  <2>1. Switching = {r} /\ Switching' = {} /\ Downgrading' = {}
    BY <2>0 DEF Switching, Downgrading, Activating
  <2>2. PICK s \in Subs : Live(s) /\ boughtBy[s] = job[r]
    BY DEF ApartInv, LimitFollows, Whole
  <2>3. \A t \in Subs : Live(t) => t = s
    BY <2>2 DEF ApartInv, ListedAsRead, Whole
  <2>4. UNCHANGED <<sub, boughtBy, lapsed, charged, approved>>
    OBVIOUS
  <2>5. InForce = {job[r]} /\ InForce' = {job[r]}
    BY <2>1, <2>2, <2>3, <2>4 DEF InForce, Live
  <2>6. Granted' = Granted
    BY <2>1, <2>2, <2>4 DEF Granted, Live
  <2>7. ~TimeIsUp /\ ~TimeIsUp'
    <3>1. s \notin lapsed
      BY <2>2 DEF ApartInv, InTime, Whole, BillingInv, TypeOK, SubscriptionTypes
    <3>2. QED
      BY <2>1, <2>3, <2>4, <3>1 DEF TimeIsUp, Live
  <2>8. PromisedLimit' = PromisedLimit
    BY <2>1, <2>5 DEF PromisedLimit
  <2>9. QED
    BY <2>4, <2>5, <2>6, <2>7, <2>8 DEF Promise!vars, TimeIsUp, Covered
<1>27. ASSUME NEW r \in Slots, JobDowngrade(r)
       PROVE  UNCHANGED Promise!vars
  <2> USE <1>27 DEF JobDowngrade
  <2>0. \A q \in Slots \ {r} : pc[q] \notin Activating \cup {"job.downgrade"}
    <3>1. ChangesStorage(r) /\ SlotsApart /\ ~raced
      BY DEF ChangesStorage, Activating, Whole, ApartInv
    <3>2. QED
      BY <3>1, NobodyElse
  <2>1. Switching = {} /\ Switching' = {} /\ Downgrading = {r} /\ Downgrading' = {}
    BY <2>0 DEF Switching, Downgrading, Activating
  <2>2. UNCHANGED <<sub, boughtBy, lapsed, charged, approved>>
    OBVIOUS
  <2>3. InForce' = InForce /\ Granted' = Granted
    BY <2>1, <2>2 DEF InForce, Granted, Live
  <2>4. TimeIsUp' = TimeIsUp
    BY <2>1, <2>2 DEF TimeIsUp, Live
  <2>5. PromisedLimit' = PromisedLimit
    BY <2>1 DEF PromisedLimit
  <2>6. QED
    BY <2>2, <2>3, <2>4, <2>5 DEF Promise!vars, Covered
<1>28. ASSUME NEW r \in Slots, ActivateExpire(r)
       PROVE  job[r] \in Causes /\ Promise!Grant(job[r])
  <2> USE <1>28 DEF ActivateExpire
  <2>0. \A q \in Slots \ {r} : pc[q] \notin Activating \cup {"job.downgrade"}
    <3>1. ChangesStorage(r) /\ SlotsApart /\ ~raced
      BY DEF ChangesStorage, Activating, Whole, ApartInv
    <3>2. QED
      BY <3>1, NobodyElse
  <2>1. Switching = {} /\ Switching' = {r} /\ job' = job
    BY <2>0 DEF Switching, Activating
  <2>2. job[r] \in Covered
    BY DEF ApartInv, BillingInv, JobsCovered, Activating
  <2>3. job[r] \in Causes
    BY <2>2 DEF ApartInv, BillingInv, TypeOK, MoneyTypes, Causes, Covered
  <2>4. job[r] \notin Granted
    <3>1. SUFFICES ASSUME NEW s \in Subs, boughtBy[s] = job[r]
                   PROVE  FALSE
      BY <2>1 DEF Granted
    <3>2. CASE job[r] \in Payments
      BY <3>1, <3>2 DEF ApartInv, ProcessedOnce, Whole
    <3>3. CASE job[r] \in Submissions
      <4>1. job[r] \in Causes \ crossed /\ ~halfway /\ SlotsApart
        BY <3>3 DEF Causes, Whole, ApartInv
      <4>2. \A q \in Slots \ {r} : job[q] # job[r]
        BY <4>1, NobodyElseOn
      <4>3. QED
        BY <3>1, <3>3, <4>1, <4>2 DEF ApartInv, VerdictOnce, Activating
    <3>4. QED
      BY <2>3, <3>2, <3>3 DEF Causes
  <2>5. Granted' = Granted \cup {job[r]}
    <3>1. {t \in Subs : sub'[t] # "none"} = {t \in Subs : sub[t] # "none"}
      BY DEF Live
    <3>2. boughtBy' = boughtBy
      OBVIOUS
    <3>3. QED
      BY <2>1, <3>1, <3>2 DEF Granted
  <2>6. InForce' = {job[r]}
    BY <2>1 DEF InForce
  <2>7. TimeIsUp' = FALSE
    BY <2>1 DEF TimeIsUp
  <2>8. PromisedLimit' = PlanGb[PlanOf[job[r]]]
    BY <2>1, <2>6 DEF PromisedLimit
  <2>9. UNCHANGED <<charged, approved>>
    OBVIOUS
  <2>10. QED
    BY <2>2, <2>3, <2>4, <2>5, <2>6, <2>7, <2>8, <2>9 DEF Promise!Grant, Covered
<1>29. ASSUME NEW r \in Slots, NEW s \in Subs, JobExpire(r, s)
       PROVE  Promise!Lapse
  <2> USE <1>29 DEF JobExpire
  <2>0. \A q \in Slots \ {r} : pc[q] \notin Activating \cup {"job.downgrade"}
    <3>1. ChangesStorage(r) /\ SlotsApart /\ ~raced
      BY DEF ChangesStorage, Activating, Whole, ApartInv
    <3>2. QED
      BY <3>1, NobodyElse
  <2>1. Switching = {} /\ Switching' = {} /\ Downgrading' = {r}
    BY <2>0 DEF Switching, Downgrading, Activating
  <2>2. sub[s] = "grace" /\ s \in lapsed
    BY DEF ApartInv, ListedAsRead, InTime, Whole
  <2>3. TimeIsUp = TRUE
    BY <2>1, <2>2 DEF TimeIsUp, Live
  <2>4. \A t \in Subs : ~Live(t)'
    BY <2>2 DEF ApartInv, ListedAsRead, Live, Whole
  <2>5. InForce' = {} /\ TimeIsUp' = FALSE
    <3>1. lapsed' = lapsed
      OBVIOUS
    <3>2. QED
      BY <2>1, <2>4, <3>1 DEF InForce, TimeIsUp
  <2>6. Granted' = Granted
    <3>1. {t \in Subs : sub'[t] # "none"} = {t \in Subs : sub[t] # "none"}
      BY <2>2
    <3>2. boughtBy' = boughtBy
      OBVIOUS
    <3>3. QED
      BY <2>1, <3>1, <3>2 DEF Granted
  <2>7. PromisedLimit' = FreeGb
    BY <2>1 DEF PromisedLimit
  <2>8. UNCHANGED <<charged, approved>>
    OBVIOUS
  <2>9. QED
    BY <2>3, <2>5, <2>6, <2>7, <2>8 DEF Promise!Lapse, Covered
<1>30. ASSUME NEW s \in Subs, GraceEnds(s)
       PROVE  Promise!TimeIsOver \/ UNCHANGED Promise!vars
  <2> USE <1>30 DEF GraceEnds
  <2>1. UNCHANGED <<sub, boughtBy, limit, pc, job, charged, approved>>
    OBVIOUS
  <2>2. Switching' = Switching /\ Downgrading' = Downgrading
    BY <2>1 DEF Switching, Downgrading
  <2>3. InForce' = InForce /\ Granted' = Granted
    BY <2>1, <2>2 DEF InForce, Granted, Live
  <2>4. PromisedLimit' = PromisedLimit
    BY <2>1, <2>2, <2>3 DEF PromisedLimit
  <2>5. CASE Switching = {} /\ Live(s)
    <3>1. TimeIsUp' = TRUE
      BY <2>1, <2>2, <2>5 DEF TimeIsUp, Live
    <3>2. InForce # {}
      <4>1. boughtBy[s] \in InForce
        BY <2>5 DEF InForce
      <4>2. QED
        BY <4>1
    <3>3. QED
      BY <2>1, <2>3, <2>4, <3>1, <3>2 DEF Promise!TimeIsOver, Covered
  <2>6. CASE ~(Switching = {} /\ Live(s))
    <3>1. TimeIsUp' = TimeIsUp
      BY <2>1, <2>2, <2>6 DEF TimeIsUp, Live
    <3>2. QED
      BY <2>1, <2>3, <2>4, <3>1 DEF Promise!vars, Covered
  <2>7. QED
    BY <2>5, <2>6
<1>31. ASSUME NEW p \in Payments, PaymobCharges(p)
       PROVE  Promise!Receive
  <2> USE <1>31 DEF PaymobCharges
  <2>1. UNCHANGED <<Granted, InForce, TimeIsUp, PromisedLimit>>
    BY SamePromise DEF Switching, Downgrading, Live
  <2>2. QED
    BY <1>1, <2>1 DEF Promise!Receive
<1>32. ASSUME NEW r \in Slots, NEW i \in Submissions, ReviewApprove(r, i)
       PROVE  Promise!Receive
  <2> USE <1>32 DEF ReviewApprove
  <2>1. UNCHANGED <<Granted, InForce, TimeIsUp, PromisedLimit>>
    BY SamePromise DEF Switching, Downgrading, Live
  <2>2. QED
    BY <1>1, <2>1 DEF Promise!Receive
<1>33. ASSUME NEW r \in Slots, Abort(r)
       PROVE  UNCHANGED Promise!vars
  <2> USE <1>33 DEF Abort
  <2>1. pc[r] \notin BetweenSaves
    <3>1. ~halfway'
      BY DEF Whole
    <3>2. QED
      BY <3>1
  <2>2. \A q \in Slots \ {r} : pc'[q] = pc[q] /\ job'[q] = job[q]
    OBVIOUS
  <2>3. pc'[r] = "idle"
    OBVIOUS
  <2>4. /\ Switching' = Switching /\ Downgrading' = Downgrading
        /\ \A q \in Switching : job'[q] = job[q]
    BY <2>1, <2>2, <2>3 DEF Switching, Downgrading, BetweenSaves, Activating
  <2>5. UNCHANGED <<sub, boughtBy, lapsed, limit, charged, approved>>
    OBVIOUS
  <2>6. QED
    BY <2>4, <2>5, SameView DEF Live
<1>34. ASSUME UNCHANGED vars
       PROVE  UNCHANGED Promise!vars
  BY <1>34, SameView DEF vars, Switching, Downgrading, Live
<1> HIDE <1>0 DEF moneyVars, subVars, slotVars, Begin, Continue, Leave, Done,
    JobRead
<1>35. ASSUME NEW r \in Slots, NewRequest(r)
       PROVE  Promise!Next \/ UNCHANGED Promise!vars
  BY <1>35, <1>2, <1>5, <1>9, <1>13, <1>32 DEF NewRequest, Promise!Next, Causes
<1>36. ASSUME NEW r \in Slots, SlotStep(r)
       PROVE  Promise!Next \/ UNCHANGED Promise!vars
  BY <1>36, <1>3, <1>4, <1>6, <1>7, <1>8, <1>10, <1>11, <1>12, <1>14, <1>19, <1>20, <1>21,
     <1>22, <1>23, <1>24, <1>25, <1>26, <1>27, <1>28, <1>29 DEF SlotStep, Promise!Next
<1>37. CASE Time
  BY <1>37, <1>15, <1>16, <1>17, <1>30 DEF Time, Promise!Next
<1>38. QED
  BY <1>18, <1>31, <1>33, <1>34, <1>35, <1>36, <1>37 DEF Next, Promise!Next, Causes

\* Payments, reviews and the job are together a run of PaidStorage, however they
\* overlap and wherever they fail: storage is bought, granted once, follows the plan
\* and lapses in time, until a failure or an overlap tears apart what belongs together,
\* and even then nobody gets what no such amount was received for.
THEOREM StorageIsPaidFor == Spec => KeepsPromise
<1>1. ApartInv /\ ApartInv' /\ [Next]_vars => [Promise!Next]_(Promise!vars)
  <2>1. SUFFICES ASSUME ApartInv, ApartInv', [Next]_vars
                 PROVE  Promise!Next \/ UNCHANGED Promise!vars
    OBVIOUS
  <2>2. CASE ~Whole'
    BY <2>1, <2>2, FailStep DEF Promise!Next, ApartInv
  <2>3. CASE Whole'
    BY <2>1, <2>3, StepKeepsPromise
  <2>4. QED
    BY <2>2, <2>3
<1>2. Spec => Promise!Spec
  BY <1>1, InitPromise, ApartInvariant, PTL DEF Spec, Promise!Spec
<1>3. QED
  BY <1>2 DEF KeepsPromise

=============================================================================
