------------------------------ MODULE PaidStorage ------------------------------
(***************************************************************************)
(* What billing promises a user, with no word about webhooks, reviews, jobs *)
(* and the saves they are made of (payments.service activateSubscription    *)
(* and updateUserStorageLimit, subscription.scheduler).  Storage is bought   *)
(* with money: what was paid for is granted once, what is in force sets the *)
(* limit, and it lapses only when its time is over.                         *)
(***************************************************************************)
EXTENDS Naturals

CONSTANTS
  Causes,   \* payments and transfers
  PlanOf,   \* PlanOf[x]: the plan x buys
  PlanGb,   \* PlanGb[n]: storage of plan n
  FreeGb    \* storage without a plan

VARIABLES
  paid,     \* what an amount of its price was received for
  granted,  \* what has been turned into a subscription
  inForce,  \* what the user's storage was bought with, at most one
  over,     \* the time bought, and the grace after it, is over
  limit,    \* the user's storage
  whole     \* FALSE once a failure or an overlap tore apart what belongs together

vars == <<paid, granted, inForce, over, limit, whole>>

Init ==
  /\ paid = {} /\ granted = {} /\ inForce = {}
  /\ over = FALSE
  /\ limit = FreeGb
  /\ whole = TRUE

\* Money arrives, or an administrator sees that it has.  The amount received is
\* enough for any purchase that costs as much.
Receive ==
  /\ paid \subseteq paid' /\ paid' \subseteq Causes
  /\ UNCHANGED <<granted, inForce, over, limit, whole>>

\* What was paid for replaces what was in force.
Grant(x) ==
  /\ whole = TRUE
  /\ x \in paid \ granted
  /\ granted' = granted \cup {x}
  /\ inForce' = {x}
  /\ over' = FALSE
  /\ limit' = PlanGb[PlanOf[x]]
  /\ UNCHANGED <<paid, whole>>

TimeIsOver ==
  /\ whole = TRUE
  /\ inForce # {}
  /\ over' = TRUE
  /\ UNCHANGED <<paid, granted, inForce, limit, whole>>

Lapse ==
  /\ whole = TRUE
  /\ over = TRUE
  /\ inForce' = {} /\ over' = FALSE
  /\ limit' = FreeGb
  /\ UNCHANGED <<paid, granted, whole>>

\* After a failure between saves that belong together, or after two handlers that
\* changed the same rows at a time, no more is promised than that nobody has a
\* subscription or storage for which no such amount was received.
Fail ==
  /\ whole' = FALSE
  /\ paid \subseteq paid'
  /\ granted' \subseteq paid' /\ inForce' \subseteq granted'
  /\ over' \in BOOLEAN
  /\ limit' # FreeGb => \E x \in paid' : limit' = PlanGb[PlanOf[x]]

Next ==
  \/ Receive
  \/ \E x \in Causes : Grant(x)
  \/ TimeIsOver
  \/ Lapse
  \/ Fail

Spec == Init /\ [][Next]_vars

=============================================================================
