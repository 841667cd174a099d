------------------------------ MODULE SignupLimit ------------------------------
(***************************************************************************)
(* The limit on the accounts made from one IP address                       *)
(* (signup-ip-limit.guard.ts, called by the register route and, when the    *)
(* account has been made, by auth.service.ts register).  The guard reads a  *)
(* counter in Redis; the increment is three commands that nobody waits for. *)
(***************************************************************************)
EXTENDS Naturals, FiniteSets

CONSTANTS
  Signups,     \* registrations that may be in flight at the same time
  MaxSignups,  \* SIGNUP_MAX_PER_IP, 3 in the code
  MaxAccounts  \* bound: the accounts made during one life of the counter

ASSUME MaxSignupsAssumption == MaxSignups \in Nat \ {0}
ASSUME MaxAccountsAssumption == MaxAccounts \in Nat

VARIABLES
  count,     \* value of the key signup:ip-count:<ip>, 0 when absent
  hasTtl,    \* the key expires
  step,      \* step[r]: the await at which registration r stands
  existed,   \* registrations whose EXISTS found the key
  accounts,  \* accounts made since the counter last was absent (history)
  orderly,   \* since then no two registrations overlapped and no command
             \* failed (history)
  undying    \* the counter lost its expiry to a failure after INCR, or to
             \* its own expiry between EXISTS and INCR (history)

limitVars == <<count, hasTtl, step, existed, accounts, orderly, undying>>

LimitTypeOK ==
  /\ count \in Nat
  /\ hasTtl \in BOOLEAN
  /\ step \in [Signups -> {"idle", "get", "register", "exists", "incr", "expire"}]
  /\ existed \subseteq Signups
  /\ accounts \in Nat
  /\ orderly \in BOOLEAN /\ undying \in BOOLEAN

LimitInit ==
  /\ count = 0 /\ hasTtl = FALSE
  /\ step = [r \in Signups |-> "idle"]
  /\ existed = {}
  /\ accounts = 0
  /\ orderly = TRUE /\ undying = FALSE

Alone(r) == \A q \in Signups \ {r} : step[q] = "idle"
Advance(r, s) == step' = [step EXCEPT ![r] = s]

-----------------------------------------------------------------------------
\* A registration arrives at canActivate.
ArriveSignup(r) ==
  /\ step[r] = "idle"
  /\ accounts < MaxAccounts
  /\ Advance(r, "get")
  /\ orderly' = (orderly /\ Alone(r))
  /\ UNCHANGED <<count, hasTtl, existed, accounts, undying>>

\* A faulty variant: one account too many.
CheckCountLenient(r) ==
  /\ step[r] = "get"
  /\ Advance(r, IF count > MaxSignups THEN "idle" ELSE "register")
  /\ UNCHANGED <<count, hasTtl, existed, accounts, orderly, undying>>

\* The count is read and compared.
CheckCount(r) ==
  /\ step[r] = "get"
  /\ Advance(r, IF count >= MaxSignups THEN "idle" ELSE "register")
  /\ UNCHANGED <<count, hasTtl, existed, accounts, orderly, undying>>

\* Redis does not answer the guard: the request is let through.
CheckFails(r) ==
  /\ step[r] = "get"
  /\ Advance(r, "register")
  /\ orderly' = FALSE
  /\ UNCHANGED <<count, hasTtl, existed, accounts, undying>>

\* register makes the account and starts the increment, or refuses the request.
MakeAccount(r) ==
  /\ step[r] = "register"
  /\ \/ Advance(r, "exists") /\ accounts' = accounts + 1
     \/ Advance(r, "idle") /\ UNCHANGED accounts
  /\ UNCHANGED <<count, hasTtl, existed, orderly, undying>>

\* incrementSignupCount: EXISTS, INCR and, for a new key, EXPIRE.
CounterExists(r) ==
  /\ step[r] = "exists"
  /\ existed' = IF count > 0 THEN existed \cup {r} ELSE existed \ {r}
  /\ Advance(r, "incr")
  /\ UNCHANGED <<count, hasTtl, accounts, orderly, undying>>

IncrementCounter(r) ==
  /\ step[r] = "incr"
  /\ count' = count + 1
  /\ Advance(r, IF r \in existed THEN "idle" ELSE "expire")
  /\ existed' = existed \ {r}
  /\ undying' = (undying \/ (r \in existed /\ count = 0))
  /\ UNCHANGED <<hasTtl, accounts, orderly>>

SetCounterTtl(r) ==
  /\ step[r] = "expire"
  /\ hasTtl' = (count > 0)
  /\ Advance(r, "idle")
  /\ undying' = FALSE
  /\ UNCHANGED <<count, existed, accounts, orderly>>

\* A command of the increment fails, or the server restarts.
IncrementFails(r) ==
  /\ step[r] \in {"exists", "incr", "expire"}
  /\ Advance(r, "idle")
  /\ existed' = existed \ {r}
  /\ orderly' = FALSE
  /\ undying' = (undying \/ step[r] = "expire")
  /\ UNCHANGED <<count, hasTtl, accounts>>

\* 24 hours after the first account.
CounterLapses ==
  /\ count > 0 /\ hasTtl
  /\ count' = 0 /\ hasTtl' = FALSE
  /\ accounts' = 0
  /\ orderly' = \A r \in Signups : step[r] = "idle"
  /\ undying' = FALSE
  /\ UNCHANGED <<step, existed>>

SignupStep(r) ==
  \/ ArriveSignup(r) \/ CheckCount(r) \/ CheckFails(r) \/ MakeAccount(r)
  \/ CounterExists(r) \/ IncrementCounter(r) \/ SetCounterTtl(r)
  \/ IncrementFails(r)

LimitNext == CounterLapses \/ \E r \in Signups : SignupStep(r)

LimitSpec == LimitInit /\ [][LimitNext]_limitVars

-----------------------------------------------------------------------------
(* Properties *)

\* "max 3 accounts per IP per 24 hours", counted from the first, as long as
\* registrations, with the increments they leave behind, do not overlap and
\* Redis answers.  "Please try again in 24 hours": whatever overlaps, a counter
\* that stands expires or is about to be given its expiry; only a failure after
\* INCR, or an expiry between EXISTS and INCR, leaves one that refuses the
\* address for good.
SignupLimitHolds ==
  /\ orderly => accounts <= MaxSignups
  /\ count > 0 /\ ~hasTtl => undying \/ \E r \in Signups : step[r] = "expire"

-----------------------------------------------------------------------------
(* The inductive invariant                                                  *)

\* While nothing overlaps or fails, one registration is in progress, and the
\* counter lacks at most the account it has just made.
CountedOnce ==
  orderly =>
    /\ \A q, r \in Signups : step[q] # "idle" /\ step[r] # "idle" => q = r
    /\ \A r \in Signups :
         /\ step[r] = "register" => count < MaxSignups
         /\ step[r] \in {"exists", "incr"} => accounts = count + 1
    /\ (\A r \in Signups : step[r] \notin {"exists", "incr"}) => accounts = count

LimitInv == LimitTypeOK /\ CountedOnce /\ SignupLimitHolds

=============================================================================
