--------------------------------- MODULE Otp ---------------------------------
(***************************************************************************)
(* The one-time codes of one e-mail address (otp.service.ts generateOtp and *)
(* verifyOtp, with the calls of auth.service.ts that lead to them).  The    *)
(* code and the counter of attempts are two Redis keys; a request reads and *)
(* writes them in separate commands and those of other requests run in      *)
(* between; one code is requested at a time.  "signup" and "vault-reset"    *)
(* codes have keys of their own and the same protocol: one purpose stands   *)
(* for both.                                                                *)
(***************************************************************************)
EXTENDS Naturals, FiniteSets

CONSTANTS
  Verifiers,    \* verifications that may be in flight at the same time
  MaxAttempts,  \* 5 in the code
  MaxCodes      \* bound: the codes that are drawn

ASSUME MaxAttemptsAssumption == MaxAttempts \in Nat \ {0}
ASSUME MaxCodesAssumption == MaxCodes \in Nat

\* A code is named by the order in which it is drawn: randomInt does not
\* repeat one within its lifetime.  0 stands for an absent key.
Codes == 1 .. MaxCodes
NoCode == 0

VARIABLES
  code,      \* value of the key <purpose>:otp:<email>
  attempts,  \* value of the key <purpose>:otp-attempts:<email>, 0 when absent
  expiry,    \* that key expires "first" or "last" of the two, or "never": then
             \* it is absent or was created by INCR
  drawn,     \* the number of codes drawn so far
  sending,   \* the await at which the request for a code stands
  at,        \* at[v]: the await at which verification v stands
  guess,     \* guess[v]: the code that verification v was given; NoCode is a
             \*           number that never was drawn
  guesses,   \* wrong guesses compared with the stored code (history)
  alone,     \* since it was stored no two requests overlapped, and the one
             \*           that stored it went on to set the counter (history)
  spent,     \* codes accepted by a verification that has ended (history)
  replay     \* verifications that began with a code of spent (history)

otpVars == <<code, attempts, expiry, drawn, sending, at, guess,
             guesses, alone, spent, replay>>

Awaits == {"attempts.get", "code.drop", "attempts.drop", "incr", "compare",
           "code.del", "attempts.del"}

OtpTypeOK ==
  /\ code \in Codes \cup {NoCode}
  /\ attempts \in Nat
  /\ expiry \in {"first", "last", "never"}
  /\ drawn \in Nat /\ drawn <= MaxCodes
  /\ sending \in {"idle", "code.set", "attempts.set"}
  /\ at \in [Verifiers -> Awaits \cup {"idle"}]
  /\ guess \in [Verifiers -> Codes \cup {NoCode}]
  /\ guesses \in Nat
  /\ alone \in BOOLEAN
  /\ spent \subseteq Codes
  /\ replay \subseteq Verifiers

OtpInit ==
  /\ code = NoCode
  /\ attempts = 0
  /\ expiry = "never"
  /\ drawn = 0
  /\ sending = "idle"
  /\ at = [v \in Verifiers |-> "idle"]
  /\ guess = [v \in Verifiers |-> NoCode]
  /\ guesses = 0
  /\ alone = TRUE
  /\ spent = {}
  /\ replay = {}

NoVerifier == \A v \in Verifiers : at[v] = "idle"

-----------------------------------------------------------------------------
(* Asking for a code: sendSignupOtp and vaultResetRequest.  An address that *)
(* may not have one (it has an account already, or has no recovery key)     *)
(* gets the same answer and no code: no step.                               *)

RequestOtp ==
  /\ sending = "idle"
  /\ drawn < MaxCodes
  /\ drawn' = drawn + 1
  /\ sending' = "code.set"
  /\ alone' = (alone /\ NoVerifier)
  /\ UNCHANGED <<code, attempts, expiry, at, guess, guesses, spent, replay>>

GenerateOtpCode ==
  /\ sending = "code.set"
  /\ code' = drawn
  /\ guesses' = 0
  /\ sending' = "attempts.set"
  /\ expiry' = IF expiry = "last" THEN "first" ELSE expiry
  /\ alone' = NoVerifier
  /\ UNCHANGED <<attempts, drawn, at, guess, spent, replay>>

GenerateOtpAttempts ==
  /\ sending = "attempts.set"
  /\ attempts' = 0
  /\ expiry' = "last"
  /\ sending' = "idle"
  /\ UNCHANGED <<code, drawn, at, guess, guesses, alone, spent, replay>>

\* A Redis command fails: the request ends with an error and mails nothing.
GenerateOtpFails ==
  /\ sending # "idle"
  /\ sending' = "idle"
  /\ alone' = (alone /\ sending = "code.set")
  /\ UNCHANGED <<code, attempts, expiry, drawn, at, guess, guesses, spent, replay>>

-----------------------------------------------------------------------------
(* verifyOtp, called by register and by vaultResetVerify.                   *)

Goto(v, await) ==
  /\ at' = [at EXCEPT ![v] = await]
  /\ UNCHANGED <<guess, replay>>

End(v) ==
  /\ at' = [at EXCEPT ![v] = "idle"]
  /\ guess' = [guess EXCEPT ![v] = NoCode]
  /\ replay' = replay \ {v}

Verify(v) ==
  /\ at[v] = "idle"
  /\ \E c \in 0 .. drawn :
       /\ guess' = [guess EXCEPT ![v] = c]
       /\ replay' = IF c \in spent THEN replay \cup {v} ELSE replay \ {v}
  /\ at' = [at EXCEPT ![v] = "attempts.get"]
  /\ alone' = (alone /\ sending = "idle" /\ NoVerifier)
  /\ UNCHANGED <<code, attempts, expiry, drawn, sending, guesses, spent>>

\* A faulty variant: an attempt too many.
ReadAttemptsLenient(v) ==
  /\ at[v] = "attempts.get"
  /\ Goto(v, IF attempts > MaxAttempts THEN "code.drop" ELSE "incr")
  /\ UNCHANGED <<code, attempts, expiry, drawn, sending, guesses, alone, spent>>

ReadAttempts(v) ==
  /\ at[v] = "attempts.get"
  /\ Goto(v, IF attempts >= MaxAttempts THEN "code.drop" ELSE "incr")
  /\ UNCHANGED <<code, attempts, expiry, drawn, sending, guesses, alone, spent>>

\* Too many attempts: both keys are deleted and the answer is false.
DropCode(v) ==
  /\ at[v] = "code.drop"
  /\ code' = NoCode
  /\ Goto(v, "attempts.drop")
  /\ UNCHANGED <<attempts, expiry, drawn, sending, guesses, alone, spent>>

DropAttempts(v) ==
  /\ at[v] = "attempts.drop"
  /\ attempts' = 0 /\ expiry' = "never"
  /\ End(v)
  /\ UNCHANGED <<code, drawn, sending, guesses, alone, spent>>

CountAttempt(v) ==
  /\ at[v] = "incr"
  /\ attempts' = attempts + 1
  /\ Goto(v, "compare")
  /\ UNCHANGED <<code, expiry, drawn, sending, guesses, alone, spent>>

CompareCode(v) ==
  /\ at[v] = "compare"
  /\ \/ /\ code # NoCode /\ guess[v] = code
        /\ Goto(v, "code.del")
        /\ UNCHANGED guesses
     \/ /\ code = NoCode \/ guess[v] # code
        /\ End(v)
        /\ guesses' = IF code = NoCode THEN guesses ELSE guesses + 1
  /\ UNCHANGED <<code, attempts, expiry, drawn, sending, alone, spent>>

\* A faulty variant: only the counter is deleted.
DeleteCodeNot(v) ==
  /\ at[v] = "code.del"
  /\ Goto(v, "attempts.del")
  /\ UNCHANGED <<code, attempts, expiry, drawn, sending, guesses, alone, spent>>

\* The code was right: it is deleted, whichever code the key holds by now.
DeleteCode(v) ==
  /\ at[v] = "code.del"
  /\ code' = NoCode
  /\ Goto(v, "attempts.del")
  /\ UNCHANGED <<attempts, expiry, drawn, sending, guesses, alone, spent>>

DeleteAttempts(v) ==
  /\ at[v] = "attempts.del"
  /\ attempts' = 0 /\ expiry' = "never"
  /\ spent' = spent \cup {guess[v]}
  /\ End(v)
  /\ UNCHANGED <<code, drawn, sending, guesses, alone>>

\* A Redis command fails or the server restarts: what was done stays.
VerifyFails(v) ==
  /\ at[v] # "idle"
  /\ End(v)
  /\ UNCHANGED <<code, attempts, expiry, drawn, sending, guesses, alone, spent>>

\* A key that was set lives for otpTtl seconds.  The counter is set after the
\* code, so the code goes first, unless a newer code has been set since.
ExpireCode ==
  /\ code # NoCode
  /\ code' = NoCode
  /\ UNCHANGED <<attempts, expiry, drawn, sending, at, guess, guesses, alone,
                 spent, replay>>

ExpireAttempts ==
  /\ expiry = "first" \/ (expiry = "last" /\ code = NoCode)
  /\ attempts' = 0 /\ expiry' = "never"
  /\ UNCHANGED <<code, drawn, sending, at, guess, guesses, alone, spent, replay>>

VerifyStep(v) ==
  \/ Verify(v) \/ ReadAttempts(v) \/ DropCode(v) \/ DropAttempts(v)
  \/ CountAttempt(v) \/ CompareCode(v) \/ DeleteCode(v) \/ DeleteAttempts(v)
  \/ VerifyFails(v)

OtpNext ==
  \/ RequestOtp \/ GenerateOtpCode \/ GenerateOtpAttempts \/ GenerateOtpFails
  \/ ExpireCode \/ ExpireAttempts
  \/ \E v \in Verifiers : VerifyStep(v)

OtpSpec == OtpInit /\ [][OtpNext]_otpVars

-----------------------------------------------------------------------------
(* Properties *)

\* "max 5 attempts": as long as the requests for one address do not overlap, no
\* more than MaxAttempts wrong guesses are compared with one code, whichever
\* commands of the verifications fail and whichever keys expire.  Overlapping
\* requests read the counter before each other's incr, and an older request's
\* del resets it, so they get more; so do guesses at a code whose counter was
\* never set, for the counter of the code before it expires in their midst.
GuessesBounded == alone => guesses <= MaxAttempts

\* Single use: a verification that begins after another one accepted the code
\* and ended is not accepted with that code again, under any interleaving
\* with requests for new codes.  (Two that overlap may both be accepted.)
UsedCodeIsGone ==
  \A v \in replay : at[v] \notin {"code.del", "attempts.del"}

-----------------------------------------------------------------------------
(* The inductive invariant                                                  *)

\* Codes that have been stored under their key at some time.
Stored(c) == c \in Codes /\ c <= drawn /\ (c = drawn => sending # "code.set")

\* What a request in progress knows: a code is drawn before it is stored, and
\* who deletes a code was given it while it was stored.
CodesInOrder ==
  /\ sending # "idle" => drawn > 0
  /\ \A c \in spent \cup ({code} \ {NoCode}) : Stored(c)
  /\ \A v \in Verifiers :
       /\ at[v] \in {"code.del", "attempts.del"} => Stored(guess[v])
       /\ at[v] = "attempts.del" => guess[v] # code
       /\ v \in replay => guess[v] \in spent

\* A code that was used is not the stored one, and will not be.
SpentNotStored == code \notin spent

\* While nothing overlaps, one request is in progress, the stored code has its
\* own counter, and every guess at it was counted before it was compared.
Counted ==
  alone =>
    /\ sending # "idle" => NoVerifier
    /\ \A v, w \in Verifiers : at[v] # "idle" /\ at[w] # "idle" => v = w
    /\ sending = "attempts.set" => guesses = 0
    /\ \A v \in Verifiers : at[v] \in {"attempts.drop", "attempts.del"} => code = NoCode
    /\ code # NoCode /\ sending # "attempts.set" =>
         /\ expiry = "last"
         /\ guesses <= attempts /\ attempts <= MaxAttempts
         /\ \A v \in Verifiers :
              /\ at[v] = "incr" => attempts < MaxAttempts
              /\ at[v] = "compare" => guesses < attempts

OtpInv ==
  /\ OtpTypeOK /\ CodesInOrder /\ SpentNotStored /\ Counted
  /\ GuessesBounded /\ UsedCodeIsGone

=============================================================================
